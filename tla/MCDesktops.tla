----------------------------- MODULE MCDesktops -----------------------------
(* Instances of Desktops for TLC. *)
EXTENDS Desktops

CONSTANT d1

\* The user chooses the client with each connection.
Either == [d \in VMs |-> {"classic", "html5"}]
=============================================================================

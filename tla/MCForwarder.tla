----------------------------- MODULE MCForwarder -----------------------------
(***************************************************************************)
(* Instances of Forwarder for TLC.                                         *)
(***************************************************************************)
EXTENDS Forwarder

\* Empty buffers, as in the L7R.
NoPreload == [s \in Sides |-> 0]

\* What the HTTP client of a QVD client has read with the answer of the server.
Answered == [s \in Sides |-> IF s = 2 THEN 1 ELSE 0]
==============================================================================

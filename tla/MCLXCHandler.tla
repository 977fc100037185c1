---------------------------- MODULE MCLXCHandler ----------------------------
(* Instances of LXCHandler for TLC. *)
EXTENDS LXCHandler, TLC

\* Everything that can go wrong, on one virtual machine.
AllFaults == FaultKinds

Symmetry == Permutations(VMs)

=============================================================================

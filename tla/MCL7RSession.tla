---------------------------- MODULE MCL7RSession ----------------------------
(* Instances of L7RSession for TLC. *)
EXTENDS L7RSession, TLC

CONSTANTS p1, p2, h1

\* Two processes on one node.
TwoOnOne == p1 :> h1 @@ p2 :> h1

\* The two processes of the node do the same.
Symmetry == Permutations({p1, p2})

=============================================================================

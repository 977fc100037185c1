---------------------------- MODULE SessionLock ----------------------------
(***************************************************************************)
(* What the row of a virtual machine, the L7R processes and the daemons    *)
(* promise together about its session: it is a lock.  A process takes it   *)
(* when it is free, goes on with the session while it holds it, and it is  *)
(* free again only after its holder has left, or when the cluster has lost *)
(* its holder.                                                             *)
(***************************************************************************)
CONSTANTS
    Users,    \* the processes that want the session
    Nobody

VARIABLES
    owner,    \* the holder of the session
    inside,   \* the processes that go on with the session
    lost      \* the processes that are out of control

lockVars == <<owner, inside, lost>>

Init == owner = Nobody /\ inside = {} /\ lost = {}

\* Nobody is disconnected by a takeover: the session has to be free.
Take(u) ==
    /\ owner = Nobody
    /\ owner' = u
    /\ inside' = inside \cup {u}
    /\ UNCHANGED lost

\* A request ends and the lock stays with its process, until it exits.
Leave(u) ==
    /\ u \in inside
    /\ inside' = inside \ {u}
    /\ UNCHANGED <<owner, lost>>

\* Release gives back the lock of a process that does not use it any more.
Release ==
    /\ owner # Nobody
    /\ owner \notin inside \/ owner \in lost
    /\ owner' = Nobody
    /\ UNCHANGED <<inside, lost>>

\* A node that is given up loses its processes, and the lock with them.
Lose ==
    /\ lost \subseteq lost' /\ lost' \subseteq Users
    /\ \/ owner' = owner
       \/ owner \in lost' /\ owner' = Nobody
    /\ UNCHANGED inside

\* A new process begins with nothing.
Begin(u) ==
    /\ u \notin inside /\ owner # u
    /\ lost' = lost \ {u}
    /\ UNCHANGED <<owner, inside>>

Next ==
    \/ Release \/ Lose
    \/ \E u \in Users : Take(u) \/ Leave(u) \/ Begin(u)

Spec == Init /\ [][Next]_lockVars
=============================================================================

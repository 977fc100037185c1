----------------------------- MODULE L7RSession -----------------------------
(***************************************************************************)
(* The L7R processes that want the session of one virtual machine, the HKD *)
(* daemons that fork, supervise and kill them, and the row of the machine  *)
(* in vm_runtimes.                                                         *)
(*                                                                         *)
(* A client that connects to a node gets an L7R process of its own, a      *)
(* child of the HKD of the node.  pc[p] is the place of process p in       *)
(* connect_to_vm_processor; seen[p] is the copy of the row in its $vm      *)
(* object, which is as old as its last discard_changes.  The database runs *)
(* transactions as serializable: the body of a txn_do or txn_eval is one   *)
(* step, which changes nothing when it conflicts with another one.         *)
(***************************************************************************)
EXTENDS FiniteSets

CONSTANTS
    L7Rs,     \* the L7R processes
    Hosts,    \* the nodes that accept connections
    HostOf,   \* HostOf[p]: the node of process p
    NoL7R,    \* l7r_host_id and l7r_pid are NULL
    Faults    \* the kinds of failure that may happen

\* conflict: a serialization failure.  query: a query of HKD fails.  crash:
\* HKD dies.  survive: a process outlives the TERM of an HKD that stops.
\* lost: another node holds a node for lost.
FaultKinds == {"conflict", "query", "crash", "survive", "lost"}

ASSUME SessionAssumption ==
    /\ HostOf \in [L7Rs -> Hosts]
    /\ NoL7R \notin L7Rs
    /\ Faults \subseteq FaultKinds

VARIABLES
    pc,        \* pc[p]: where process p is
    seen,      \* seen[p]: the $vm object of p
    agent,     \* agent[p]: state of the HKD::L7R object that supervises p
    hkd,       \* hkd[h]: state of the daemon of node h
    to_abort,  \* to_abort[h]: what the L7RKiller of h has loaded
    row,       \* the row of the machine
    stray      \* history: processes out of the control of their HKD

vars == <<pc, seen, agent, hkd, to_abort, row, stray>>

(***************************************************************************)
(* The row.  The vm_state "busy" stands for starting, debugging, stopping  *)
(* and zombie, which an L7R process does not tell apart.                   *)
(***************************************************************************)
Rows == [user_state : {"disconnected", "connecting", "connected"},
         user_cmd   : {"none", "abort"},
         l7r        : L7Rs \cup {NoL7R},
         assigned   : BOOLEAN,     \* host_id is not NULL
         vm_state   : {"stopped", "busy", "running"},
         vm_cmd     : {"none", "start", "stop"}]

\* Mutant: the state is cleared together with the rest.
ClearedBad(r) == [r EXCEPT !.user_state = "none", !.user_cmd = "none", !.l7r = NoL7R]

\* The columns of the session, as every cleanup leaves them.
Cleared(r) == [r EXCEPT !.user_state = "disconnected", !.user_cmd = "none", !.l7r = NoL7R]

\* p owns the session from its takeover until it gives up or forwards no more.
Session == {"assign", "start", "wait_vm", "start_x", "wait_x", "forwarder", "forwarding"}

Places == Session \cup {"exited", "idle", "takeover", "contend", "abort"}

Fault(f) == f \in Faults

Goto(p, s) == pc' = [pc EXCEPT ![p] = s]

FreeRow == [user_state |-> "disconnected", user_cmd |-> "none", l7r |-> NoL7R,
            assigned |-> FALSE, vm_state |-> "stopped", vm_cmd |-> "none"]

\* The $vm object is refreshed; the model keeps the columns that are looked at
\* before the next refresh, those of the session or those of the machine.
UserOf(r) == [FreeRow EXCEPT !.user_state = r.user_state, !.user_cmd = r.user_cmd]
VmOf(r) == [FreeRow EXCEPT !.assigned = r.assigned, !.vm_state = r.vm_state,
                           !.vm_cmd = r.vm_cmd]
Copy(p, r) == seen' = [seen EXCEPT ![p] = r]
Drop(p) == Copy(p, FreeRow)

\* An exception ends the request: the client is told to retry later and the
\* process waits for the next request of the same connection.
Dies(p) == Goto(p, "idle") /\ Drop(p)

ProcessOnly == <<agent, hkd, to_abort, stray>>

(***************************************************************************)
(* connect_to_vm_processor.                                                *)
(***************************************************************************)
connect_to_vm(p) ==
    /\ pc[p] = "idle"
    /\ Goto(p, "takeover")
    /\ UNCHANGED <<seen, row, ProcessOnly>>

\* Mutant: a session that is still connecting is taken.
takeover_vm_connecting(p) ==
    /\ pc[p] = "takeover"
    /\ \/ /\ row.user_state # "connected"
          /\ row' = [row EXCEPT !.user_state = "connecting", !.user_cmd = "none", !.l7r = p]
          /\ Copy(p, VmOf(row'))
          /\ Goto(p, "assign")
       \/ /\ row.user_state = "connected"
          /\ Goto(p, "contend")
          /\ UNCHANGED <<seen, row>>
    /\ UNCHANGED ProcessOnly

\* The transaction of _takeover_vm.
takeover_vm(p) ==
    /\ pc[p] = "takeover"
    /\ \/ /\ row.user_state = "disconnected"
          /\ row' = [row EXCEPT !.user_state = "connecting", !.user_cmd = "none", !.l7r = p]
          /\ Copy(p, VmOf(row'))
          /\ Goto(p, "assign")
       \/ /\ row.user_state # "disconnected" \/ Fault("conflict")
          /\ Goto(p, "contend")
          /\ UNCHANGED <<seen, row>>
    /\ UNCHANGED ProcessOnly

\* It failed: the row is read again ...
discard_changes(p) ==
    /\ pc[p] = "contend"
    /\ Copy(p, UserOf(row))
    /\ Goto(p, "abort")
    /\ UNCHANGED <<row, ProcessOnly>>

\* Mutant: there is no timeout.
send_user_abort_forever(p) ==
    /\ pc[p] = "abort"
    /\ row' = IF seen[p].user_cmd = "abort" THEN row ELSE [row EXCEPT !.user_cmd = "abort"]
    /\ Goto(p, "takeover") /\ Drop(p)
    /\ UNCHANGED ProcessOnly

\* ... and the session it shows is aborted, by an update that names only the
\* machine and that is not sent when the copy says abort already.  The
\* command is refused when the copy says disconnected.  The timeout of the
\* takeover is looked at before the next attempt.
send_user_abort(p) ==
    /\ pc[p] = "abort"
    /\ \/ /\ seen[p].user_state = "disconnected"
          /\ Dies(p)
          /\ row' = row
       \/ /\ seen[p].user_state # "disconnected"
          /\ row' = IF seen[p].user_cmd = "abort" THEN row ELSE [row EXCEPT !.user_cmd = "abort"]
          /\ (Goto(p, "takeover") /\ Drop(p)) \/ Dies(p)
    /\ UNCHANGED ProcessOnly

\* The load balancer may find no host; the state may have changed since the
\* takeover; an abort is looked for in what the transaction read.
assign_vm(p) ==
    /\ pc[p] = "assign"
    /\ \/ seen[p].assigned /\ Goto(p, "start") /\ UNCHANGED <<seen, row>>
       \/ ~seen[p].assigned /\ Dies(p) /\ row' = row
       \/ /\ ~seen[p].assigned
          /\ ~row.assigned /\ row.vm_state = "stopped"
          /\ row' = [row EXCEPT !.assigned = TRUE]
          /\ IF row.user_cmd = "abort" THEN Dies(p)
             ELSE Goto(p, "start") /\ Copy(p, VmOf(row'))
    /\ UNCHANGED ProcessOnly

\* _start_and_wait_for_vm sends the command on what its copy says ...
send_vm_start(p) ==
    /\ pc[p] = "start"
    /\ row' = IF seen[p].vm_state = "stopped" /\ seen[p].vm_cmd # "start"
              THEN [row EXCEPT !.vm_cmd = "start"] ELSE row
    /\ Goto(p, "wait_vm") /\ Drop(p)
    /\ UNCHANGED ProcessOnly

\* ... and waits for the machine, with a timeout.
wait_for_vm(p) ==
    /\ pc[p] = "wait_vm"
    /\ \/ row.vm_state = "running" /\ Goto(p, "start_x") /\ UNCHANGED seen
       \/ row.vm_state # "running" /\ Dies(p)
    /\ UNCHANGED <<row, ProcessOnly>>

\* Calls of the VMA, repeated a number of times.  An abort is looked for only
\* after a failed x_start, which ends the request no later than the retries.
start_x(p) ==
    /\ pc[p] = "start_x"
    /\ \/ row.vm_state # "stopped" /\ Goto(p, "wait_x") /\ UNCHANGED seen
       \/ Dies(p)
    /\ UNCHANGED <<row, ProcessOnly>>

wait_for_x(p) ==
    /\ pc[p] = "wait_x"
    /\ \/ row.vm_state # "stopped" /\ Goto(p, "forwarder") /\ UNCHANGED seen
       \/ Dies(p)
    /\ UNCHANGED <<row, ProcessOnly>>

\* The connection to the X server may fail.  The transaction does not look at
\* who owns the session.
run_forwarder(p) ==
    /\ pc[p] = "forwarder"
    /\ \/ Dies(p) /\ row' = row
       \/ /\ row.user_cmd # "abort"
          /\ row.user_state = "connecting"
          /\ row' = [row EXCEPT !.user_state = "connected"]
          /\ Goto(p, "forwarding")
          /\ UNCHANGED seen
    /\ UNCHANGED ProcessOnly

\* One of the two sockets is closed.
forwarder_ends(p) ==
    /\ pc[p] = "forwarding"
    /\ Goto(p, "idle")
    /\ UNCHANGED <<seen, row, ProcessOnly>>

\* The client goes away, which a process notices when it tells it something,
\* or a signal arrives.
l7r_exits(p) ==
    /\ pc[p] # "exited"
    /\ Goto(p, "exited") /\ Drop(p)
    /\ UNCHANGED <<row, ProcessOnly>>

(***************************************************************************)
(* HKD: the L7RListener, the L7R objects and the L7RKiller.                *)
(***************************************************************************)
\* A connection forks a process whose pid no row and no list holds.
on_l7r_connection(p) ==
    /\ hkd[HostOf[p]] = "running"
    /\ pc[p] = "exited" /\ agent[p] = "none"
    /\ row.l7r # p
    /\ \A h \in Hosts : to_abort[h] # p
    /\ Goto(p, "idle")
    /\ agent' = [agent EXCEPT ![p] = "running"]
    /\ stray' = stray \ {p}
    /\ UNCHANGED <<seen, hkd, to_abort, row>>

\* Mutant: the exit is not expected while the process is being killed.
on_l7r_done_running(p) ==
    /\ pc[p] = "exited"
    /\ agent[p] = "running"
    /\ agent' = [agent EXCEPT ![p] = "cleanup"]
    /\ UNCHANGED <<pc, seen, hkd, to_abort, row, stray>>

on_l7r_done(p) ==
    /\ pc[p] = "exited"
    /\ agent[p] \in {"running", "killing"}
    /\ agent' = [agent EXCEPT ![p] = "cleanup"]
    /\ UNCHANGED <<pc, seen, hkd, to_abort, row, stray>>

\* Mutant: the pid is missing from the condition.
clean_row_of_host(p) ==
    /\ agent[p] = "cleanup"
    /\ row' = IF row.l7r # NoL7R /\ HostOf[row.l7r] = HostOf[p] THEN Cleared(row) ELSE row
    /\ agent' = [agent EXCEPT ![p] = "none"]
    /\ UNCHANGED <<pc, seen, hkd, to_abort, stray>>

\* Mutant: only a connected session is cleaned.
clean_row_connected(p) ==
    /\ agent[p] = "cleanup"
    /\ row' = IF row.l7r = p /\ row.user_state = "connected" THEN Cleared(row) ELSE row
    /\ agent' = [agent EXCEPT ![p] = "none"]
    /\ UNCHANGED <<pc, seen, hkd, to_abort, stray>>

\* The update names host and pid.  Its errors are ignored.
clean_row(p) ==
    /\ agent[p] = "cleanup"
    /\ \/ row' = IF row.l7r = p THEN Cleared(row) ELSE row
       \/ Fault("query") /\ row' = row
    /\ agent' = [agent EXCEPT ![p] = "none"]
    /\ UNCHANGED <<pc, seen, hkd, to_abort, stray>>

\* Mutant: the sessions that are connecting are looked for.
load_user_cmds_connecting(h) ==
    /\ hkd[h] # "down"
    /\ to_abort[h] = NoL7R
    /\ row.l7r # NoL7R /\ HostOf[row.l7r] = h
    /\ row.user_state = "connecting" /\ row.user_cmd = "abort"
    /\ row' = [row EXCEPT !.vm_cmd = "none"]
    /\ to_abort' = [to_abort EXCEPT ![h] = row.l7r]
    /\ UNCHANGED <<pc, seen, agent, hkd, stray>>

\* The query of the L7RKiller: it clears vm_cmd and leaves user_cmd alone.
load_user_cmds(h) ==
    /\ hkd[h] # "down"
    /\ to_abort[h] = NoL7R
    /\ row.l7r # NoL7R /\ HostOf[row.l7r] = h
    /\ row.user_state = "connected" /\ row.user_cmd = "abort"
    /\ row' = [row EXCEPT !.vm_cmd = "none"]
    /\ to_abort' = [to_abort EXCEPT ![h] = row.l7r]
    /\ UNCHANGED <<pc, seen, agent, hkd, stray>>

\* Its result arrives.  A process that HKD does not know is left alone; one
\* that is being killed is not sent a second signal.
abort_l7rs(h) ==
    /\ to_abort[h] # NoL7R
    /\ to_abort' = [to_abort EXCEPT ![h] = NoL7R]
    /\ agent' = IF agent[to_abort[h]] = "running"
                THEN [agent EXCEPT ![to_abort[h]] = "killing"] ELSE agent
    /\ UNCHANGED <<pc, seen, hkd, row, stray>>

(***************************************************************************)
(* The life of HKD.                                                        *)
(***************************************************************************)
L7RsOf(h) == {p \in L7Rs : HostOf[p] = h}

Supervised(h) == {p \in L7RsOf(h) : agent[p] # "none"}

\* The daemon of h is gone: nobody supervises its processes any more.
Abandon(h) ==
    /\ hkd' = [hkd EXCEPT ![h] = "down"]
    /\ agent' = [p \in L7Rs |-> IF HostOf[p] = h THEN "none" ELSE agent[p]]
    /\ to_abort' = [to_abort EXCEPT ![h] = NoL7R]
    /\ stray' = stray \cup Supervised(h)

\* Start-up up to the state running, with _cleanup_zombie_l7rs in it: the row
\* is released, the processes of an earlier HKD are left alone.
hkd_start(h) ==
    /\ hkd[h] = "down"
    /\ hkd' = [hkd EXCEPT ![h] = "running"]
    /\ row' = IF row.l7r # NoL7R /\ HostOf[row.l7r] = h THEN Cleared(row) ELSE row
    /\ UNCHANGED <<pc, seen, agent, to_abort, stray>>

\* The listener is stopped, then every process is killed.
stop_all_l7rs(h) ==
    /\ hkd[h] = "running"
    /\ hkd' = [hkd EXCEPT ![h] = "stopping"]
    /\ agent' = [p \in L7Rs |-> IF HostOf[p] = h /\ agent[p] = "running"
                                THEN "killing" ELSE agent[p]]
    /\ UNCHANGED <<pc, seen, to_abort, row, stray>>

\* Once no L7R is left, or after a timeout, the rest of HKD stops as well.
hkd_exit(h) ==
    /\ hkd[h] = "stopping"
    /\ Supervised(h) = {} \/ Fault("survive")
    /\ Abandon(h)
    /\ UNCHANGED <<pc, seen, row>>

hkd_crash(h) ==
    /\ Fault("crash")
    /\ hkd[h] # "down"
    /\ Abandon(h)
    /\ UNCHANGED <<pc, seen, row>>

\* The ClusterMonitor of another node.
unassign_l7rs(h) ==
    /\ Fault("lost")
    /\ row.user_state # "disconnected"
    /\ row.l7r # NoL7R /\ HostOf[row.l7r] = h
    /\ row' = Cleared(row)
    /\ stray' = stray \cup {row.l7r}
    /\ UNCHANGED <<pc, seen, agent, hkd, to_abort>>

(***************************************************************************)
(* The machine and its administrator.                                      *)
(***************************************************************************)
\* What the HKD of the machine does to the row, see LXCHandler: take a
\* command, change the state, give the row back.
vm_changes ==
    /\ row.assigned
    /\ \/ /\ row.vm_state = "stopped" /\ row.vm_cmd = "start"
          /\ row' = [row EXCEPT !.vm_state = "busy", !.vm_cmd = "none"]
       \/ /\ row.vm_state = "busy"
          /\ row' = [row EXCEPT !.vm_state = "running"]
       \/ /\ row.vm_state = "running"
          /\ row' = [row EXCEPT !.vm_state = "busy"]
       \/ /\ row.vm_cmd = "stop"
          /\ row' = [row EXCEPT !.vm_cmd = "none"]
       \/ /\ row.vm_state # "stopped"
          /\ row' = [row EXCEPT !.vm_state = "stopped", !.vm_cmd = "none", !.assigned = FALSE]
    /\ UNCHANGED <<pc, seen, agent, hkd, to_abort, stray>>

\* vm_start, vm_stop and vm_user_disconnect of the API.  A vm_stop of a machine
\* that is still to be started withdraws the start.
vm_start ==
    /\ row.vm_state = "stopped"
    /\ row' = [row EXCEPT !.assigned = TRUE, !.vm_cmd = "start"]
    /\ UNCHANGED <<pc, seen, agent, hkd, to_abort, stray>>

vm_stop ==
    /\ \/ /\ row.assigned /\ row.vm_state # "stopped"
          /\ row' = [row EXCEPT !.vm_cmd = "stop"]
       \/ /\ row.vm_state = "stopped" /\ row.vm_cmd = "start"
          /\ row' = [row EXCEPT !.vm_cmd = "none"]
    /\ UNCHANGED <<pc, seen, agent, hkd, to_abort, stray>>

\* The stop_vm request of a client.  L7R decides on a copy of the row, which may
\* be another one when the command is written.
stop_vm ==
    /\ row.vm_cmd # "stop"
    /\ row' = [row EXCEPT !.vm_cmd = "stop"]
    /\ UNCHANGED <<pc, seen, agent, hkd, to_abort, stray>>

vm_user_disconnect ==
    /\ row.user_state # "disconnected"
    /\ row' = [row EXCEPT !.user_cmd = "abort"]
    /\ UNCHANGED <<pc, seen, agent, hkd, to_abort, stray>>

(***************************************************************************)
(* The specification.                                                      *)
(***************************************************************************)
Init ==
    /\ pc = [p \in L7Rs |-> "exited"]
    /\ seen = [p \in L7Rs |-> FreeRow]
    /\ agent = [p \in L7Rs |-> "none"]
    /\ hkd = [h \in Hosts |-> "down"]
    /\ to_abort = [h \in Hosts |-> NoL7R]
    /\ row = FreeRow
    /\ stray = {}

\* The steps of a request, which end without help from outside.
Request(p) ==
    \/ takeover_vm(p) \/ discard_changes(p) \/ send_user_abort(p)
    \/ assign_vm(p) \/ send_vm_start(p) \/ wait_for_vm(p)
    \/ start_x(p) \/ wait_for_x(p) \/ run_forwarder(p)

Process(p) == connect_to_vm(p) \/ Request(p) \/ forwarder_ends(p) \/ l7r_exits(p)

Supervisor(p) == on_l7r_connection(p) \/ on_l7r_done(p) \/ clean_row(p)

L7RKiller(h) == load_user_cmds(h) \/ abort_l7rs(h)

Daemon(h) ==
    \/ hkd_start(h) \/ stop_all_l7rs(h) \/ hkd_exit(h) \/ hkd_crash(h) \/ unassign_l7rs(h)

Next ==
    \/ \E p \in L7Rs : Process(p) \/ Supervisor(p)
    \/ \E h \in Hosts : L7RKiller(h) \/ Daemon(h)
    \/ vm_changes \/ vm_start \/ vm_stop \/ stop_vm \/ vm_user_disconnect

Spec == Init /\ [][Next]_vars

\* Every step of a request ends, by its timeout if not otherwise; the takeover
\* loop ends when its clock says so; a process that was sent TERM exits; HKD
\* sees the exit of its children, and its L7RKiller polls.
Fairness ==
    /\ \A p \in L7Rs :
          /\ WF_vars(Request(p))
          /\ SF_vars(send_user_abort(p) /\ Dies(p))
          /\ WF_vars(agent[p] = "killing" /\ l7r_exits(p))
          /\ WF_vars(on_l7r_done(p))
          /\ WF_vars(clean_row(p))
    /\ \A h \in Hosts : SF_vars(load_user_cmds(h)) /\ WF_vars(abort_l7rs(h))

FairSpec == Spec /\ Fairness

(***************************************************************************)
(* Properties.                                                             *)
(***************************************************************************)
TypeOK ==
    /\ pc \in [L7Rs -> Places]
    /\ seen \in [L7Rs -> Rows]
    /\ agent \in [L7Rs -> {"none", "running", "killing", "cleanup"}]
    /\ hkd \in [Hosts -> {"down", "running", "stopping"}]
    /\ to_abort \in [Hosts -> L7Rs \cup {NoL7R}]
    /\ row \in Rows
    /\ stray \subseteq L7Rs

\* A process that goes on with a session owns the row, and forwards only while
\* the row says connected; so there are never two such processes.  Neither an
\* abort, nor the cleanup after another process, nor a restart of some HKD
\* takes the row from under it, and no process that was left behind by a dead
\* HKD does.
SessionOwned ==
    \A p \in L7Rs \ stray :
        pc[p] \in Session =>
            /\ row.l7r = p
            /\ pc[p] = "forwarding" => row.user_state = "connected"

\* A row that names a process that has exited is going to be released: its
\* supervisor has yet to clean it, or HKD has, when it starts again.
OwnerCleaned ==
    \A p \in L7Rs \ stray :
        row.l7r = p /\ pc[p] = "exited" => agent[p] # "none" \/ hkd[HostOf[p]] = "down"

\* When every process has its HKD, a row says connected only if its owner got
\* as far as forwarding: no other process marks it.
ConnectedByOwner ==
    row.user_state = "connected" =>
        /\ row.l7r # NoL7R
        /\ pc[row.l7r] \notin Session \ {"forwarding"}

\* An aborted session ends, wherever in its request the process is: while it
\* connects the process gives up by itself, once connected it is killed.
AbortHonoured ==
    \A p \in L7Rs :
        row.user_cmd = "abort" /\ row.l7r = p /\ pc[p] \in Session
            ~> ~(row.l7r = p /\ pc[p] \in Session)

\* The session of a process that has exited is released, so that the user can
\* connect again.
SessionReleased ==
    \A p \in L7Rs : row.l7r = p /\ pc[p] = "exited" ~> row.l7r # p

\* A request is answered: it leads to a forwarded session or to an error.
RequestEnds ==
    \A p \in L7Rs : pc[p] = "takeover" ~> pc[p] \in {"forwarding", "idle", "exited"}

\* The session is a lock: whatever the takeovers, the cleanups, the restarts of
\* HKD and the cluster monitors do to the row, one that is not free is never
\* taken, and one that is used by a process that is not lost is never released.
Lock == INSTANCE SessionLock
            WITH Users <- L7Rs, Nobody <- NoL7R, owner <- row.l7r,
                 inside <- {p \in L7Rs : pc[p] \in Session}, lost <- stray

LockImplemented == Lock!Spec

\* A process that wants the session disconnects others for it: it does not
\* fail because it finds that nobody is connected.  It does not hold: README, section 6.
TakeoverNotRefused ==
    [][\A p \in L7Rs :
          pc[p] = "abort" /\ pc'[p] = "idle" => seen[p].user_state # "disconnected"]_vars

=============================================================================

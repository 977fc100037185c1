------------------------------ MODULE Cluster ------------------------------
(***************************************************************************)
(* Several QVD nodes that share one database.  Each node runs an HKD with   *)
(* its Ticker and its ClusterMonitor; L7R processes on the nodes assign the *)
(* VMs of their users to nodes and ask for them to be started.              *)
(*                                                                         *)
(* There is no lock on a VM other than its row: a node may run a container  *)
(* as long as the row says so, and the row is taken from a node when the    *)
(* monitor of another one has seen no tick of it for NodeTimeout.  The node *)
(* has to find out on its own clock that it cannot tick, and to stop what   *)
(* it runs, before that.  Time is therefore part of the state: Elapse makes *)
(* every age and timer one unit older and may not skip a timer that is due. *)
(* What happens inside a VM handler is the subject of LXCHandler, how two   *)
(* L7R processes fight for a session that of L7RSession.                    *)
(***************************************************************************)
EXTENDS Integers, FiniteSets

CONSTANTS Nodes, VMs,
          NULL,          \* NULL of the database, undef of Perl
          TickDelay,     \* internal.hkd.agent.ticker.delay
          TickTimeout,   \* internal.hkd.agent.ticker.timeout
          NodeTimeout,   \* internal.hkd.cluster.node.timeout
          L7rsTimeout,   \* internal.hkd.stopping.l7rs.timeout
          VmsTimeout,    \* internal.hkd.stopping.vms.timeout
          KillTime,      \* the longest a handler needs once it is killed
          Skew,          \* how far the clock of a node is ahead of the database's
          Horizon,       \* ages are not told apart from here on
          Watchers,      \* bound: the nodes whose ClusterMonitor wakes up
          Frail,         \* the nodes that faults happen to
          Faults,        \* the kinds of faults: "link", "power", "hkd", "stop"
          MaxFaults,     \* bound on the number of faults
          Requests       \* what users and administrators do: "connect", "contend",
                         \* "logout", "stopvm", "shutdown"

ASSUME ConstantsAssumption ==
  /\ NULL \notin Nodes \cup Nat
  /\ Frail \subseteq Nodes /\ Watchers \subseteq Nodes
  /\ {TickDelay, TickTimeout, NodeTimeout, L7rsTimeout, VmsTimeout,
      KillTime, Horizon, MaxFaults} \subseteq Nat
  /\ TickDelay > 0
  /\ Skew \in [Nodes -> Int]
  /\ Horizon > NodeTimeout
  /\ \A h \in Nodes : Horizon + Skew[h] > TickTimeout

VARIABLES
  \* table host_runtimes
  hstate,     \* state of each host
  age,        \* now() - ok_ts
  \* table vm_runtimes
  vhost, vstate, vcmd,     \* host_id, vm_state, vm_cmd
  l7rHost, userCmd,        \* l7r_host_id (NULL when disconnected), user_cmd
  \* each node
  hkd,        \* state of its HKD
  lastOk,     \* now() - last_ts_ok of its Ticker
  tickT,      \* time left of the Ticker's timer
  stopT,      \* time left of the timer of the state HKD is in while it stops
  mon,        \* state of its ClusterMonitor
  hv,         \* what it has of each VM: handler and container
  \* the L7R process that serves each VM
  req,        \* where it is: [at, node, host]
  \* environment
  link,       \* the node reaches the database
  faults      \* number of faults so far

db    == <<hstate, age, vhost, vstate, vcmd, l7rHost, userCmd>>
node  == <<hkd, lastOk, tickT, stopT, mon, hv>>
rows  == <<vhost, vstate, vcmd>>
users == <<l7rHost, userCmd>>
vars  == <<db, node, req, link, faults>>

HostStates == {"stopped", "starting", "running", "stopping", "lost"}
VMStates   == {"stopped", "starting", "running", "stopping"}

Setup    == {"setup", "ticking", "cleaning", "searching", "catching"}
Running  == {"saving", "running"}
Stopping == {"stopping", "stopping_l7rs", "stopping_vms", "killing_vms",
             "stopping_agents"}
HkdStates == {"down"} \cup Setup \cup Running \cup Stopping

\* a handler goes from starting to clearing; an orphan is a container without one
Handled  == {"starting", "launched", "up", "stopping", "zombie", "clearing"}
HvStates == {"none", "orphan"} \cup Handled

MonRunning == {"killing_hosts", "unassigning_vms", "unassigning_l7rs",
               "aborting_l7rs", "notifying_hkds"}
MonStates  == {"off", "long_delaying", "idle"} \cup MonRunning

Idle == [at |-> "idle", node |-> NULL, host |-> NULL]

\* The agents of a node whose container for v is under the control of a handler.
Managed(h, v) == hv[h][v] \in {"starting", "launched", "up", "stopping", "zombie"}

Older(a) == IF a < Horizon THEN a + 1 ELSE a

TypeOK ==
  /\ hstate \in [Nodes -> HostStates]
  /\ age \in [Nodes -> Nat]
  /\ vhost \in [VMs -> Nodes \cup {NULL}]
  /\ vstate \in [VMs -> VMStates]
  /\ vcmd \in [VMs -> {"start", "stop", NULL}]
  /\ l7rHost \in [VMs -> Nodes \cup {NULL}]
  /\ userCmd \in [VMs -> {"abort", NULL}]
  /\ hkd \in [Nodes -> HkdStates]
  /\ lastOk \in [Nodes -> Nat \cup {NULL}]
  /\ tickT \in [Nodes -> Nat]
  /\ stopT \in [Nodes -> Nat]
  /\ mon \in [Nodes -> MonStates]
  /\ hv \in [Nodes -> [VMs -> HvStates]]
  /\ req \in [VMs -> [at : {"idle", "assign", "assigning", "start", "wait", "connected"},
                      node : Nodes \cup {NULL}, host : Nodes \cup {NULL}]]
  /\ link \in [Nodes -> BOOLEAN]
  /\ faults \in Nat

Init ==
  /\ hstate = [h \in Nodes |-> "running"]
  /\ age = [h \in Nodes |-> 0]
  /\ vhost = [v \in VMs |-> NULL]
  /\ vstate = [v \in VMs |-> "stopped"]
  /\ vcmd = [v \in VMs |-> NULL]
  /\ l7rHost = [v \in VMs |-> NULL]
  /\ userCmd = [v \in VMs |-> NULL]
  /\ hkd = [h \in Nodes |-> "running"]
  /\ lastOk = [h \in Nodes |-> 0]
  /\ tickT = [h \in Nodes |-> TickDelay]
  /\ stopT = [h \in Nodes |-> 0]
  /\ mon = [h \in Nodes |-> "long_delaying"]
  /\ hv = [h \in Nodes |-> [v \in VMs |-> "none"]]
  /\ req = [v \in VMs |-> Idle]
  /\ link = [h \in Nodes |-> TRUE]
  /\ faults = 0

\* something unusual happens to h, within the bounds
Fault(kind, h) ==
  /\ kind \in Faults
  /\ h \in Frail
  /\ faults < MaxFaults
  /\ faults' = faults + 1

-----------------------------------------------------------------------------
(* The Ticker.  It runs from setup/ticking until HKD stops its agents.      *)

HasTicker(h) ==
  hkd[h] \in (Setup \ {"setup"}) \cup Running \cup (Stopping \ {"stopping_agents"})

\* _on_error in a state of HKD: starting/setup and running go to stopping,
\* stopping ignores the errors of the ticker and of the database.
HkdAfterError(h) == IF hkd[h] \in Setup \cup Running THEN "stopping" ELSE hkd[h]

\* _tick when the update is executed.  On the row of a lost host it matches
\* nothing: the query has no expected number of rows, so it counts as done,
\* and last_ts_ok becomes undef.
TickDone(h) ==
  /\ HasTicker(h)
  /\ tickT[h] = 0
  /\ link[h]
  /\ age' = IF hstate[h] = "lost" THEN age ELSE [age EXCEPT ![h] = 0]
  /\ lastOk' = [lastOk EXCEPT ![h] = IF hstate[h] = "lost" THEN NULL ELSE 0]
  /\ tickT' = [tickT EXCEPT ![h] = TickDelay]
  /\ hkd' = IF hkd[h] = "ticking" THEN [hkd EXCEPT ![h] = "cleaning"] ELSE hkd
  /\ UNCHANGED <<hstate, rows, users, stopT, mon, hv, req, link, faults>>

\* time - last_ts_ok > timeout, on the clock of the node
TickerTimedOut(h) == lastOk[h] # NULL /\ lastOk[h] + Skew[h] > TickTimeout

TickError(h) ==
  /\ HasTicker(h)
  /\ tickT[h] = 0
  /\ ~link[h]
  /\ tickT' = [tickT EXCEPT ![h] = TickDelay]
  /\ hkd' = [hkd EXCEPT ![h] = IF TickerTimedOut(h) THEN HkdAfterError(h) ELSE hkd[h]]
  /\ stopT' = IF hkd'[h] # hkd[h] THEN [stopT EXCEPT ![h] = 0] ELSE stopT
  /\ UNCHANGED <<db, lastOk, mon, hv, req, link, faults>>

-----------------------------------------------------------------------------
(* The main states of HKD.                                                  *)

\* _save_state: whatever the row says, also lost, is overwritten.
SaveState(h, s) == hstate' = [hstate EXCEPT ![h] = s]

Goto(h, s) == hkd' = [hkd EXCEPT ![h] = s]

\* starting/zero, which changes nothing that others see, and setup/saving_state
Boot(h) ==
  /\ hkd[h] = "down"
  /\ link[h]
  /\ SaveState(h, "starting")
  /\ Goto(h, "setup")
  /\ UNCHANGED <<age, rows, users, lastOk, tickT, stopT, mon, hv, req, link, faults>>

\* process limits, storage, firewall and load balancing data; then _start_ticker
StartTicker(h) ==
  /\ hkd[h] = "setup"
  /\ Goto(h, "ticking")
  /\ lastOk' = [lastOk EXCEPT ![h] = NULL]
  /\ tickT' = [tickT EXCEPT ![h] = 0]
  /\ UNCHANGED <<db, stopT, mon, hv, req, link, faults>>

\* _cleanup_zombie_l7rs
CleanL7Rs(h) ==
  /\ hkd[h] = "cleaning"
  /\ link[h]
  /\ l7rHost' = [v \in VMs |-> IF l7rHost[v] = h THEN NULL ELSE l7rHost[v]]
  /\ userCmd' = [v \in VMs |-> IF l7rHost[v] = h THEN NULL ELSE userCmd[v]]
  /\ Goto(h, "searching")
  /\ UNCHANGED <<hstate, age, rows, lastOk, tickT, stopT, mon, hv, req, link, faults>>

\* Mutant: only the VMs that were running are searched for.
CatchZombiesRunning(h) ==
  /\ hkd[h] = "searching"
  /\ link[h]
  /\ hv' = [hv EXCEPT ![h] = [v \in VMs |->
              IF vhost[v] = h /\ vstate[v] = "running"
              THEN IF hv[h][v] = "orphan" THEN "zombie" ELSE "clearing"
              ELSE hv[h][v]]]
  /\ Goto(h, "catching")
  /\ UNCHANGED <<db, lastOk, tickT, stopT, mon, req, link, faults>>

\* _search_zombie_vms and _catch_zombie_vms: a handler for each VM that the
\* table still gives to this node
CatchZombies(h) ==
  /\ hkd[h] = "searching"
  /\ link[h]
  /\ hv' = [hv EXCEPT ![h] = [v \in VMs |->
              IF vhost[v] = h /\ vstate[v] # "stopped"
              THEN IF hv[h][v] = "orphan" THEN "zombie" ELSE "clearing"
              ELSE hv[h][v]]]
  /\ Goto(h, "catching")
  /\ UNCHANGED <<db, lastOk, tickT, stopT, mon, req, link, faults>>

NoHandlers(h) == \A v \in VMs : hv[h][v] \notin Handled

\* _on_no_vms_are_running, then _start_agents
StartAgents(h) ==
  /\ hkd[h] = "catching"
  /\ NoHandlers(h)
  /\ mon' = [mon EXCEPT ![h] = "long_delaying"]
  /\ Goto(h, "saving")
  /\ UNCHANGED <<db, lastOk, tickT, stopT, hv, req, link, faults>>

\* running/saving_state and _start_later_agents
SaveRunning(h) ==
  /\ hkd[h] = "saving"
  /\ link[h]
  /\ SaveState(h, "running")
  /\ Goto(h, "running")
  /\ UNCHANGED <<age, rows, users, lastOk, tickT, stopT, mon, hv, req, link, faults>>

\* A step of the setup fails or, with the database out of reach, one of its
\* queries does, or the pool of connections is given up as dead (_on_dead_db).
HkdError(h) ==
  /\ \/ hkd[h] = "setup"
     \/ hkd[h] \in Setup \cup Running /\ ~link[h]
  /\ Goto(h, "stopping")
  /\ stopT' = [stopT EXCEPT ![h] = 0]
  /\ UNCHANGED <<db, lastOk, tickT, mon, hv, req, link, faults>>

\* _on_cmd_stop: an administrator stops the node; bounded like the faults
CmdStop(h) ==
  /\ Fault("stop", h)
  /\ hkd[h] = "running"
  /\ Goto(h, "stopping")
  /\ stopT' = [stopT EXCEPT ![h] = 0]
  /\ UNCHANGED <<db, lastOk, tickT, mon, hv, req, link>>

\* stopping_l7r_listener, stopping_vm_command_handler, saving_state; an error
\* counts as done.  Then _stop_all_l7rs sets the first timer.
StopListeners(h) ==
  /\ hkd[h] = "stopping"
  /\ IF link[h] THEN SaveState(h, "stopping") ELSE hstate' = hstate
  /\ Goto(h, "stopping_l7rs")
  /\ stopT' = [stopT EXCEPT ![h] = L7rsTimeout]
  /\ UNCHANGED <<age, rows, users, lastOk, tickT, mon, hv, req, link, faults>>

NoL7Rs(h) == \A v \in VMs : req[v].node # h

\* _on_no_l7rs_are_running or _on_state_timeout, then _stop_all_vms
StopAllVMs(h) ==
  /\ hkd[h] = "stopping_l7rs"
  /\ NoL7Rs(h) \/ stopT[h] = 0
  /\ Goto(h, "stopping_vms")
  /\ stopT' = [stopT EXCEPT ![h] = VmsTimeout]
  /\ UNCHANGED <<db, lastOk, tickT, mon, hv, req, link, faults>>

\* _on_state_timeout: _kill_all_vms, repeated until no handler is left
KillAllVMs(h) ==
  /\ hkd[h] = "stopping_vms"
  /\ stopT[h] = 0
  /\ ~NoHandlers(h)
  /\ Goto(h, "killing_vms")
  /\ stopT' = [stopT EXCEPT ![h] = KillTime]
  /\ UNCHANGED <<db, lastOk, tickT, mon, hv, req, link, faults>>

\* what the daemon knows is gone with it
ClearTimers(h) ==
  /\ lastOk' = [lastOk EXCEPT ![h] = NULL]
  /\ tickT' = [tickT EXCEPT ![h] = 0]
  /\ stopT' = [stopT EXCEPT ![h] = 0]

\* _on_no_vms_are_running, then _stop_all_agents
StopAgents(h) ==
  /\ hkd[h] \in {"stopping_vms", "killing_vms"}
  /\ NoHandlers(h)
  /\ Goto(h, "stopping_agents")
  /\ mon' = [mon EXCEPT ![h] = "off"]
  /\ ClearTimers(h)
  /\ UNCHANGED <<db, hv, req, link, faults>>

\* removing_fw_rules; stopped saves the state, or fails to, and HKD exits
HkdStopped(h) ==
  /\ hkd[h] = "stopping_agents"
  /\ IF link[h] THEN SaveState(h, "stopped") ELSE hstate' = hstate
  /\ Goto(h, "down")
  /\ UNCHANGED <<age, rows, users, lastOk, tickT, stopT, mon, hv, req, link, faults>>

-----------------------------------------------------------------------------
(* What a node does about one VM.                                           *)

Hv(h, v, s) == hv' = [hv EXCEPT ![h][v] = s]

\* VMCommandHandler::_load_start_cmds and HKD::_on_vm_cmd: the row is marked as
\* starting; with a live handler the command goes no further.
TakeStart(h, v) ==
  /\ hkd[h] = "running"
  /\ link[h]
  /\ vhost[v] = h /\ vcmd[v] = "start" /\ vstate[v] = "stopped"
  /\ vcmd' = [vcmd EXCEPT ![v] = NULL]
  /\ vstate' = [vstate EXCEPT ![v] = "starting"]
  /\ Hv(h, v, IF hv[h][v] \in Handled THEN hv[h][v] ELSE "starting")
  /\ UNCHANGED <<hstate, age, vhost, users, hkd, lastOk, tickT, stopT, mon,
                 req, link, faults>>

\* VMCommandHandler::_load_stop_cmds and HKD::_on_vm_cmd
TakeStop(h, v) ==
  /\ hkd[h] = "running"
  /\ link[h]
  /\ vhost[v] = h /\ vcmd[v] = "stop"
  /\ vcmd' = [vcmd EXCEPT ![v] = NULL]
  /\ Hv(h, v, IF hv[h][v] \in {"starting", "launched", "up"} THEN "stopping" ELSE hv[h][v])
  /\ UNCHANGED <<hstate, age, vhost, vstate, users, hkd, lastOk, tickT, stopT, mon,
                 req, link, faults>>

\* the container of a handler in starting comes up
Launch(h, v) ==
  /\ hv[h][v] = "starting"
  /\ Hv(h, v, "launched")
  /\ UNCHANGED <<db, hkd, lastOk, tickT, stopT, mon, req, link, faults>>

\* VMHandler::_save_state in running: the update asks for vm_id and host_id and
\* expects one row; no row, or no database, is an error and stops the VM.
SaveUp(h, v) ==
  /\ hv[h][v] = "launched"
  /\ vstate' = IF link[h] /\ vhost[v] = h
               THEN [vstate EXCEPT ![v] = "running"] ELSE vstate
  /\ Hv(h, v, IF link[h] /\ vhost[v] = h THEN "up" ELSE "stopping")
  /\ UNCHANGED <<hstate, age, vhost, vcmd, users, hkd, lastOk, tickT, stopT, mon,
                 req, link, faults>>

\* on_hkd_stop or on_hkd_kill reaches the handler, or the VM is asked to stop
\* for another reason (its VMA does not answer, it has expired); the state is
\* saved if that is possible.
StopVM(h, v) ==
  /\ hv[h][v] \in {"starting", "launched", "up"}
  /\ \/ hkd[h] \in {"stopping_vms", "killing_vms"}
     \/ "shutdown" \in Requests
  /\ Hv(h, v, "stopping")
  /\ vstate' = IF link[h] /\ vhost[v] = h
               THEN [vstate EXCEPT ![v] = "stopping"] ELSE vstate
  /\ UNCHANGED <<hstate, age, vhost, vcmd, users, hkd, lastOk, tickT, stopT, mon,
                 req, link, faults>>

\* the container is gone
ContainerGone(h, v) ==
  /\ hv[h][v] \in {"stopping", "zombie"}
  /\ Hv(h, v, "clearing")
  /\ UNCHANGED <<db, hkd, lastOk, tickT, stopT, mon, req, link, faults>>

\* VMHandler::_clear_runtime_row; it is fine for it to match no row
ClearRow(h, v) ==
  /\ hv[h][v] = "clearing"
  /\ link[h]
  /\ vhost'  = IF vhost[v] = h THEN [vhost EXCEPT ![v] = NULL] ELSE vhost
  /\ vstate' = IF vhost[v] = h THEN [vstate EXCEPT ![v] = "stopped"] ELSE vstate
  /\ vcmd'   = IF vhost[v] = h THEN [vcmd EXCEPT ![v] = NULL] ELSE vcmd
  /\ Hv(h, v, "none")
  /\ UNCHANGED <<hstate, age, users, hkd, lastOk, tickT, stopT, mon, req, link, faults>>

\* Mutant: a handler ends only when its row is clear.
GiveUpRowNever(h, v) ==
  /\ hv[h][v] = "clearing"
  /\ link[h]
  /\ hkd[h] = "killing_vms"
  /\ Hv(h, v, "none")
  /\ UNCHANGED <<db, hkd, lastOk, tickT, stopT, mon, req, link, faults>>

\* a handler that cannot clear its row is a zombie that waits; the kill ends it
GiveUpRow(h, v) ==
  /\ hv[h][v] = "clearing"
  /\ ~link[h]
  /\ hkd[h] = "killing_vms"
  /\ Hv(h, v, "none")
  /\ UNCHANGED <<db, hkd, lastOk, tickT, stopT, mon, req, link, faults>>

-----------------------------------------------------------------------------
(* The ClusterMonitor of node h.                                            *)

MonGoto(h, s) == mon' = [mon EXCEPT ![h] = s]

MonWake(h) ==
  /\ h \in Watchers
  /\ mon[h] \in {"idle", "long_delaying"}
  /\ MonGoto(h, "killing_hosts")
  /\ UNCHANGED <<db, hkd, lastOk, tickT, stopT, hv, req, link, faults>>

\* Mutant: a node that starts counts as silent too.
SilentHostsStarting(h) ==
  {g \in Nodes \ {h} : hstate[g] \notin {"stopped", "lost"} /\ age[g] > NodeTimeout}

\* the hosts that _kill_hosts marks as lost
SilentHosts(h) ==
  {g \in Nodes \ {h} : hstate[g] \notin {"stopped", "starting", "lost"} /\ age[g] > NodeTimeout}

KillHosts(h) ==
  /\ mon[h] = "killing_hosts"
  /\ link[h]
  /\ hstate' = [g \in Nodes |-> IF g \in SilentHosts(h) THEN "lost" ELSE hstate[g]]
  /\ MonGoto(h, "unassigning_vms")
  /\ UNCHANGED <<age, rows, users, hkd, lastOk, tickT, stopT, hv, req, link, faults>>

\* Mutants: VMs that have not come up are left alone; the VMs of a node that
\* stops are taken from it.
OnLostHostRunning(v) == vstate[v] = "running" /\ vhost[v] # NULL /\ hstate[vhost[v]] = "lost"
OnLostHostEarly(v) ==
  vstate[v] # "stopped" /\ vhost[v] # NULL /\ hstate[vhost[v]] \in {"lost", "stopping"}

OnLostHost(v) == vstate[v] # "stopped" /\ vhost[v] # NULL /\ hstate[vhost[v]] = "lost"

\* vm_cmd is left as it is
UnassignVMs(h) ==
  /\ mon[h] = "unassigning_vms"
  /\ link[h]
  /\ vhost' = [v \in VMs |-> IF OnLostHost(v) THEN NULL ELSE vhost[v]]
  /\ vstate' = [v \in VMs |-> IF OnLostHost(v) THEN "stopped" ELSE vstate[v]]
  /\ MonGoto(h, "unassigning_l7rs")
  /\ UNCHANGED <<hstate, age, vcmd, users, hkd, lastOk, tickT, stopT, hv, req, link, faults>>

\* Mutant: the host of the VM is looked up, not that of the L7R.
ThroughLostHostOfVM(v) == l7rHost[v] # NULL /\ vhost[v] # NULL /\ hstate[vhost[v]] = "lost"

ThroughLostHost(v) == l7rHost[v] # NULL /\ hstate[l7rHost[v]] = "lost"

UnassignL7Rs(h) ==
  /\ mon[h] = "unassigning_l7rs"
  /\ link[h]
  /\ l7rHost' = [v \in VMs |-> IF ThroughLostHost(v) THEN NULL ELSE l7rHost[v]]
  /\ userCmd' = [v \in VMs |-> IF ThroughLostHost(v) THEN NULL ELSE userCmd[v]]
  /\ MonGoto(h, "aborting_l7rs")
  /\ UNCHANGED <<hstate, age, rows, hkd, lastOk, tickT, stopT, hv, req, link, faults>>

\* user_cmd = NULL is not true of any row in SQL
UserCmdEqualsNull(v) == FALSE

AbortL7Rs(h) ==
  /\ mon[h] = "aborting_l7rs"
  /\ link[h]
  /\ userCmd' = [v \in VMs |->
       IF req[v].at = "connected" /\ vstate[v] = "stopped" /\ UserCmdEqualsNull(v)
       THEN "abort" ELSE userCmd[v]]
  /\ MonGoto(h, "notifying_hkds")
  /\ UNCHANGED <<hstate, age, rows, l7rHost, hkd, lastOk, tickT, stopT, hv, req, link, faults>>

\* a notification only makes the L7RKillers look earlier; after the last
\* substate of running comes idle
NotifyHkds(h) ==
  /\ mon[h] = "notifying_hkds"
  /\ MonGoto(h, "idle")
  /\ UNCHANGED <<db, hkd, lastOk, tickT, stopT, hv, req, link, faults>>

\* _on_error, or on_transient_db_error, which HKD passes on in running
MonError(h) ==
  /\ mon[h] \in MonRunning
  /\ ~link[h]
  /\ \/ MonGoto(h, "idle")
     \/ hkd[h] \in Running /\ MonGoto(h, "long_delaying")
  /\ UNCHANGED <<db, hkd, lastOk, tickT, stopT, hv, req, link, faults>>

-----------------------------------------------------------------------------
(* The L7R process on some node that serves VM v.                           *)

Serves(g, v) == req[v].at # "idle" /\ req[v].node = g
At(v, s) == req' = [req EXCEPT ![v] = [at |-> s, node |-> req[v].node, host |-> req[v].host]]

\* _takeover_vm succeeds; where it goes on depends on the row read there
TakeoverVM(g, v) ==
  /\ "connect" \in Requests
  /\ req[v] = Idle
  /\ hkd[g] = "running" /\ link[g]
  /\ l7rHost[v] = NULL
  /\ l7rHost' = [l7rHost EXCEPT ![v] = g]
  /\ userCmd' = [userCmd EXCEPT ![v] = NULL]
  /\ req' = [req EXCEPT ![v] =
       [at |-> IF vhost[v] = NULL THEN "assign"
               ELSE IF vstate[v] = "stopped" THEN "start" ELSE "wait",
        node |-> g, host |-> vhost[v]]]
  /\ UNCHANGED <<hstate, age, rows, node, link, faults>>

\* _takeover_vm finds the session taken and sends an abort to its owner
Contend(g, v) ==
  /\ "contend" \in Requests
  /\ hkd[g] = "running" /\ link[g]
  /\ l7rHost[v] # NULL
  /\ userCmd' = [userCmd EXCEPT ![v] = "abort"]
  /\ UNCHANGED <<hstate, age, rows, l7rHost, node, req, link, faults>>

\* LoadBalancer get_free_host
FreeHosts == {h \in Nodes : hstate[h] = "running"}

PickHost(g, v, h) ==
  /\ Serves(g, v) /\ req[v].at = "assign"
  /\ link[g]
  /\ h \in FreeHosts
  /\ req' = [req EXCEPT ![v] = [at |-> "assigning", node |-> g, host |-> h]]
  /\ UNCHANGED <<db, node, link, faults>>

\* the transaction of _assign_vm
AssignVM(g, v) ==
  /\ Serves(g, v) /\ req[v].at = "assigning"
  /\ link[g]
  /\ vhost[v] = NULL /\ vstate[v] = "stopped"
  /\ vhost' = [vhost EXCEPT ![v] = req[v].host]
  /\ At(v, "start")
  /\ UNCHANGED <<hstate, age, vstate, vcmd, users, node, link, faults>>

\* send_vm_start, on the copy of the row that the transaction above has read
SendStart(g, v) ==
  /\ Serves(g, v) /\ req[v].at = "start"
  /\ link[g]
  /\ vcmd' = [vcmd EXCEPT ![v] = "start"]
  /\ At(v, "wait")
  /\ UNCHANGED <<hstate, age, vhost, vstate, users, node, link, faults>>

\* _wait_for_vm returns, then the X session and the forwarder are started
Connected(g, v) ==
  /\ Serves(g, v) /\ req[v].at = "wait"
  /\ link[g]
  /\ vstate[v] = "running"
  /\ At(v, "connected")
  /\ UNCHANGED <<db, node, link, faults>>

\* The process gives up (no host, the row has changed, the VM has stopped or
\* takes too long, the database is out of reach), the user or the VM closes
\* the connection, HKD stops it, or the L7RKiller of the node takes an abort.
EndsL7R(g, v) ==
  \/ req[v].at = "assign" /\ FreeHosts = {}
  \/ req[v].at = "assigning" /\ ~(vhost[v] = NULL /\ vstate[v] = "stopped")
  \/ req[v].at = "wait"
  \/ req[v].at \in {"assign", "assigning", "start"} /\ ~link[g]
  \/ req[v].at = "connected" /\ ("logout" \in Requests \/ \A h \in Nodes : ~Managed(h, v))
  \/ hkd[g] = "stopping_l7rs"
  \/ hkd[g] \in Running /\ link[g] /\ l7rHost[v] = g /\ userCmd[v] = "abort"

\* HKD::L7R::_clean_row when the process has ended; the update may fail
EndL7R(g, v) ==
  /\ Serves(g, v)
  /\ EndsL7R(g, v)
  /\ req' = [req EXCEPT ![v] = Idle]
  /\ IF hkd[g] # "down" /\ link[g] /\ l7rHost[v] = g
     THEN l7rHost' = [l7rHost EXCEPT ![v] = NULL] /\ userCmd' = [userCmd EXCEPT ![v] = NULL]
     ELSE UNCHANGED users
  /\ UNCHANGED <<hstate, age, rows, node, link, faults>>

\* An administrator stops the VM.
AdminStop(v) ==
  /\ "stopvm" \in Requests
  /\ vstate[v] \in {"starting", "running"}
  /\ vcmd' = [vcmd EXCEPT ![v] = "stop"]
  /\ UNCHANGED <<hstate, age, vhost, vstate, users, node, req, link, faults>>

-----------------------------------------------------------------------------
(* Time and faults.                                                         *)

\* A unit of time.  No timer that is due is skipped: the event loop of HKD runs
\* the callback, and what it stops is stopped within its time limit.
Elapse ==
  /\ \A h \in Nodes : HasTicker(h) => tickT[h] > 0
  /\ \A h \in Nodes : hkd[h] \in Stopping => stopT[h] > 0
  /\ age' = [h \in Nodes |-> Older(age[h])]
  /\ lastOk' = [h \in Nodes |-> IF lastOk[h] = NULL THEN NULL ELSE Older(lastOk[h])]
  /\ tickT' = [h \in Nodes |-> IF HasTicker(h) THEN tickT[h] - 1 ELSE tickT[h]]
  /\ stopT' = [h \in Nodes |-> IF hkd[h] \in Stopping THEN stopT[h] - 1 ELSE stopT[h]]
  /\ UNCHANGED <<hstate, rows, users, hkd, mon, hv, req, link, faults>>

\* the node loses the database, and finds it again
LinkDown(h) ==
  /\ Fault("link", h)
  /\ link[h]
  /\ link' = [link EXCEPT ![h] = FALSE]
  /\ UNCHANGED <<db, node, req>>

LinkUp(h) ==
  /\ ~link[h]
  /\ link' = [link EXCEPT ![h] = TRUE]
  /\ UNCHANGED <<db, node, req, faults>>

\* the node loses its power: HKD, containers and L7R processes are gone
PowerOff(h) ==
  /\ Fault("power", h)
  /\ hkd[h] # "down" \/ \E v \in VMs : hv[h][v] # "none"
  /\ Goto(h, "down")
  /\ MonGoto(h, "off")
  /\ hv' = [hv EXCEPT ![h] = [v \in VMs |-> "none"]]
  /\ req' = [v \in VMs |-> IF req[v].node = h THEN Idle ELSE req[v]]
  /\ ClearTimers(h)
  /\ UNCHANGED <<db, link>>

\* HKD alone dies: the containers and the L7R processes are left behind
HkdCrash(h) ==
  /\ Fault("hkd", h)
  /\ hkd[h] # "down"
  /\ Goto(h, "down")
  /\ MonGoto(h, "off")
  /\ hv' = [hv EXCEPT ![h] = [v \in VMs |->
              IF hv[h][v] \in {"orphan", "launched", "up", "stopping", "zombie"}
              THEN "orphan" ELSE "none"]]
  /\ ClearTimers(h)
  /\ UNCHANGED <<db, req, link>>

-----------------------------------------------------------------------------

Ticker(h) == TickDone(h) \/ TickError(h)

HkdStarts(h) == Boot(h)

HkdStep(h) ==
  \/ StartTicker(h) \/ CleanL7Rs(h) \/ CatchZombies(h) \/ StartAgents(h) \/ SaveRunning(h)
  \/ StopListeners(h) \/ StopAllVMs(h) \/ KillAllVMs(h) \/ StopAgents(h) \/ HkdStopped(h)

HkdStops(h) == HkdError(h) \/ CmdStop(h)

HandlerStep(h, v) ==
  \/ TakeStart(h, v) \/ TakeStop(h, v) \/ Launch(h, v) \/ SaveUp(h, v)
  \/ ContainerGone(h, v) \/ ClearRow(h, v) \/ GiveUpRow(h, v)
  \/ hkd[h] \in {"stopping_vms", "killing_vms"} /\ StopVM(h, v)

MonitorStep(h) ==
  \/ MonWake(h) \/ KillHosts(h) \/ UnassignVMs(h) \/ UnassignL7Rs(h)
  \/ AbortL7Rs(h) \/ NotifyHkds(h) \/ MonError(h)

L7RStep(g, v) ==
  \/ TakeoverVM(g, v) \/ Contend(g, v) \/ \E h \in Nodes : PickHost(g, v, h)
  \/ AssignVM(g, v) \/ SendStart(g, v) \/ Connected(g, v) \/ EndL7R(g, v)

\* a process ends by itself, not because its user leaves
L7REnds(g, v) == req[v].at # "connected" /\ EndL7R(g, v)

Environment(h) == LinkDown(h) \/ LinkUp(h) \/ PowerOff(h) \/ HkdCrash(h)

Next ==
  \/ Elapse
  \/ \E h \in Nodes : Ticker(h) \/ HkdStarts(h) \/ HkdStep(h) \/ HkdStops(h)
                      \/ MonitorStep(h) \/ Environment(h)
  \/ \E h \in Nodes, v \in VMs : HandlerStep(h, v) \/ StopVM(h, v) \/ L7RStep(h, v)
  \/ \E v \in VMs : AdminStop(v)

Spec == Init /\ [][Next]_vars

\* Timers fire, the event loops of the daemons and the handlers go on, the L7R
\* processes end.  Nobody has to start a daemon, to connect or to repair a link.
Fairness ==
  /\ WF_vars(Elapse)
  /\ \A h \in Nodes : WF_vars(Ticker(h)) /\ WF_vars(HkdStep(h)) /\ WF_vars(MonitorStep(h))
  /\ \A h \in Nodes, v \in VMs : WF_vars(HandlerStep(h, v)) /\ WF_vars(L7REnds(h, v))

FairSpec == Spec /\ Fairness

-----------------------------------------------------------------------------
(* Timing.  A node notices that it cannot tick at the first failed tick     *)
(* after TickTimeout on its own clock, and has then to stop what it runs.   *)

LeaseEnds(h) == TickDelay + IF Skew[h] < TickTimeout THEN TickTimeout - Skew[h] ELSE 0
StopEnds(h)  == LeaseEnds(h) + L7rsTimeout + VmsTimeout + KillTime

\* A node leaves running before others may mark it as lost ...
LeaseTiming == \A h \in Nodes : LeaseEnds(h) <= NodeTimeout
\* ... and has stopped its containers by then.
StopTiming  == \A h \in Nodes : StopEnds(h) <= NodeTimeout

-----------------------------------------------------------------------------
(* Properties.                                                              *)

\* A node that is starting or running is not marked as lost: the ticker of a node
\* that others will give up stops its HKD before ClusterMonitor::_kill_hosts of
\* any of them may see its row as too old, and a node that comes back is safe from
\* the age of its row until it has ticked.
LiveNotLost == \A h \in Nodes : hkd[h] \in Setup \cup Running => hstate[h] # "lost"

\* No split brain: two nodes never have a container of the same VM under the
\* control of a handler, although the row is given to another node as soon as the
\* first one is marked as lost, without asking it (ClusterMonitor::_unassign_vms).
OneNode == \A v \in VMs : \A g, h \in Nodes : Managed(g, v) /\ Managed(h, v) => g = h

\* Whatever the HKD before this one left behind has been reaped when a node takes
\* commands again, unless the VM was taken from it in between: _search_zombie_vms
\* finds every container whose row still counts on this node.
OrphanCaught ==
  \A h \in Nodes, v \in VMs :
    hkd[h] \in Running /\ hv[h][v] = "orphan" => vhost[v] # h \/ vstate[v] = "stopped"

\* A node that _kill_hosts has marked as lost runs no VM: node.timeout is adjusted to
\* the time that the ticker takes to abort the HKD.  It holds under StopTiming, which the
\* default configuration does not satisfy: README, section 6.
LostHasNoVM == \A h \in Nodes, v \in VMs : Managed(h, v) => hstate[h] # "lost"

\* The VMs of a node that has died are free to be started elsewhere sooner or later:
\* some monitor finds the node silent and _unassign_vms takes the row from it.
RowsFreed ==
  \A h \in Nodes, v \in VMs :
    (hkd[h] = "down" /\ hstate[h] \in {"running", "stopping", "lost"}
       /\ vhost[v] = h /\ vstate[v] # "stopped")
    ~> (hkd[h] # "down" \/ vhost[v] # h)

\* The session of a user that went through a dead node is released (_unassign_l7rs):
\* without that no later connection could take the VM over.
SessionsFreed ==
  \A h \in Nodes, v \in VMs :
    (hkd[h] = "down" /\ hstate[h] \in {"running", "stopping", "lost"} /\ l7rHost[v] = h)
    ~> (hkd[h] # "down" \/ l7rHost[v] # h)

\* A node that cannot reach the database does not go on for ever: the ticker aborts
\* it, and it goes down although none of its updates can be made.
PartitionedStops ==
  \A h \in Nodes : (hkd[h] = "running" /\ ~link[h]) ~> (link[h] \/ hkd[h] = "down")

\* "mark nodes that have not touched the database for too long as lost"; it does
\* not hold for a node that dies while it starts: README, section 6.
SilentIsLost ==
  \A h \in Nodes :
    (hkd[h] = "down" /\ hstate[h] # "stopped")
    ~> (hkd[h] # "down" \/ hstate[h] \in {"stopped", "lost"})

\* "unassign VMs on nodes marked as lost"; it does not hold for one that was assigned and
\* not started: README, section 6.
LostUnassigned ==
  \A h \in Nodes, v \in VMs :
    (hstate[h] = "lost" /\ vhost[v] = h) ~> (hstate[h] # "lost" \/ vhost[v] # h)

\* "abort L7R processes corresponding to machines that are not running"; it does
\* not hold: README, section 6.
StoppedAborted ==
  \A v \in VMs :
    (req[v].at = "connected" /\ vstate[v] = "stopped")
    ~> (req[v].at # "connected" \/ vstate[v] # "stopped" \/ userCmd[v] = "abort")

\* "if the ticker agent is not able to tick the database for the following time, it
\* aborts the HKD"; it does not hold when the clock of the node is behind: README, section 6.
LostAborts ==
  \A h \in Nodes :
    (hstate[h] = "lost" /\ hkd[h] = "running") ~> (hstate[h] # "lost" \/ hkd[h] # "running")

=============================================================================

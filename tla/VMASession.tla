----------------------------- MODULE VMASession -----------------------------
(***************************************************************************)
(* The X session of a virtual machine, as its agent (QVD::VMA) keeps it:   *)
(* two files, nxagent.state and nxagent.pid, that are written by the       *)
(* processes that serve requests and by one monitor for each nxagent, and  *)
(* that no lock protects beyond a single read or write.  The monitor reads *)
(* what nxagent prints, which is always a little older than nxagent.       *)
(***************************************************************************)
EXTENDS Integers, Sequences

CONSTANTS
    Reqs,        \* the processes that serve requests
    MaxStarts,   \* bound: the monitors that are forked
    MaxLines,    \* bound: the lines that nxagent is ahead of its monitor
    Faults       \* what may go wrong, see FaultKinds

Sessions == 1 .. MaxStarts

\* "die": an nxagent disappears without a word; "config": the configuration of nxagent
\* is refused; "slow": a state lasts longer than its timeout.
FaultKinds == {"die", "config", "slow"}

ASSUME VMAAssumption == MaxStarts \in Nat /\ MaxLines \in Nat /\ Faults \subseteq FaultKinds

VARIABLES
    nx,      \* nxagent.state: the last state of nxagent that was saved, "" without the file
    late,    \* its timeout has passed
    pidf,    \* nxagent.pid: the session whose nxagent it names, 0 without the file
    mon,     \* the monitor of a session: none, forked, reading or ended
    agent,   \* the nxagent of a session
    out,     \* what it has printed and its monitor has not read
    req      \* the requests under way

files == <<nx, late, pidf>>
procs == <<mon, agent, out>>
vars == <<nx, late, pidf, mon, agent, out, req>>

NXStates == {"initiating", "provisioning", "starting", "started", "resuming", "resumed",
             "suspending", "suspended", "terminating", "terminated"}

\* nx2x
XState(s) ==
    CASE s = "initiating" -> "starting"
      [] s = "provisioning" -> "provisioning"
      [] s \in {"starting", "resuming"} -> "listening"
      [] s \in {"started", "resumed"} -> "connected"
      [] s = "suspending" -> "suspending"
      [] s = "suspended" -> "suspended"
      [] s = "terminating" -> "stopping"
      [] s \in {"terminated", ""} -> "stopped"

\* Mutant: no limit for a session that waits for its client.
TimedButListening == {"suspending", "stopping"}

\* The keys of %timeout that are states: its key for "initiating" is not one, because
\* nxagent's initiating is the agent's starting.
Timed == {"listening", "suspending", "stopping"}
Running == {"listening", "connected", "suspending", "suspended"}
Connected == {"listening", "connected"}

\* An nxagent that has the display, and one that is to be asked something.
Up == {"starting", "started", "suspending", "suspended", "resuming", "resumed", "terminating",
       "terminated"}
Alive(m) == m # 0 /\ agent[m] \in Up

Idle == [op |-> "none", pc |-> "idle", nx |-> "", late |-> FALSE, pid |-> 0]
Requests == [op : {"none", "x_start", "x_suspend", "x_stop", "x_state"},
             pc : {"idle", "read", "act", "hook", "go", "connect"},
             nx : NXStates \cup {""}, late : BOOLEAN, pid : Sessions \cup {0}]

TypeOK ==
    /\ nx \in (NXStates \ {"terminated"}) \cup {""} /\ late \in BOOLEAN /\ pidf \in Sessions \cup {0}
    /\ mon \in [Sessions -> {"none", "forked", "reading", "ended"}]
    /\ agent \in [Sessions -> Up \cup {"none", "setup", "provisioned", "configured", "gone"}]
    /\ out \in [Sessions -> Seq({"pid"} \cup NXStates)]
    /\ req \in [Reqs -> Requests]

Init ==
    /\ nx = "" /\ late = FALSE /\ pidf = 0
    /\ mon = [m \in Sessions |-> "none"] /\ agent = [m \in Sessions |-> "none"]
    /\ out = [m \in Sessions |-> <<>>]
    /\ req = [r \in Reqs |-> Idle]

-----------------------------------------------------------------------------
(* The files.                                                              *)

\* _delete_nxagent_state_and_pid_and_call_hook
Delete == nx' = "" /\ pidf' = 0 /\ late' = FALSE

\* _save_nxagent_state_and_call_hook: the hook is told the state that _state finds,
\* and that deletes the files of a session that has stopped.
Save(s) ==
    IF XState(s) = "stopped" \/ (XState(s) \in Running /\ ~Alive(pidf))
    THEN Delete
    ELSE nx' = s /\ late' = FALSE /\ UNCHANGED pidf

\* Signals.  nxagent suspends or resumes a session on HUP, and ends it on TERM.
Answer(m, sig) ==
    CASE sig = "TERM" /\ Alive(m) /\ agent[m] \notin {"terminating", "terminated"} -> "terminating"
      [] sig = "HUP" /\ Alive(m) /\ agent[m] \in {"started", "resumed"} -> "suspending"
      [] sig = "HUP" /\ Alive(m) /\ agent[m] = "suspended" -> "resuming"
      [] OTHER -> "none"

\* A signal, where the nxagents go on as ag.
KillFrom(ag, m, sig) ==
    IF Answer(m, sig) = "none" THEN agent' = ag /\ UNCHANGED out
    ELSE /\ Len(out[m]) < MaxLines
         /\ agent' = [ag EXCEPT ![m] = Answer(m, sig)]
         /\ out' = [out EXCEPT ![m] = Append(@, Answer(m, sig))]

Kill(m, sig) == KillFrom(agent, m, sig)

\* _state, on a state that was read with its timestamp: the outcome and what it does.
TimedOut(s, l) == l /\ XState(s) \in Timed
Outcome(s, l) ==
    CASE s = "" -> "stopped"
      [] TimedOut(s, l) -> "stopping"
      [] ~TimedOut(s, l) /\ XState(s) \in Running /\ ~Alive(pidf) -> "stopped"
      [] OTHER -> XState(s)

StateFrom(ag, s, l) ==
    \/ TimedOut(s, l) /\ KillFrom(ag, pidf, "TERM") /\ UNCHANGED files
    \/ /\ ~TimedOut(s, l) /\ agent' = ag /\ UNCHANGED out
       /\ IF s # "" /\ Outcome(s, l) = "stopped" THEN Delete ELSE UNCHANGED files

State(s, l) == StateFrom(agent, s, l)

-----------------------------------------------------------------------------
(* Requests.  A request reads the state, then the pid, and acts on both.   *)

call(r, op) ==
    /\ req[r].pc = "idle"
    /\ req' = [req EXCEPT ![r] = [op |-> op, pc |-> "read", nx |-> nx, late |-> late, pid |-> 0]]
    /\ UNCHANGED <<files, procs>>

\* The rest of _state.  Its result is kept as a state of nxagent; the pid is returned
\* with it, that of an nxagent which has disappeared too, but for the early returns.
look(r) ==
    LET q == req[r]
        x == Outcome(q.nx, q.late)
    IN  /\ q.pc = "read"
        /\ State(q.nx, q.late)
        /\ req' = [req EXCEPT ![r] = IF q.op = "x_state" THEN Idle
                                     ELSE [q EXCEPT !.pc = "act",
                                                    !.nx = IF x = "stopped" THEN ""
                                                           ELSE IF x = "stopping" THEN "terminating" ELSE @,
                                                    !.pid = IF q.nx = "" \/ TimedOut(q.nx, q.late) THEN 0
                                                            ELSE pidf]]
        /\ UNCHANGED mon

\* _start_session in a state that it refuses; in the state connected it suspends the
\* session first.
start_refused(r) ==
    LET q == req[r]
    IN  /\ q.op = "x_start" /\ q.pc = "act"
        /\ XState(q.nx) \notin {"suspended", "stopped"}
        /\ IF XState(q.nx) = "connected" THEN Kill(q.pid, "HUP") ELSE UNCHANGED <<agent, out>>
        /\ req' = [req EXCEPT ![r] = Idle]
        /\ UNCHANGED <<files, mon>>

\* _suspend_session and _stop_session have nothing to do.
nothing_to_do(r) ==
    LET q == req[r]
    IN  /\ q.pc = "act"
        /\ \/ q.op = "x_suspend" /\ ~(q.pid # 0 /\ XState(q.nx) \in Connected)
           \/ q.op = "x_stop" /\ q.pid = 0
        /\ req' = [req EXCEPT ![r] = Idle]
        /\ UNCHANGED <<files, procs>>

\* _call_action_hook, which looks at the state again; the hook takes its time.
call_hook(r) ==
    LET q == req[r]
    IN  /\ q.pc = "act"
        /\ \/ q.op = "x_start" /\ XState(q.nx) \in {"suspended", "stopped"}
           \/ q.op = "x_suspend" /\ q.pid # 0 /\ XState(q.nx) \in Connected
           \/ q.op = "x_stop" /\ q.pid # 0
        /\ State(nx, late)
        /\ req' = [req EXCEPT ![r].pc = "hook"]
        /\ UNCHANGED mon

\* The hook ends, well or not.
hook_ends(r) ==
    /\ req[r].pc = "hook"
    /\ \/ req' = [req EXCEPT ![r].pc = "go"]
       \/ req' = [req EXCEPT ![r] = Idle]
    /\ UNCHANGED <<files, procs>>

\* Awaking nxagent.
resume(r) ==
    LET q == req[r]
    IN  /\ q.op = "x_start" /\ q.pc = "go" /\ q.nx = "suspended"
        /\ Save("initiating")
        /\ \/ Kill(q.pid, "HUP") /\ req' = [req EXCEPT ![r].pc = "connect"]
           \/ "config" \in Faults /\ req' = [req EXCEPT ![r] = Idle] /\ UNCHANGED <<agent, out>>
        /\ UNCHANGED mon

\* The action hook connect of a session that was resumed, which looks at the state.
connect_hook(r) ==
    /\ req[r].pc = "connect"
    /\ State(nx, late)
    /\ req' = [req EXCEPT ![r] = Idle]
    /\ UNCHANGED mon

\* _fork_monitor
fork_monitor(r) ==
    LET q == req[r]
    IN  /\ q.op = "x_start" /\ q.pc = "go" /\ q.nx = ""
        /\ \E m \in Sessions :
              /\ mon[m] = "none" /\ \A n \in 1 .. m - 1 : mon[n] # "none"
              /\ mon' = [mon EXCEPT ![m] = "forked"]
        /\ Save("initiating")
        /\ req' = [req EXCEPT ![r] = Idle]
        /\ UNCHANGED <<agent, out>>

send_signal(r) ==
    LET q == req[r]
    IN  /\ q.op \in {"x_suspend", "x_stop"} /\ q.pc = "go"
        /\ Kill(q.pid, IF q.op = "x_stop" THEN "TERM" ELSE "HUP")
        /\ req' = [req EXCEPT ![r] = Idle]
        /\ UNCHANGED <<files, mon>>

-----------------------------------------------------------------------------
(* Monitors.                                                               *)

start_monitor(m) ==
    /\ mon[m] = "forked"
    /\ Save("initiating")
    /\ mon' = [mon EXCEPT ![m] = "reading"]
    /\ agent' = [agent EXCEPT ![m] = "setup"]
    /\ UNCHANGED <<out, req>>

\* Mutant: the line with the pid is not recognised.
read_line_pidless(m) ==
    /\ mon[m] = "reading" /\ out[m] # <<>>
    /\ IF Head(out[m]) = "pid" THEN UNCHANGED files ELSE Save(Head(out[m]))
    /\ out' = [out EXCEPT ![m] = Tail(@)]
    /\ UNCHANGED <<mon, agent, req>>

\* A line of nxagent's output.
read_line(m) ==
    /\ mon[m] = "reading" /\ out[m] # <<>>
    /\ IF Head(out[m]) = "pid" THEN pidf' = m /\ UNCHANGED <<nx, late>> ELSE Save(Head(out[m]))
    /\ out' = [out EXCEPT ![m] = Tail(@)]
    /\ UNCHANGED <<mon, agent, req>>

\* The output is closed: the files are deleted, whoever they are of.
out_closed(m) ==
    /\ mon[m] = "reading" /\ out[m] = <<>> /\ agent[m] = "gone"
    /\ Delete
    /\ mon' = [mon EXCEPT ![m] = "ended"]
    /\ UNCHANGED <<agent, out, req>>

-----------------------------------------------------------------------------
(* nxagent and what runs before it.                                        *)

\* _provisionate_user
provisionate_user(m) ==
    /\ agent[m] = "setup"
    /\ nx' = "provisioning" /\ late' = FALSE
    /\ agent' = [agent EXCEPT ![m] = "provisioned"]
    /\ UNCHANGED <<pidf, mon, out, req>>

\* The action hook connect of a new session.
configure(m) ==
    /\ agent[m] \in {"setup", "provisioned"}
    /\ StateFrom([agent EXCEPT ![m] = "configured"], nx, late)
    /\ UNCHANGED <<mon, req>>

\* The display belongs to one nxagent; the hook, the configuration and the X session
\* may fail too.
exec_xinit(m) ==
    /\ agent[m] = "configured"
    /\ \/ /\ \A n \in Sessions : ~Alive(n)
          /\ agent' = [agent EXCEPT ![m] = "starting"]
          /\ out' = [out EXCEPT ![m] = <<"pid", "starting">>]
       \/ /\ "config" \in Faults \/ \E n \in Sessions : Alive(n)
          /\ agent' = [agent EXCEPT ![m] = "gone"]
          /\ UNCHANGED out
    /\ UNCHANGED <<files, mon, req>>

Says(m, s) ==
    /\ Len(out[m]) < MaxLines
    /\ agent' = [agent EXCEPT ![m] = s]
    /\ out' = [out EXCEPT ![m] = Append(@, s)]
    /\ UNCHANGED <<files, mon, req>>

client_connects(m) ==
    \/ agent[m] = "starting" /\ Says(m, "started")
    \/ agent[m] = "resuming" /\ Says(m, "resumed")

client_leaves(m) == agent[m] \in {"started", "resumed"} /\ Says(m, "suspending")

suspends(m) == agent[m] = "suspending" /\ Says(m, "suspended")

terminates(m) == agent[m] = "terminating" /\ Says(m, "terminated")

\* xinit ends some time after the session.
exits(m) ==
    /\ agent[m] = "terminated" \/ ("die" \in Faults /\ Alive(m))
    /\ agent' = [agent EXCEPT ![m] = "gone"]
    /\ UNCHANGED <<files, mon, out, req>>

elapse ==
    /\ "slow" \in Faults
    /\ ~late /\ XState(nx) \in Timed
    /\ late' = TRUE
    /\ UNCHANGED <<nx, pidf, procs, req>>

-----------------------------------------------------------------------------
Serve(r) ==
    \/ look(r) \/ start_refused(r) \/ nothing_to_do(r) \/ call_hook(r) \/ hook_ends(r)
    \/ resume(r) \/ connect_hook(r) \/ fork_monitor(r) \/ send_signal(r)

Monitor(m) == start_monitor(m) \/ read_line(m) \/ out_closed(m)
NXAgent(m) == provisionate_user(m) \/ configure(m) \/ exec_xinit(m) \/ terminates(m)

Next ==
    \/ \E r \in Reqs : Serve(r) \/ \E op \in {"x_start", "x_suspend", "x_stop", "x_state"} : call(r, op)
    \/ \E m \in Sessions : Monitor(m) \/ NXAgent(m) \/ client_connects(m) \/ client_leaves(m) \/ suspends(m)
                          \/ exits(m)
    \/ elapse

Spec == Init /\ [][Next]_vars

\* Requests and monitors go on, and so do the setup of nxagent and its end once it has
\* been told to; it exits then.  It may hang while it suspends.
Fairness ==
    /\ \A r \in Reqs : WF_vars(Serve(r))
    /\ \A m \in Sessions : /\ WF_vars(Monitor(m)) /\ WF_vars(NXAgent(m))
                           /\ WF_vars(agent[m] = "terminated" /\ exits(m))

\* Users come back, again and again: the L7R calls x_start for each connection, and again
\* when it fails.  Nobody else asks for the state of a session by himself.
Retrying == /\ \A r \in Reqs : SF_vars(call(r, "x_start"))
            /\ WF_vars(elapse)

LiveSpec == Spec /\ Fairness
RetriedSpec == LiveSpec /\ Retrying

-----------------------------------------------------------------------------
(* Properties.                                                             *)

\* "Returns the current state of the VMA/nxagent": as soon as its monitor has read what
\* nxagent said, the files of a session with a user name its nxagent and say that it is
\* connected, or starting when a resumption failed after it had written that state.
StateTrue ==
    \A m \in Sessions :
       agent[m] \in {"started", "resumed"} /\ out[m] = <<>>
          => pidf = m /\ XState(nx) \in {"connected", "starting"}

\* "try again in a few minutes": a session does not stay in the state starting.
\* It does not hold: README, section 6.
StartingEnds == nx = "initiating" ~> nx # "initiating"

\* A session that no client connects to, or that hangs while it suspends, does not lock its
\* user out: x_start is refused meanwhile, but the first one after the timeout ends it.
TimedEnds == \A s \in {"starting", "resuming", "suspending"} : nx = s ~> nx # s
=============================================================================

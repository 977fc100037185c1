-------------------------- MODULE VMASessionProofs --------------------------
(***************************************************************************)
(* What is proved about VMASession, for any number of requests, sessions   *)
(* and faults.                                                             *)
(***************************************************************************)
EXTENDS VMASession, TLAPS

\* What the requests and monitors do to the files, the nxagents and their output keeps
\* the types of these.
FilesOK == /\ nx \in (NXStates \ {"terminated"}) \cup {""} /\ late \in BOOLEAN
           /\ pidf \in Sessions \cup {0}
AgentsOK == /\ agent \in [Sessions -> Up \cup {"none", "setup", "provisioned", "configured", "gone"}]
            /\ out \in [Sessions -> Seq({"pid"} \cup NXStates)]
ReqsOK == req \in [Reqs -> Requests]
MonsOK == mon \in [Sessions -> {"none", "forked", "reading", "ended"}]

\* A state that is saved is one of nxagent's, and terminated deletes the files.
LEMMA SaveTyped ==
    ASSUME FilesOK, NEW s \in NXStates, Save(s)
    PROVE  FilesOK'
  BY DEF Save, Delete, FilesOK, XState, NXStates

\* A signal that is answered leaves a state of nxagent and a line with it.
LEMMA AnswerTyped ==
    ASSUME AgentsOK, NEW m \in Sessions \cup {0}, NEW sig, Answer(m, sig) # "none"
    PROVE  m \in Sessions /\ Answer(m, sig) \in Up \cap NXStates
  BY DEF Answer, Alive, Up, NXStates

\* A signal keeps the types of the nxagents and of what they print.
LEMMA KillTyped ==
    ASSUME AgentsOK, NEW m \in Sessions \cup {0}, NEW sig,
           NEW ag \in [Sessions -> Up \cup {"none", "setup", "provisioned", "configured", "gone"}],
           KillFrom(ag, m, sig)
    PROVE  AgentsOK'
  <1>1. CASE Answer(m, sig) = "none"
    BY <1>1 DEF KillFrom, AgentsOK
  <1>2. CASE Answer(m, sig) # "none"
    <2>1. m \in Sessions /\ Answer(m, sig) \in Up \cap NXStates
      BY <1>2, AnswerTyped
    <2>2. agent' \in [Sessions -> Up \cup {"none", "setup", "provisioned", "configured", "gone"}]
      BY <1>2, <2>1 DEF KillFrom
    <2>3. Append(out[m], Answer(m, sig)) \in Seq({"pid"} \cup NXStates)
      BY <2>1 DEF AgentsOK
    <2>4. out' \in [Sessions -> Seq({"pid"} \cup NXStates)]
      BY <1>2, <2>1, <2>3 DEF KillFrom, AgentsOK
    <2> QED BY <2>2, <2>4 DEF AgentsOK
  <1> QED BY <1>1, <1>2

\* Whoever looks at the state signals an nxagent or deletes the files.
LEMMA StateTyped ==
    ASSUME FilesOK, AgentsOK, NEW s, NEW l,
           NEW ag \in [Sessions -> Up \cup {"none", "setup", "provisioned", "configured", "gone"}],
           StateFrom(ag, s, l)
    PROVE  FilesOK' /\ AgentsOK'
  <1>1. CASE TimedOut(s, l)
    <2>1. KillFrom(ag, pidf, "TERM") /\ UNCHANGED files
      BY <1>1 DEF StateFrom
    <2>2. pidf \in Sessions \cup {0}
      BY DEF FilesOK
    <2>3. AgentsOK'
      BY <2>1, <2>2, KillTyped
    <2> QED BY <2>1, <2>3 DEF FilesOK, files
  <1>2. CASE ~TimedOut(s, l)
    <2>1. /\ agent' = ag /\ UNCHANGED out
          /\ Delete \/ UNCHANGED files
      BY <1>2 DEF StateFrom
    <2> QED BY <2>1 DEF FilesOK, AgentsOK, Delete, files
  <1> QED BY <1>1, <1>2

\* A line that nxagent prints.
LEMMA SaysTyped ==
    ASSUME AgentsOK, NEW m \in Sessions, NEW s \in Up \cap NXStates, Says(m, s)
    PROVE  AgentsOK'
  <1>1. Append(out[m], s) \in Seq({"pid"} \cup NXStates)
    BY DEF AgentsOK
  <1> QED BY <1>1 DEF Says, AgentsOK

\* TypeOK by its parts.
LEMMA TypeParts == TypeOK <=> FilesOK /\ AgentsOK /\ ReqsOK /\ MonsOK
  BY DEF TypeOK, FilesOK, AgentsOK, ReqsOK, MonsOK

\* A request that begins keeps the types.
LEMMA CallTyped ==
    ASSUME TypeOK, NEW r \in Reqs, NEW op \in {"x_start", "x_suspend", "x_stop", "x_state"}, call(r, op)
    PROVE  TypeOK'
  <1>1. [op |-> op, pc |-> "read", nx |-> nx, late |-> late, pid |-> 0] \in Requests
    BY DEF TypeOK, Requests
  <1>2. ReqsOK'
    BY <1>1 DEF TypeOK, ReqsOK, call
  <1> QED BY <1>2 DEF TypeOK, ReqsOK, call, files, procs

\* Where a request goes on, as what it knows.
LEMMA ServeTyped ==
    ASSUME TypeOK, NEW r \in Reqs, Serve(r)
    PROVE  TypeOK'
  <1> DEFINE q == req[r]
  <1>p. TypeOK' <=> FilesOK' /\ AgentsOK' /\ ReqsOK' /\ MonsOK'
    BY DEF TypeOK, FilesOK, AgentsOK, ReqsOK, MonsOK
  <1> USE <1>p, TypeParts
  <1>0. q \in Requests /\ Idle \in Requests /\ FilesOK /\ AgentsOK /\ ReqsOK /\ MonsOK
    BY DEF TypeOK, Requests, Idle, ReqsOK
  <1>a. "initiating" \in NXStates
    BY DEF NXStates
  <1>b. agent \in [Sessions -> Up \cup {"none", "setup", "provisioned", "configured", "gone"}]
    BY DEF TypeOK
  <1>1. CASE look(r)
    <2>1. FilesOK' /\ AgentsOK'
      BY <1>0, <1>b, <1>1, StateTyped DEF look, State
    <2>2. [q EXCEPT !.pc = "act",
                    !.nx = IF Outcome(q.nx, q.late) = "stopped" THEN ""
                           ELSE IF Outcome(q.nx, q.late) = "stopping" THEN "terminating" ELSE @,
                    !.pid = IF q.nx = "" \/ TimedOut(q.nx, q.late) THEN 0
                            ELSE pidf] \in Requests
      BY <1>0 DEF Requests, NXStates, FilesOK
    <2>3. ReqsOK'
      BY <1>0, <1>1, <2>2 DEF look, ReqsOK
    <2> QED BY <1>0, <1>1, <2>1, <2>3 DEF look, MonsOK
  <1>2. CASE start_refused(r)
    <2>1. AgentsOK'
      <3>1. q.pid \in Sessions \cup {0}
        BY <1>0 DEF Requests
      <3>2. CASE Kill(q.pid, "HUP")
        BY <1>0, <1>b, <3>1, <3>2, KillTyped DEF Kill
      <3>3. CASE UNCHANGED <<agent, out>>
        BY <1>0, <3>3 DEF AgentsOK
      <3> QED BY <1>2, <3>2, <3>3 DEF start_refused
    <2> QED BY <1>0, <1>2, <2>1 DEF start_refused, FilesOK, ReqsOK, MonsOK, files
  <1>3. CASE nothing_to_do(r)
    BY <1>0, <1>3 DEF nothing_to_do, FilesOK, AgentsOK, ReqsOK, MonsOK, files, procs
  <1>4. CASE call_hook(r)
    <2>1. FilesOK' /\ AgentsOK'
      BY <1>0, <1>b, <1>4, StateTyped DEF call_hook, State
    <2>2. [q EXCEPT !.pc = "hook"] \in Requests
      BY <1>0 DEF Requests
    <2> QED BY <1>0, <1>4, <2>1, <2>2 DEF call_hook, ReqsOK, MonsOK
  <1>5. CASE hook_ends(r)
    <2>1. [q EXCEPT !.pc = "go"] \in Requests
      BY <1>0 DEF Requests
    <2>2. ReqsOK'
      BY <1>0, <1>5, <2>1 DEF hook_ends, ReqsOK
    <2> QED BY <1>0, <1>5, <2>2 DEF hook_ends, FilesOK, AgentsOK, MonsOK, files, procs
  <1>6. CASE resume(r)
    <2>1. FilesOK'
      BY <1>0, <1>a, <1>6, SaveTyped DEF resume
    <2>2. AgentsOK'
      <3>1. q.pid \in Sessions \cup {0}
        BY <1>0 DEF Requests
      <3>2. CASE Kill(q.pid, "HUP")
        BY <1>0, <1>b, <3>1, <3>2, KillTyped DEF Kill
      <3>3. CASE UNCHANGED <<agent, out>>
        BY <1>0, <3>3 DEF AgentsOK
      <3> QED BY <1>6, <3>2, <3>3 DEF resume
    <2>3. [q EXCEPT !.pc = "connect"] \in Requests
      BY <1>0 DEF Requests
    <2>4. ReqsOK'
      BY <1>0, <1>6, <2>3 DEF resume, ReqsOK
    <2> QED BY <1>0, <1>6, <2>1, <2>2, <2>4 DEF resume, MonsOK
  <1>7. CASE connect_hook(r)
    <2>1. FilesOK' /\ AgentsOK'
      BY <1>0, <1>b, <1>7, StateTyped DEF connect_hook, State
    <2> QED BY <1>0, <1>7, <2>1 DEF connect_hook, ReqsOK, MonsOK
  <1>8. CASE fork_monitor(r)
    <2>1. FilesOK'
      BY <1>0, <1>a, <1>8, SaveTyped DEF fork_monitor
    <2> QED BY <1>0, <1>8, <2>1 DEF fork_monitor, AgentsOK, ReqsOK, MonsOK
  <1>9. CASE send_signal(r)
    <2>1. q.pid \in Sessions \cup {0}
      BY <1>0 DEF Requests
    <2>2. AgentsOK'
      BY <1>0, <1>b, <1>9, <2>1, KillTyped DEF send_signal, Kill
    <2> QED BY <1>0, <1>9, <2>2 DEF send_signal, FilesOK, ReqsOK, MonsOK, files
  <1> QED BY <1>1, <1>2, <1>3, <1>4, <1>5, <1>6, <1>7, <1>8, <1>9 DEF Serve

\* So does every step of a monitor, of an nxagent and of its clients.
LEMMA SessionTyped ==
    ASSUME TypeOK, NEW m \in Sessions,
           Monitor(m) \/ NXAgent(m) \/ client_connects(m) \/ client_leaves(m) \/ suspends(m)
             \/ exits(m)
    PROVE  TypeOK'
  <1>p. TypeOK' <=> FilesOK' /\ AgentsOK' /\ ReqsOK' /\ MonsOK'
    BY DEF TypeOK, FilesOK, AgentsOK, ReqsOK, MonsOK
  <1> USE <1>p, TypeParts
  <1>0. FilesOK /\ AgentsOK /\ ReqsOK /\ MonsOK
    OBVIOUS
  <1>a. "initiating" \in NXStates
    BY DEF NXStates
  <1>1. CASE start_monitor(m)
    <2>1. FilesOK'
      BY <1>0, <1>a, <1>1, SaveTyped DEF start_monitor
    <2> QED BY <1>0, <1>1, <2>1 DEF start_monitor, AgentsOK, ReqsOK, MonsOK
  <1>2. CASE read_line(m)
    <2>1. Head(out[m]) \in {"pid"} \cup NXStates /\ Tail(out[m]) \in Seq({"pid"} \cup NXStates)
      BY <1>0, <1>2 DEF read_line, AgentsOK
    <2>2. FilesOK'
      <3>1. CASE Head(out[m]) = "pid"
        BY <1>0, <1>2, <3>1 DEF read_line, FilesOK
      <3>2. CASE Head(out[m]) # "pid"
        BY <1>0, <1>2, <2>1, <3>2, SaveTyped DEF read_line
      <3> QED BY <3>1, <3>2
    <2> QED BY <1>0, <1>2, <2>1, <2>2 DEF read_line, AgentsOK, ReqsOK, MonsOK
  <1>3. CASE out_closed(m)
    BY <1>0, <1>3 DEF out_closed, Delete, FilesOK, AgentsOK, ReqsOK, MonsOK
  <1>4. CASE provisionate_user(m)
    BY <1>0, <1>4 DEF provisionate_user, NXStates, FilesOK, AgentsOK, ReqsOK, MonsOK
  <1>5. CASE configure(m)
    <2>1. [agent EXCEPT ![m] = "configured"]
             \in [Sessions -> Up \cup {"none", "setup", "provisioned", "configured", "gone"}]
      BY <1>0 DEF AgentsOK
    <2>2. FilesOK' /\ AgentsOK'
      BY <1>0, <1>5, <2>1, StateTyped DEF configure
    <2> QED BY <1>0, <1>5, <2>2 DEF configure, ReqsOK, MonsOK
  <1>6. CASE exec_xinit(m)
    <2>1. <<"pid", "starting">> \in Seq({"pid"} \cup NXStates)
      BY DEF NXStates
    <2>2. AgentsOK'
      BY <1>0, <1>6, <2>1 DEF exec_xinit, AgentsOK, Up
    <2> QED BY <1>0, <1>6, <2>2 DEF exec_xinit, FilesOK, ReqsOK, MonsOK, files
  <1>7. ASSUME NEW s \in Up \cap NXStates, Says(m, s)
        PROVE  TypeOK'
    BY <1>0, <1>7, SaysTyped DEF Says, FilesOK, ReqsOK, MonsOK, files
  <1>8. CASE suspends(m) \/ terminates(m) \/ client_connects(m) \/ client_leaves(m)
    BY <1>7, <1>8 DEF suspends, terminates, client_connects, client_leaves, Up, NXStates
  <1>9. CASE exits(m)
    BY <1>0, <1>9 DEF exits, FilesOK, AgentsOK, ReqsOK, MonsOK, files
  <1> QED BY <1>1, <1>2, <1>3, <1>4, <1>5, <1>6, <1>8, <1>9 DEF Monitor, NXAgent

\* An agent that has not been asked for anything has the types.
LEMMA InitTyped == Init => TypeOK
  <1> SUFFICES ASSUME Init PROVE TypeOK
    OBVIOUS
  <1>1. <<>> \in Seq({"pid"} \cup NXStates)
    OBVIOUS
  <1>2. AgentsOK
    BY <1>1 DEF Init, AgentsOK
  <1>3. Idle \in Requests
    BY DEF Idle, Requests
  <1> QED BY <1>2, <1>3, TypeParts DEF Init, FilesOK, ReqsOK, MonsOK

\* The files hold states of nxagent, and never terminated, and whatever requests remember
\* and monitors read is of nxagent too: for any number of processes and sessions, so that
\* the lookups of nx2x and %timeout (QVD-VMA/lib/QVD/VMA.pm:119-146) always find something.
THEOREM TypeCorrect == Spec => []TypeOK
  <1>1. Init => TypeOK
    BY InitTyped
  <1>2. TypeOK /\ [Next]_vars => TypeOK'
    <2> SUFFICES ASSUME TypeOK, [Next]_vars PROVE TypeOK'
      OBVIOUS
    <2>1. CASE UNCHANGED vars
      BY <2>1 DEF vars, TypeOK
    <2>2. CASE elapse
      BY <2>2 DEF elapse, TypeOK, procs
    <2> QED BY <2>1, <2>2, CallTyped, ServeTyped, SessionTyped DEF Next
  <1> QED BY <1>1, <1>2, PTL DEF Spec

-----------------------------------------------------------------------------
(***************************************************************************)
(* StateTrue, for one session and any number of requests.  Its first part, *)
(* that the files name the nxagent of a user, needs what is known from     *)
(* before the pid is read on: no request remembers a state in which it     *)
(* would signal or delete.  The second needs the lines on their way.       *)
(***************************************************************************)

\* nxagent has not begun, or its pid has not been read.
Before == agent[1] \in {"none", "setup", "provisioned", "configured"}
Unread == agent[1] \in Up /\ out[1] # <<>> /\ Head(out[1]) = "pid"

\* The session is on and its pid has been read.
Known == agent[1] \in Up \ {"terminated"} /\ ~Unread

\* What the files and the requests may hold until then.
Early == {"", "initiating", "provisioning"}
EarlyFiles == Before \/ Unread => nx \in Early /\ pidf = 0
EarlyReqs == Before \/ Unread => \A r \in Reqs : req[r].nx \in Early /\ req[r].pid = 0

Forked == /\ Before => out[1] = <<>>
          /\ mon[1] \in {"none", "forked"} => agent[1] = "none"

\* No request has read terminated.
ReqsRead == \A r \in Reqs : req[r].nx # "terminated"

\* The pid is the first line and the state of nxagent the last one, and terminated is
\* said at the end only.
Lines == /\ \A i \in 1 .. Len(out[1]) : out[1][i] = "pid" => i = 1
         /\ agent[1] \in Up /\ out[1] # <<>> => out[1][Len(out[1])] = agent[1]
         /\ agent[1] \in Up \ {"terminated"} => \A i \in 1 .. Len(out[1]) : out[1][i] # "terminated"

\* The files of a session that is on name it, and once everything is read they hold its
\* state, or the one that a resumption writes.
Filed == Known => pidf = 1 /\ (out[1] = <<>> => nx \in {agent[1], "initiating"})

SInv == EarlyFiles /\ Forked /\ Lines /\ Filed
IInv == TypeOK /\ SInv /\ EarlyReqs /\ ReqsRead

Speaks(a) == /\ agent' = [agent EXCEPT ![1] = a]
             /\ out' = [out EXCEPT ![1] = Append(@, a)]

\* The parts of TypeOK that the proof needs, for the one session.
LEMMA OneTyped ==
    ASSUME MaxStarts = 1, TypeOK
    PROVE  /\ Sessions = {1} /\ DOMAIN agent = {1} /\ DOMAIN out = {1} /\ DOMAIN mon = {1}
           /\ out[1] \in Seq({"pid"} \cup NXStates)
           /\ pidf \in {0, 1} /\ nx \in NXStates \cup {""} /\ nx # "terminated"
  <1>1. Sessions = {1}
    BY DEF Sessions
  <1>2. nx # "terminated"
    BY DEF TypeOK
  <1> QED BY <1>1, <1>2 DEF TypeOK

\* nxagent says something new.
LEMMA SpeaksKeeps ==
    ASSUME MaxStarts = 1, TypeOK, SInv, NEW a \in Up, Speaks(a),
           agent[1] \in Up \ {"terminated"}, pidf' = pidf, nx' = nx \/ nx' = "initiating",
           mon' = mon
    PROVE  SInv' /\ (Before' \/ Unread' => Unread)
  <1>1. /\ agent'[1] = a /\ out'[1] = Append(out[1], a) /\ a # "pid"
        /\ out[1] \in Seq({"pid"} \cup NXStates) /\ Up \subseteq {"pid"} \cup NXStates
    BY OneTyped DEF Speaks, Up, NXStates
  <1>2. /\ Len(out'[1]) = Len(out[1]) + 1 /\ out'[1][Len(out[1]) + 1] = a
        /\ \A i \in 1 .. Len(out[1]) : out'[1][i] = out[1][i]
        /\ Len(out[1]) \in Nat /\ out'[1] # <<>>
    BY <1>1
  <1>3. ~Before /\ ~Before'
    BY <1>1 DEF Before, Up
  <1>4. Head(out'[1]) = "pid" <=> out[1] # <<>> /\ Head(out[1]) = "pid"
    <2>1. CASE out[1] = <<>>
      BY <1>1, <1>2, <2>1
    <2>2. CASE out[1] # <<>>
      BY <1>1, <1>2, <2>2
    <2> QED BY <2>1, <2>2
  <1>5. Unread' <=> Unread
    BY <1>1, <1>2, <1>4 DEF Unread
  <1>6. EarlyFiles'
    BY <1>3, <1>5 DEF SInv, EarlyFiles, Early
  <1>7. Forked'
    <2>1. mon[1] \notin {"none", "forked"}
      BY DEF SInv, Forked, Up
    <2> QED BY <1>3, <2>1 DEF Forked
  <1>8. Lines'
    <2>1. \A i \in 1 .. Len(out'[1]) : out'[1][i] = "pid" => i = 1
      BY <1>1, <1>2 DEF SInv, Lines
    <2>2. a # "terminated" => \A i \in 1 .. Len(out'[1]) : out'[1][i] # "terminated"
      BY <1>1, <1>2 DEF SInv, Lines
    <2> QED BY <1>1, <1>2, <2>1, <2>2 DEF Lines
  <1>9. Filed'
    BY <1>2, <1>5 DEF SInv, Filed, Known
  <1> QED BY <1>3, <1>5, <1>6, <1>7, <1>8, <1>9 DEF SInv

\* nxagent and its output stay as they are, and so do the files but for the state
\* initiating.
LEMMA StillKeeps ==
    ASSUME SInv, UNCHANGED <<agent, out>>, pidf' = pidf, nx' = nx \/ nx' = "initiating",
           mon' = mon \/ (mon'[1] = "forked" /\ mon[1] = "none")
    PROVE  SInv' /\ (Before' \/ Unread' => Before \/ Unread)
  BY DEF SInv, Before, Unread, Known, Early, EarlyFiles, Forked, Lines, Filed

\* The files are deleted while no session is on.
LEMMA DeleteKeeps ==
    ASSUME SInv, ~Known, Delete, UNCHANGED <<agent, out, mon>>
    PROVE  SInv' /\ (Before' \/ Unread' => Before \/ Unread)
  BY DEF SInv, Before, Unread, Known, Early, EarlyFiles, Forked, Lines, Filed, Delete

\* A signal to the process that the files name, or named.
LEMMA KillKeeps ==
    ASSUME MaxStarts = 1, TypeOK, SInv, NEW m \in {0, 1}, NEW sig, Kill(m, sig),
           pidf' = pidf, nx' = nx \/ nx' = "initiating", mon' = mon
    PROVE  SInv' /\ (Before' \/ Unread' => Before \/ Unread)
  <1>1. CASE Answer(m, sig) = "none"
    BY <1>1, StillKeeps DEF Kill, KillFrom
  <1>2. CASE Answer(m, sig) # "none"
    <2>1. m = 1 /\ agent[1] \in Up \ {"terminated"} /\ Answer(m, sig) \in Up
      BY <1>2 DEF Answer, Alive, Up
    <2>2. Speaks(Answer(m, sig))
      BY <1>2, <2>1 DEF Kill, KillFrom, Speaks
    <2> QED BY <2>1, <2>2, SpeaksKeeps
  <1> QED BY <1>1, <1>2

\* The one session is not the absent pid.
LEMMA OneNotZero == 1 # 0
  OBVIOUS

\* A look at a state that was read, now or earlier.
LEMMA StateKeeps ==
    ASSUME MaxStarts = 1, TypeOK, SInv, NEW s \in NXStates \cup {""}, s # "terminated", NEW l,
           State(s, l), mon' = mon
    PROVE  SInv' /\ (Before' \/ Unread' => Before \/ Unread)
  <1>1. CASE TimedOut(s, l)
    <2>1. Kill(pidf, "TERM") /\ UNCHANGED files /\ pidf \in {0, 1}
      BY <1>1, OneTyped DEF State, StateFrom, Kill
    <2> QED BY <2>1, KillKeeps DEF files
  <1>2. CASE ~TimedOut(s, l) /\ s # "" /\ Outcome(s, l) = "stopped"
    <2>1. Delete /\ UNCHANGED <<agent, out, mon>>
      BY <1>2 DEF State, StateFrom
    <2>2. XState(s) # "stopped"
      BY <1>2 DEF XState, NXStates
    <2>3. ~Alive(pidf)
      BY <1>2, <2>2 DEF Outcome
    <2>4. ~Known
      <3> SUFFICES ASSUME Known PROVE FALSE
        OBVIOUS
      <3>1. pidf = 1
        BY DEF SInv, Filed
      <3>2. agent[pidf] \in Up
        BY <3>1 DEF Known
      <3>3. pidf # 0
        BY <3>1, OneNotZero
      <3> QED BY <2>3, <3>2, <3>3 DEF Alive
    <2> QED BY <2>1, <2>4, DeleteKeeps
  <1>3. CASE ~TimedOut(s, l) /\ ~(s # "" /\ Outcome(s, l) = "stopped")
    <2>1. UNCHANGED files /\ UNCHANGED <<agent, out, mon>>
      BY <1>3 DEF State, StateFrom
    <2> QED BY <2>1, StillKeeps DEF files
  <1> QED BY <1>1, <1>2, <1>3

\* What a step leaves of the requests.
LEMMA ReqsKeep ==
    ASSUME EarlyReqs, ReqsRead, Before' \/ Unread' => Before \/ Unread, NEW r \in Reqs,
           req \in [Reqs -> Requests], NEW q \in Requests, req' = [req EXCEPT ![r] = q],
           q.nx # "terminated", Before \/ Unread => q.nx \in Early /\ q.pid = 0
    PROVE  EarlyReqs' /\ ReqsRead'
  <1>1. \A p \in Reqs : req'[p] = IF p = r THEN q ELSE req[p]
    OBVIOUS
  <1> QED BY <1>1 DEF EarlyReqs, ReqsRead, Early

\* Requests that do not move keep what they know.
LEMMA ReqsStill ==
    ASSUME EarlyReqs, ReqsRead, Before' \/ Unread' => Before \/ Unread, req' = req
    PROVE  EarlyReqs' /\ ReqsRead'
  BY DEF EarlyReqs, ReqsRead

\* A request goes on with what it knows.
LEMMA Goes ==
    ASSUME IInv, NEW r \in Reqs, NEW pc \in {"idle", "read", "act", "hook", "go", "connect"},
           req' = [req EXCEPT ![r].pc = pc] \/ req' = [req EXCEPT ![r] = Idle],
           Before' \/ Unread' => Before \/ Unread
    PROVE  EarlyReqs' /\ ReqsRead'
  <1> DEFINE q == req[r]
  <1>1. q \in Requests /\ req \in [Reqs -> Requests] /\ EarlyReqs /\ ReqsRead
    BY DEF IInv, TypeOK
  <1>2. CASE req' = [req EXCEPT ![r].pc = pc]
    <2>1. [q EXCEPT !.pc = pc] \in Requests /\ [q EXCEPT !.pc = pc].nx = q.nx /\ [q EXCEPT !.pc = pc].pid = q.pid
      BY <1>1 DEF Requests
    <2>2. q.nx # "terminated" /\ (Before \/ Unread => q.nx \in Early /\ q.pid = 0)
      BY DEF IInv, EarlyReqs, ReqsRead
    <2> DEFINE n == [q EXCEPT !.pc = pc]
    <2>3. n \in Requests /\ n.nx # "terminated" /\ (Before \/ Unread => n.nx \in Early /\ n.pid = 0)
      BY <2>1, <2>2
    <2>4. req' = [req EXCEPT ![r] = n]
      BY <1>2
    <2> HIDE DEF n
    <2> QED BY <1>1, <2>3, <2>4, ReqsKeep
  <1>3. CASE req' = [req EXCEPT ![r] = Idle]
    <2>1. Idle \in Requests /\ Idle.nx = "" /\ Idle.pid = 0 /\ "" \in Early
      BY DEF Idle, Requests, Early
    <2> QED BY <1>1, <1>3, <2>1, ReqsKeep
  <1> QED BY <1>2, <1>3

\* A request that begins keeps the invariant.
LEMMA CallKeeps ==
    ASSUME MaxStarts = 1, IInv, NEW r \in Reqs, NEW op \in {"x_start", "x_suspend", "x_stop", "x_state"},
           call(r, op)
    PROVE  IInv'
  <1> DEFINE n == [op |-> op, pc |-> "read", nx |-> nx, late |-> late, pid |-> 0]
  <1>1. TypeOK'
    BY CallTyped DEF IInv
  <1>2. SInv' /\ (Before' \/ Unread' => Before \/ Unread)
    BY StillKeeps DEF IInv, call, files, procs
  <1>3. n \in Requests /\ n.nx = nx /\ n.pid = 0 /\ req' = [req EXCEPT ![r] = n]
    BY DEF IInv, TypeOK, Requests, call
  <1>4. nx # "terminated" /\ (Before \/ Unread => nx \in Early)
    BY OneTyped DEF IInv, SInv, EarlyFiles
  <1>5. req \in [Reqs -> Requests] /\ EarlyReqs /\ ReqsRead
    BY DEF IInv, TypeOK
  <1> HIDE DEF n
  <1>6. EarlyReqs' /\ ReqsRead'
    BY <1>2, <1>3, <1>4, <1>5, ReqsKeep
  <1> QED BY <1>1, <1>2, <1>6 DEF IInv

\* So does every later step of a request.
LEMMA ServeKeeps ==
    ASSUME MaxStarts = 1, IInv, NEW r \in Reqs, Serve(r)
    PROVE  IInv'
  <1> DEFINE q == req[r]
  <1>0. /\ TypeOK /\ SInv /\ EarlyReqs /\ ReqsRead /\ req \in [Reqs -> Requests]
        /\ q \in Requests /\ q.pid \in {0, 1} /\ q.nx \in NXStates \cup {""} /\ q.nx # "terminated"
        /\ Before \/ Unread => q.nx \in Early /\ q.pid = 0
        /\ nx \in NXStates \cup {""} /\ nx # "terminated" /\ pidf \in {0, 1}
    BY OneTyped DEF IInv, TypeOK, Requests, EarlyReqs, ReqsRead
  <1>a. TypeOK'
    BY <1>0, ServeTyped
  <1> SUFFICES SInv' /\ EarlyReqs' /\ ReqsRead'
    BY <1>a DEF IInv
  <1>b. XState("initiating") = "starting"
    BY DEF XState
  <1>1. CASE look(r)
    <2> DEFINE x == Outcome(q.nx, q.late)
               s == IF x = "stopped" THEN "" ELSE IF x = "stopping" THEN "terminating" ELSE q.nx
               p == IF q.nx = "" \/ TimedOut(q.nx, q.late) THEN 0 ELSE pidf
               a == [q EXCEPT !.pc = "act", !.nx = s, !.pid = p]
    <2>1. SInv' /\ (Before' \/ Unread' => Before \/ Unread)
      BY <1>0, <1>1, StateKeeps DEF look
    <2>2. s \in NXStates \cup {""} /\ s # "terminated" /\ p \in Sessions \cup {0}
      <3>1. pidf \in Sessions \cup {0}
        BY <1>0 DEF TypeOK
      <3>2. "terminating" \in NXStates
        BY DEF NXStates
      <3>3. s \in {"", "terminating", q.nx}
        OBVIOUS
      <3>4. p \in {0, pidf}
        OBVIOUS
      <3> HIDE DEF s, p
      <3> QED BY <1>0, <3>1, <3>2, <3>3, <3>4
    <2>3. Before \/ Unread => x # "stopping" /\ pidf = 0
      BY <1>0 DEF Outcome, TimedOut, XState, Timed, Early, SInv, EarlyFiles
    <2>4. Before \/ Unread => s \in Early /\ p = 0
      BY <1>0, <2>3 DEF Early
    <2>5. req' = [req EXCEPT ![r] = IF q.op = "x_state" THEN Idle ELSE a]
      BY <1>1 DEF look
    <2> HIDE DEF s, p
    <2>6. a \in Requests /\ a.nx = s /\ a.pid = p
      <3>1. a = [q EXCEPT !.pc = "act", !.nx = s, !.pid = p]
        OBVIOUS
      <3>2. q \in Requests
        BY <1>0
      <3> HIDE DEF q, a
      <3> QED BY <3>1, <3>2, <2>2 DEF Requests
    <2> HIDE DEF a
    <2>7. CASE q.op = "x_state"
      <3>1. req' = [req EXCEPT ![r].pc = "idle"] \/ req' = [req EXCEPT ![r] = Idle]
        BY <2>5, <2>7
      <3> QED BY <2>1, <3>1, Goes
    <2>8. CASE q.op # "x_state"
      <3>1. req' = [req EXCEPT ![r] = a]
        BY <2>5, <2>8
      <3> QED BY <1>0, <2>1, <2>2, <2>4, <2>6, <3>1, ReqsKeep
    <2> QED BY <2>1, <2>7, <2>8
  <1>2. CASE start_refused(r)
    <2>1. SInv' /\ (Before' \/ Unread' => Before \/ Unread)
      <3>1. CASE Kill(q.pid, "HUP")
        BY <1>0, <1>2, <3>1, KillKeeps DEF start_refused, files
      <3>2. CASE UNCHANGED <<agent, out>>
        BY <1>0, <1>2, <3>2, StillKeeps DEF start_refused, files
      <3> QED BY <1>2, <3>1, <3>2 DEF start_refused
    <2> QED BY <1>2, <2>1, Goes DEF start_refused
  <1>3. CASE nothing_to_do(r)
    <2>1. SInv' /\ (Before' \/ Unread' => Before \/ Unread)
      BY <1>0, <1>3, StillKeeps DEF nothing_to_do, files, procs
    <2> QED BY <1>3, <2>1, Goes DEF nothing_to_do
  <1>4. CASE call_hook(r)
    <2>1. SInv' /\ (Before' \/ Unread' => Before \/ Unread)
      BY <1>0, <1>4, StateKeeps DEF call_hook
    <2> QED BY <1>4, <2>1, Goes DEF call_hook
  <1>5. CASE hook_ends(r)
    <2>1. SInv' /\ (Before' \/ Unread' => Before \/ Unread)
      BY <1>0, <1>5, StillKeeps DEF hook_ends, files, procs
    <2> QED BY <1>5, <2>1, Goes DEF hook_ends
  <1>6. CASE resume(r)
    <2>1. SInv' /\ (Before' \/ Unread' => Before \/ Unread)
      <3>2. nx' = "initiating" /\ pidf' = pidf /\ mon' = mon
        BY <1>6, <1>b DEF resume, Save, Running
      <3>3. CASE Kill(q.pid, "HUP")
        BY <1>0, <3>2, <3>3, KillKeeps
      <3>4. CASE UNCHANGED <<agent, out>>
        BY <1>0, <3>2, <3>4, StillKeeps
      <3> QED BY <1>6, <3>3, <3>4 DEF resume
    <2> QED BY <1>6, <2>1, Goes DEF resume
  <1>7. CASE connect_hook(r)
    <2>1. SInv' /\ (Before' \/ Unread' => Before \/ Unread)
      BY <1>0, <1>7, StateKeeps DEF connect_hook
    <2> QED BY <1>7, <2>1, Goes DEF connect_hook
  <1>8. CASE fork_monitor(r)
    <2>1. nx' = "initiating" /\ pidf' = pidf
      BY <1>8, <1>b DEF fork_monitor, Save, Running
    <2>2. mon[1] = "none" /\ mon'[1] = "forked"
      BY <1>0, <1>8, OneTyped DEF fork_monitor
    <2>3. SInv' /\ (Before' \/ Unread' => Before \/ Unread)
      BY <1>0, <1>8, <2>1, <2>2, StillKeeps DEF fork_monitor
    <2> QED BY <1>8, <2>3, Goes DEF fork_monitor
  <1>9. CASE send_signal(r)
    <2>1. SInv' /\ (Before' \/ Unread' => Before \/ Unread)
      BY <1>0, <1>9, KillKeeps DEF send_signal, files
    <2> QED BY <1>9, <2>1, Goes DEF send_signal
  <1> QED BY <1>1, <1>2, <1>3, <1>4, <1>5, <1>6, <1>7, <1>8, <1>9 DEF Serve

\* A sequence is empty when its length is 0.
LEMMA EmptyLen ==
    ASSUME NEW S, NEW s \in Seq(S)
    PROVE  s = <<>> <=> Len(s) = 0
  OBVIOUS

\* A sequence without its first element.
LEMMA TailOf ==
    ASSUME NEW S, NEW s \in Seq(S), s # <<>>
    PROVE  /\ Len(Tail(s)) = Len(s) - 1 /\ Len(s) \in Nat \ {0}
           /\ \A i \in 1 .. Len(Tail(s)) : Tail(s)[i] = s[i + 1]
           /\ Tail(s) = <<>> <=> Len(s) = 1
           /\ Tail(s) # <<>> => Head(Tail(s)) = s[2]
           /\ Head(s) = s[1] /\ s[1] \in S
  <1>1. Len(s) \in Nat \ {0} /\ Head(s) = s[1] /\ s[1] \in S
    OBVIOUS
  <1>2. Tail(s) \in Seq(S) /\ Len(Tail(s)) = Len(s) - 1
    BY <1>1
  <1>3. \A i \in 1 .. Len(Tail(s)) : Tail(s)[i] = s[i + 1]
    BY <1>1, <1>2
  <1>4. Tail(s) = <<>> <=> Len(s) = 1
    <2>1. Tail(s) = <<>> <=> Len(Tail(s)) = 0
      BY <1>2, EmptyLen
    <2> QED BY <1>1, <1>2, <2>1
  <1>5. Tail(s) # <<>> => Head(Tail(s)) = s[2]
    BY <1>1, <1>2, <1>3
  <1> QED BY <1>1, <1>2, <1>3, <1>4, <1>5

\* Every step of the monitor, of nxagent and of its clients keeps the invariant.
LEMMA SessionKeeps ==
    ASSUME MaxStarts = 1, IInv, NEW m \in Sessions,
           Monitor(m) \/ NXAgent(m) \/ client_connects(m) \/ client_leaves(m) \/ suspends(m)
             \/ exits(m)
    PROVE  IInv'
  <1>0. /\ TypeOK /\ SInv /\ EarlyReqs /\ ReqsRead /\ m = 1 /\ DOMAIN agent = {1} /\ DOMAIN mon = {1}
        /\ DOMAIN out = {1} /\ out[1] \in Seq({"pid"} \cup NXStates)
        /\ nx \in NXStates \cup {""} /\ nx # "terminated" /\ pidf \in {0, 1}
    <2>1. TypeOK /\ Sessions = {1}
      BY OneTyped DEF IInv
    <2> QED BY <2>1, OneTyped DEF IInv
  <1>s. SInv
    BY <1>0
  <1> USE <1>s
  <1>a. TypeOK'
    BY <1>0, SessionTyped
  <1>b. XState("initiating") = "starting"
    BY DEF XState
  <1>c. req' = req
    BY DEF Monitor, NXAgent, start_monitor, read_line, out_closed, provisionate_user, configure,
           exec_xinit, suspends, terminates, client_connects, client_leaves, exits, Says
  <1> SUFFICES SInv' /\ (Before' \/ Unread' => Before \/ Unread)
    BY <1>0, <1>a, <1>c, ReqsStill DEF IInv
  <1>1. CASE start_monitor(m)
    <2>1. nx' = "initiating" /\ pidf' = pidf
      BY <1>1, <1>b DEF start_monitor, Save, Running
    <2>2. agent[1] = "none" /\ Before
      BY <1>0, <1>1 DEF start_monitor, SInv, Forked, Before
    <2>3. agent'[1] = "setup" /\ mon'[1] = "reading" /\ out' = out
      BY <1>0, <1>1 DEF start_monitor
    <2> QED BY <2>1, <2>2, <2>3 DEF SInv, EarlyFiles, Early, Forked, Lines, Filed, Before, Unread, Known, Up
  <1>2. CASE read_line(m)
    <2>1. /\ out'[1] = Tail(out[1]) /\ out[1] # <<>> /\ agent' = agent /\ mon' = mon
          /\ mon[1] = "reading"
      BY <1>0, <1>2 DEF read_line
    <2>2. /\ Len(out'[1]) = Len(out[1]) - 1 /\ Len(out[1]) \in Nat \ {0}
          /\ \A i \in 1 .. Len(out'[1]) : out'[1][i] = out[1][i + 1]
          /\ out'[1] = <<>> <=> Len(out[1]) = 1
          /\ out'[1] # <<>> => Head(out'[1]) = out[1][2]
          /\ Head(out[1]) = out[1][1] /\ out[1][1] \in {"pid"} \cup NXStates
      <3> DEFINE l == out[1]
                 T == {"pid"} \cup NXStates
      <3>1. l \in Seq(T) /\ l # <<>> /\ out'[1] = Tail(l)
        BY <1>0, <2>1
      <3> HIDE DEF l, T
      <3>2. /\ Len(Tail(l)) = Len(l) - 1 /\ Len(l) \in Nat \ {0}
            /\ \A i \in 1 .. Len(Tail(l)) : Tail(l)[i] = l[i + 1]
            /\ Tail(l) = <<>> <=> Len(l) = 1
            /\ Tail(l) # <<>> => Head(Tail(l)) = l[2]
            /\ Head(l) = l[1] /\ l[1] \in T
        BY <3>1, TailOf
      <3> QED BY <3>1, <3>2 DEF l, T
    <2>3. ~Before
      BY <2>1 DEF SInv, Forked
    <2>4. ~Unread'
      BY <2>1, <2>2 DEF Unread, SInv, Lines
    <2>5. Lines'
      <3>1. \A i \in 1 .. Len(out'[1]) : out'[1][i] # "pid"
        BY <2>2 DEF SInv, Lines
      <3>2. out'[1] # <<>> => out'[1][Len(out'[1])] = out[1][Len(out[1])]
        BY <2>2
      <3>3. agent[1] \in Up \ {"terminated"} => \A i \in 1 .. Len(out'[1]) : out'[1][i] # "terminated"
        BY <2>2 DEF SInv, Lines
      <3> QED BY <2>1, <3>1, <3>2, <3>3 DEF SInv, Lines
    <2>6. Known' => pidf' = 1 /\ (out'[1] = <<>> => nx' \in {agent'[1], "initiating"})
      <3> SUFFICES ASSUME Known'
                   PROVE  pidf' = 1 /\ (out'[1] = <<>> => nx' = agent'[1])
        OBVIOUS
      <3>1. agent[1] \in Up \ {"terminated"}
        BY <2>1 DEF Known
      <3>2. out'[1] = <<>> => Head(out[1]) = agent[1]
        BY <2>1, <2>2, <3>1 DEF SInv, Lines
      <3>3. CASE Head(out[1]) = "pid"
        <4>1. out'[1] # <<>>
          BY <3>1, <3>2, <3>3 DEF Up
        <4> QED BY <1>0, <1>2, <3>3, <4>1 DEF read_line
      <3>4. CASE Head(out[1]) # "pid"
        <4>1. Known /\ pidf = 1
          BY <2>1, <3>1, <3>4 DEF Known, Unread, SInv, Filed
        <4>2. Alive(pidf)
          BY <3>1, <4>1, OneNotZero DEF Alive
        <4>3. Head(out[1]) \in NXStates /\ Head(out[1]) # "terminated"
          <5>1. out[1][1] # "terminated"
            BY <2>2, <3>1 DEF SInv, Lines
          <5> QED BY <2>2, <3>4, <5>1
        <4>4. XState(Head(out[1])) # "stopped"
          BY <4>3 DEF XState, NXStates
        <4>5. nx' = Head(out[1]) /\ pidf' = pidf
          BY <1>2, <1>0, <3>4, <4>2, <4>4 DEF read_line, Save
        <4> QED BY <2>1, <3>2, <4>1, <4>5
      <3> QED BY <3>3, <3>4
    <2> QED BY <2>1, <2>3, <2>4, <2>5, <2>6 DEF SInv, EarlyFiles, Forked, Filed, Before
  <1>3. CASE out_closed(m)
    <2>1. agent[1] = "gone" /\ agent' = agent /\ out' = out /\ mon'[1] = "ended"
      BY <1>0, <1>3 DEF out_closed
    <2> QED BY <1>3, <2>1 DEF SInv, EarlyFiles, Forked, Lines, Filed, Before, Unread, Known, Up, out_closed
  <1>4. CASE provisionate_user(m)
    <2>1. agent[1] = "setup" /\ agent'[1] = "provisioned" /\ nx' = "provisioning"
          /\ UNCHANGED <<pidf, mon, out>>
      BY <1>0, <1>4 DEF provisionate_user
    <2> QED BY <2>1 DEF SInv, EarlyFiles, Early, Forked, Lines, Filed, Before, Unread, Known, Up
  <1>5. CASE configure(m)
    <2>1. agent[1] \in {"setup", "provisioned"} /\ nx \in Early
      BY <1>0, <1>5 DEF configure, SInv, EarlyFiles, Before
    <2>2. ~TimedOut(nx, late) /\ (nx # "" => Outcome(nx, late) # "stopped")
      BY <2>1 DEF TimedOut, Outcome, XState, Timed, Running, Early
    <2>3. agent'[1] = "configured" /\ UNCHANGED <<nx, pidf, mon, out>>
      BY <1>0, <1>5, <2>2 DEF configure, StateFrom, files
    <2> QED BY <2>1, <2>3 DEF SInv, EarlyFiles, Early, Forked, Lines, Filed, Before, Unread, Known, Up
  <1>6. CASE exec_xinit(m)
    <2>1. agent[1] = "configured" /\ UNCHANGED <<nx, pidf, mon>>
      BY <1>0, <1>6 DEF exec_xinit, files
    <2>2. mon[1] \notin {"none", "forked"} /\ out[1] = <<>> /\ nx \in Early /\ pidf = 0 /\ Before
      BY <2>1 DEF SInv, Forked, EarlyFiles, Before
    <2>3. CASE agent'[1] = "gone" /\ out' = out
      BY <2>1, <2>2, <2>3 DEF SInv, EarlyFiles, Forked, Lines, Filed, Before, Unread, Known, Up
    <2>4. CASE agent'[1] = "starting" /\ out'[1] = <<"pid", "starting">>
      BY <2>1, <2>2, <2>4 DEF SInv, EarlyFiles, Forked, Lines, Filed, Before, Unread, Known, Up
    <2> QED BY <1>0, <1>6, <2>3, <2>4 DEF exec_xinit
  <1>7. ASSUME NEW a \in Up, agent[1] \in Up \ {"terminated"}, Says(m, a)
        PROVE  SInv' /\ (Before' \/ Unread' => Before \/ Unread)
    <2>1. Speaks(a) /\ pidf' = pidf /\ nx' = nx /\ mon' = mon
      BY <1>0, <1>7 DEF Says, Speaks, files
    <2> QED BY <1>0, <1>7, <2>1, SpeaksKeeps
  <1>8. CASE suspends(m) \/ terminates(m) \/ client_connects(m) \/ client_leaves(m)
    BY <1>0, <1>7, <1>8 DEF suspends, terminates, client_connects, client_leaves, Up
  <1>9. CASE exits(m)
    <2>1. agent[1] \in Up /\ agent'[1] = "gone" /\ UNCHANGED <<nx, pidf, mon, out>>
      BY <1>0, <1>9 DEF exits, Alive, Up, files
    <2> QED BY <2>1 DEF SInv, EarlyFiles, Forked, Lines, Filed, Before, Unread, Known, Up
  <1> QED BY <1>1, <1>2, <1>3, <1>4, <1>5, <1>6, <1>8, <1>9 DEF Monitor, NXAgent

\* While there is one session, whatever any number of requests do at once and however an
\* nxagent ends, the files of a session with a user name its nxagent, and as soon as the
\* monitor has read its output the agent says that it is connected, or starting after a
\* resumption that failed (VMA.pm:630-660, 756-790).  With a second session it does not
\* hold: the monitor of the first one deletes its files.
THEOREM StateAlwaysTrue == ASSUME MaxStarts = 1 PROVE Spec => []StateTrue
  <1>1. Init => IInv
    <2> SUFFICES ASSUME Init PROVE IInv
      OBVIOUS
    <2>1. TypeOK
      BY InitTyped
    <2>2. Sessions = {1} /\ agent[1] = "none" /\ out[1] = <<>> /\ nx = "" /\ pidf = 0
      <3>1. Sessions = {1}
        BY DEF Sessions
      <3> QED BY <3>1 DEF Init
    <2>3. \A r \in Reqs : req[r].nx = "" /\ req[r].pid = 0
      BY DEF Init, Idle
    <2>4. Before /\ ~Unread /\ ~Known /\ agent[1] \notin Up
      BY <2>2 DEF Before, Unread, Known, Up
    <2>5. Lines
      <3>1. Len(out[1]) = 0
        <4>1. Len(<<>>) = 0
          OBVIOUS
        <4> QED BY <2>2, <4>1
      <3>2. 1 .. Len(out[1]) = {}
        BY <3>1
      <3> QED BY <2>4, <3>2 DEF Lines
    <2> QED BY <2>1, <2>2, <2>3, <2>4, <2>5 DEF IInv, SInv, EarlyFiles, EarlyReqs, Early, ReqsRead,
                                                Forked, Filed
  <1>2. IInv /\ [Next]_vars => IInv'
    <2> SUFFICES ASSUME IInv, [Next]_vars PROVE IInv'
      OBVIOUS
    <2>1. CASE UNCHANGED <<nx, pidf, mon, agent, out, req>> /\ TypeOK'
      BY <2>1 DEF IInv, SInv, EarlyFiles, EarlyReqs, ReqsRead, Forked, Lines, Filed, Known, Before, Unread
    <2>2. CASE UNCHANGED vars
      BY <2>1, <2>2 DEF vars, IInv, TypeOK
    <2>3. CASE elapse
      BY <2>1, <2>3 DEF elapse, IInv, TypeOK, procs
    <2> QED BY <2>2, <2>3, CallKeeps, ServeKeeps, SessionKeeps DEF Next
  <1>3. IInv => StateTrue
    <2> SUFFICES ASSUME IInv, NEW m \in Sessions, agent[m] \in {"started", "resumed"}, out[m] = <<>>
                 PROVE  pidf = m /\ XState(nx) \in {"connected", "starting"}
      BY DEF StateTrue
    <2>1. m = 1
      BY OneTyped DEF IInv
    <2>2. Known
      BY <2>1 DEF Known, Unread, Up
    <2>3. pidf = 1 /\ nx \in {"started", "resumed", "initiating"}
      BY <2>1, <2>2 DEF IInv, SInv, Filed
    <2> QED BY <2>1, <2>3 DEF XState
  <1> QED BY <1>1, <1>2, <1>3, PTL DEF Spec
=============================================================================

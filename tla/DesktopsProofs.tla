--------------------------- MODULE DesktopsProofs ---------------------------
(***************************************************************************)
(* Proofs about the list of desktops of the user portal, for any number of *)
(* desktops, timers and messages, and any timeout: its types, and that it  *)
(* shows no desktop as connected that it was told is disconnected.         *)
(***************************************************************************)
EXTENDS Desktops, SequenceTheorems, TLAPS

(***************************************************************************)
(* Types.                                                                  *)
(***************************************************************************)
\* What the list keeps of a desktop.
Cells == [state : UserStates \cup {"reconnecting", NULL}, stable : Stable \cup {NULL},
          call : {NULL, "token", "setup", "message"}]

\* The intervals of a desktop, and the window of one.
Timers == [newest : Handles \cup {NULL}, count : 0..(Timeout - 1), live : SUBSET Handles]
Tabs == [phase : {"none", "opening", "loading", "ready", "shown"},
         cookie : BOOLEAN, watch : SUBSET {"wait", "poll"}]

\* setDesktopState writes the state and, of a stable state, the last stable state.
LEMMA SetStateFacts ==
  ASSUME NEW p \in Cells, NEW s \in UserStates \cup {"reconnecting", NULL}
  PROVE  /\ SetState(p, s) \in Cells
         /\ SetState(p, s).call = p.call
         /\ SetState(p, s).stable = IF s \in Stable THEN s ELSE p.stable
         /\ SetState(p, s).state \in {s, "reconnecting"}
         /\ s \in Stable => SetState(p, s).state = s
  BY DEF SetState, Cells, UserStates, Stable

\* So does the handler of a failed connection, of the desktop that was connected last.
LEMMA ConnectFailFacts ==
  ASSUME TypeOK, NEW p \in [VMs -> Cells]
  PROVE  /\ ConnectFail(p) \in [VMs -> Cells]
         /\ \A d \in VMs : ConnectFail(p)[d] \in {p[d], SetState(p[d], "disconnected")}
<1>1. CASE last = NULL
  BY <1>1 DEF ConnectFail
<1>2. CASE last # NULL
  <2>1. last \in VMs /\ ConnectFail(p) = [p EXCEPT ![last] = SetState(@, "disconnected")]
    BY <1>2 DEF ConnectFail, TypeOK
  <2>2. SetState(p[last], "disconnected") \in Cells
    BY <2>1, SetStateFacts DEF UserStates, Stable
  <2> QED BY <2>1, <2>2
<1> QED BY <1>1, <1>2

\* Every step keeps the types.
LEMMA TypeStep == TypeOK /\ [Next]_vars => TypeOK'
<1> SUFFICES ASSUME TypeOK, [Next]_vars PROVE TypeOK'
  OBVIOUS
<1> USE DesktopsAssumption
<1>0. page \in [VMs -> Cells]
  BY DEF TypeOK, Cells
<1>t. timer \in [VMs -> Timers] /\ tab \in [VMs -> Tabs]
  BY DEF TypeOK, Timers, Tabs
<1>1. ASSUME NEW d \in VMs, rowChanges(d) \/ push(d) PROVE TypeOK'
  <2>1. CASE rowChanges(d)
    <3>1. \A s \in UserStates : Follows[s] \subseteq UserStates
      BY DEF UserStates, Stable, Follows
    <3>2. row' \in [VMs -> UserStates]
      BY <2>1, <3>1 DEF rowChanges, TypeOK
    <3> QED BY <2>1, <3>2 DEF rowChanges, TypeOK
  <2>2. CASE push(d)
    <3>1. Append(sock.chan, [id |-> d, state |-> row[d]]) \in Seq([id : VMs, state : UserStates])
      BY DEF TypeOK
    <3>2. Len(sock'.chan) <= MaxMsgs
      BY <2>2 DEF push, TypeOK
    <3> QED BY <2>2, <3>1, <3>2 DEF push, TypeOK
  <2> QED BY <1>1, <2>1, <2>2
<1>2. CASE listens \/ idle
  BY <1>2 DEF listens, idle, TypeOK
<1>3. CASE listRead
  BY <1>3 DEF listRead, TypeOK
<1>4. CASE listArrives
  <2>1. list.rows \in [VMs -> UserStates]
    BY <1>4 DEF listArrives, TypeOK
  <2>2. ASSUME NEW d \in VMs
        PROVE  SetState([page[d] EXCEPT !.state = list.rows[d]], list.rows[d]) \in Cells
    <3>1. [page[d] EXCEPT !.state = list.rows[d]] \in Cells
      BY <1>0, <2>1 DEF Cells
    <3> QED BY <2>1, <3>1, SetStateFacts
  <2>3. page' \in [VMs -> Cells]
    BY <1>4, <2>2 DEF listArrives
  <2> QED BY <1>4, <2>3 DEF listArrives, TypeOK, Cells
<1>5. CASE receive
  <2>1. /\ Head(sock.chan) \in [id : VMs, state : UserStates]
        /\ Tail(sock.chan) \in Seq([id : VMs, state : UserStates])
        /\ Len(Tail(sock.chan)) <= MaxMsgs
    <3>1. sock.chan \in Seq([id : VMs, state : UserStates]) /\ sock.chan # <<>>
      BY <1>5 DEF receive, TypeOK
    <3>2. Len(sock.chan) <= MaxMsgs /\ MaxMsgs \in Nat
      BY DEF TypeOK
    <3>3. /\ Head(sock.chan) \in [id : VMs, state : UserStates]
          /\ Tail(sock.chan) \in Seq([id : VMs, state : UserStates])
          /\ Len(Tail(sock.chan)) = Len(sock.chan) - 1
      BY <3>1, HeadTailProperties
    <3> HIDE DesktopsAssumption
    <3>4. Len(sock.chan) \in Nat
      BY <3>1, LenProperties
    <3> QED BY <3>2, <3>3, <3>4
  <2>2. page' \in [VMs -> Cells]
    <3> DEFINE m == Head(sock.chan)
    <3>1. m.id \in VMs /\ m.state \in UserStates
      BY <2>1
    <3>2. SetState(page[m.id], m.state) \in Cells
      BY <1>0, <3>1, SetStateFacts
    <3>3. page' = IF list.phase = "shown" THEN Put(m.id, m.state) ELSE page
      BY <1>5 DEF receive
    <3> HIDE DEF m
    <3> QED BY <1>0, <3>1, <3>2, <3>3 DEF Put
  <2> QED BY <1>5, <2>1, <2>2 DEF receive, TypeOK, Cells
<1>6. CASE protocolFails
  <2>1. page' \in [VMs -> Cells]
    BY <1>0, <1>6, ConnectFailFacts DEF protocolFails
  <2> QED BY <1>6, <2>1 DEF protocolFails, TypeOK, Cells
<1>7. ASSUME NEW d \in VMs, connectDesktop(d) \/ tokenArrives(d) \/ messageCancel(d) PROVE TypeOK'
  <2>1. \A c \in {NULL, "token", "setup"} : [page[d] EXCEPT !.call = c] \in Cells
    BY <1>0 DEF Cells
  <2>2. \E c \in {NULL, "token", "setup"} : page' = [page EXCEPT ![d] = [@ EXCEPT !.call = c]]
    BY <1>7, Zenon DEF connectDesktop, tokenArrives, messageCancel
  <2>3. page' \in [VMs -> Cells]
    BY <1>0, <2>1, <2>2
  <2> QED BY <1>7, <2>3 DEF connectDesktop, tokenArrives, messageCancel, TypeOK, Cells
<1>8. ASSUME NEW d \in VMs, setupArrives(d) \/ messageConnect(d) PROVE TypeOK'
  <2>1. [page[d] EXCEPT !.call = NULL] \in Cells
    BY <1>0 DEF Cells
  <2>2. SetState([page[d] EXCEPT !.call = NULL], "connecting") \in Cells
    BY <2>1, SetStateFacts DEF UserStates
  <2>3. SetState(SetState([page[d] EXCEPT !.call = NULL], "connecting"), "disconnected") \in Cells
    BY <2>2, SetStateFacts DEF UserStates, Stable
  <2>4. page' \in [VMs -> Cells]
    <3>1. [SetState(SetState([page[d] EXCEPT !.call = NULL], "connecting"), "disconnected")
              EXCEPT !.call = "message"] \in Cells
      BY <2>3 DEF Cells
    <3> QED BY <1>0, <1>8, <2>1, <2>2, <3>1 DEF setupArrives, messageConnect
  <2>5. ASSUME ConnectClassic(d)
        PROVE  timer' \in [VMs -> Timers] /\ last' \in VMs /\ tab' = tab
    <3>1. PICK h \in Handles : StartTimer(d, h)
      BY <2>5 DEF ConnectClassic
    <3>2. [newest |-> h, count |-> 0, live |-> timer[d].live \cup {h}] \in Timers
      BY <1>t DEF Timers
    <3> QED BY <1>t, <2>5, <3>1, <3>2 DEF StartTimer, ConnectClassic
  <2>6. ASSUME ConnectHTML5(d)
        PROVE  tab' \in [VMs -> Tabs] /\ UNCHANGED <<timer, last>>
    <3>1. [tab[d] EXCEPT !.phase = "opening", !.watch = tab[d].watch \cup {"wait"}] \in Tabs
      BY <1>t DEF Tabs
    <3>2. \E t \in Tabs : tab' = [tab EXCEPT ![d] = t]
      BY <2>6, <3>1, Zenon DEF ConnectHTML5
    <3>3. tab' \in [VMs -> Tabs]
      BY <1>t, <3>2
    <3> QED BY <2>6, <3>3 DEF ConnectHTML5
  <2>7. timer' \in [VMs -> Timers] /\ last' \in VMs \cup {NULL} /\ tab' \in [VMs -> Tabs]
    BY <1>t, <1>8, <2>5, <2>6 DEF setupArrives, messageConnect, TypeOK
  <2>8. told' \in BOOLEAN /\ UNCHANGED <<row, sock, list>>
    BY <1>8 DEF setupArrives, messageConnect, TypeOK
  <2> QED BY <2>4, <2>7, <2>8 DEF TypeOK, Cells, Timers, Tabs
<1>9. ASSUME NEW d \in VMs, NEW h \in Handles, tick(d, h) PROVE TypeOK'
  <2>1. page' \in [VMs -> Cells]
    <3>1. Put(d, "disconnected") \in [VMs -> Cells]
      BY <1>0, SetStateFacts DEF Put, UserStates, Stable
    <3> QED BY <1>0, <1>9, <3>1, ConnectFailFacts DEF tick
  <2>2. timer' \in [VMs -> Timers]
    <3>1. Cleared(timer[d]) \in Timers
      BY <1>t DEF Timers, Cleared
    <3>2. [Cleared(timer[d]) EXCEPT !.newest = NULL, !.count = 0] \in Timers
      BY <3>1, 0 \in 0..(Timeout - 1) DEF Timers
    <3>3. timer[d].count + 1 < Timeout => [timer[d] EXCEPT !.count = @ + 1] \in Timers
      BY <1>t DEF Timers
    <3>4. \E t \in Timers : timer' = [timer EXCEPT ![d] = t]
      BY <1>9, <3>1, <3>2, <3>3, Zenon DEF tick
    <3> QED BY <1>t, <3>4
  <2> QED BY <1>9, <2>1, <2>2 DEF tick, TypeOK, Cells, Timers
<1>10. ASSUME NEW d \in VMs, TabStep(d) \/ watchBegins(d) PROVE TypeOK'
  <2>1. /\ [tab[d] EXCEPT !.phase = "loading", !.cookie = TRUE] \in Tabs
        /\ [tab[d] EXCEPT !.phase = "ready"] \in Tabs
        /\ [tab[d] EXCEPT !.phase = "shown", !.cookie = FALSE] \in Tabs
        /\ [tab[d] EXCEPT !.phase = "none", !.cookie = FALSE] \in Tabs
        /\ [tab[d] EXCEPT !.watch = (@ \ {"wait"}) \cup {"poll"}] \in Tabs
    BY <1>t DEF Tabs
  <2>2. \E t \in Tabs : tab' = [tab EXCEPT ![d] = t]
    BY <1>10, <2>1, Zenon DEF TabStep, tabLoads, tabReady, changeUserState, tabEnds, watchBegins
  <2>3. tab' \in [VMs -> Tabs]
    BY <1>t, <2>2
  <2>4. TabOnly
    BY <1>10 DEF TabStep, tabLoads, tabReady, changeUserState, tabEnds, watchBegins
  <2> QED BY <2>3, <2>4 DEF TabOnly, TypeOK, Tabs
<1>11. ASSUME NEW d \in VMs, watchEnds(d) PROVE TypeOK'
  <2>1. page[d].stable \in UserStates \cup {"reconnecting", NULL}
    BY <1>0 DEF Cells, UserStates
  <2>2. page' \in [VMs -> Cells]
    BY <1>0, <1>11, <2>1, SetStateFacts DEF watchEnds, Put
  <2>3. [tab[d] EXCEPT !.watch = @ \ {"poll"}] \in Tabs
    BY <1>t DEF Tabs
  <2>4. \E t \in Tabs : tab' = [tab EXCEPT ![d] = t]
    BY <1>11, <2>3, Zenon DEF watchEnds
  <2>5. tab' \in [VMs -> Tabs]
    BY <1>t, <2>4
  <2> QED BY <1>11, <2>2, <2>5 DEF watchEnds, TypeOK, Cells, Tabs
<1>12. CASE UNCHANGED vars
  BY <1>12 DEF vars, TypeOK
<1> QED BY <1>1, <1>2, <1>3, <1>4, <1>5, <1>6, <1>7, <1>8, <1>9, <1>10, <1>11, <1>12 DEF Next

\* The list that has just been asked for has its types.
LEMMA TypeInit == Init => TypeOK
  BY DesktopsAssumption DEF Init, TypeOK

\* TypeOK, for any number of desktops and any timeout: in particular no countdown goes
\* past its timeout.
THEOREM TypeCorrect == Spec => []TypeOK
  BY TypeInit, TypeStep, PTL DEF Spec

(***************************************************************************)
(* What the list believes.  Between the list, the queue of notifications   *)
(* of the websocket and its messages, the last thing the list will hear of *)
(* a desktop is the state the desktop has; and the last stable state it    *)
(* remembers is never a connection that it has been told is over.          *)
(***************************************************************************)
\* A change of d has not arrived yet.
Waiting(d) == d \in sock.notes \/ \E k \in DOMAIN sock.chan : sock.chan[k].id = d

\* The list shows d as connected, or would put that state back.
Believed(d) == "connected" \in {page[d].state, page[d].stable}

\* The message k is the last one about its desktop.
LastOf(k) == \A j \in DOMAIN sock.chan : j > k => sock.chan[j].id # sock.chan[k].id

\* The list is asked for before the websocket listens, and an idle websocket is empty.
Listening ==
  /\ sock.state = "opening" => list.phase = "asked"
  /\ sock.state # "open" => sock.notes = {} /\ sock.chan = <<>>

\* Without a list no connection is remembered.
NotYet == list.phase # "shown" => \A d \in VMs : page[d].stable # "connected"

\* The last message about a desktop that has no notification has its state.
LastTrue == \A k \in DOMAIN sock.chan :
  (sock.chan[k].id \notin sock.notes /\ LastOf(k)) => sock.chan[k].state = row[sock.chan[k].id]

\* A list on its way is true of every desktop of which no change is on its way.
ReadTrue == (sock.state = "open" /\ list.phase = "read")
  => \A d \in VMs : Waiting(d) \/ list.rows[d] = row[d]

\* And so is the belief that a desktop is connected: at least it is being connected.
BeliefTrue == (sock.state = "open" /\ list.phase = "shown")
  => \A d \in VMs : Waiting(d) \/ ~Believed(d) \/ row[d] # "disconnected"

BInv == TypeOK /\ Listening /\ NotYet /\ LastTrue /\ ReadTrue /\ BeliefTrue

\* The steps that neither read nor write what has to do with the websocket.
BrowserStep ==
  \/ protocolFails
  \/ \E d \in VMs :
        \/ connectDesktop(d) \/ tokenArrives(d) \/ setupArrives(d)
        \/ messageConnect(d) \/ messageCancel(d)
        \/ \E h \in Handles : tick(d, h)
        \/ TabStep(d) \/ watchBegins(d) \/ watchEnds(d)

\* What the list keeps of a desktop goes from p to q and no belief is new.
NoNews(p, q) == /\ q.stable = "connected" => p.stable = "connected"
                /\ q.state = "connected" => "connected" \in {p.state, p.stable}

\* setDesktopState with the state of an attempt, of a failure, or with the last stable
\* state brings no belief.
LEMMA SetStateNoNews ==
  ASSUME NEW p \in Cells, NEW s \in {"connecting", "disconnected", p.stable}
  PROVE  NoNews(p, SetState(p, s))
<1>1. s \in UserStates \cup {"reconnecting", NULL}
  BY DEF Cells, UserStates, Stable
<1>2. s \in Stable => SetState(p, s).state = s
  BY <1>1, SetStateFacts
<1>3. SetState(p, s).stable = IF s \in Stable THEN s ELSE p.stable
  BY <1>1, SetStateFacts
<1>4. SetState(p, s).state \in {s, "reconnecting"}
  BY <1>1, SetStateFacts
<1> QED BY <1>2, <1>3, <1>4 DEF NoNews, Stable

\* Nor does the handler of a failed connection.
LEMMA ConnectFailNoNews ==
  ASSUME TypeOK, NEW p \in [VMs -> Cells]
  PROVE  \A d \in VMs : NoNews(p[d], ConnectFail(p)[d])
<1> TAKE d \in VMs
<1>1. ConnectFail(p)[d] \in {p[d], SetState(p[d], "disconnected")}
  BY ConnectFailFacts
<1>2. NoNews(p[d], SetState(p[d], "disconnected"))
  BY SetStateNoNews
<1>3. NoNews(p[d], p[d])
  BY DEF NoNews
<1> QED BY <1>1, <1>2, <1>3

\* A connection, its timers and its window bring none.
LEMMA BrowserStepFacts ==
  ASSUME TypeOK, BrowserStep
  PROVE  /\ UNCHANGED <<row, sock, list>>
         /\ \A d \in VMs : NoNews(page[d], page'[d])
<1>0. page \in [VMs -> Cells] /\ \A d \in VMs : NoNews(page[d], page[d])
  BY DEF TypeOK, Cells, NoNews
<1>1. CASE protocolFails
  BY <1>0, <1>1, ConnectFailNoNews DEF protocolFails
<1>2. ASSUME NEW d \in VMs,
             \/ connectDesktop(d) \/ tokenArrives(d) \/ setupArrives(d)
             \/ messageConnect(d) \/ messageCancel(d)
      PROVE  /\ UNCHANGED <<row, sock, list>>
             /\ \E q \in Cells : (page' = [page EXCEPT ![d] = q]) /\ NoNews(page[d], q)
  <2> DEFINE c == [page[d] EXCEPT !.call = NULL]
             shown == SetState(c, "connecting")
             again == SetState(shown, "disconnected")
  <2>1. \A x \in {NULL, "token", "setup"} :
           [page[d] EXCEPT !.call = x] \in Cells /\ NoNews(page[d], [page[d] EXCEPT !.call = x])
    BY <1>0 DEF Cells, NoNews
  <2>2. shown \in Cells /\ NoNews(page[d], shown)
    <3>1. c \in Cells /\ NoNews(page[d], c)
      BY <2>1
    <3>2. shown \in Cells /\ NoNews(c, shown)
      BY <3>1, SetStateFacts, SetStateNoNews DEF UserStates
    <3> QED BY <3>1, <3>2 DEF NoNews
  <2>3. again \in Cells /\ NoNews(page[d], again)
    <3>1. again \in Cells /\ NoNews(shown, again)
      BY <2>2, SetStateFacts, SetStateNoNews DEF UserStates, Stable
    <3> QED BY <2>2, <3>1 DEF NoNews
  <2>4. /\ [again EXCEPT !.call = "message"] \in Cells
        /\ NoNews(page[d], [again EXCEPT !.call = "message"])
    BY <2>3 DEF Cells, NoNews
  <2>5. UNCHANGED <<row, sock, list>>
    BY <1>2 DEF connectDesktop, tokenArrives, setupArrives, messageConnect, messageCancel
  <2>6. \/ \E x \in {NULL, "token", "setup"} : page' = [page EXCEPT ![d] = [page[d] EXCEPT !.call = x]]
        \/ page' = [page EXCEPT ![d] = shown]
        \/ page' = [page EXCEPT ![d] = [again EXCEPT !.call = "message"]]
    BY <1>2, Zenon
       DEF connectDesktop, tokenArrives, setupArrives, messageConnect, messageCancel
  <2> HIDE DEF c, shown, again
  <2> QED BY <2>1, <2>2, <2>4, <2>5, <2>6
<1>3. ASSUME NEW d \in VMs, NEW h \in Handles, tick(d, h)
      PROVE  /\ UNCHANGED <<row, sock, list>>
             /\ \A e \in VMs : NoNews(page[e], page'[e])
  <2> DEFINE p == Put(d, "disconnected")
  <2>1. p \in [VMs -> Cells]
    BY <1>0, SetStateFacts DEF Put, UserStates, Stable
  <2>2. \A e \in VMs : NoNews(page[e], p[e])
    BY <1>0, SetStateNoNews DEF Put
  <2>3. \A e \in VMs : NoNews(p[e], ConnectFail(p)[e])
    BY <2>1, ConnectFailNoNews
  <2>4. \A e \in VMs : NoNews(page[e], ConnectFail(p)[e])
    BY <2>2, <2>3 DEF NoNews
  <2>5. page' \in {page, ConnectFail(p)}
    BY <1>3 DEF tick
  <2>6. UNCHANGED <<row, sock, list>>
    BY <1>3 DEF tick
  <2> QED BY <1>0, <2>4, <2>5, <2>6
<1>4. ASSUME NEW d \in VMs, TabStep(d) \/ watchBegins(d)
      PROVE  UNCHANGED <<row, sock, list, page>>
  BY <1>4 DEF TabStep, tabLoads, tabReady, changeUserState, tabEnds, watchBegins, TabOnly
<1>5. ASSUME NEW d \in VMs, watchEnds(d)
      PROVE  /\ UNCHANGED <<row, sock, list>>
             /\ \E q \in Cells : (page' = [page EXCEPT ![d] = q]) /\ NoNews(page[d], q)
  <2>1. NoNews(page[d], SetState(page[d], page[d].stable))
    BY <1>0, SetStateNoNews
  <2>2. SetState(page[d], page[d].stable) \in Cells
    BY <1>0, SetStateFacts DEF Cells, UserStates
  <2> QED BY <1>5, <2>1, <2>2 DEF watchEnds, Put
<1>6. ASSUME NEW d \in VMs, NEW q \in Cells, page' = [page EXCEPT ![d] = q], NoNews(page[d], q)
      PROVE  \A e \in VMs : NoNews(page[e], page'[e])
  BY <1>0, <1>6
<1> QED BY <1>0, <1>1, <1>2, <1>3, <1>4, <1>5, <1>6 DEF BrowserStep

\* Those steps keep the invariant.
LEMMA BrowserStepKeeps == BInv /\ TypeOK' /\ BrowserStep => BInv'
<1> SUFFICES ASSUME BInv, TypeOK', BrowserStep PROVE BInv'
  OBVIOUS
<1>1. UNCHANGED <<row, sock, list>> /\ \A d \in VMs : NoNews(page[d], page'[d])
  BY BrowserStepFacts DEF BInv
<1>2. Listening' /\ LastTrue' /\ ReadTrue'
  BY <1>1 DEF BInv, Listening, LastTrue, LastOf, ReadTrue, Waiting
<1>3. NotYet'
  BY <1>1 DEF BInv, NotYet, NoNews
<1>4. \A d \in VMs : (Believed(d)' => Believed(d)) /\ (Waiting(d)' <=> Waiting(d))
  BY <1>1 DEF NoNews, Believed, Waiting
<1>5. BeliefTrue'
  BY <1>1, <1>4 DEF BInv, BeliefTrue
<1> QED BY <1>2, <1>3, <1>5 DEF BInv

\* A change of a row is notified, as long as the websocket is open.
LEMMA RowChangesKeeps ==
  ASSUME BInv, TypeOK', NEW d \in VMs, rowChanges(d)
  PROVE  BInv'
<1>1. UNCHANGED <<list, page>> /\ \A e \in VMs \ {d} : row'[e] = row[e]
  BY DEF rowChanges, BInv, TypeOK
<1>2. sock'.chan = sock.chan /\ sock'.state = sock.state
  BY DEF rowChanges, BInv, TypeOK
<1>3. sock'.notes = IF sock.state = "open" THEN sock.notes \cup {d} ELSE sock.notes
  BY DEF rowChanges, BInv, TypeOK
<1>4. Listening' /\ NotYet'
  BY <1>1, <1>2, <1>3 DEF BInv, Listening, NotYet
<1>5. sock.chan \in Seq([id : VMs, state : UserStates])
  BY DEF BInv, TypeOK
<1>6. LastTrue'
  <2>1. CASE sock.state = "open"
    <3>1. \A k \in DOMAIN sock.chan : sock.chan[k].id \in VMs
      <4>1. sock.chan \in [1..Len(sock.chan) -> [id : VMs, state : UserStates]]
        BY <1>5, LenProperties
      <4> QED BY <4>1
    <3> QED BY <1>1, <1>2, <1>3, <2>1, <3>1 DEF BInv, LastTrue, LastOf
  <2>2. CASE sock.state # "open"
    BY <1>2, <2>2 DEF BInv, Listening, LastTrue
  <2> QED BY <2>1, <2>2
<1>7. sock.state = "open" => \A e \in VMs : Waiting(e)' <=> (e = d \/ Waiting(e))
  BY <1>2, <1>3 DEF Waiting
<1>8. ReadTrue' /\ BeliefTrue'
  <2>1. \A e \in VMs : Believed(e)' <=> Believed(e)
    BY <1>1 DEF Believed
  <2> QED BY <1>1, <1>2, <1>7, <2>1 DEF BInv, ReadTrue, BeliefTrue
<1> QED BY <1>4, <1>6, <1>8 DEF BInv

\* The websocket sends the state that the row has then.
LEMMA PushKeeps ==
  ASSUME BInv, TypeOK', NEW d \in VMs, push(d)
  PROVE  BInv'
<1> DEFINE m == [id |-> d, state |-> row[d]]
           n == Len(sock.chan)
<1>1. /\ sock.state = "open" /\ d \in sock.notes
      /\ UNCHANGED <<row, list, page>>
      /\ sock'.state = sock.state /\ sock'.notes = sock.notes \ {d}
      /\ sock'.chan = Append(sock.chan, m)
  BY DEF push, BInv, TypeOK
<1>2. sock.chan \in Seq([id : VMs, state : UserStates]) /\ m \in [id : VMs, state : UserStates]
  BY DEF BInv, TypeOK
<1>3. /\ n \in Nat /\ DOMAIN sock.chan = 1..n
      /\ DOMAIN sock'.chan = 1..(n + 1)
      /\ \A k \in 1..n : sock'.chan[k] = sock.chan[k]
      /\ sock'.chan[n + 1] = m
  <2>1. Append(sock.chan, m) \in Seq([id : VMs, state : UserStates])
    BY <1>2, AppendProperties
  <2> QED BY <1>1, <1>2, <2>1, AppendProperties, LenProperties
<1>4. m.id = d /\ m.state = row[d]
  OBVIOUS
<1> HIDE DEF m, n
<1>5. Listening' /\ NotYet'
  BY <1>1 DEF BInv, Listening, NotYet
<1>6. LastTrue'
  <2> SUFFICES ASSUME NEW k \in DOMAIN sock'.chan, sock'.chan[k].id \notin sock'.notes, LastOf(k)'
               PROVE  sock'.chan[k].state = row[sock'.chan[k].id]
    BY <1>1 DEF LastTrue
  <2>1. CASE k = n + 1
    BY <1>3, <1>4, <2>1
  <2>2. CASE k \in 1..n
    <3>1. sock.chan[k].id # d
      BY <1>3, <1>4, <2>2 DEF LastOf
    <3>2. LastOf(k) /\ sock.chan[k].id \notin sock.notes
      BY <1>1, <1>3, <2>2, <3>1 DEF LastOf
    <3> QED BY <1>3, <2>2, <3>2 DEF BInv, LastTrue
  <2> QED BY <1>3, <2>1, <2>2
<1>7. \A e \in VMs : Waiting(e) => Waiting(e)'
  BY <1>1, <1>3, <1>4 DEF Waiting
<1>8. ReadTrue' /\ BeliefTrue'
  BY <1>1, <1>7 DEF BInv, ReadTrue, BeliefTrue, Believed
<1> QED BY <1>5, <1>6, <1>8 DEF BInv

\* The websocket listens, or is closed when nothing is on its way.
LEMMA SocketKeeps == ASSUME BInv, TypeOK', listens \/ idle PROVE BInv'
<1>1. /\ UNCHANGED <<row, list, page>> /\ sock'.notes = {} /\ sock'.chan = sock.chan
      /\ sock'.state = "open" => sock.state = "opening" /\ list.phase = "asked"
      /\ sock'.state # "open" => sock'.chan = <<>>
      /\ sock'.state # "opening"
  BY DEF listens, idle, BInv, TypeOK, Listening
<1>2. sock.chan = <<>>
  BY DEF listens, idle, BInv, Listening
<1> QED BY <1>1, <1>2
       DEF BInv, Listening, NotYet, LastTrue, ReadTrue, BeliefTrue

\* The list is read once the websocket listens.
LEMMA ListReadKeeps == ASSUME "early" \notin Faults, BInv, TypeOK', listRead PROVE BInv'
<1>1. /\ list.phase = "asked" /\ list'.phase = "read" /\ list'.rows = row
      /\ UNCHANGED <<row, sock, page>> /\ sock.state = "open"
  BY DEF listRead
<1> QED BY <1>1
       DEF BInv, Listening, NotYet, LastTrue, LastOf, ReadTrue, BeliefTrue

\* The list arrives: it is shown as it was read.
LEMMA ListArrivesKeeps == ASSUME BInv, TypeOK', listArrives PROVE BInv'
<1>1. /\ list.phase = "read" /\ list'.phase = "shown" /\ UNCHANGED <<row, sock>>
      /\ list.rows \in [VMs -> UserStates] /\ page \in [VMs -> Cells]
  BY DEF listArrives, BInv, TypeOK, Cells
<1>2. ASSUME NEW d \in VMs, list.rows[d] = "disconnected" PROVE ~Believed(d)'
  <2> DEFINE p == [page[d] EXCEPT !.state = list.rows[d]]
  <2>1. p \in Cells
    BY <1>1 DEF Cells
  <2>2. page'[d] = SetState(p, list.rows[d])
    BY DEF listArrives
  <2>3. page'[d].state = "disconnected" /\ page'[d].stable = "disconnected"
    BY <1>2, <2>1, <2>2, SetStateFacts DEF UserStates, Stable
  <2> QED BY <2>3 DEF Believed
<1>3. \A d \in VMs : Waiting(d)' <=> Waiting(d)
  BY <1>1 DEF Waiting
<1>4. BeliefTrue'
  BY <1>1, <1>2, <1>3 DEF BInv, ReadTrue, BeliefTrue
<1> QED BY <1>1, <1>4 DEF BInv, Listening, NotYet, LastTrue, LastOf, ReadTrue

\* A message arrives: if it is the last about its desktop, it is true.
LEMMA ReceiveKeeps == ASSUME "early" \notin Faults, BInv, TypeOK', receive PROVE BInv'
<1> DEFINE n == Len(sock.chan)
<1>m. PICK m \in [id : VMs, state : UserStates] : m = Head(sock.chan)
  <2>1. sock.chan # <<>> /\ sock.chan \in Seq([id : VMs, state : UserStates])
    BY DEF receive, BInv, TypeOK
  <2> QED BY <2>1, HeadTailProperties
<1>1. /\ list.phase = "shown" /\ UNCHANGED <<row, list>>
      /\ sock.chan # <<>> /\ sock'.chan = Tail(sock.chan)
      /\ sock'.state = sock.state /\ sock'.notes = sock.notes
      /\ page' = Put(m.id, m.state)
  BY <1>m DEF receive, BInv, TypeOK
<1>2. sock.chan \in Seq([id : VMs, state : UserStates]) /\ page \in [VMs -> Cells]
  BY DEF BInv, TypeOK, Cells
<1>3. /\ n \in Nat \ {0} /\ DOMAIN sock.chan = 1..n /\ m = sock.chan[1]
      /\ m \in [id : VMs, state : UserStates]
      /\ DOMAIN sock'.chan = 1..(n - 1)
      /\ \A k \in 1..(n - 1) : sock'.chan[k] = sock.chan[k + 1]
  <2>1. /\ Tail(sock.chan) \in Seq([id : VMs, state : UserStates])
        /\ Len(Tail(sock.chan)) = n - 1
        /\ \A i \in 1..Len(Tail(sock.chan)) : Tail(sock.chan)[i] = sock.chan[i + 1]
    BY <1>1, <1>2, HeadTailProperties
  <2>2. n \in Nat /\ DOMAIN sock.chan = 1..n
    BY <1>2, LenProperties
  <2>3. n # 0
    BY <1>1, <1>2, EmptySeq
  <2>4. DOMAIN Tail(sock.chan) = 1..(n - 1)
    BY <2>1, LenProperties
  <2>5. m = sock.chan[1]
    BY <1>m, <1>1, <1>2
  <2> HIDE DEF n
  <2> QED BY <1>1, <2>1, <2>2, <2>3, <2>4, <2>5
<1> HIDE DEF n
<1>4. m.id \in VMs /\ m.state \in UserStates
  BY <1>3
<1>5. Listening' /\ NotYet' /\ ReadTrue'
  <2>1. sock.state = "open"
    BY <1>1 DEF BInv, Listening
  <2> QED BY <1>1, <2>1 DEF BInv, Listening, NotYet, ReadTrue
<1>6. LastTrue'
  <2> SUFFICES ASSUME NEW k \in DOMAIN sock'.chan, sock'.chan[k].id \notin sock'.notes, LastOf(k)'
               PROVE  sock'.chan[k].state = row[sock'.chan[k].id]
    BY <1>1 DEF LastTrue
  <2>1. k \in 1..(n - 1) /\ k + 1 \in 1..n /\ sock'.chan[k] = sock.chan[k + 1]
    BY <1>3
  <2>2. LastOf(k + 1)
    <3> SUFFICES ASSUME NEW j \in 1..n, j > k + 1 PROVE sock.chan[j].id # sock.chan[k + 1].id
      BY <1>3 DEF LastOf
    <3>1. j - 1 \in 1..(n - 1) /\ j - 1 > k /\ (j - 1) + 1 = j
      BY <1>3, <2>1
    <3>2. sock'.chan[j - 1] = sock.chan[j]
      BY <1>3, <3>1
    <3> QED BY <1>3, <2>1, <3>1, <3>2 DEF LastOf
  <2> QED BY <1>1, <1>3, <2>1, <2>2 DEF BInv, LastTrue
<1>7. \A d \in VMs \ {m.id} : Waiting(d)' <=> Waiting(d)
  <2> TAKE d \in VMs \ {m.id}
  <2>1. \A k \in 1..n : sock.chan[k].id = d => k - 1 \in 1..(n - 1) /\ sock'.chan[k - 1] = sock.chan[k]
    <3> SUFFICES ASSUME NEW k \in 1..n, sock.chan[k].id = d
                 PROVE  k - 1 \in 1..(n - 1) /\ sock'.chan[k - 1] = sock.chan[k]
      OBVIOUS
    <3>1. k # 1
      BY <1>3
    <3>2. k - 1 \in 1..(n - 1) /\ (k - 1) + 1 = k
      BY <1>3, <3>1
    <3> QED BY <1>3, <3>2
  <2>2. \A k \in 1..(n - 1) : k + 1 \in 1..n /\ sock'.chan[k] = sock.chan[k + 1]
    BY <1>3
  <2>3. sock'.notes = sock.notes
    BY <1>1
  <2>4. Waiting(d) => Waiting(d)'
    BY <1>3, <2>1, <2>3 DEF Waiting
  <2>5. Waiting(d)' => Waiting(d)
    BY <1>3, <2>2, <2>3 DEF Waiting
  <2> QED BY <2>4, <2>5
<1>8. ~Waiting(m.id)' => m.state = row[m.id]
  <2> SUFFICES ASSUME ~Waiting(m.id)' PROVE m.state = row[m.id]
    OBVIOUS
  <2>1. m.id \notin sock.notes
    BY <1>1 DEF Waiting
  <2>2. LastOf(1)
    <3> SUFFICES ASSUME NEW j \in 1..n, j > 1 PROVE sock.chan[j].id # m.id
      BY <1>3 DEF LastOf
    <3>1. j - 1 \in 1..(n - 1) /\ (j - 1) + 1 = j
      BY <1>3
    <3>2. sock'.chan[j - 1] = sock.chan[j]
      BY <1>3, <3>1
    <3> QED BY <1>3, <3>1, <3>2 DEF Waiting
  <2>3. 1 \in DOMAIN sock.chan
    BY <1>3
  <2> QED BY <1>3, <2>1, <2>2, <2>3 DEF BInv, LastTrue
<1>9. \A d \in VMs \ {m.id} : Believed(d)' <=> Believed(d)
  BY <1>1, <1>2 DEF Put, Believed
<1>10. m.state = "disconnected" => ~Believed(m.id)'
  <2> SUFFICES ASSUME m.state = "disconnected" PROVE ~Believed(m.id)'
    OBVIOUS
  <2>1. page'[m.id] = SetState(page[m.id], m.state)
    BY <1>1, <1>2, <1>4 DEF Put
  <2>2. page'[m.id].state = "disconnected" /\ page'[m.id].stable = "disconnected"
    BY <1>2, <1>4, <2>1, SetStateFacts DEF UserStates, Stable
  <2> QED BY <2>2 DEF Believed
<1>11. BeliefTrue'
  BY <1>1, <1>4, <1>7, <1>8, <1>9, <1>10 DEF BInv, BeliefTrue
<1> QED BY <1>5, <1>6, <1>11 DEF BInv

\* Every step keeps the invariant, when the list is read after the websocket listens.
LEMMA BeliefStep == "early" \notin Faults /\ BInv /\ [Next]_vars => BInv'
<1> SUFFICES ASSUME "early" \notin Faults, BInv, [Next]_vars PROVE BInv'
  OBVIOUS
<1>1. TypeOK'
  BY TypeStep DEF BInv
<1>2. CASE UNCHANGED vars
  BY <1>1, <1>2
     DEF vars, BInv, Listening, NotYet, LastTrue, LastOf, ReadTrue, BeliefTrue, Waiting, Believed
<1>3. ASSUME NEW d \in VMs, rowChanges(d) \/ push(d) PROVE BInv'
  BY <1>1, <1>3, RowChangesKeeps, PushKeeps
<1>4. CASE listens \/ idle
  BY <1>1, <1>4, SocketKeeps
<1>5. CASE listRead \/ listArrives \/ receive
  BY <1>1, <1>5, ListReadKeeps, ListArrivesKeeps, ReceiveKeeps
<1>6. CASE BrowserStep
  BY <1>1, <1>6, BrowserStepKeeps
<1> QED BY <1>2, <1>3, <1>4, <1>5, <1>6 DEF Next, BrowserStep

\* When the list is asked for nothing is on its way and nothing is believed.
LEMMA BeliefInit == Init => BInv
<1> SUFFICES ASSUME Init PROVE BInv
  OBVIOUS
<1>1. TypeOK
  BY TypeInit
<1>2. NULL # "connected"
  BY DesktopsAssumption
<1> QED BY <1>1, <1>2 DEF Init, BInv, Listening, NotYet, LastTrue, ReadTrue, BeliefTrue

\* startConnectionTimeoutHTML5 puts the last stable state back long after the connection
\* was asked for, and the list never shows a desktop as connected that it has been told
\* is disconnected: whatever fails, unless the list is read before the websocket listens.
THEOREM ConnectedAlwaysTrue == "early" \notin Faults => (Spec => []ConnectedTrue)
<1> SUFFICES ASSUME "early" \notin Faults PROVE Spec => []ConnectedTrue
  OBVIOUS
<1>1. BInv /\ [Next]_vars => BInv'
  BY BeliefStep
<1>2. BInv => ConnectedTrue
  BY DEF BInv, BeliefTrue, Believed, Waiting, ConnectedTrue, Informed
<1> QED BY <1>1, <1>2, BeliefInit, PTL DEF Spec
=============================================================================

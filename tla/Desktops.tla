------------------------------ MODULE Desktops ------------------------------
(***************************************************************************)
(* The list of desktops of the user portal (Up.Views.DesktopsView): the    *)
(* state it shows of each desktop, the connections the user asks for, with *)
(* the classic client or in a window of the browser, the timers that watch *)
(* them, and the websocket that tells of changes in the database.          *)
(*                                                                         *)
(* A callback is one step.  The list stays the current view.               *)
(***************************************************************************)
EXTENDS Integers, Sequences

CONSTANTS
    VMs,         \* the desktops of the user
    Clients,     \* Clients[d]: the clients the settings of d may name
    Timeout,     \* CONNECTION_TIMEOUT, in ticks
    MaxTimers,   \* bound: intervals of a desktop that run at once
    MaxMsgs,     \* bound: messages on their way to the list
    NULL,
    Faults

\* early: the list is read before the websocket listens, or arrives after
\* its first message.  net: a request fails.  absent: the browser finds no
\* client for the qvd: protocol.  idle: the websocket is closed because
\* nothing happens for a long time.
FaultKinds == {"early", "net", "absent", "idle"}

ASSUME DesktopsAssumption ==
    /\ Clients \in [VMs -> SUBSET {"classic", "html5"}]
    /\ {Timeout, MaxTimers, MaxMsgs} \subseteq Nat \ {0}
    /\ NULL \notin VMs \cup {"connected", "disconnected", "connecting"}
    /\ Faults \subseteq FaultKinds

VARIABLES
    row,     \* row[d]: user_state of the runtime row of d
    sock,    \* the websocket of the list and the part of the API behind it
    list,    \* the request for the list
    page,    \* page[d]: what the list keeps for d, and shows
    timer,   \* timer[d]: the intervals of startConnectionTimeoutClassic
    last,    \* connectingDesktopId
    told,    \* the cookie dontShowFirstConnectionMsg
    tab      \* tab[d]: the window for d, its cookie and who watches it

vars == <<row, sock, list, page, timer, last, told, tab>>

Stable == {"connected", "disconnected"}
UserStates == Stable \cup {"connecting"}
Trying == {"connecting", "reconnecting"}
Handles == 1..MaxTimers
-----------------------------------------------------------------------------
(***************************************************************************)
(* The database, and the websocket /api/ws/desktops.  A change of the row  *)
(* puts a notification in the queue of the socket; every two seconds the   *)
(* queue is emptied and the state that the row has then is sent.           *)
(***************************************************************************)
Follows == [disconnected |-> {"connecting"},
            connecting |-> {"connected", "disconnected"},
            connected |-> {"connecting", "disconnected"}]

rowChanges(d) ==
    /\ \E s \in Follows[row[d]] : row' = [row EXCEPT ![d] = s]
    /\ sock' = IF sock.state = "open" THEN [sock EXCEPT !.notes = @ \cup {d}] ELSE sock
    /\ UNCHANGED <<list, page, timer, last, told, tab>>

listens ==
    /\ sock.state = "opening"
    /\ sock' = [sock EXCEPT !.state = "open"]
    /\ UNCHANGED <<row, list, page, timer, last, told, tab>>

push(d) ==
    /\ sock.state = "open"
    /\ d \in sock.notes
    /\ Len(sock.chan) < MaxMsgs
    /\ sock' = [sock EXCEPT !.notes = @ \ {d},
                            !.chan = Append(@, [id |-> d, state |-> row[d]])]
    /\ UNCHANGED <<row, list, page, timer, last, told, tab>>

(* inactivity_timeout; nothing in the browser opens the socket again. *)
idle ==
    /\ "idle" \in Faults
    /\ sock.state = "open" /\ sock.notes = {} /\ sock.chan = <<>>
    /\ sock' = [sock EXCEPT !.state = "closed"]
    /\ UNCHANGED <<row, list, page, timer, last, told, tab>>

(* The API reads the rows for the list. *)
listRead ==
    /\ list.phase = "asked"
    /\ "early" \in Faults \/ sock.state = "open"
    /\ list' = [phase |-> "read", rows |-> row]
    /\ UNCHANGED <<row, sock, page, timer, last, told, tab>>
-----------------------------------------------------------------------------
(***************************************************************************)
(* setDesktopState, on what the list keeps for a desktop: state, which is  *)
(* data-state of its cell, and stable, lastStableState of its model.       *)
(***************************************************************************)
(* Mutant: only a connection is remembered. *)
SetStateForgets(p, s) ==
    [p EXCEPT !.stable = IF s = "connected" THEN s ELSE @,
              !.state = IF s = "connecting" /\ @ \in {"connected", "reconnecting"}
                        THEN "reconnecting" ELSE s]

SetState(p, s) ==
    [p EXCEPT !.stable = IF s \in Stable THEN s ELSE @,
              !.state = IF s = "connecting" /\ @ \in {"connected", "reconnecting"}
                        THEN "reconnecting" ELSE s]

Put(d, s) == [page EXCEPT ![d] = SetState(@, s)]

(* connectDesktopFail, after what has been done to p: the desktop that the
   last connection was for is disconnected. *)
ConnectFail(p) ==
    IF last = NULL THEN p ELSE [p EXCEPT ![last] = SetState(@, "disconnected")]

(* The list arrives: renderList draws the cells, and setAllDesktopsState. *)
listArrives ==
    /\ list.phase = "read"
    /\ list' = [phase |-> "shown", rows |-> NULL]
    /\ page' = [d \in VMs |-> SetState([page[d] EXCEPT !.state = list.rows[d]], list.rows[d])]
    /\ UNCHANGED <<row, sock, timer, last, told, tab>>

(* changeWebsocketDesktops; without the list there is no model, it throws. *)
receive ==
    /\ sock.chan # <<>>
    /\ "early" \in Faults \/ list.phase = "shown"
    /\ LET m == Head(sock.chan)
       IN  page' = IF list.phase = "shown" THEN Put(m.id, m.state) ELSE page
    /\ sock' = [sock EXCEPT !.chan = Tail(@)]
    /\ UNCHANGED <<row, list, timer, last, told, tab>>
-----------------------------------------------------------------------------
(***************************************************************************)
(* A connection.  Two requests, for a token and for the settings, come     *)
(* before the client is called; page[d].call is the one on its way, or the *)
(* message that is shown before the first connection.                      *)
(***************************************************************************)
(* The bound is one connection of a desktop being prepared at a time. *)
connectDesktop(d) ==
    /\ list.phase = "shown"
    /\ page[d].call = NULL
    /\ \A e \in VMs : page[e].call # "message"
    /\ page' = [page EXCEPT ![d].call = "token"]
    /\ UNCHANGED <<row, sock, list, timer, last, told, tab>>

(* The token.  A request that fails without an answer has status 0, which is
   taken for success. *)
tokenArrives(d) ==
    /\ page[d].call = "token"
    /\ \/ page' = [page EXCEPT ![d].call = "setup"]
       \/ /\ "net" \in Faults
          /\ page' = [page EXCEPT ![d].call = NULL]
    /\ UNCHANGED <<row, sock, list, timer, last, told, tab>>

(* startConnectionTimeoutClassic: a new object with a count and the handle of
   a new interval takes the place of the old object; the interval of that one
   goes on. *)
StartTimer(d, h) ==
    timer' = [timer EXCEPT ![d] = [newest |-> h, count |-> 0, live |-> @.live \cup {h}]]

(* connectDesktopClassic *)
ConnectClassic(d) ==
    /\ \E h \in Handles \ timer[d].live : StartTimer(d, h)
    /\ last' = d
    /\ UNCHANGED tab

(* connectDesktopHTML5 and startConnectionTimeoutHTML5; a second window for d
   is the same window here. *)
ConnectHTML5(d) ==
    /\ tab' = [tab EXCEPT ![d] = [@ EXCEPT !.phase = "opening",
                                              !.watch = tab[d].watch \cup {"wait"}]]
    /\ UNCHANGED <<timer, last>>

(* The settings.  A failure is noticed, or throws, before anything is done. *)
setupArrives(d) ==
    /\ page[d].call = "setup"
    /\ LET shown == SetState([page[d] EXCEPT !.call = NULL], "connecting")
       IN  \/ /\ "classic" \in Clients[d] /\ told
              /\ page' = [page EXCEPT ![d] = shown]
              /\ ConnectClassic(d)
           \/ /\ "classic" \in Clients[d] /\ ~told
              /\ page' = [page EXCEPT ![d] =
                            [SetState(shown, "disconnected") EXCEPT !.call = "message"]]
              /\ UNCHANGED <<timer, last, tab>>
           \/ /\ "html5" \in Clients[d]
              /\ page' = [page EXCEPT ![d] = shown]
              /\ ConnectHTML5(d)
           \/ /\ "net" \in Faults
              /\ page' = [page EXCEPT ![d].call = NULL]
              /\ UNCHANGED <<timer, last, tab>>
    /\ UNCHANGED <<row, sock, list, told>>

(* "Connect" in showClassicClientMessage, with or without "never again" *)
messageConnect(d) ==
    /\ page[d].call = "message"
    /\ page' = [page EXCEPT ![d] = SetState([@ EXCEPT !.call = NULL], "connecting")]
    /\ told' \in {told, TRUE}
    /\ ConnectClassic(d)
    /\ UNCHANGED <<row, sock, list>>

messageCancel(d) ==
    /\ page[d].call = "message"
    /\ page' = [page EXCEPT ![d].call = NULL]
    /\ told' \in {told, TRUE}
    /\ UNCHANGED <<row, sock, list, timer, last, tab>>

(* protocolCheck calls connectDesktopFail. *)
protocolFails ==
    /\ "absent" \in Faults
    /\ last # NULL
    /\ timer[last].newest # NULL
    /\ page' = ConnectFail(page)
    /\ UNCHANGED <<row, sock, list, timer, last, told, tab>>
-----------------------------------------------------------------------------
(***************************************************************************)
(* A tick of the interval h of desktop d.  The callback looks at the       *)
(* newest object, and throws when that has been deleted.                   *)
(***************************************************************************)
\* The interval of the newest object is cleared.
Cleared(t) == [t EXCEPT !.live = @ \ {t.newest}]

(* Mutant: after the timeout the interval goes on. *)
TickOn(d, h) ==
    /\ h \in timer[d].live
    /\ timer[d].newest # NULL
    /\ \/ /\ page[d].state = "connected"
          /\ timer' = [timer EXCEPT ![d] = Cleared(@)]
          /\ UNCHANGED page
       \/ /\ page[d].state # "connected"
          /\ timer' = [timer EXCEPT ![d].count = @ + 1]
          /\ page' = IF timer[d].count + 1 >= Timeout
                     THEN ConnectFail(Put(d, "disconnected")) ELSE page
    /\ UNCHANGED <<row, sock, list, last, told, tab>>

(* Mutant: a desktop that is not connected is counted for ever. *)
TickNoLimit(d, h) ==
    /\ h \in timer[d].live
    /\ timer[d].newest # NULL
    /\ page[d].state = "connected"
    /\ timer' = [timer EXCEPT ![d] = Cleared(@)]
    /\ UNCHANGED <<row, sock, list, page, last, told, tab>>

tick(d, h) ==
    /\ h \in timer[d].live
    /\ timer[d].newest # NULL
    /\ \/ /\ page[d].state = "connected"
          /\ timer' = [timer EXCEPT ![d] = Cleared(@)]
          /\ UNCHANGED page
       \/ /\ page[d].state # "connected"
          /\ timer[d].count + 1 < Timeout
          /\ timer' = [timer EXCEPT ![d].count = @ + 1]
          /\ UNCHANGED page
       \/ /\ page[d].state # "connected"
          /\ timer[d].count + 1 >= Timeout
          /\ page' = ConnectFail(Put(d, "disconnected"))
          /\ timer' = [timer EXCEPT ![d] = [Cleared(@) EXCEPT !.newest = NULL, !.count = 0]]
    /\ UNCHANGED <<row, sock, list, last, told, tab>>
-----------------------------------------------------------------------------
(***************************************************************************)
(* The window of a desktop (DesktopConnectView), which tells the list with *)
(* a cookie that it is connecting.                                         *)
(***************************************************************************)
\* Steps of the window leave everything else alone.
TabOnly == UNCHANGED <<row, sock, list, page, timer, last, told>>

(* initialize: the window has loaded. *)
tabLoads(d) ==
    /\ tab[d].phase = "opening"
    /\ tab' = [tab EXCEPT ![d] = [@ EXCEPT !.phase = "loading", !.cookie = TRUE]]
    /\ TabOnly

(* The machine is stopped or running, connectionLevel is CL_READY. *)
tabReady(d) ==
    /\ tab[d].phase = "loading"
    /\ tab' = [tab EXCEPT ![d].phase = "ready"]
    /\ TabOnly

(* changeUserState with "connected" *)
changeUserState(d) ==
    /\ tab[d].phase = "ready"
    /\ row[d] = "connected"
    /\ tab' = [tab EXCEPT ![d] = [@ EXCEPT !.phase = "shown", !.cookie = FALSE]]
    /\ TabOnly

(* The connection ends (log of noVNC), or the window is closed. *)
tabEnds(d) ==
    /\ tab[d].phase \in {"loading", "ready", "shown"}
    /\ tab' = [tab EXCEPT ![d] = [@ EXCEPT !.phase = "none", !.cookie = FALSE]]
    /\ TabOnly

(* startConnectionTimeoutHTML5: after three seconds an interval begins, *)
watchBegins(d) ==
    /\ "wait" \in tab[d].watch
    /\ tab' = [tab EXCEPT ![d].watch = (@ \ {"wait"}) \cup {"poll"}]
    /\ TabOnly

(* and puts the last stable state back when there is no cookie. *)
watchEnds(d) ==
    /\ "poll" \in tab[d].watch
    /\ ~tab[d].cookie
    /\ page' = Put(d, page[d].stable)
    /\ tab' = [tab EXCEPT ![d].watch = @ \ {"poll"}]
    /\ UNCHANGED <<row, sock, list, timer, last, told>>
-----------------------------------------------------------------------------
(* render asks for the list and afterRender opens the websocket. *)
Init ==
    /\ row \in [VMs -> UserStates]
    /\ sock = [state |-> "opening", notes |-> {}, chan |-> <<>>]
    /\ list = [phase |-> "asked", rows |-> NULL]
    /\ page = [d \in VMs |-> [state |-> NULL, stable |-> NULL, call |-> NULL]]
    /\ timer = [d \in VMs |-> [newest |-> NULL, count |-> 0, live |-> {}]]
    /\ last = NULL
    /\ told \in BOOLEAN
    /\ tab = [d \in VMs |-> [phase |-> "none", cookie |-> FALSE, watch |-> {}]]

TabStep(d) == tabLoads(d) \/ tabReady(d) \/ changeUserState(d) \/ tabEnds(d)

Next ==
    \/ listens \/ idle \/ listRead \/ listArrives \/ receive \/ protocolFails
    \/ \E d \in VMs :
          \/ rowChanges(d) \/ push(d)
          \/ connectDesktop(d) \/ tokenArrives(d) \/ setupArrives(d)
          \/ messageConnect(d) \/ messageCancel(d)
          \/ \E h \in Handles : tick(d, h)
          \/ TabStep(d) \/ watchBegins(d) \/ watchEnds(d)

Spec == Init /\ [][Next]_vars

\* L7R ends an attempt one way or the other, the API and the browser go on,
\* intervals tick, and a window does not connect for ever.
Fairness ==
    /\ WF_vars(receive)
    /\ \A d \in VMs :
          /\ WF_vars(row[d] = "connecting" /\ rowChanges(d))
          /\ WF_vars(push(d))
          /\ \A h \in Handles : WF_vars(tick(d, h))
          /\ WF_vars(TabStep(d)) /\ WF_vars(tabEnds(d))
          /\ WF_vars(watchBegins(d)) /\ WF_vars(watchEnds(d))

FairSpec == Spec /\ Fairness
-----------------------------------------------------------------------------
(* The state has its types; a count never goes past the timeout. *)
TypeOK ==
    /\ row \in [VMs -> UserStates]
    /\ sock \in [state : {"opening", "open", "closed"}, notes : SUBSET VMs,
                 chan : Seq([id : VMs, state : UserStates])]
    /\ Len(sock.chan) <= MaxMsgs
    /\ list \in [phase : {"asked", "shown"}, rows : {NULL}]
                  \cup [phase : {"read"}, rows : [VMs -> UserStates]]
    /\ page \in [VMs -> [state : UserStates \cup {"reconnecting", NULL},
                         stable : Stable \cup {NULL},
                         call : {NULL, "token", "setup", "message"}]]
    /\ timer \in [VMs -> [newest : Handles \cup {NULL}, count : 0..(Timeout - 1),
                          live : SUBSET Handles]]
    /\ last \in VMs \cup {NULL}
    /\ told \in BOOLEAN
    /\ tab \in [VMs -> [phase : {"none", "opening", "loading", "ready", "shown"},
                        cookie : BOOLEAN, watch : SUBSET {"wait", "poll"}]]

\* The list knows of the last change of d, and nothing is being done to d.
Informed(d) == /\ list.phase = "shown"
               /\ d \notin sock.notes
               /\ \A k \in DOMAIN sock.chan : sock.chan[k].id # d

AtRest(d) == /\ Informed(d)
             /\ page[d].call = NULL
             /\ timer[d].live = {}
             /\ tab[d].watch = {}

(* setDesktopState, changeWebsocketDesktops and the two timeouts: the list
   shows the state a desktop has, once the changes have arrived and no
   connection is being watched.  It does not hold: README, section 6. *)
ShownCurrent == \A d \in VMs : (AtRest(d) /\ row[d] \in Stable) => page[d].state = row[d]

(* startConnectionTimeoutHTML5 puts back the last stable state long after
   the connection was asked for: it never shows a desktop as connected that
   the list has been told is disconnected. *)
ConnectedTrue == \A d \in VMs :
    (Informed(d) /\ sock.state = "open" /\ page[d].state = "connected")
       => row[d] # "disconnected"

(* The timeouts of a connection: a desktop that nobody connects to any more,
   here or with another client, does not stay shown as connecting, although
   clients do not start, windows are closed and connections fail, as long as
   the API does not close the websocket. *)
ConnectingEnds == \A d \in VMs :
    <>[](row[d] \in Stable /\ page[d].call = NULL /\ sock.state # "closed")
       => <>[](page[d].state \notin Trying)

(* startConnectionTimeoutClassic: the timeout of a desktop is about that
   desktop.  It does not hold: README, section 6. *)
FailOwn == [][\A d \in VMs, e \in VMs, h \in Handles :
                (tick(d, h) /\ e # d) => page'[e] = page[e]]_vars

(* startConnectionTimeoutClassic: an interval that finds its desktop
   connected breaks its countdown.  It does not hold: README, section 6. *)
CountdownBreaks == [][\A d \in VMs, h \in Handles :
                        (tick(d, h) /\ page[d].state = "connected")
                           => h \notin timer'[d].live]_vars
=============================================================================

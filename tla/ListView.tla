------------------------------ MODULE ListView ------------------------------
(***************************************************************************)
(* A list of the web administration tool (Wat.Views.ListView): the         *)
(* collection it shows a page of, the rows the administrator has selected, *)
(* the requests on their way and the array Wat.C.requests they are kept in *)
(* to be aborted, and what is drawn on the screen.                         *)
(*                                                                         *)
(* JavaScript runs one callback at a time: a click, an answer or a dialog  *)
(* button is one step, and an abort runs the callbacks of the request it   *)
(* aborts within the step.  An exception in a callback ends the step where *)
(* it is thrown.  The answers arrive in any order.                         *)
(***************************************************************************)
EXTENDS Integers, Sequences, FiniteSets, SequencesExt

CONSTANTS
    Ids,           \* the rows the table may hold
    Filters,       \* the values of the filter control
    Match,         \* Match[f]: the rows that pass the filter f
    Order,         \* Order[s]: the rows in the order of the sort s
    Block,         \* the rows of a page
    MaxSelectable, \* the limit of "Select all", maxSelectableItems
    Dependent,     \* the rows that cannot be deleted, others depend on them
    MaxXhr,        \* bound: requests on their way at once
    MaxRequests,   \* bound: entries in Wat.C.requests, which grows without limit
    NULL,
    Faults         \* what may happen besides an administrator who waits

\* impatient: the administrator acts while requests are on their way.
\* reorder: answers overtake each other.  others: another administrator
\* creates and deletes rows.  fail: a request fails.
FaultKinds == {"impatient", "reorder", "others", "fail"}

Sorts == DOMAIN Order

ASSUME ListAssumption ==
    /\ Match \in [Filters -> SUBSET Ids]
    /\ \E f \in Filters : Match[f] = Ids
    /\ Sorts # {} /\ Ids # {}
    /\ \A s \in Sorts : /\ Order[s] \in Seq(Ids)
                       /\ ToSet(Order[s]) = Ids
                       /\ IsInjective(Order[s])
    /\ {Block, MaxSelectable, MaxXhr, MaxRequests} \subseteq Nat \ {0}
    /\ Dependent \subseteq Ids
    /\ Faults \subseteq FaultKinds

VARIABLES
    table,   \* the rows in the database
    view,    \* the view and everything the browser keeps for it
    dialog   \* the modal dialog that is open

vars == <<table, view, dialog>>

\* The entry that a request which is over leaves in Wat.C.requests.
Done == 0

\* The modal dialogs: the choice of checkAll, before and after its second
\* button was used, the confirmation of an action on ids, and the offer to
\* delete what other rows depend on.
Dialog(kind) == [kind |-> kind, act |-> NULL, ids |-> <<>>]
NoDialog == Dialog("none")

Buttons == {"first", "prev", "next", "last"}
MassActions == {"delete", "update", "disconnect"}
Ceil(n, d) == (n + d - 1) \div d
-----------------------------------------------------------------------------
(***************************************************************************)
(* What the API answers to <qvdObj>_get_list.  It takes page 0 for no      *)
(* page, which gives the first rows.                                       *)
(***************************************************************************)
\* The elements of l that are in S, in their order.
Kept(l, S) ==
    LET kept[n \in 0..Len(l)] ==
            IF n = 0 THEN <<>>
            ELSE IF l[n] \in S THEN Append(kept[n - 1], l[n]) ELSE kept[n - 1]
    IN  kept[Len(l)]

Listed(t, f, s) == Kept(Order[s], t \cap Match[f])

PageOf(t, q) ==
    LET l == Listed(t, q.filters, q.sort)
        from == (IF q.offset < 1 THEN 0 ELSE q.offset - 1) * Block
    IN  SubSeq(l, from + 1, IF from + Block < Len(l) THEN from + Block ELSE Len(l))

(* getListUrl: what a fetch asks for. *)
Query(c) == [filters |-> c.filters, sort |-> c.sort, offset |-> c.offset]

(* parse, and the models that Backbone sets from the answer. *)
Parse(c, q) == [c EXCEPT !.models = PageOf(table, q), !.from = q,
                         !.total = Len(Listed(table, q.filters, q.sort))]
-----------------------------------------------------------------------------
(***************************************************************************)
(* Requests.  A fetch remembers the view it was made for: the view itself, *)
(* or a copy that filter makes of it, whose selectedItems is the array of  *)
(* the view until the view takes another one; sel is then what the old     *)
(* array holds.                                                            *)
(***************************************************************************)
FreshXhr(S) == CHOOSE n \in 1..(Len(S.wire) + 1) :
                  \A k \in DOMAIN S.wire : S.wire[k].id # n

(* $.ajax, with the beforeSend of setupJQuery; stored is how many times the
   request is put in Wat.C.requests. *)
Send(S, kind, q, ids, of, stored) ==
    LET x == [id |-> FreshXhr(S), kind |-> kind, q |-> q, ids |-> ids,
              copy |-> of.copy, sel |-> of.sel]
    IN  [S EXCEPT !.wire = Append(@, x),
                  !.requests = @ \o [k \in 1..stored |-> x.id]]

(* The request is over.  The complete of setupJQuery takes one entry of it
   out of Wat.C.requests, unless the request has a complete of its own or an
   exception comes before; the entries that are left name a dead request. *)
Over(S, x, completed) ==
    LET left == IF completed /\ x.kind # "list"
                THEN RemoveFirst(S.requests, x.id) ELSE S.requests
    IN  [S EXCEPT !.wire = RemoveAt(@, SelectInSeq(@, LAMBDA y : y.id = x.id)),
                  !.requests = [e \in DOMAIN left |->
                                  IF left[e] = x.id THEN Done ELSE left[e]]]

\* Without requests on their way only the parity of the dead entries can
\* still matter (see AbortRequests), and any history may have left either.
Forget(S) == IF S.wire = <<>>
             THEN {[S EXCEPT !.requests = r] : r \in {<<>>, <<Done>>}}
             ELSE {S}

\* What a fetch is made for.
TheView == [copy |-> FALSE, sel |-> NULL]
ACopy == [copy |-> TRUE, sel |-> NULL]

(* fetchList *)
FetchList(S, of) ==
    LET c == [S.coll EXCEPT !.models = <<>>, !.from = NULL]
    IN  Send([S EXCEPT !.coll = c], "list", Query(c), <<>>, of, 1)

(* The view gets a new array of selected items. *)
SetItems(S, items) ==
    [S EXCEPT !.items = items,
              !.wire = [k \in DOMAIN S.wire |->
                          IF S.wire[k].copy /\ S.wire[k].sel = NULL
                          THEN [S.wire[k] EXCEPT !.sel = S.items] ELSE S.wire[k]]]

(* paginationUpdate: the buttons that are disabled. *)
Disabled(c) ==
    LET pages == Ceil(c.total, Block)
    IN  IF pages <= 1 THEN Buttons
        ELSE IF c.offset = 1 THEN {"first", "prev"}
        ELSE IF c.offset = pages THEN {"next", "last"} ELSE {}

(* renderList on the view or the copy x was made for, with the pagination,
   the menu of the selected items and the websocket for the rows shown. *)
RenderList(S, x) ==
    LET items == IF x.sel = NULL THEN S.items ELSE x.sel
    IN  IF S.screen # "list" THEN S
        ELSE [S EXCEPT !.rows = S.coll.models,
                       !.checked = ToSet(items) \cap ToSet(S.coll.models),
                       !.allBox = IF x.copy THEN FALSE ELSE S.all,
                       !.busy = FALSE, !.head = "full",
                       !.off = Disabled(S.coll),
                       !.pages = IF S.coll.total = 0 THEN 1 ELSE Ceil(S.coll.total, Block),
                       !.menu = Len(items),
                       !.live = ToSet(S.coll.models)]

(* Mutant: the page before an empty one is taken, and not fetched. *)
CompleteUnfetched(S, x) ==
    IF S.coll.offset > 1 /\ S.coll.models = <<>>
    THEN [S EXCEPT !.coll.offset = @ - 1]
    ELSE RenderList(S, x)

(* Mutant: the first page is not excepted. *)
CompleteBelow(S, x) ==
    IF S.coll.models = <<>>
    THEN FetchList([S EXCEPT !.coll.offset = @ - 1], x)
    ELSE RenderList(S, x)

(* The complete callback of fetchList. *)
Complete(S, x) ==
    IF S.coll.offset > 1 /\ S.coll.models = <<>>
    THEN FetchList([S EXCEPT !.coll.offset = @ - 1], x)
    ELSE RenderList(S, x)

(***************************************************************************)
(* abortRequests, called with the action of the list.  The length of the   *)
(* array is taken once, before its loops; what the callbacks add comes     *)
(* after it.  An aborted fetch completes; an aborted "Select all" calls    *)
(* storeAllSelectedIds, which throws because there are no rows, and ends   *)
(* the loop.  The second loop takes entries out of the array it walks      *)
(* through, and so leaves every second one.                                *)
(***************************************************************************)
Xhr(S, id) == S.wire[SelectInSeq(S.wire, LAMBDA x : x.id = id)]

AbortOne(S, i) ==
    IF S.threw \/ i > Len(S.requests) \/ S.requests[i] = Done THEN S
    ELSE LET x == Xhr(S, S.requests[i])
         IN  CASE x.kind = "list" -> Complete(Over(S, x, TRUE), x)
               [] x.kind = "all"  -> [Over(S, x, FALSE) EXCEPT !.threw = TRUE]
               [] OTHER           -> S

Purged(r) ==
    LET left[i \in 0..Len(r)] ==
            IF i = 0 THEN r
            ELSE LET l == left[i - 1] IN IF i > Len(l) THEN l ELSE RemoveAt(l, i)
    IN  left[Len(r)]

AbortRequests(S) ==
    LET after[i \in 0..Len(S.requests)] ==
            IF i = 0 THEN S ELSE AbortOne(after[i - 1], i)
        aborted == after[Len(S.requests)]
    IN  IF aborted.threw THEN aborted
        ELSE [aborted EXCEPT !.requests = Purged(@)]
-----------------------------------------------------------------------------
(***************************************************************************)
(* Pagination, sort and filter.                                            *)
(***************************************************************************)
(* The rows are replaced by an animation or a message. *)
Loading(S, head) == [S EXCEPT !.rows = <<>>, !.checked = {}, !.busy = TRUE, !.head = head]

(* paginationMove: a click on one of the buttons. *)
PaginationMove(S, dir) ==
    LET pages == Ceil(S.coll.total, Block)
        page == S.coll.offset
        shown == Loading(S, S.head)
        go(n) == FetchList([shown EXCEPT !.coll.offset = n], TheView)
    IN  IF dir \in S.off THEN S
        ELSE CASE dir \in {"first", "prev"} /\ page = 1 -> shown
               [] dir \in {"next", "last"} /\ page = pages -> shown
               [] OTHER -> go(CASE dir = "first" -> 1
                                [] dir = "prev" -> page - 1
                                [] dir = "next" -> page + 1
                                [] dir = "last" -> pages)

(* Mutant: the boxes are unchecked and the items stay selected. *)
ResetOnlyBoxes(S) ==
    [S EXCEPT !.all = FALSE, !.checked = {}, !.allBox = FALSE,
              !.menu = IF S.items # <<>> THEN 0 ELSE @]

(* resetSelectedItems, with the menu that it hides *)
ResetSelectedItems(S) ==
    [SetItems(S, <<>>) EXCEPT !.all = FALSE, !.checked = {}, !.allBox = FALSE,
                              !.menu = IF S.items # <<>> THEN 0 ELSE @]

Patience == "impatient" \in Faults \/ view.wire = <<>>

\* The administrator can use the list.
Usable(send) ==
    /\ view.screen = "list"
    /\ dialog = NoDialog
    /\ Patience
    /\ Len(view.wire) + send <= MaxXhr
    /\ Len(view.requests) <= MaxRequests

paginationMove(dir) ==
    /\ Usable(1)
    /\ dir \notin view.off
    /\ view' \in Forget(PaginationMove(view, dir))
    /\ UNCHANGED <<table, dialog>>

(* A page number and Enter; pages is the total on the screen. *)
pressPage(n) ==
    /\ Usable(1)
    /\ n \in 1..view.pages
    /\ n # view.coll.offset
    /\ view' = FetchList([Loading(view, view.head) EXCEPT !.coll.offset = n], TheView)
    /\ UNCHANGED <<table, dialog>>

(* Mutant: the list is fetched before the collection has its new sort. *)
SortAfterFetch(s) ==
    /\ Usable(1)
    /\ view.head = "full"
    /\ s # view.coll.sort
    /\ LET S == Loading(view, "unsortable")
       IN  view' \in {[T EXCEPT !.coll.sort = s] :
                         T \in Forget(IF S.coll.offset # 1 THEN PaginationMove(S, "first")
                                      ELSE FetchList(S, TheView))}
    /\ UNCHANGED <<table, dialog>>

(* A click on a column.  The header is not sortable again until the list is
   drawn. *)
sort(s) ==
    /\ Usable(1)
    /\ view.head = "full"
    /\ s # view.coll.sort
    /\ LET S == [Loading(view, "unsortable") EXCEPT !.coll.sort = s]
       IN  view' \in Forget(IF S.coll.offset # 1 THEN PaginationMove(S, "first")
                            ELSE FetchList(S, TheView))
    /\ UNCHANGED <<table, dialog>>

(* The filter control changes to f. *)
filter(f) ==
    /\ Usable(1)
    /\ f # view.box
    /\ LET A == AbortRequests([view EXCEPT !.box = f])
           S == ResetSelectedItems([Loading(A, "none") EXCEPT !.coll.filters = f])
       IN  view' \in Forget(IF A.threw THEN [A EXCEPT !.threw = FALSE]
                            ELSE IF S.coll.offset # 1 THEN PaginationMove(S, "first")
                            ELSE FetchList(S, ACopy))
    /\ UNCHANGED <<table, dialog>>
-----------------------------------------------------------------------------
(***************************************************************************)
(* The selection.                                                          *)
(***************************************************************************)
(* updateSelectedItemsMenu *)
UpdateMenu(S) == [S EXCEPT !.menu = Len(S.items)]

(* checkOne, with the splice of it: an item that is not in the array has
   position -1, and the last one is taken out. *)
Spliced(items, i) ==
    LET k == SelectInSeq(items, LAMBDA e : e = i)
    IN  IF k > 0 THEN RemoveAt(items, k)
        ELSE IF items = <<>> THEN items ELSE Front(items)

checkOne(i) ==
    /\ Usable(0)
    /\ i \in ToSet(view.rows)
    /\ LET on == i \notin view.checked
           items == IF on THEN Append(view.items, i) ELSE Spliced(view.items, i)
           whole == Len(items) = view.coll.total
       IN  view' = UpdateMenu([view EXCEPT
                       !.checked = IF on THEN @ \cup {i} ELSE @ \ {i},
                       !.items = items, !.all = whole, !.allBox = whole])
    /\ UNCHANGED <<table, dialog>>

(* "Unselect all" in the menu *)
uncheckAll ==
    /\ Usable(0)
    /\ view.menu > 0
    /\ view' = ResetSelectedItems(view)
    /\ UNCHANGED <<table, dialog>>

(* Mutant: the menu is not updated. *)
SelectVisibleSilent(S) == SetItems([S EXCEPT !.checked = ToSet(S.rows)], S.rows)

(* The rows of the page, and no others, are selected. *)
SelectVisible(S) == UpdateMenu(SetItems([S EXCEPT !.checked = ToSet(S.rows)], S.rows))

checkAll ==
    /\ Usable(0)
    /\ view.head # "none"
    /\ LET hidden == view.coll.total > Len(view.coll.models)
           S == [view EXCEPT !.allBox = ~@]
       IN  \/ /\ S.allBox /\ hidden
              /\ view' = S
              /\ dialog' = Dialog("choose")
           \/ /\ S.allBox /\ ~hidden
              /\ view' = SelectVisible(S)
              /\ UNCHANGED dialog
           \/ /\ ~S.allBox
              /\ view' = UpdateMenu(ResetSelectedItems([S EXCEPT !.checked = {}]))
              /\ UNCHANGED dialog
    /\ UNCHANGED table

\* The dialog of checkAll is open; "all" when its second button was used.
Choosing == /\ dialog.kind \in {"choose", "all"}
            /\ Patience

(* "Select only visible items" *)
chooseVisible ==
    /\ Choosing
    /\ view' = SelectVisible(view)
    /\ dialog' = NoDialog
    /\ UNCHANGED table

(* "Select all": a list of the ids, asked for with performAction *)
chooseAll ==
    /\ Choosing
    /\ Len(view.wire) < MaxXhr
    /\ view' = Send([view EXCEPT !.checked = ToSet(view.rows)], "all",
                    Query(view.coll), <<>>, TheView, 2)
    /\ dialog' = Dialog("all")
    /\ UNCHANGED table

(* The Escape key closes a dialog of jQuery UI. *)
escape ==
    /\ dialog # NoDialog
    /\ Patience
    /\ dialog' = NoDialog
    /\ UNCHANGED <<table, view>>

(* storeAllSelectedIds closes the dialog that asked; it throws when that one
   is gone, after the items have been stored. *)
StoreAllSelectedIds(S, ids) ==
    LET n == IF Len(ids) > MaxSelectable THEN MaxSelectable ELSE Len(ids)
        T == SetItems(S, SubSeq(ids, 1, n))
    IN  IF dialog.kind = "all" THEN [UpdateMenu(T) EXCEPT !.all = TRUE] ELSE T
-----------------------------------------------------------------------------
(***************************************************************************)
(* Actions on the selected items.                                          *)
(***************************************************************************)
(* applyDelete, applyBlock and the others: the selection is reset and the
   request sent for what was selected. *)
Apply(S, a, ids) ==
    Send(ResetSelectedItems(S), a, Query(S.coll), ids, TheView,
         IF a = "disconnect" THEN 2 ELSE 1)

(* applySelectedAction *)
applySelectedAction(a) ==
    /\ Usable(1)
    /\ view.menu > 0
    /\ view.items # <<>>
    /\ LET outOfView == \/ Block < Len(view.items)
                        \/ \E i \in ToSet(view.items) : i \notin ToSet(view.rows)
       IN  \/ /\ a = "delete" \/ outOfView
              /\ dialog' = [kind |-> "confirm", act |-> a, ids |-> view.items]
              /\ UNCHANGED view
           \/ /\ a # "delete" /\ ~outOfView
              /\ view' = Apply(view, a, view.items)
              /\ UNCHANGED dialog
    /\ UNCHANGED table

(* "Accept" in the dialog of Wat.I.confirm; "Cancel" does what escape does. *)
accept ==
    /\ dialog.kind = "confirm"
    /\ Len(view.wire) < MaxXhr
    /\ view' = Apply(view, dialog.act, dialog.ids)
    /\ dialog' = NoDialog
    /\ UNCHANGED table
-----------------------------------------------------------------------------
(***************************************************************************)
(* Answers.                                                                *)
(***************************************************************************)
(* A list arrives: for render, which draws the whole view, or fetchList.
   \E binds S to a value, for TLC to evaluate it once. *)
ListArrives(x) ==
    /\ \E S \in {[Over(view, x, TRUE) EXCEPT !.coll = Parse(@, x.q)]} :
          view' \in Forget(IF x.kind = "first"
                           THEN RenderList([S EXCEPT !.screen =
                                    IF @ = "loading" THEN "list" ELSE @], x)
                           ELSE Complete(S, x))
    /\ UNCHANGED <<table, dialog>>

(* The ids for "Select all" arrive, in the default order of the API. *)
IdsArrive(x) ==
    LET ids == SetToSeq(table \cap Match[x.q.filters])
    IN  /\ view' \in Forget(StoreAllSelectedIds(Over(view, x, dialog.kind = "all"), ids))
        /\ dialog' = IF dialog.kind = "all" THEN NoDialog ELSE dialog
        /\ UNCHANGED table

(* saveModel and performAction: the list is fetched again; saveModel closes
   the dialog of "Select all" too, if it is open.  A deletion that is refused
   for some rows opens the dialog of openDependenciesDialog, which takes their
   names from the collection and throws when they are not there. *)
Refused(x) == IF x.kind = "delete" THEN ToSet(x.ids) \cap Dependent \cap table ELSE {}

SavedDialog(x) == IF x.kind # "disconnect" /\ dialog.kind = "all" THEN NoDialog ELSE dialog

SaveModel(S, x) ==
    LET T == FetchList(S, TheView)
    IN  [view |-> T,
         offered |-> Refused(x) # {} /\ Refused(x) \subseteq ToSet(T.coll.models)]

ActionArrives(x) ==
    LET saved == SaveModel(Over(view, x, TRUE), x)
    IN  /\ table' = IF x.kind = "delete" THEN table \ (ToSet(x.ids) \ Dependent) ELSE table
        /\ view' = saved.view
        /\ dialog' = IF saved.offered THEN Dialog("depend") ELSE SavedDialog(x)

answer(k) ==
    LET x == view.wire[k]
    IN  CASE x.kind \in {"first", "list"} -> ListArrives(x)
          [] x.kind = "all"               -> IdsArrive(x)
          [] OTHER                        -> ActionArrives(x)

(* processResponseError draws an error page over the view, but only for the
   statusText "error" or "timeout": jQuery keeps the reason phrase of the server,
   and so a refusal that has one is silent.  The callbacks of the request are
   called all the same, and those of performAction have their own.  The first
   list has none, and nothing is drawn; another is drawn from the collection
   that fetchList emptied. *)
fail(k) ==
    /\ "fail" \in Faults
    /\ LET x == view.wire[k]
           S == Over(view, x, x.kind # "all")
       IN  \E E \in {S, [S EXCEPT !.screen = "error"]} :
              view' \in Forget(CASE x.kind = "first"      -> E
                                [] x.kind = "list"       -> Complete(E, x)
                                [] x.kind = "all"        -> S
                                [] x.kind = "disconnect" -> FetchList(S, TheView)
                                [] OTHER                 -> FetchList(E, TheView))
    /\ dialog' = IF view.wire[k].kind \in MassActions THEN SavedDialog(view.wire[k]) ELSE dialog
    /\ UNCHANGED table

Receive == \E k \in DOMAIN view.wire :
              /\ k = 1 \/ "reorder" \in Faults
              /\ answer(k) \/ fail(k)

(* Another administrator creates or deletes a row. *)
others ==
    /\ "others" \in Faults
    /\ \E i \in Ids : table' = IF i \in table THEN table \ {i} ELSE table \cup {i}
    /\ UNCHANGED <<view, dialog>>
-----------------------------------------------------------------------------
(* initialize and render: the first page is fetched, nothing is drawn yet. *)
StartView ==
    LET c == [filters |-> CHOOSE f \in Filters : Match[f] = Ids,
              sort |-> CHOOSE s \in Sorts : TRUE, offset |-> 1, total |-> 0,
              models |-> <<>>, from |-> NULL]
        S == [coll |-> c, items |-> <<>>, all |-> FALSE, box |-> c.filters,
              screen |-> "loading", busy |-> TRUE, rows |-> <<>>, checked |-> {},
              allBox |-> FALSE, head |-> "none", off |-> Buttons, pages |-> 1,
              menu |-> 0, live |-> {}, wire |-> <<>>, requests |-> <<>>, threw |-> FALSE]
    IN  Send(S, "first", Query(c), <<>>, TheView, 1)

(* The administrator loads a page again that shows an error, or nothing at all. *)
reload ==
    /\ view.screen = "error" \/ (view.screen = "loading" /\ view.wire = <<>>)
    /\ view' = StartView
    /\ dialog' = NoDialog
    /\ UNCHANGED table

Init ==
    /\ table = Ids
    /\ view = StartView
    /\ dialog = NoDialog

Next ==
    \/ \E dir \in Buttons : paginationMove(dir)
    \/ \E n \in 1..view.pages : pressPage(n)
    \/ \E s \in Sorts : sort(s)
    \/ \E f \in Filters : filter(f)
    \/ \E i \in Ids : checkOne(i)
    \/ uncheckAll \/ checkAll \/ chooseVisible \/ chooseAll \/ escape
    \/ \E a \in MassActions : applySelectedAction(a)
    \/ accept
    \/ Receive
    \/ others
    \/ reload

Spec == Init /\ [][Next]_vars

\* Some request on its way is answered in the end.
FairSpec == Spec /\ WF_vars(Receive)
-----------------------------------------------------------------------------
Queries == [filters : Filters, sort : Sorts, offset : Nat]

Colls == [filters : Filters, sort : Sorts, offset : 0..Cardinality(Ids),
          total : 0..Cardinality(Ids), models : Seq(Ids), from : {NULL} \cup Queries]

Xhrs == [id : Nat \ {Done}, kind : {"first", "list", "all"} \cup MassActions, q : Queries,
         ids : Seq(Ids), copy : BOOLEAN, sel : {NULL} \cup Seq(Ids)]

Views == [coll : Colls, items : Seq(Ids), all : BOOLEAN, box : Filters,
          screen : {"loading", "list", "error"}, busy : BOOLEAN, rows : Seq(Ids),
          checked : SUBSET Ids, allBox : BOOLEAN, head : {"none", "full", "unsortable"},
          off : SUBSET Buttons, pages : 1..Cardinality(Ids), menu : Nat, live : SUBSET Ids,
          wire : Seq(Xhrs), requests : Seq(Nat), threw : BOOLEAN]

(* The state has its types; the page is between 0, which "last" gives when
   there are no rows, and the number of rows; a box that is checked is on the
   screen; the requests kept to be aborted are on their way or over. *)
TypeOK ==
    /\ table \subseteq Ids
    /\ view \in Views
    /\ ~view.threw
    /\ view.checked \subseteq ToSet(view.rows)
    /\ \A k \in DOMAIN view.requests :
          view.requests[k] # Done => \E j \in DOMAIN view.wire : view.wire[j].id = view.requests[k]
    /\ dialog \in [kind : {"none", "choose", "all", "confirm", "depend"},
                   act : {NULL} \cup MassActions, ids : Seq(Ids)]

\* The list is on the screen and nothing is on its way.
Settled == view.screen = "list" /\ view.wire = <<>>

(* fetchList, its complete callback and renderList: whatever was aborted,
   overtaken or fetched again, once the last answer is there the rows drawn
   are those of the collection, the websocket follows them, and no loading
   message is left. *)
RenderedLast == Settled => /\ ~view.busy
                           /\ view.rows = view.coll.models
                           /\ view.live = ToSet(view.rows)

(* sort, filter and pagination: once the last answer is there, the rows are
   those of the filter, the sort and the page that the collection has now, never
   those of an earlier one.  After a request that failed silently there are no
   rows, and no answer that says so stands behind them: README, section 6. *)
ListCurrent == Settled => \/ view.coll.from = Query(view.coll)
                          \/ view.coll.from = NULL /\ view.rows = <<>>

(* filter sets the filters of the form in the collection.  It does not hold when
   the administrator does not wait: README, section 6. *)
FilterTaken == view.box = view.coll.filters

(* paginationMove "avoid[s] out of limits situation" and fetchList goes back
   from an empty page: the page of a list that is drawn exists, also when
   other administrators delete its rows.  It does not hold when the administrator
   does not wait: README, section 6. *)
PageInLimits == Settled => view.coll.offset \in 1..view.pages

(* checkOne, checkAll, storeAllSelectedIds and renderList: every selected item
   of the page has its box checked, so a mass action never touches a row of
   the page that does not look selected. *)
SelectionShown == Settled => ToSet(view.items) \cap ToSet(view.rows) \subseteq view.checked

(* checkAll, "set as checked all the checkboxes of a list and store the IDs": every
   row whose box is checked is selected.  It does not hold for more rows than may be
   selected at once: README, section 6. *)
CheckedSelected == Settled => view.checked \subseteq ToSet(view.items)

(* updateSelectedItemsMenu: the number of selected items in the menu is the
   number of items an action would be applied to. *)
SelectionCounted == Settled => view.menu = Len(view.items)

(* interceptSMRDelete: a deletion that is refused because of dependencies
   opens the dialog that offers to delete them too.  It does not hold: README,
   section 6. *)
DependencyOffered ==
    [][\A k \in DOMAIN view.wire :
          (Refused(view.wire[k]) # {} /\ answer(k)) => dialog'.kind = "depend"]_vars

(* A loading message of sort, filter or pagination does not stay: the list is
   drawn again, or an error page, however the administrator goes on. *)
BusyEnds == (view.screen = "list" /\ view.busy) ~> (view.screen # "list" \/ ~view.busy)

=============================================================================

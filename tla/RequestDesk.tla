----------------------------- MODULE RequestDesk -----------------------------
(***************************************************************************)
(* The window in which an administrator works on compute requests: a       *)
(* filtered list that is loaded page by page, and the details of the       *)
(* request selected in it.  Source: AdminComputeRequests of apps/web/src/  *)
(* App.tsx, over the server of ComputeRequests.                            *)
(*                                                                         *)
(* Requests are numbered in the order of their creation and listed from    *)
(* the newest, one on a page.  A call is live while its generation is the  *)
(* current one and its effect has not been cleaned up.                     *)
(***************************************************************************)
EXTENDS ComputeRequests, Sequences

CONSTANTS
    Filters,        \* statuses the administrator lists; "all" among them
    MaxClicks       \* bound on what the administrator does

ASSUME DeskAssumption == Requests \subseteq Nat \ {0} /\ "all" \in Filters

VARIABLES
    filter,         \* status, kind and debouncedQuery together
    items,          \* requests: sequence of [id, status, of]; of: the filter of its answer
    cursor,         \* nextCursor: 0, or the number below which the next page begins
    loading, loadingMore,
    selected,       \* selectedId
    detail,         \* the request whose details are shown
    detailLoading,
    calls,          \* list and detail calls not yet delivered
    update,         \* the status update under way
    clicks

deskVars == <<filter, items, cursor, loading, loadingMore, selected, detail, detailLoading,
              calls, update, clicks>>
listVars == <<filter, items, cursor, loading, loadingMore>>
detailVars == <<selected, detail, detailLoading>>

-----------------------------------------------------------------------------
NoUpdate == [state |-> "none"]
NoDetail == [id |-> 0, status |-> "none"]

\* listAdminComputeRequests: requests that match, from below the cursor; the newest is on the page.
Matching(f, from) ==
    {r \in Requests : /\ request[r].status # "none" /\ (f = "all" \/ request[r].status = f)
                      /\ (from = 0 \/ r < from)}
Newest(s) == {r \in s : \A x \in s : x <= r}
Page(f, from) ==
    LET found == Matching(f, from) IN
    IF found = {} THEN {[items |-> <<>>, cursor |-> 0]}
    ELSE {[items |-> <<[id |-> r, status |-> request[r].status, of |-> f]>>,
           cursor |-> IF found = {r} THEN 0 ELSE r] : r \in Newest(found)}

ListCall(from) == [what |-> IF from = 0 THEN "first" ELSE "more", arg |-> filter, from |-> from,
                   live |-> TRUE, answer |-> {}]
DetailCall(r) == [what |-> "detail", arg |-> r, from |-> 0, live |-> TRUE, answer |-> {}]

\* invalidatePendingPages, and the cleanup of an effect: what is on its way is stale.
Stale(cs, whats) == {IF c.what \in whats THEN [c EXCEPT !.live = FALSE] ELSE c : c \in cs}
Pages == {"first", "more"}

\* selectedRequest: the selected request, or else the first of the list.
ShownRequest(list, id) ==
    IF \E i \in DOMAIN list : list[i].id = id THEN id ELSE IF list = <<>> THEN 0 ELSE list[1].id

\* The effect that reads the details of the request shown.
ReadDetail(cs, r) ==
    /\ detail' = NoDetail /\ detailLoading' = (r # 0)
    /\ calls' = Stale(cs, {"detail"}) \cup (IF r = 0 THEN {} ELSE {DetailCall(r)})

Click == clicks < MaxClicks /\ clicks' = clicks + 1

DeskInit ==
    /\ RequestsInit
    /\ filter = "all" /\ items = <<>> /\ cursor = 0
    /\ loading = TRUE /\ loadingMore = FALSE
    /\ selected = 0 /\ detail = NoDetail /\ detailLoading = FALSE
    /\ calls = {ListCall(0)} /\ update = NoUpdate /\ clicks = 0

-----------------------------------------------------------------------------
(* What the administrator does *)

Reload(cs) == loading' = TRUE /\ loadingMore' = FALSE
              /\ calls' = Stale(cs, Pages) \cup {[ListCall(0) EXCEPT !.arg = filter']}

ChangeFilter(f) ==
    /\ Click /\ f # filter /\ filter' = f
    /\ Reload(calls)
    /\ UNCHANGED <<items, cursor, detailVars, update, requestVars>>

\* Typing in the search box makes the pages stale at once, and loads the list anew
\* when the text has been different for 300 ms: not when it was taken back by then.
TypeAndTakeBack ==
    /\ Click
    /\ calls' = Stale(calls, Pages) /\ loadingMore' = FALSE
    /\ UNCHANGED <<filter, items, cursor, loading, detailVars, update, requestVars>>

Refresh ==
    /\ Click /\ ~loading /\ UNCHANGED filter
    /\ Reload(calls)
    /\ UNCHANGED <<items, cursor, detailVars, update, requestVars>>

LoadMore ==
    /\ Click /\ ~loading /\ cursor # 0 /\ ~loadingMore
    /\ loadingMore' = TRUE
    /\ calls' = calls \cup {ListCall(cursor)}
    /\ UNCHANGED <<filter, items, cursor, loading, detailVars, update, requestVars>>

\* A click on a request makes the details on their way stale.  They are read again
\* when another request is shown, not when it is the same.
Select(i) ==
    /\ Click /\ ~loading /\ i \in DOMAIN items
    /\ selected' = items[i].id
    /\ IF ShownRequest(items, items[i].id) # ShownRequest(items, selected)
       THEN ReadDetail(calls, items[i].id)
       ELSE calls' = Stale(calls, {"detail"}) /\ UNCHANGED <<detail, detailLoading>>
    /\ UNCHANGED <<listVars, update, requestVars>>

\* The status shown is the one expected; the filter is that of this rendering.
SendUpdate(status) ==
    /\ Click /\ update = NoUpdate /\ ~loading /\ ~detailLoading
    /\ detail # NoDetail /\ detail.id = ShownRequest(items, selected)
    /\ status \in computeRequestTransitions[detail.status]
    /\ update' = [state |-> "sent", id |-> detail.id, status |-> status,
                  expected |-> detail.status, filter |-> filter]
    /\ UNCHANGED <<listVars, detailVars, calls, requestVars>>

\* A quote, for a request that is being discussed.
SendQuote ==
    /\ Click /\ update = NoUpdate /\ ~loading /\ ~detailLoading
    /\ detail.status = "contacting" /\ detail.id = ShownRequest(items, selected)
    /\ update' = [state |-> "sent", id |-> detail.id, status |-> "quoted",
                  expected |-> detail.status, filter |-> filter]
    /\ UNCHANGED <<listVars, detailVars, calls, requestVars>>

-----------------------------------------------------------------------------
(* Answers *)

ServerReads(c) ==
    /\ c.answer = {}
    /\ calls' = (calls \ {c}) \cup {[c EXCEPT !.answer =
                   IF c.what = "detail" THEN {[id |-> c.arg, status |-> request[c.arg].status]}
                   ELSE Page(c.arg, c.from)]}
    /\ UNCHANGED <<listVars, detailVars, update, clicks, requestVars>>

\* Mutation of Wanted: answers are taken whenever they arrive.
WantedAlways(c) == TRUE

Wanted(c) == c.live

\* An answer that is no longer wanted is dropped; so is its failure.
DropStale(c) ==
    /\ ~Wanted(c)
    /\ calls' = calls \ {c}
    /\ UNCHANGED <<listVars, detailVars, update, clicks, requestVars>>

\* A list answer renews the list, and with it the details.
ShowFirst(c, page) ==
    /\ items' = page.items /\ cursor' = page.cursor /\ loading' = FALSE
    /\ selected' = ShownRequest(page.items, selected)
    /\ ReadDetail(calls \ {c}, selected')
    /\ UNCHANGED <<filter, loadingMore>>

\* The request of the page is not listed again when it is listed already.
ShowMore(c, page) ==
    /\ items' = items \o
          (IF \E i \in DOMAIN items, j \in DOMAIN page.items : items[i].id = page.items[j].id
           THEN <<>> ELSE page.items)
    /\ cursor' = page.cursor /\ loadingMore' = FALSE
    /\ calls' = calls \ {c}
    /\ UNCHANGED <<filter, loading, detailVars>>

DeliverList(c) ==
    /\ c.what \in Pages /\ Wanted(c)
    /\ \E page \in c.answer : IF c.what = "first" THEN ShowFirst(c, page) ELSE ShowMore(c, page)
    /\ UNCHANGED <<update, clicks, requestVars>>

DeliverDetail(c) ==
    /\ c.what = "detail" /\ Wanted(c)
    /\ \E d \in c.answer : detail' = d
    /\ detailLoading' = FALSE /\ calls' = calls \ {c}
    /\ UNCHANGED <<listVars, selected, update, clicks, requestVars>>

\* A first page that fails empties the list; another failure leaves what is shown.
Fail(c) ==
    /\ Wanted(c)
    /\ IF c.what = "first"
       THEN /\ items' = <<>> /\ cursor' = 0 /\ loading' = FALSE
            /\ ReadDetail(calls \ {c}, 0)
            /\ UNCHANGED <<filter, loadingMore, selected>>
       ELSE /\ calls' = calls \ {c}
            /\ loadingMore' = (loadingMore /\ c.what = "detail")
            /\ detailLoading' = (detailLoading /\ c.what # "detail")
            /\ UNCHANGED <<filter, items, cursor, loading, selected, detail>>
    /\ UNCHANGED <<update, clicks, requestVars>>

\* The server: the update or the quote, or a conflict.
ServerUpdates ==
    /\ update.state = "sent"
    /\ \/ /\ \/ UpdateStatus(update.id, update.status, update.expected)
             \/ update.status = "quoted" /\ \E q \in Quotes : QuoteRequest(update.id, q, update.expected)
          /\ update' = [update EXCEPT !.state = "done"]
       \/ /\ request[update.id].status # update.expected
          /\ update' = [update EXCEPT !.state = "conflict"]
          /\ UNCHANGED requestVars
    /\ UNCHANGED <<listVars, detailVars, calls, clicks>>

Renewed(list) ==
    [i \in DOMAIN list |-> IF list[i].id = update.id THEN [list[i] EXCEPT !.status = update.status]
                           ELSE list[i]]

UpdateDone ==
    /\ update.state = "done" /\ update' = NoUpdate
    /\ detail' = IF detail.id = update.id THEN [detail EXCEPT !.status = update.status]
                 ELSE detail
    /\ IF update.filter \notin {"all", update.status}
       THEN UNCHANGED <<filter, items>> /\ Reload(calls)
       ELSE items' = Renewed(items) /\ UNCHANGED <<filter, loading, loadingMore, calls>>
    /\ UNCHANGED <<cursor, selected, detailLoading, clicks, requestVars>>

\* 409: the list and the details are loaded again.
UpdateConflict ==
    /\ update.state = "conflict" /\ update' = NoUpdate
    /\ loading' = TRUE /\ loadingMore' = FALSE
    /\ ReadDetail(Stale(calls, Pages) \cup {ListCall(0)}, ShownRequest(items, selected))
    /\ UNCHANGED <<filter, items, cursor, selected, clicks, requestVars>>

-----------------------------------------------------------------------------
\* A new request, and another administrator.
OtherMoves ==
    /\ \/ \E r \in Requests, k \in ComputeKeys, f \in Forms :
             /\ \A x \in Requests : x < r => request[x] # NoRequestRow
             /\ CreateRequest(r, k, f)
       \/ \E r \in Requests : UpdateStatus(r, "closed", "submitted")
    /\ UNCHANGED deskVars

Resolve(c) == ServerReads(c) \/ DropStale(c) \/ DeliverList(c) \/ DeliverDetail(c) \/ Fail(c)

DeskNext ==
    \/ \E f \in Filters : ChangeFilter(f)
    \/ TypeAndTakeBack \/ Refresh \/ LoadMore
    \/ \E i \in DOMAIN items : Select(i)
    \/ \E s \in RequestStatus : SendUpdate(s)
    \/ SendQuote
    \/ \E c \in calls : Resolve(c)
    \/ ServerUpdates \/ UpdateDone \/ UpdateConflict
    \/ OtherMoves

DeskSpec == DeskInit /\ [][DeskNext]_<<deskVars, requestVars>>

\* Every call is answered or fails in the end.
LiveDeskSpec == DeskSpec /\ WF_<<deskVars, requestVars>>(\E c \in calls : Resolve(c))

-----------------------------------------------------------------------------
\* What is listed was answered for the filter that is set, no request is listed
\* twice, and the details shown are those of the request shown, however answers
\* and changes of the filter overtake each other.
ListIsOfFilter ==
    ~loading =>
        /\ \A i \in DOMAIN items : items[i].of = filter
        /\ \A i, j \in DOMAIN items : items[i].id = items[j].id => i = j
        /\ detail # NoDetail => detail.id = ShownRequest(items, selected)

\* What is being read is shown in the end, or its failure.
ReadingEnds == (loading \/ detailLoading) ~> ~(loading \/ detailLoading)

=============================================================================

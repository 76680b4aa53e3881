--------------------------- MODULE ComputeRequests ---------------------------
(***************************************************************************)
(* Compute requests (version 1): a user asks, an administrator quotes, the *)
(* user decides, administrators deliver.  Sources: services/control-plane/ *)
(* src/database.ts, compute-market.ts and server.ts.                       *)
(*                                                                         *)
(* Each operation is one transaction that locks the row, so it is a step.  *)
(* Everyone acts on what they last read: `expected' is the status that the *)
(* sender saw, and a decision is sent by someone who saw a certain quote.  *)
(***************************************************************************)
EXTENDS Naturals, FiniteSets

CONSTANTS
    Requests,       \* ids of requests
    ComputeKeys,    \* idempotency keys
    Forms,          \* what a request may say
    Quotes,         \* formal quotes: amount, term and validity
    NoForm, NoRequestKey, NoQuote

VARIABLES
    request,        \* cod_compute_requests
    created,        \* requests ever created, with their key and form: history
    seen,           \* request -> what its owner last read of it
    decided         \* history: request -> the quote its owner saw when accepting

requestVars == <<request, created, seen, decided>>

-----------------------------------------------------------------------------
computeRequestTransitions == [
    none |-> {}, submitted |-> {"contacting", "closed"}, contacting |-> {"closed"},
    quoted |-> {"closed"},
    approved        |-> {"deploying", "action_required", "closed"},
    deploying       |-> {"running", "action_required", "closed"},
    running         |-> {"completed", "action_required", "closed"},
    action_required |-> {"deploying", "running", "closed"},
    completed |-> {}, closed |-> {}]

RequestStatus == DOMAIN computeRequestTransitions \ {"none"}

NoRequestRow == [status |-> "none", form |-> NoForm, key |-> NoRequestKey, quote |-> NoQuote,
                 valid |-> FALSE, decision |-> "none"]

RequestsInit ==
    /\ request = [r \in Requests |-> NoRequestRow]
    /\ created = {}
    /\ seen = [r \in Requests |-> NoRequestRow]
    /\ decided = [r \in Requests |-> NoQuote]

-----------------------------------------------------------------------------
Known(k, form) == \E r \in Requests : request[r].key = k

\* createComputeRequest under the lock of its key: a key used before answers with
\* its request, or is refused when the form is another (computeRequestMatchesInput).
CreateRequest(r, k, form) ==
    /\ request[r] = NoRequestRow
    /\ ~Known(k, form)
    /\ request' = [request EXCEPT ![r] =
          [NoRequestRow EXCEPT !.status = "submitted", !.form = form, !.key = k]]
    /\ created' = created \cup {<<r, k, form>>}
    /\ UNCHANGED <<seen, decided>>

\* updateAdminComputeRequestStatus.  A request already there is answered as is.
UpdateStatus(r, status, expected) ==
    /\ request[r].status = expected
    /\ status \in computeRequestTransitions[expected]
    /\ request' = [request EXCEPT ![r].status = status]
    /\ UNCHANGED <<created, seen, decided>>

\* quoteAdminComputeRequest, of a request that is being discussed.
QuoteRequest(r, quote, expected) ==
    /\ request[r].status = expected /\ expected = "contacting"
    /\ request' = [request EXCEPT ![r] = [@ EXCEPT !.status = "quoted", !.quote = quote,
                                                   !.valid = TRUE, !.decision = "none"]]
    /\ UNCHANGED <<created, seen, decided>>

QuoteEnds(r) ==
    /\ request[r].valid
    /\ request' = [request EXCEPT ![r].valid = FALSE]
    /\ UNCHANGED <<created, seen, decided>>

\* listComputeRequests, in a window that stays open.
OwnerReads(r) ==
    /\ seen' = [seen EXCEPT ![r] = request[r]]
    /\ UNCHANGED <<request, created, decided>>

\* decideComputeRequestQuote: by the owner only, who names the status it saw.
DecideQuoteOf(r, accept) ==
    /\ seen[r].status = "quoted" /\ request[r].status = "quoted"
    /\ request[r].valid
    /\ request' = [request EXCEPT ![r] =
          [@ EXCEPT !.status = IF accept THEN "approved" ELSE "closed",
                    !.decision = IF accept THEN "accepted" ELSE "declined"]]
    /\ decided' = [decided EXCEPT ![r] = IF accept THEN seen[r].quote ELSE @]
    /\ UNCHANGED <<created, seen>>

AdminActs(r) ==
    \/ \E s, e \in RequestStatus : UpdateStatus(r, s, e)
    \/ \E q \in Quotes, e \in RequestStatus : QuoteRequest(r, q, e)

OwnerRequests(r) ==
    \/ \E k \in ComputeKeys, f \in Forms : CreateRequest(r, k, f)
    \/ OwnerReads(r)
    \/ \E accept \in BOOLEAN : DecideQuoteOf(r, accept)

RequestsNext == \E r \in Requests : OwnerRequests(r) \/ AdminActs(r) \/ QuoteEnds(r)

RequestsSpec == RequestsInit /\ [][RequestsNext]_requestVars

-----------------------------------------------------------------------------
Delivered == {"approved", "deploying", "running", "action_required", "completed"}

\* Nothing is delivered without the owner's acceptance of exactly the quote that
\* stands in the request, as the owner saw it, and a key creates one request.
DeliveredWasAccepted ==
    /\ \A r \in Requests : request[r].status \in Delivered =>
          request[r].decision = "accepted" /\ decided[r] = request[r].quote
    /\ \A c, d \in created : c[2] = d[2] => c = d

=============================================================================

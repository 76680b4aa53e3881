---------------------------- MODULE ModelGateway ----------------------------
(***************************************************************************)
(* What a chat completion asks of the model provider: the price list and   *)
(* its cached copy, the two attempts at an answer, what makes an answer    *)
(* usable, the other model that is tried then, and the price that is       *)
(* charged.  Sources: services/control-plane/src/gateway.ts and the chat   *)
(* route of server.ts.                                                     *)
(*                                                                         *)
(* One chat and one source.  Its claim and reservation are in ChatGateway; *)
(* the provider is external.  Tokens are counted in units of a million.    *)
(***************************************************************************)
EXTENDS Integers, Sequences, FiniteSets

CONSTANTS
    Models,             \* names of models
    Preferred,          \* preferredModelOrder, then the others by label
    NoModel,
    Offers,             \* what the provider's pricing, status and model list may say
    Answers,            \* streams of an answer
    Usages,             \* what an answer may report to have used: [input, output]
    InputEstimate, OutputLimit

ASSUME ProviderAssumption ==
    /\ \A o \in Offers : IsFiniteSet(o.rows) /\ \A row \in o.rows : row.input \in Nat /\ row.output \in Nat
    /\ Preferred \in Seq(Models) /\ NoModel \notin Models
    /\ Usages \subseteq [input : Nat, output : Nat]
    /\ InputEstimate \in Nat /\ OutputLimit \in Nat \ {0}

VARIABLES
    offer,              \* what the provider's catalogue says now
    catalog,            \* the cached copy: whether it can be called, and model -> price
    fresh,              \* the copy is there and not yet five minutes old
    chat

gatewayVars == <<offer, catalog, fresh, chat>>

-----------------------------------------------------------------------------
(* The catalogue. *)

Authenticated(o) == o.advertised # {}

ValidRows(o) ==
    {row \in o.rows : row.valid /\ (Authenticated(o) => row.id \in o.advertised)}

PricesOf(o, m) == {row \in ValidRows(o) : row.id = m}

\* loadSource: a model with two prices is dropped.  Nothing is listed without a price
\* of the unit, and nothing can be called unless the provider lists it for our key.
Listed(o) ==
    LET ids == {row.id : row \in ValidRows(o)}
    IN  IF ~o.status THEN {} ELSE {m \in ids : Cardinality(PricesOf(o, m)) = 1}

Callable(o) == Authenticated(o) /\ Listed(o) # {}

PriceIn(o, m) == CHOOSE row \in PricesOf(o, m) : TRUE

NoPrice == [id |-> NoModel, valid |-> FALSE, input |-> 0, output |-> 0]

Loaded == [callable |-> Callable(offer),
           price |-> [m \in Models |-> IF m \in Listed(offer) THEN PriceIn(offer, m) ELSE NoPrice]]

\* listSources: the copy, or what a load brings.
Sources == IF fresh THEN catalog ELSE Loaded

ListSources == catalog' = Sources /\ fresh' = TRUE

Offered(m) == Sources.price[m] # NoPrice

\* getFallbackModel: the first of the others, the preferred ones first, whether or
\* not the source can be called.
Others(m) == {i \in DOMAIN Preferred : Preferred[i] # m /\ Offered(Preferred[i])}

Fallback(m) ==
    IF Others(m) = {} THEN NoModel
    ELSE Preferred[CHOOSE i \in Others(m) : \A j \in Others(m) : i <= j]

\* costCents: rounded up, at least 1 unless nothing was used.
CeilDiv(a, b) == (a + b - 1) \div b

CostCents(price, usage) ==
    LET raw == CeilDiv(usage.input * price.input + usage.output * price.output, 10)
    IN  IF usage.input + usage.output = 0 THEN 0 ELSE IF raw < 1 THEN 1 ELSE raw

-----------------------------------------------------------------------------
(* An answer.  A stream is a status and a sequence of events. *)

Retryable(a) == a.status = "busy"
Refused(a) == a.status = "refused"

\* normalizeStreamingResponse throws on an event that is an error or no JSON, and so
\* do a timeout, a lost connection and an answer that is too long.
Broken(a) == a.status = "lost" \/ (a.status = "ok" /\ \E i \in DOMAIN a.events : a.events[i] = "error")

\* assistantHasAction: some text, or a call of a tool.
HasAction(a) == \E i \in DOMAIN a.events : a.events[i] \in {"text", "call"}

\* assistantResponseIsIncomplete: the last reason to finish counts.
Reasons(a) == {i \in DOMAIN a.events : a.events[i] \in {"length", "stop"}}

Incomplete(a) == \E i \in Reasons(a) : a.events[i] = "length" /\ \A j \in Reasons(a) : j <= i

WholeAnswer(a) == a.status = "ok" /\ HasAction(a) /\ ~Incomplete(a)

-----------------------------------------------------------------------------
NoAnswer == [status |-> "lost", events |-> <<>>]

IdleChat == [at |-> "idle", model |-> NoModel, fallback |-> NoModel, reserved |-> 0, on |-> NoModel,
             attempt |-> 0, calls |-> 0, aborted |-> FALSE, answer |-> NoAnswer,
             price |-> NoPrice, fallbackPrice |-> NoPrice, usage |-> [input |-> 0, output |-> 0], charge |-> 0]

GatewayInit ==
    /\ offer \in Offers
    /\ catalog = [callable |-> FALSE, price |-> [m \in Models |-> NoPrice]] /\ fresh = FALSE
    /\ chat = IdleChat

catalogVars == <<offer, catalog, fresh>>

ChatAt(step) == chat.at = step
EndChat(how) == chat' = [chat EXCEPT !.at = how]

\* getModel.
GetModel(m) ==
    /\ ChatAt("idle")
    /\ ListSources
    /\ chat' = IF Sources.callable /\ Offered(m)
               THEN [chat EXCEPT !.at = "selected", !.model = m, !.on = m, !.price = Sources.price[m]]
               ELSE [chat EXCEPT !.at = "failed"]
    /\ UNCHANGED offer

\* The copy may have been replaced between the two.
GetFallback ==
    /\ ChatAt("selected")
    /\ ListSources
    /\ chat' = [chat EXCEPT !.at = "claimed", !.fallback = Fallback(chat.model),
                   !.fallbackPrice = IF Fallback(chat.model) = NoModel THEN NoPrice
                                     ELSE Sources.price[Fallback(chat.model)]]
    /\ UNCHANGED offer

Estimate == [input |-> InputEstimate, output |-> OutputLimit]

\* Mutation of Reserved: only the model that was asked for.
ReservedOne(c) == CostCents(c.price, Estimate)

\* What is reserved is enough for either model.
Reserved(c) ==
    LET one == CostCents(c.price, Estimate)
        other == IF c.fallback = NoModel THEN 0 ELSE CostCents(c.fallbackPrice, Estimate)
    IN  IF one >= other THEN one ELSE other

ReserveEither ==
    /\ ChatAt("claimed")
    /\ chat' = [chat EXCEPT !.at = "calling", !.reserved = Reserved(chat)]
    /\ UNCHANGED catalogVars

\* proxyChat: the request is looked at before each attempt.
CallProvider ==
    /\ ChatAt("calling")
    /\ IF chat.aborted THEN EndChat("cancelled")
       ELSE chat' = [chat EXCEPT !.at = "sent", !.calls = @ + 1]
    /\ UNCHANGED catalogVars

\* The first attempt is repeated when it fails, is refused for now or says nothing; what
\* the second one says is the answer.
ProviderAnswers(a) ==
    LET again == Broken(a) \/ Retryable(a) \/ (a.status = "ok" /\ ~HasAction(a))
    IN  /\ ChatAt("sent")
        /\ IF chat.aborted /\ Broken(a) THEN EndChat("cancelled")
           ELSE IF again /\ chat.attempt = 0 THEN chat' = [chat EXCEPT !.at = "calling", !.attempt = 1]
           ELSE IF Broken(a) THEN EndChat("failed")
           ELSE chat' = [chat EXCEPT !.at = "returned", !.answer = a]
        /\ UNCHANGED catalogVars

\* The route tries the other model once, if the first one said nothing or was cut off.
TryFallback ==
    /\ ChatAt("returned") /\ ~chat.aborted
    /\ chat.answer.status = "ok" /\ ~WholeAnswer(chat.answer)
    /\ chat.on = chat.model /\ chat.fallback # NoModel
    /\ chat' = [chat EXCEPT !.at = "calling", !.attempt = 0, !.on = chat.fallback]
    /\ UNCHANGED catalogVars

GiveUp ==
    /\ ChatAt("returned")
    /\ \/ chat.aborted /\ EndChat("cancelled")
       \/ /\ ~chat.aborted /\ ~WholeAnswer(chat.answer)
          /\ chat.answer.status = "ok" => chat.on = chat.fallback \/ chat.fallback = NoModel
          /\ EndChat("failed")
    /\ UNCHANGED catalogVars

\* The price is that of the model that answered, as it was when the model was chosen.
PriceCharged == IF chat.on = chat.model THEN chat.price ELSE chat.fallbackPrice

\* usageFromResponse: what the provider does not report is estimated from the texts.
Counted(reported, text) ==
    IF reported.input + reported.output > 0 THEN reported
    ELSE [input |-> InputEstimate, output |-> text]

Charge(reported, text) ==
    LET usage == Counted(reported, text) IN
    /\ ChatAt("returned") /\ ~chat.aborted /\ WholeAnswer(chat.answer)
    /\ chat' = [chat EXCEPT !.at = "answered", !.usage = usage, !.charge = CostCents(PriceCharged, usage)]
    /\ UNCHANGED catalogVars

\* The task is cancelled or the caller leaves.
AbortChat ==
    /\ chat.at \in {"calling", "sent", "returned"} /\ ~chat.aborted
    /\ chat' = [chat EXCEPT !.aborted = TRUE]
    /\ UNCHANGED catalogVars

Reprice == offer' \in Offers /\ UNCHANGED <<catalog, fresh, chat>>
Outdate == fresh /\ fresh' = FALSE /\ UNCHANGED <<offer, catalog, chat>>

GatewayNext ==
    \/ \E m \in Models : GetModel(m)
    \/ GetFallback \/ ReserveEither \/ CallProvider \/ TryFallback \/ GiveUp \/ AbortChat \/ Reprice \/ Outdate
    \/ \E a \in Answers : ProviderAnswers(a)
    \/ \E u \in Usages, text \in {1, OutputLimit} : Charge(u, text)

-----------------------------------------------------------------------------
\* An answer costs what a price list of the provider asked for the model that gave it,
\* never nothing, and no more than was reserved if it kept within the request's limits;
\* it is whole; and the provider was called at most twice for each model.
PricedAsListed ==
    /\ chat.calls <= 4
    /\ ChatAt("answered") =>
        /\ WholeAnswer(chat.answer)
        /\ \E o \in Offers : /\ o.status /\ (chat.on = chat.model => chat.on \in o.advertised)
                             /\ {row \in ValidRows(o) : row.id = chat.on} = {PriceCharged}
        /\ chat.charge >= 1
        /\ chat.usage.input <= InputEstimate /\ chat.usage.output <= OutputLimit =>
               chat.charge <= chat.reserved

=============================================================================

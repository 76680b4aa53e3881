----------------------------- MODULE OidcLogin -----------------------------
(***************************************************************************)
(* Signing in through the identity provider: the server's one-use records  *)
(* of logins, its copy of the provider's signing keys, the callback, and   *)
(* the ticket that the browser exchanges for a session.  Sources: services *)
(* /control-plane/src/oidc.ts, the routes of server.ts and                 *)
(* apps/web/src/api.ts.                                                    *)
(*                                                                         *)
(* One server process, whose memory a restart empties.  The provider is    *)
(* external: it honours the code of a login once, and only for the         *)
(* verifier of that login.  The checks of its token that no honest         *)
(* provider fails are one alternative.                                     *)
(***************************************************************************)
EXTENDS Identities

CONSTANTS
    Logins,             \* logins that browsers begin
    Returns,              \* requests of the callback: a browser may repeat one
    SigningKeys,        \* the provider's keys, in the order of their use: 1, 2, ...
    Nobody, NoLogin

VARIABLES
    metadata,           \* the discovery document: none, loading or ready
    jwks,               \* the keys the server holds, {} for none
    transactions,       \* logins the server remembers
    tickets,            \* calls whose exchange code has not been used
    login,              \* login -> where it is, and who signed in at the provider
    call,               \* call -> where the handler is
    providerKeys,          \* the provider's keys
    sessions            \* history: call -> accounts its code was exchanged for

memoryVars == <<metadata, jwks, transactions, tickets>>
loginVars == <<memoryVars, login, call, providerKeys, sessions>>

-----------------------------------------------------------------------------
IdleCall == [at |-> "idle", login |-> NoLogin, kid |-> 0, answer |-> {}]

LoginInit ==
    /\ metadata = "none" /\ jwks = {} /\ transactions = {} /\ tickets = {}
    /\ login = [l \in Logins |-> [at |-> "idle", person |-> Nobody]]
    /\ call = [c \in Returns |-> IdleCall]
    /\ providerKeys = {1}
    /\ sessions = [c \in Returns |-> 0]

PutLogin(l, at) == login' = [login EXCEPT ![l].at = at]
PutCall(c, at) == call' = [call EXCEPT ![c].at = at]
Person(c) == login[call[c].login].person

-----------------------------------------------------------------------------
(* begin. *)

\* Every login that finds no document loads the same one.
Begin(l) ==
    /\ login[l].at = "idle"
    /\ IF metadata = "ready"
       THEN PutLogin(l, "redirected") /\ transactions' = transactions \cup {l} /\ UNCHANGED metadata
       ELSE PutLogin(l, "waiting") /\ metadata' = "loading" /\ UNCHANGED transactions
    /\ UNCHANGED <<jwks, tickets, call, providerKeys, sessions>>

Waiting == {l \in Logins : login[l].at = "waiting"}

\* The document arrives for all who wait, or is forgotten so that the next one asks again.
MetadataAnswer(ok) ==
    /\ metadata = "loading"
    /\ metadata' = IF ok THEN "ready" ELSE "none"
    /\ transactions' = IF ok THEN transactions \cup Waiting ELSE transactions
    /\ login' = [l \in Logins |-> IF l \in Waiting
                                  THEN [login[l] EXCEPT !.at = IF ok THEN "redirected" ELSE "failed"]
                                  ELSE login[l]]
    /\ UNCHANGED <<jwks, tickets, call, providerKeys, sessions>>

\* Somebody signs in at the provider, which sends the browser back with a code.
SignInAtProvider(l, s) ==
    /\ login[l].at = "redirected"
    /\ login' = [login EXCEPT ![l] = [at |-> "returned", person |-> s]]
    /\ UNCHANGED <<memoryVars, call, providerKeys, sessions>>

-----------------------------------------------------------------------------
(* complete. *)

\* The record of the login goes before anything is awaited.
Callback(c, l) ==
    /\ call[c].at = "idle" /\ login[l].at \in {"returned", "redeemed"}
    /\ call' = [call EXCEPT ![c] = [IdleCall EXCEPT !.login = l,
                   !.at = IF l \in transactions THEN "exchanging" ELSE "refused"]]
    /\ transactions' = transactions \ {l}
    /\ UNCHANGED <<metadata, jwks, tickets, login, providerKeys, sessions>>

\* verifyIdToken, when the keys at hand lack the token's: they are forgotten and
\* asked for once more.
OnMissing(again, keys) ==
    IF again THEN [at |-> "missing", jwks |-> keys] ELSE [at |-> "asking_again", jwks |-> {}]

Looked(again, kid, keys) ==
    IF kid \in keys THEN [at |-> "verified", jwks |-> keys] ELSE OnMissing(again, keys)

\* The provider gives its token for the code, signed with its newest key.  The keys
\* that the server holds are used at once.
TokenAnswer(c, ok) ==
    LET kid == Cardinality(providerKeys)
        looked == IF jwks = {} THEN [at |-> "asking", jwks |-> {}] ELSE Looked(FALSE, kid, jwks)
    IN  /\ call[c].at = "exchanging"
        /\ IF ok /\ login[call[c].login].at = "returned"
           THEN /\ call' = [call EXCEPT ![c].at = looked.at, ![c].kid = kid]
                /\ jwks' = looked.jwks
                /\ PutLogin(call[c].login, "redeemed")
           ELSE PutCall(c, "refused") /\ UNCHANGED <<login, jwks>>
        /\ UNCHANGED <<metadata, transactions, tickets, providerKeys, sessions>>

\* The provider answers with the keys it has then; the answer is on its way.
ServeKeys(c) ==
    /\ call[c].at \in {"asking", "asking_again"} /\ call[c].answer = {}
    /\ call' = [call EXCEPT ![c].answer = providerKeys]
    /\ UNCHANGED <<memoryVars, login, providerKeys, sessions>>

\* loadJwks: what arrives is kept, and used.
KeysArrive(c, ok) ==
    LET looked == Looked(call[c].at = "asking_again", call[c].kid, call[c].answer)
    IN  /\ call[c].answer # {}
        /\ IF ok THEN /\ call' = [call EXCEPT ![c].at = looked.at, ![c].answer = {}]
                      /\ jwks' = looked.jwks
                 ELSE /\ call' = [call EXCEPT ![c].at = "refused", ![c].answer = {}]
                      /\ UNCHANGED jwks
        /\ UNCHANGED <<metadata, transactions, tickets, login, providerKeys, sessions>>

\* Another check fails, or the provider's description of the user does not come or is
\* of another subject or has no verified address.
Reject(c) ==
    /\ call[c].at = "verified"
    /\ PutCall(c, "refused")
    /\ UNCHANGED <<memoryVars, login, providerKeys, sessions>>

\* The route registers who signed in and sends the browser home with a code.
GiveTicket(c) ==
    /\ call[c].at = "verified"
    /\ IF External(Person(c)) = "link_required"
       THEN PutCall(c, "refused") /\ UNCHANGED <<tickets, rowVars>>
       ELSE PutCall(c, "registered") /\ tickets' = tickets \cup {c} /\ RegisterExternal(Person(c))
    /\ UNCHANGED <<metadata, jwks, transactions, login, providerKeys, sessions>>

\* consumeExchangeTicket.
UsedUp(c) == tickets \ {c}

\* The page takes its code out of the address and exchanges it; whether the answer
\* arrives is not known to the server.
Exchange(c) ==
    /\ c \in tickets
    /\ tickets' = UsedUp(c)
    /\ sessions' = [sessions EXCEPT ![c] = @ + 1]
    /\ UNCHANGED <<metadata, jwks, transactions, login, call, providerKeys>>

-----------------------------------------------------------------------------
\* 10 minutes, 1 minute and 5 minutes after they were made.
ForgetOld ==
    /\ \/ \E l \in transactions : transactions' = transactions \ {l} /\ UNCHANGED <<tickets, jwks>>
       \/ \E c \in tickets : tickets' = tickets \ {c} /\ UNCHANGED <<transactions, jwks>>
       \/ jwks # {} /\ jwks' = {} /\ UNCHANGED <<transactions, tickets>>
    /\ UNCHANGED <<metadata, login, call, providerKeys, sessions>>

CallOver == {"idle", "refused", "missing", "registered"}

\* The process is replaced: what it remembers is lost, and so is every handler.
RestartServer ==
    /\ metadata' = "none" /\ jwks' = {} /\ transactions' = {} /\ tickets' = {}
    /\ login' = [l \in Logins |-> IF l \in Waiting THEN [login[l] EXCEPT !.at = "failed"] ELSE login[l]]
    /\ call' = [c \in Returns |-> IF call[c].at \in CallOver THEN call[c]
                                ELSE [call[c] EXCEPT !.at = "refused", !.answer = {}]]
    /\ UNCHANGED <<providerKeys, sessions>>

\* The provider begins to sign with a new key and publishes it beside the old ones.
RotateKeys ==
    /\ Cardinality(providerKeys) < Cardinality(SigningKeys)
    /\ providerKeys' = providerKeys \cup {Cardinality(providerKeys) + 1}
    /\ UNCHANGED <<memoryVars, login, call, sessions>>

LoginSteps ==
    \/ \E l \in Logins : Begin(l) \/ \E s \in Subjects : SignInAtProvider(l, s)
    \/ \E ok \in BOOLEAN : MetadataAnswer(ok)
    \/ \E c \in Returns, l \in Logins : Callback(c, l)
    \/ \E c \in Returns, ok \in BOOLEAN : TokenAnswer(c, ok) \/ KeysArrive(c, ok)
    \/ \E c \in Returns : ServeKeys(c) \/ Reject(c) \/ Exchange(c)
    \/ ForgetOld \/ RestartServer \/ RotateKeys

\* While people sign in the server serves, a database that may have accounts with a
\* password, and nobody else registers.
Serves ==
    /\ index = "valid" /\ boot = [i \in Servers |-> "serving"]
    /\ users \in SUBSET {OfMail(m) : m \in Mails} /\ passwords = users /\ linked = {}

LoginNext ==
    \/ LoginSteps /\ UNCHANGED identityVars
    \/ (\E c \in Returns : GiveTicket(c)) /\ UNCHANGED <<index, boot>>

LoginSpec == Serves /\ LoginInit /\ [][LoginNext]_<<loginVars, identityVars>>

-----------------------------------------------------------------------------
\* One login at the provider gives at most one session, however often the browser
\* repeats the callback or the exchange, and it is a session of the account of who
\* signed in there; an address with a password is not entered that way.  A key that
\* the provider has begun to use never makes the server refuse a login.
LoginSafe ==
    /\ \A c, d \in Returns : /\ sessions[c] <= 1
                            /\ c # d /\ call[c].login = call[d].login => sessions[c] = 0 \/ sessions[d] = 0
    /\ \A c \in Returns : sessions[c] > 0 =>
           Person(c) \in linked /\ OfSubject(Person(c)) \in users \ passwords
    /\ \A c \in Returns : call[c].at # "missing"

\* Whoever signs in has the one account of its address, and its session alone.
AccountsSafe == OneAccountPerAddress /\ LoginSafe

=============================================================================

------------------------------- MODULE MCApps -------------------------------
(* Components that share no state, checked by one run: `part' says which of  *)
(* them it is that moves, and is chosen in the initial state.                *)
EXTENDS Billing, Registration, EventFeed, ComputeOrders, RequestDesk, GooseSidecar, MobileSession,
        OidcLogin, WorkspaceSession, LoginForm

VARIABLE part

appsVars == <<part, vars, registrationVars, feedVars, marketVars, deskVars, requestVars,
              sidecarVars, mobileVars, identityVars, loginVars, sessionVars, formVars>>

\* Accounts are interchangeable: the session of the last visit is of the first.
FirstAccount == CHOOSE a \in Accounts : TRUE

AppsInit ==
    /\ part \in {"accounts", "registration", "feed", "market", "desk", "sidecar", "mobile",
                 "identities", "login", "window", "form"}
    /\ Init /\ RegistrationInit /\ FeedInit /\ MarketInit /\ DeskInit /\ SidecarInit /\ MobileInit
    /\ IF part = "login" THEN Serves ELSE IdentitiesInit
    /\ LoginInit /\ SessionInit /\ FormInit
    /\ part # "mobile" => secure = Empty /\ plaintext = NoToken
    /\ part = "window" => owner[1] = FirstAccount
    /\ part # "window" => stored = NoSession /\ owner = [t \in Sessions |-> FirstAccount]

AppsNext ==
    /\ UNCHANGED part
    /\ \/ part = "accounts" /\ UNCHANGED <<registrationVars, feedVars, marketVars, deskVars, requestVars, sidecarVars,
                          mobileVars, identityVars, loginVars, sessionVars, formVars>>
          /\ Next
       \/ part = "registration" /\ UNCHANGED <<vars, feedVars, marketVars, deskVars, requestVars, sidecarVars, mobileVars,
                          identityVars, loginVars, sessionVars, formVars>>
          /\ RegistrationNext
       \/ part = "feed" /\ UNCHANGED <<vars, registrationVars, marketVars, deskVars, requestVars, sidecarVars,
                          mobileVars, identityVars, loginVars, sessionVars, formVars>>
          /\ FeedNext
       \/ part = "market" /\ UNCHANGED <<vars, registrationVars, feedVars, deskVars, requestVars, sidecarVars, mobileVars,
                          identityVars, loginVars, sessionVars, formVars>>
          /\ MarketNext
       \/ part = "desk" /\ UNCHANGED <<vars, registrationVars, feedVars, marketVars, sidecarVars, mobileVars,
                          identityVars, loginVars, sessionVars, formVars>>
          /\ DeskNext
       \/ part = "sidecar" /\ UNCHANGED <<vars, registrationVars, feedVars, marketVars, deskVars, requestVars, mobileVars,
                          identityVars, loginVars, sessionVars, formVars>>
          /\ SidecarNext
       \/ part = "mobile" /\ UNCHANGED <<vars, registrationVars, feedVars, marketVars, deskVars, requestVars, sidecarVars,
                          identityVars, loginVars, sessionVars, formVars>>
          /\ MobileNext
       \/ part = "identities" /\ UNCHANGED <<vars, registrationVars, feedVars, marketVars, deskVars, requestVars, sidecarVars,
                          mobileVars, loginVars, sessionVars, formVars>>
          /\ IdentitiesNext
       \/ part = "login" /\ UNCHANGED <<vars, registrationVars, feedVars, marketVars, deskVars, requestVars, sidecarVars,
                          mobileVars, sessionVars, formVars>>
          /\ LoginNext
       \/ part = "window" /\ UNCHANGED <<vars, registrationVars, feedVars, marketVars, deskVars, requestVars, sidecarVars,
                          mobileVars, identityVars, loginVars, formVars>>
          /\ SessionNext
       \/ part = "form" /\ UNCHANGED <<vars, registrationVars, feedVars, marketVars, deskVars, requestVars, sidecarVars,
                          mobileVars, identityVars, loginVars, sessionVars>>
          /\ FormNext

AppsSpec == AppsInit /\ [][AppsNext]_appsVars

\* What moves tells the states of a behaviour apart; the rest is as it was.
Moving ==
    CASE part = "accounts" -> <<part, vars>>
      [] part = "registration" -> <<part, registrationVars>>
      [] part = "feed" -> <<part, feedVars>>
      [] part = "market" -> <<part, marketVars>>
      [] part = "desk" -> <<part, deskVars, requestVars>>
      [] part = "sidecar" -> <<part, sidecarVars>>
      [] part = "mobile" -> <<part, mobileVars>>
      [] part = "identities" -> <<part, identityVars>>
      [] part = "login" -> <<part, loginVars, identityVars>>
      [] part = "window" -> <<part, sessionVars>>
      [] part = "form" -> <<part, formVars>>

NoPacks == {}
AddressOf(s) == IF s = "ada" THEN "a" ELSE "b"

=============================================================================

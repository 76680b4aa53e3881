----------------------------- MODULE Identities -----------------------------
(***************************************************************************)
(* The rows of cod_users, the index that keeps their addresses apart and   *)
(* the start of a server that builds it.  Source: services/control-plane/  *)
(* src/database.ts.                                                        *)
(*                                                                         *)
(* A registration holds the advisory lock of its address for a whole       *)
(* transaction and is one step.  Rows of an earlier version of the program *)
(* and repairs by hand come from outside.  Registrations with one-time     *)
(* codes are in Registration.                                              *)
(***************************************************************************)
EXTENDS Naturals, FiniteSets

CONSTANTS
    Mails,
    Subjects,           \* people an identity provider knows
    LegacyMails,        \* developmentLoginEmail, whose old account may get a password
    Servers             \* processes that start on one database

CONSTANT MailOf(_)      \* subject -> its verified address

ASSUME SubjectAssumption == {"mail", "old"} \cap Subjects = {}

VARIABLES
    users,              \* rows of cod_users: how each got its id, and its address
    linked,             \* subjects with a row of cod_external_identities
    passwords,          \* ids with a password
    index,              \* cod_users_email_global_unique: absent, invalid or valid
    boot                \* server -> where its start is

identityVars == <<users, linked, passwords, index, boot>>

-----------------------------------------------------------------------------
\* Ids are hashes: of the address, or of the subject at its provider.
OfMail(m) == [by |-> "mail", mail |-> m]
OfSubject(s) == [by |-> s, mail |-> MailOf(s)]
Old(m) == [by |-> "old", mail |-> m]

IdentitiesInit ==
    /\ users = {} /\ linked = {} /\ passwords = {}
    /\ index = "absent"
    /\ boot = [i \in Servers |-> "down"]

Owners(m) == {u \in users : u.mail = m}
Unique == \A u, v \in users : u.mail = v.mail => u = v
Serving == \E i \in Servers : boot[i] = "serving"

rowVars == <<users, linked, passwords>>

-----------------------------------------------------------------------------
(* ensureGlobalEmailUniqueIndex: under an advisory lock of the session. *)

LocksIndex(i) == boot[i] \in {"locked", "counted", "building"}
Move(i, at) == boot' = [boot EXCEPT ![i] = at]

Lock(i) ==
    /\ boot[i] = "down" /\ ~ \E j \in Servers : LocksIndex(j)
    /\ Move(i, "locked")
    /\ UNCHANGED <<rowVars, index>>

\* Mutation of Usable: any index of that name will do.
UsableByName(x) == x # "absent"

\* valid: what makes an index that is there good enough.
Usable(x) == x = "valid"

Inspect(i) ==
    /\ boot[i] = "locked"
    /\ \/ index = "absent" /\ Unique /\ Move(i, "counted")
       \/ index = "absent" /\ ~Unique /\ Move(i, "down")
       \/ index # "absent" /\ Usable(index) /\ Move(i, "serving")
       \/ index # "absent" /\ ~Usable(index) /\ Move(i, "down")
    /\ UNCHANGED <<rowVars, index>>

\* CREATE UNIQUE INDEX CONCURRENTLY enters the index in the catalog, ...
Create(i) ==
    /\ boot[i] = "counted"
    /\ Move(i, "building") /\ index' = "invalid"
    /\ UNCHANGED rowVars

\* ... reads the table, and leaves what it entered if that has duplicates.
Build(i) ==
    /\ boot[i] = "building"
    /\ \/ Unique /\ index' = "valid" /\ Move(i, "serving")
       \/ ~Unique /\ index' = index /\ Move(i, "down")
    /\ UNCHANGED rowVars

\* The process ends, or loses its connection; a build may still come to its end.
Stop(i) ==
    /\ boot[i] # "down"
    /\ Move(i, "down")
    /\ index' \in {index} \cup (IF boot[i] = "building" /\ Unique THEN {"valid"} ELSE {})
    /\ UNCHANGED rowVars

\* The maintenance that the messages of the errors ask for.
Repair ==
    /\ \A i \in Servers : boot[i] = "down"
    /\ \/ index = "invalid" /\ index' = "absent" /\ UNCHANGED users
       \/ ~Unique /\ users' \in {users \ {u} : u \in {x \in users : x.by = "old"}}
          /\ UNCHANGED index
    /\ UNCHANGED <<linked, passwords, boot>>

\* An earlier version, or a script, adds a row.  An index that is not yet valid may
\* refuse it or not.
AddOld(m) ==
    /\ index = "valid" => Owners(m) = {}
    /\ users' = users \cup {Old(m)}
    /\ UNCHANGED <<linked, passwords, index, boot>>

-----------------------------------------------------------------------------
(* Accounts. *)

\* registerExternalIdentity: what a subject gets.
External(s) ==
    IF s \in linked THEN "linked"
    ELSE IF Owners(MailOf(s)) # {} THEN "link_required" ELSE "created"

RegisterExternal(s) ==
    /\ External(s) # "link_required"
    /\ users' = users \cup {OfSubject(s)}
    /\ linked' = linked \cup {s}
    /\ UNCHANGED passwords

SignInExternal(s) ==
    /\ Serving
    /\ RegisterExternal(s)
    /\ UNCHANGED <<index, boot>>

\* registerIdentity: a new address, or the old account of the configured address.
RegisterIdentity(m) ==
    /\ Serving
    /\ \/ Owners(m) = {} /\ users' = users \cup {OfMail(m)} /\ passwords' = passwords \cup {OfMail(m)}
       \/ /\ m \in LegacyMails
          /\ \E u \in Owners(m) \ passwords : passwords' = passwords \cup {u}
          /\ UNCHANGED users
    /\ UNCHANGED <<linked, index, boot>>

\* ensurePrincipal for the sender of a message: without a lock, so that the index
\* alone refuses an address that has another row, and the message with it.
EnsurePrincipal(m) ==
    /\ Serving
    /\ Owners(m) \subseteq {OfMail(m)}
    /\ users' = users \cup {OfMail(m)}
    /\ UNCHANGED <<linked, passwords, index, boot>>

IdentitiesNext ==
    \/ \E i \in Servers : Lock(i) \/ Inspect(i) \/ Create(i) \/ Build(i) \/ Stop(i)
    \/ Repair
    \/ \E m \in Mails : AddOld(m) \/ RegisterIdentity(m) \/ EnsurePrincipal(m)
    \/ \E s \in Subjects : SignInExternal(s)

IdentitiesSpec == IdentitiesInit /\ [][IdentitiesNext]_identityVars

-----------------------------------------------------------------------------
\* While a server serves, an address has one account: whoever signs in with it, by
\* password, through a provider or by a message, is one and the same.
OneAccountPerAddress ==
    Serving => /\ index = "valid" /\ Unique
               /\ \A s \in linked : OfSubject(s) \in users /\ Owners(MailOf(s)) = {OfSubject(s)}

=============================================================================

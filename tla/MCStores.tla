------------------------------ MODULE MCStores ------------------------------
(* Tables of the control plane that share no row, the model provider, and    *)
(* what a window of the desktop does with its agent and its project, checked *)
(* by one run: `part' says which of them it is that changes, and is chosen   *)
(* in the initial state, in which nothing is to be done in the others.       *)
EXTENDS TaskLease, ReviewedWork, PaymentOrders, ModelGateway, WindowWork,
        Upgrade, AuditGate, ProjectFiles

-----------------------------------------------------------------------------
(* What a model provider may offer and answer. *)

PriceRow(m, in, out) == [id |-> m, valid |-> TRUE, input |-> in, output |-> out]

UsualPrices == {PriceRow("glm", 3, 9), PriceRow("gpt", 5, 25)}
OtherPrices == {PriceRow("glm", 4, 4), PriceRow("glm", 2, 8), PriceRow("gpt", 1, 1)}

Offer(prices, advertised) == [status |-> TRUE, rows |-> prices, advertised |-> advertised]
QuietOffer == [status |-> FALSE, rows |-> UsualPrices, advertised |-> {"glm"}]

OfferValues ==
    {Offer(UsualPrices, {"glm", "gpt"}), Offer(OtherPrices, {"glm", "gpt"}),
     Offer(UsualPrices, {"glm"}), Offer(UsualPrices, {}), QuietOffer}

Stream(events) == [status |-> "ok", events |-> events]

AnswerValues ==
    {Stream(<<>>), Stream(<<"text", "stop">>), Stream(<<"call", "length">>),
     Stream(<<"text", "error">>), Stream(<<"length">>)} \cup
    {[status |-> s, events |-> <<>>] : s \in {"busy", "refused", "lost"}}

UsageValues == {[input |-> i, output |-> o] : i \in {0, 2, 3}, o \in {0, 1, 3}}

PreferredModels == <<"glm", "gpt">>

-----------------------------------------------------------------------------
(* What the gate of the dependencies may find: what was reviewed, and what   *)
(* differs from it in one of its inputs.                                     *)

UsualNames == {"image-size", "metro", "expo"}
UsualOrder == <<"image-size", "metro", "expo">>
UsualPaths == <<"i", "m", "e">>
AllowList(advisories, names, paths) ==
    [pinned |-> TRUE, advisories |-> advisories,
     packages |-> [i \in 1..3 |-> [name |-> names[i], path |-> paths[i]]]]
Vulnerability(packages, advisories, unchanged) ==
    [packages |-> packages, advisories |-> advisories, unchanged |-> unchanged]

ReportsOf(names) ==
    {[p \in names |-> IF p = ImageSize THEN Vulnerability({}, own, TRUE) ELSE Vulnerability(blames[p], <<>>, TRUE)] :
        own \in {<<"g1", "g2">>, <<"g2", "g1">>, <<"g1", "g1">>, <<"g1">>, <<"g1", "g3">>},
        blames \in [names \ {ImageSize} -> SUBSET names]}

UsualReport ==
    [p \in UsualNames |-> IF p = ImageSize THEN Vulnerability({}, <<"g1", "g2">>, TRUE) ELSE Vulnerability({ImageSize}, <<>>, TRUE)]

Reports ==
    ReportsOf(UsualNames) \cup ReportsOf(UsualNames \ {"metro"}) \cup
    {[UsualReport EXCEPT !["metro"] = e] :
        e \in {Vulnerability({}, <<>>, TRUE), Vulnerability({"left-pad"}, <<>>, TRUE), Vulnerability({}, <<"g3">>, TRUE),
               Vulnerability({ImageSize}, <<"g1">>, TRUE), Vulnerability({ImageSize}, <<>>, FALSE)}} \cup
    {[UsualReport EXCEPT ![ImageSize].packages = {"metro"}],
     [p \in Packages |-> IF p \in UsualNames THEN UsualReport[p] ELSE Vulnerability({ImageSize}, <<>>, TRUE)]}


Usual == [allowlist |-> AllowList(<<"g1", "g2">>, UsualOrder, UsualPaths), today |-> 1, expires |-> 1,
          production |-> [entries |-> {"low"}, total |-> "low"], full |-> UsualReport,
          lock |-> [reviewed |-> TRUE, copies |-> 1, parents |-> 1], mitigations |-> "reviewed"]

InputValues ==
    {[Usual EXCEPT !.full = r] : r \in Reports} \cup
    {[Usual EXCEPT !.allowlist = l] :
        l \in {AllowList(<<"g2", "g1">>, UsualOrder, UsualPaths), AllowList(<<"g1", "g1">>, UsualOrder, UsualPaths),
               AllowList(<<"g1">>, UsualOrder, UsualPaths), AllowList(<<"g1", "g2">>, UsualOrder, <<"i", "m", "m">>),
               AllowList(<<"g1", "g2">>, <<"image-size", "metro", "metro">>, UsualPaths),
               AllowList(<<"g1", "g2">>, <<"left-pad", "metro", "expo">>, UsualPaths)}} \cup
    {[Usual EXCEPT !.production = [entries |-> e, total |-> t]] :
        e \in SUBSET {"low", "high", "critical"}, t \in {"none", "low", "high"}} \cup
    {[Usual EXCEPT !.lock = l] : l \in [reviewed : BOOLEAN, copies : 0..2, parents : 0..2]} \cup
    {[Usual EXCEPT !.allowlist.pinned = FALSE], [Usual EXCEPT !.today = 2],
     [Usual EXCEPT !.mitigations = "changed"], [Usual EXCEPT !.mitigations = "missing"]}

-----------------------------------------------------------------------------
(* What a project may hold: untracked files, and directories.                *)

PathOf(kind, size, mayGo) == [kind |-> kind, size |-> size, mayGo |-> mayGo]

PathKinds ==
    {PathOf("file", 1, TRUE), PathOf("file", 2, FALSE), PathOf("file", 3, FALSE),
     PathOf("link", 1, FALSE)}

UntrackedValues == UNION {[1..n -> PathKinds] : n \in {0, 1, 3, 4}}

FileEntry(n) == [name |-> n, dir |-> FALSE]
DirEntry(n) == [name |-> n, dir |-> TRUE]

SmallTree == [top |-> <<>>, src |-> <<>>, lib |-> <<>>, deep |-> <<FileEntry("z1")>>]

TreeValues ==
    {[top |-> a, src |-> b, lib |-> c, deep |-> <<FileEntry("z1")>>] :
        a \in {<<>>, <<FileEntry("a1")>>, <<DirEntry("src"), FileEntry("a1")>>,
               <<DirEntry("src"), FileEntry("a1"), FileEntry("a2"), FileEntry("a3")>>},
        b \in {<<>>, <<FileEntry("b1")>>, <<DirEntry("lib")>>,
               <<DirEntry("lib"), FileEntry("b1"), FileEntry("b2")>>},
        c \in {<<>>, <<FileEntry("c1"), FileEntry("c2")>>, <<DirEntry("deep"), FileEntry("c1")>>}}

-----------------------------------------------------------------------------
(* Entries of an earlier release: of the wallet, of both and of credit.      *)
EarlierEntries ==
    {Entry("topup", "topup", 2, 0), Entry("usage", "usage", -1, -1), Entry("grant", "credit_grant", 0, 1)}

(* Where the tables of an earlier release are no part of what happens.       *)
NothingToMigrate ==
    /\ earlier = "strict" /\ wallet = 0 /\ ledger = {} /\ held = NotHeld
    /\ work = [status |-> "draft", lease |-> "none"]

-----------------------------------------------------------------------------
VARIABLE part

restVars == <<upgradeVars, auditVars, diffVars, treeVars>>

storesVars == <<part, taskVars, boardVars, paymentVars, requestVars, hostingVars, gatewayVars,
               runVars, projectVars, proxyVars, restVars>>

StoresInit ==
    /\ part \in {"task", "board", "payments", "requests", "hosting", "model", "run", "project", "proxy",
                 "upgrade", "audit", "diff", "tree"}
    /\ UpgradeInit /\ (part # "upgrade" => NothingToMigrate)
    /\ AuditInit /\ (part # "audit" => input = Usual)
    /\ DiffInit /\ (part # "diff" => todo = <<>>)
    /\ TreeInit /\ (part # "tree" => tree = SmallTree)
    /\ TaskInit /\ BoardInit /\ PaymentInit /\ RequestsInit /\ HostingInit /\ GatewayInit
    /\ RunInit /\ ProjectInit /\ ProxyInit
    /\ part # "model" => offer = QuietOffer

StoresNext ==
    /\ UNCHANGED part
    /\ \/ part = "task" /\ UNCHANGED <<boardVars, paymentVars, requestVars, hostingVars,
                                    gatewayVars, runVars, projectVars, proxyVars, restVars>>
          /\ TaskNext
       \/ part = "board" /\ UNCHANGED <<taskVars, paymentVars, requestVars, hostingVars,
                                    gatewayVars, runVars, projectVars, proxyVars, restVars>>
          /\ BoardNext
       \/ part = "payments" /\ UNCHANGED <<taskVars, boardVars, requestVars, hostingVars,
                                    gatewayVars, runVars, projectVars, proxyVars, restVars>>
          /\ PaymentNext
       \/ part = "requests" /\ UNCHANGED <<taskVars, boardVars, paymentVars, hostingVars,
                                    gatewayVars, runVars, projectVars, proxyVars, restVars>>
          /\ RequestsNext
       \/ part = "hosting" /\ UNCHANGED <<taskVars, boardVars, paymentVars, requestVars,
                                    gatewayVars, runVars, projectVars, proxyVars, restVars>>
          /\ HostingNext
       \/ part = "model" /\ UNCHANGED <<taskVars, boardVars, paymentVars, requestVars,
                                    hostingVars, runVars, projectVars, proxyVars, restVars>>
          /\ GatewayNext
       \/ part = "run" /\ UNCHANGED <<taskVars, boardVars, paymentVars, requestVars,
                                    hostingVars, gatewayVars, projectVars, proxyVars, restVars>>
          /\ RunNext
       \/ part = "project" /\ UNCHANGED <<taskVars, boardVars, paymentVars, requestVars,
                                    hostingVars, gatewayVars, runVars, proxyVars, restVars>>
          /\ ProjectNext
       \/ part = "proxy" /\ UNCHANGED <<taskVars, boardVars, paymentVars, requestVars,
                                    hostingVars, gatewayVars, runVars, projectVars, restVars>>
          /\ ProxyNext
       \/ part = "upgrade" /\ UNCHANGED <<taskVars, boardVars, paymentVars, requestVars,
                                    hostingVars, gatewayVars, runVars, projectVars, proxyVars,
                                    auditVars, diffVars, treeVars>>
          /\ UpgradeNext
       \/ part = "audit" /\ UNCHANGED <<taskVars, boardVars, paymentVars, requestVars,
                                    hostingVars, gatewayVars, runVars, projectVars, proxyVars,
                                    upgradeVars, diffVars, treeVars>>
          /\ AuditNext
       \/ part = "diff" /\ UNCHANGED <<taskVars, boardVars, paymentVars, requestVars,
                                    hostingVars, gatewayVars, runVars, projectVars, proxyVars,
                                    upgradeVars, auditVars, treeVars>>
          /\ DiffNext
       \/ part = "tree" /\ UNCHANGED <<taskVars, boardVars, paymentVars, requestVars,
                                    hostingVars, gatewayVars, runVars, projectVars, proxyVars,
                                    upgradeVars, auditVars, diffVars>>
          /\ TreeNext

StoresSpec == StoresInit /\ [][StoresNext]_storesVars

\* What moves tells the states of a behaviour apart; the rest is as it was.
Moving ==
    CASE part = "task" -> <<part, taskVars>>
      [] part = "board" -> <<part, boardVars>>
      [] part = "payments" -> <<part, paymentVars>>
      [] part = "requests" -> <<part, requestVars>>
      [] part = "hosting" -> <<part, hostingVars>>
      [] part = "model" -> <<part, gatewayVars>>
      [] part = "run" -> <<part, runVars>>
      [] part = "project" -> <<part, projectVars>>
      [] part = "proxy" -> <<part, proxyVars>>
      [] part = "upgrade" -> <<part, upgradeVars>>
      [] part = "audit" -> <<part, auditVars>>
      [] part = "diff" -> <<part, diffVars>>
      [] part = "tree" -> <<part, treeVars>>

=============================================================================

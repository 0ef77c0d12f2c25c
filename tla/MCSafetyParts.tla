-------------------------- MODULE MCSafetyParts --------------------------
(* Sixteen components that keep no state in common, checked in one run.    *)
(* A behaviour is one of a single component: part says which, and does not *)
(* change. The acquisition gate, the plans and the delivery of a plan have *)
(* variables of their own, which rest in an initial state in the           *)
(* behaviours of the others. Those take turns with the variables s1, s2,   *)
(* ...: each INSTANCE says which of them is which variable of its module,  *)
(* and the ones a component does not need stay 0.                          *)
EXTENDS AcquisitionGate, PlanDelivery, DailyPlans

VARIABLES part,
          s1, s2, s3, s4, s5, s6, s7, s8, s9, s10, s11, s12, s13, s14, s15,
          s16, s17, s18, s19, s20, s21, s22, s23, s24, s25, s26, s27, s28, s29, s30

---------------------------------------------------------------------------
(* Values of the constants. *)

\* Contracts of one product by month; three universes of them.
Contract(m) == [product |-> "p", weekly |-> FALSE, month |-> m, session |-> "regular"]
PlanUniverses == {{Contract(1), Contract(2)}, {Contract(2), Contract(3)}, {Contract(3)}}

\* What the operators and schedulers of a behaviour do, so that every pair of
\* operations that contend meets in some menu.
Menu(dataset, profile, seasoned, sessions, limit, ops) ==
    [dataset |-> dataset, profile |-> profile, skip |-> dataset # "hk", seasoned |-> seasoned,
     sessions |-> sessions, limit |-> limit, ops |-> ops]
PlanMenus == {
  Menu("equity", "pilot", TRUE, {"s", "t"}, 2, {"plan", "edit", "calendar"}),
  Menu("equity", "pilot", FALSE, {"s"}, 5, {"edit", "calendar", "rollback"}),
  Menu("equity", "pilot", FALSE, {"s", "t"}, 3, {"preview", "apply", "edit"}),
  Menu("equity", "full_market", FALSE, {"s", "t"}, 3, {"submit", "publish"}),
  Menu("equity", "full_market", FALSE, {"s"}, 4, {"submit", "publish", "start", "plan"}),
  Menu("equity", "full_market", TRUE, {"s", "t"}, 2, {"submit", "plan"}),
  Menu("taifex", "full_market", TRUE, {"s"}, 4, {"submit", "publish", "reconcile", "plan"}),
  Menu("hk", "full_market", FALSE, {"s"}, 4, {"submit", "publish", "cutover", "start"}),
  Menu("hk", "full_market", TRUE, {"s", "t"}, 2,
       {"start", "stop", "plan", "environment", "revoke", "cutover"}),
  Menu("hk", "full_market", TRUE, {"s", "t"}, 3, {"start", "stop", "plan"})}

\* Two attempts of the first sequence, one of the second, and a backfill.
DeliveryCarries == [r |-> {"a"}, q |-> {"a"}, n |-> {"a"}, h |-> {"a", "g"}]
DeliverySequence == [r |-> 1, q |-> 1, n |-> 2, h |-> 0]
DeliveryFeeds == {
  [kind |-> "eod", runs |-> {"r", "h"},
   ops |-> {"accept", "process", "complete", "fail", "repair", "backfill", "outcome"}],
  [kind |-> "minute", runs |-> {"r", "q", "n"}, ops |-> {"accept", "process", "complete", "fail"}],
  [kind |-> "minute", runs |-> {"r", "n"},
   ops |-> {"accept", "process", "complete", "fail", "retry", "outcome"}]}

\* Rows of two symbols that disagree in content, source and priority.
Bar(o, h, l, c, v) == [open |-> o, high |-> h, low |-> l, close |-> c, volume |-> v]
Up == Bar({3}, {4}, {2}, {4}, {1})
Flat == Bar({3}, {3}, {3}, {3}, {1})
Odd == Bar({2}, {3}, {1}, {4}, {1})
Gap == Bar({}, {4}, {2}, {}, {})
Row(i, id, t, bar, form) == [symbol |-> i, ident |-> id, at |-> t, bar |-> bar, form |-> form]
Load(table, version, priority, fetched, rows) ==
    [table |-> table, version |-> version, priority |-> priority, fetched |-> fetched,
     records |-> rows]
StoreBatches == {
  Load("eod", 1, 0, 1, <<Row("a", "x", 2, Up, "good"), Row("a", "x", 1, Flat, "good")>>),
  Load("eod", 1, 1, 2, <<Row("a", "x", 2, Flat, "good"), Row("b", "x", 2, Up, "good")>>),
  Load("eod", 2, 0, 2, <<Row("a", "", 2, Gap, "good"), Row("a", "", 2, Up, "good"),
                         Row("b", "", 1, Odd, "good")>>),
  Load("eod", 2, 1, 1, <<Row("b", "", 1, Up, "good"), Row("b", "", 2, Flat, "good"),
                         Row("a", "", 1, Flat, "skipped"), Row("a", "", 2, Flat, "raises")>>),
  Load("minute", 1, 0, 1, <<Row("a", "", 2, Flat, "good"), Row("a", "", 1, Up, "good"),
                            Row("b", "", 3, Up, "good")>>),
  Load("minute", 1, 0, 2, <<Row("a", "", 1, Up, "good"), Row("a", "", 1, Flat, "good"),
                            Row("a", "", 2, Up, "good"), Row("a", "", 2, Flat, "skipped")>>),
  Load("futures", 1, 0, 1, <<Row("a", "", 2, Up, "good"), Row("a", "", 1, Flat, "invalid")>>),
  Load("futures", 1, 1, 2, <<Row("a", "", 2, Flat, "good"), Row("a", "", 1, Flat, "good")>>)}
StorePatches == {[close |-> {3}], [volume |-> {2}], [close |-> {5}], [open |-> {}, volume |-> {0}]}

Expectation(modes, counts, count, minimum, window, fresh, latest) ==
    [modes |-> modes, counts |-> counts, count |-> count, baseline |-> TRUE, minimum |-> minimum,
     history |-> 1, window |-> window, fresh |-> fresh, latest |-> latest, calendar |-> TRUE]
PolicyExpectations == {
  Expectation({"full_snapshot"}, {2, 3, 5}, "warn", 1, 3, "disabled", "disabled"),
  Expectation({"full_snapshot"}, {1, 5}, "warn", 1, 1, "warn", "disabled"),
  Expectation({"sequenced_snapshot"}, {1}, "disabled", 0, 3, "reject", "reject")}

\* Every foreign key graph of at most three keys over three tables.
DumpKeys == UNION {[1 .. n -> {"a", "b", "c"} \X {"a", "b", "c"}] : n \in 0 .. 3}
Table(listed, switched, mode, instrument, dated, excluded) ==
    [listed |-> listed, enabled |-> switched, mode |-> mode, instrument |-> instrument,
     dated |-> dated, excluded |-> excluded, columns |-> TRUE, filtered |-> FALSE]
Sampled(a, b, c, policy, untriggered, truncated) ==
    [a |-> a, b |-> b, c |-> c, discovery |-> TRUE, policy |-> policy, untriggered |-> untriggered,
     truncated |-> truncated]
Where == Table(TRUE, TRUE, "where", FALSE, FALSE, FALSE)
DumpConfigurations == {
  Sampled(Table(TRUE, TRUE, "where", TRUE, TRUE, TRUE), Where,
          Table(FALSE, TRUE, "where", TRUE, FALSE, FALSE), "skip", FALSE, TRUE),
  Sampled(Where, Where, [Where EXCEPT !.filtered = TRUE], "skip", FALSE, TRUE),
  Sampled(Where, Table(FALSE, TRUE, "where", FALSE, FALSE, FALSE),
          Table(TRUE, TRUE, "latest_n_days", FALSE, TRUE, FALSE), "skip", TRUE, FALSE),
  Sampled(Table(TRUE, FALSE, "where", FALSE, FALSE, FALSE),
          Table(TRUE, TRUE, "sample", FALSE, FALSE, FALSE),
          Table(FALSE, TRUE, "where", TRUE, TRUE, FALSE), "full", FALSE, TRUE)}

\* Providers by the failures they can meet; the last one has a daily policy.
Provider(policy, failures) == [policy |-> policy, failures |-> failures]
MemberProviders == {
  Provider(FALSE, {"empty", "closed"}), Provider(FALSE, {"no_data", "stopped"}),
  Provider(FALSE, {"outage"}), Provider(FALSE, {"no_trade"}), Provider(FALSE, {"error"}),
  Provider(FALSE, {"failed", "basis"}), Provider(FALSE, {"rejected"}),
  Provider(FALSE, {"not_ready", "closed"}), Provider(TRUE, {"stopped", "gap"})}

\* What a provider may answer: bars of the target date 2 and of date 1.
Quote(d, id, form, v) == [day |-> d, id |-> id, form |-> form, value |-> v]
Said(meta, rows) == [kind |-> "rows", meta |-> meta, rows |-> rows]
Failed(kind) == [kind |-> kind, meta |-> "", rows |-> << >>]
DailySaid(m) == {
  Said(m, <<Quote(2, "", "good", 1), Quote(1, "", "good", 1)>>), Said(m, <<Quote(2, "", "good", 2)>>),
  Said(m, <<Quote(1, "", "good", 1)>>), Said(m, <<Quote(2, "", "good", 1), Quote(1, "", "crossed", 1)>>),
  Said("x", <<Quote(2, "", "good", 1)>>), Failed("garbled"), Failed("limited")}
MinuteSaid(m) == {
  Said(m, <<Quote(2, 1, "good", 1), Quote(2, 2, "odd", 1)>>), Said(m, <<Quote(2, 1, "good", 2)>>),
  Said(m, <<Quote(2, 1, "good", 1), Quote(1, 1, "good", 1)>>), Said(m, << >>),
  Said(m, <<Quote(2, 1, "fraction", 1)>>), Failed("lost")}
FieldSaid(v) == {
  Said("", <<Quote(1, "m", "good", v), Quote(2, "m", "good", v), Quote(2, "x", "good", v)>>),
  Said("", <<Quote(2, "m", "good", 2)>>), Said("", <<Quote(1, "m", "good", v)>>),
  Said("", <<Quote(2, "x", "good", v)>>), Failed("limited")}
Future(p, s) == [product |-> p, month |-> 1, session |-> s]
Yesterday == Quote(1, Future("p", "regular"), "good", 1)
ReportSaid == {
  Said("", <<Quote(2, Future("p", "regular"), "good", 1), Quote(2, Future("p", "after_hours"), "void", 1)>>),
  Said("", <<Yesterday>>), Failed("garbled")}
DatedSaid(p) == {
  Said("", <<Quote(2, Future(p, "regular"), "good", 3), Quote(2, Future(p, "after_hours"), "blank", 1)>>),
  Said("", <<Quote(2, Future(p, "after_hours"), "good", 1)>>), Failed("lost")}
AdapterAnswers == [
  twelve_data |-> [m |-> DailySaid("m"), n |-> {Said("n", <<Quote(2, "", "good", 1)>>), Failed("limited")}],
  shioaji |-> [m |-> MinuteSaid("m")],
  finlab |-> [high |-> FieldSaid(3), low |-> FieldSaid(1)],
  taifex |-> [latest |-> ReportSaid, p |-> DatedSaid("p"), q |-> DatedSaid("q")]]
AdapterMembers == [twelve_data |-> {"m", "n"}, shioaji |-> {"m"}, finlab |-> {"m"},
                   taifex |-> {Future("p", "regular"), Future("p", "after_hours")}]
AdapterOldAnswers == [
  twelve_data |-> {{}, {Said("m", <<Quote(1, "", "good", 1)>>)}, {Said("m", <<Quote(2, "", "good", 3)>>)}},
  shioaji |-> {{}, {Said("m", << >>)}}, finlab |-> {{}, {Said("", <<Quote(1, "m", "good", 4)>>)}},
  taifex |-> {{}}]

\* Cohorts of one and of two listings, one that lacks a listing, rows the
\* Source or the adapter rejects, and a malformed answer.
FactSetNatives == {[a |-> "good", g |-> "good"], [a |-> "good", g |-> "none"],
                   [a |-> "crossed", g |-> "twice"], << >>}

---------------------------------------------------------------------------
(* The components. *)

Identity == INSTANCE AdminIdentity WITH
    Admins <- {"u", "v"}, Requests <- {"r", "s"}, MaxAdminRequests <- 3,
    MaxSessions <- 1, users <- s1, sessions <- s2, request <- s3,
    identity <- s4, bootstraps <- s5, served <- s6, issued <- s7

Credentials == INSTANCE MachineCredentials WITH
    Keys <- {"h", "i"}, Names <- {"f"}, Scopes <- {"x", "y"},
    Wanted <- [n \in {"f"} |-> {"x"}], Servers <- {"p"}, MaxUses <- 2,
    MaxServerFaults <- 1, MaxDeploys <- 1, keys <- s1, deploy <- s2,
    pending <- s3, batch <- s4, rollup <- s5, used <- s6, gone <- s7,
    now <- s8, crashed <- s9, deploys <- s10, again <- s11

Store == INSTANCE CanonicalStore WITH
    Symbols <- {"a", "b"}, Times <- 1 .. 3, Batches <- StoreBatches,
    Patches <- StorePatches, DelistedOn <- [a |-> {}, b |-> {1}],
    Actions <- [a |-> {2}, b |-> {}], ClosedDays <- {3}, StoreRuns <- 1 .. 3,
    Editors <- {"e"}, MaxCorrections <- 1, canon <- s1, readStats <- s2,
    aliases <- s3, known <- s4, tradingDays <- s5, dqIssues <- s6,
    storeRuns <- s7, edits <- s8, audits <- s9, offered <- s10, raced <- s11

Files == INSTANCE ReleaseFiles WITH
    Paths <- <<"p", "q">>, MaxEdits <- 2, MaxKills <- 1, scene <- s1,
    tree <- s2, shown <- s3, kept <- s4, tool <- s5, writer <- s6, host <- s7,
    loaders <- s8, env <- s9, edits <- s10, kills <- s11, outage <- s12

Pages == INSTANCE ServePages WITH
    Kinds <- {"eod", "minute", "futures", "instruments", "limited"},
    Ids <- 1 .. 3, LastAt <- 3, PageSize <- 2, Limit <- 2, Window <- 3,
    MaxWrites <- 2, stored <- s1, latest <- s2, dataset <- s3, walk <- s4,
    writes <- s5, clock <- s6, bucket <- s7, admitted <- s8, touched <- s9

Policy == INSTANCE DeliveryPolicy WITH
    Expectations <- PolicyExpectations, KeptShare <- 2,
    LastSession <- 3, MaxBodies <- 3, Lateness <- 0, expectation <- s1,
    session <- s2, runs <- s3, judged <- s4

Board == INSTANCE MarketBoard WITH
    FeedOrder <- <<"f", "g">>, MonitorKinds <- {"full_market", "bounded"},
    LastDay <- 2, MaxRaces <- 1, monitor <- s1, configured <- s2, hour <- s3,
    mark <- s4, newest <- s5, desired <- s6, admitted <- s7, started <- s8,
    card <- s9, retracted <- s10, races <- s11

Dump == INSTANCE PartialDump WITH
    Catalog <- <<"a", "b", "c">>, ForeignKeys <- DumpKeys,
    Configurations <- DumpConfigurations, keys <- s1, config <- s2,
    sampled <- s3, todo <- s4, exported <- s5, results <- s6, ready <- s7,
    indegree <- s8, ordered <- s9, loaded <- s10, at <- s11

Governor == INSTANCE AccountGovernor WITH
    Operations <- {"h", "s"}, Isolated <- {"s"}, Logins <- {},
    NoOp <- "none", Interval <- 1, Bound <- 2, Width <- 3, Limit <- 1,
    LoginLimit <- 1, LoginSpan <- 4, RemoteAge <- 2, Tries <- 2, MaxClock <- 3,
    MaxOverages <- 2, clock <- s1, lockOwner <- s2, holders <- s3,
    intent <- s4, armedAt <- s5, endedAt <- s6, startAt <- s7, used <- s8,
    floor <- s9, cooling <- s10, step <- s11, child <- s12, tries <- s13,
    checkedAt <- s14, grantedAt <- s15, prepared <- s16, started <- s17,
    possibly <- s18, allowed <- s19, stoppedAt <- s20, sent <- s21,
    limited <- s22, violation <- s23, inspected <- s24

LoginGovernor == INSTANCE AccountGovernor WITH
    Operations <- {"h", "s"}, Isolated <- {"h", "s"}, Logins <- {"h", "s"},
    NoOp <- "none", Interval <- 1, Bound <- 2, Width <- 3, Limit <- 2,
    LoginLimit <- 1, LoginSpan <- 4, RemoteAge <- 2, Tries <- 1, MaxClock <- 4,
    MaxOverages <- 2, clock <- s1, lockOwner <- s2, holders <- s3,
    intent <- s4, armedAt <- s5, endedAt <- s6, startAt <- s7, used <- s8,
    floor <- s9, cooling <- s10, step <- s11, child <- s12, tries <- s13,
    checkedAt <- s14, grantedAt <- s15, prepared <- s16, started <- s17,
    possibly <- s18, allowed <- s19, stoppedAt <- s20, sent <- s21,
    limited <- s22, violation <- s23, inspected <- s24

Member == INSTANCE MemberDelivery WITH
    Members <- <<"m", "n">>, Providers <- MemberProviders, MaxAttempts <- 2,
    MaxMembers <- 1, Breaker <- 2, ProbeLimit <- 2, Nobody <- "nobody",
    MaxBodies <- 2, MaxCrashes <- 1, MaxRepairs <- 1, wstatus <- s1,
    attempts <- s2, held <- s3, reason <- s4, body <- s5, receipt <- s6,
    observed <- s7, probes <- s8, cursor <- s9, trips <- s10, outage <- s11,
    policy <- s12, failures <- s13, pc <- s14, cur <- s15, left <- s16,
    processed <- s17, streak <- s18, inhand <- s19, drainOnly <- s20,
    work <- s21, reserved <- s22, runOf <- s23, noTrade <- s24, bodies <- s25,
    told <- s26, calls <- s27, repairs <- s28, crashes <- s29, waited <- s30

Account == INSTANCE AccountLedger WITH
    Users <- {"p", "q"}, DigestsOf <- [p |-> {2, 1}, q |-> {2, 3}],
    Effective <- 2, Digests <- 1 .. 3, Accounts <- {1, 2},
    Pins <- {<<1, 0, 2>>, <<1, 2, 1>>}, Initials <- {1, 2}, Nobody <- "nobody",
    MinuteLimit <- 1, ByteLimit <- 2, Interval <- 0, Cooldown <- 1,
    DayLength <- 1, Retention <- 1, PruneEvery <- 3, MaxClock <- 2,
    MaxGrants <- 2, MaxCrashes <- 1, clock <- s1, pinned <- s2,
    minuteRow <- s3, dayRow <- s4, pacing <- s5, audit <- s6, unknown <- s7,
    holder <- s8, user <- s9, nextPrune <- s10, passes <- s11, evidence <- s12,
    granted <- s13, received <- s14, owed <- s15, crashes <- s16

Adapter == INSTANCE ProviderAdapters WITH
    Adapters <- {"twelve_data", "finlab", "shioaji", "taifex"}, Members <- AdapterMembers,
    Answers <- AdapterAnswers, OldAnswers <- AdapterOldAnswers, Products <- <<"p", "q">>,
    Day <- 2, MaxCalls <- 2, MaxCrashes <- 1, style <- s1, saved <- s2, legacy <- s3,
    old <- s4, evidence <- s5, pc <- s6, member <- s7, hand <- s8, answer <- s9, built <- s10,
    sent <- s11, told <- s12, cooling <- s13, calls <- s14, crashes <- s15

FactSet == INSTANCE FactSetWork WITH
    Cohort <- <<"a", "g">>, Unlisted <- {"g"}, Natives <- FactSetNatives, MaxAttempts <- 2,
    MaxMisses <- 1, MaxCrashes <- 1, gaps <- s1, late <- s2, closed <- s3, prices <- s4,
    snapshot <- s5, observed <- s6, raw <- s7, prepared <- s8, accepted <- s9, verdict <- s10,
    receipt <- s11, attempts <- s12, pc <- s13, op <- s14, deferring <- s15, granted <- s16,
    answer <- s17, outcomes <- s18, reported <- s19, ended <- s20, clock <- s21,
    queries <- s22, misses <- s23, crashes <- s24

others == <<gateVars, deliveryVars, plansVars>>
From25 == <<s25, s26, s27, s28, s29, s30, others>>
From17 == <<s17, s18, s19, s20, s21, s22, s23, s24, From25>>
From16 == <<s16, From17>>
From15 == <<s15, From16>>
From13 == <<s13, s14, From15>>
From12 == <<s12, From13>>
From11 == <<s11, From12>>
From10 == <<s10, From11>>
From8 == <<s8, s9, From10>>
From7 == <<s7, From8>>
From5 == <<s5, s6, From7>>

\* The gate at rest: asked by maintenance, nothing started yet.
GateRests == GateInit /\ baseline = {} /\ consumer = "maintenance"

\* The plan of a delivery at rest: nothing was delivered yet.
DeliveryRests == DeliveryInit /\ feed.kind = "eod"

\* The plans at rest: nothing is governed yet.
PlansRest == PlansInit /\ menu.limit = 5
Rest == GateRests /\ DeliveryRests /\ PlansRest

Off25 == /\ s25 = 0 /\ s26 = 0 /\ s27 = 0 /\ s28 = 0 /\ s29 = 0
         /\ s30 = 0
Off17 == /\ s17 = 0 /\ s18 = 0 /\ s19 = 0 /\ s20 = 0 /\ s21 = 0 /\ s22 = 0 /\ s23 = 0
         /\ s24 = 0 /\ Off25
Off16 == /\ s16 = 0 /\ Off17
Off15 == /\ s15 = 0 /\ Off16
Off13 == /\ s13 = 0 /\ s14 = 0 /\ Off15
Off12 == /\ s12 = 0 /\ Off13
Off11 == /\ s11 = 0 /\ Off12
Off10 == /\ s10 = 0 /\ Off11
Off8 == /\ s8 = 0 /\ s9 = 0 /\ Off10
Off7 == /\ s7 = 0 /\ Off8
Off5 == /\ s5 = 0 /\ s6 = 0 /\ Off7
Off1 == /\ s1 = 0 /\ s2 = 0 /\ s3 = 0 /\ s4 = 0 /\ Off5

slots == <<s1, s2, s3, s4, s5, s6, s7, s8, s9, s10, s11, s12, s13, s14, s15, s16, s17,
           s18, s19, s20, s21, s22, s23, s24, s25, s26, s27, s28, s29, s30>>
vars == <<part, others, slots>>

Init ==
    \/ part = "gate" /\ GateInit /\ Off1 /\ DeliveryRests /\ PlansRest
    \/ part = "plans" /\ PlansInit /\ Off1 /\ GateRests /\ DeliveryRests
    \/ part = "delivery" /\ DeliveryInit /\ Off1 /\ GateRests /\ PlansRest
    \/ part = "identity" /\ Identity!IdentityInit /\ Off8 /\ Rest
    \/ part = "credentials" /\ Credentials!CredentialInit /\ Off12 /\ Rest
    \/ part = "store" /\ Store!StoreInit /\ Off12 /\ Rest
    \/ part = "files" /\ Files!ReleaseInit /\ Off13 /\ Rest
    \/ part = "pages" /\ Pages!ServeInit /\ Off10 /\ Rest
    \/ part = "policy" /\ Policy!PolicyInit /\ Off5 /\ Rest
    \/ part = "board" /\ Board!BoardInit /\ Off12 /\ Rest
    \/ part = "dump" /\ Dump!DumpInit /\ Off12 /\ Rest
    \/ part = "governor" /\ Governor!GovernorInit /\ Off25 /\ Rest
    \/ part = "logins" /\ LoginGovernor!GovernorInit /\ Off25 /\ Rest
    \/ part = "member" /\ Member!MemberInit /\ Rest
    \/ part = "account" /\ Account!AccountInit /\ Off17 /\ Rest
    \/ part = "capacity" /\ Governor!GovernorInit /\ Off25 /\ Rest
    \/ part = "adapters" /\ Adapter!AdapterInit /\ Off16 /\ Rest
    \/ part = "factset" /\ FactSet!FactSetInit /\ Off25 /\ Rest

Next ==
    \/ part = "gate" /\ GateNext /\ UNCHANGED <<part, slots, deliveryVars, plansVars>>
    \/ part = "plans" /\ PlansNext /\ UNCHANGED <<part, slots, gateVars, deliveryVars>>
    \/ part = "delivery" /\ DeliveryNext /\ UNCHANGED <<part, slots, gateVars, plansVars>>
    \/ part = "identity" /\ Identity!IdentityNext /\ UNCHANGED <<part, From8>>
    \/ part = "credentials" /\ Credentials!CredentialNext /\ UNCHANGED <<part, From12>>
    \/ part = "store" /\ Store!StoreNext /\ UNCHANGED <<part, From12>>
    \/ part = "files" /\ Files!ReleaseNext /\ UNCHANGED <<part, From13>>
    \/ part = "pages" /\ Pages!ServeNext /\ UNCHANGED <<part, From10>>
    \/ part = "policy" /\ Policy!PolicyNext /\ UNCHANGED <<part, From5>>
    \/ part = "board" /\ Board!BoardNext /\ UNCHANGED <<part, From12>>
    \/ part = "dump" /\ Dump!DumpNext /\ UNCHANGED <<part, From12>>
    \/ part = "governor" /\ Governor!GovernorNext /\ UNCHANGED <<part, From25>>
    \/ part = "logins" /\ LoginGovernor!GovernorNext /\ UNCHANGED <<part, From25>>
    \/ part = "member" /\ Member!MemberNext /\ UNCHANGED <<part, others>>
    \/ part = "account" /\ Account!AccountNext /\ UNCHANGED <<part, From17>>
    \/ part = "capacity" /\ Governor!CapacityNext /\ UNCHANGED <<part, From25>>
    \/ part = "adapters" /\ Adapter!AdapterNext /\ UNCHANGED <<part, From16>>
    \/ part = "factset" /\ FactSet!FactSetNext /\ UNCHANGED <<part, From25>>

Spec == Init /\ [][Next]_vars

---------------------------------------------------------------------------
(* Properties. *)

\* Every variable of every component keeps its type.
PartsTypeOK ==
    /\ part = "identity" => Identity!IdentityTypeOK
    /\ part = "credentials" => Credentials!CredentialTypeOK
    /\ part = "store" => Store!StoreTypeOK
    /\ part = "files" => Files!ReleaseTypeOK
    /\ part = "pages" => Pages!ServeTypeOK
    /\ part = "policy" => Policy!PolicyTypeOK
    /\ part = "board" => Board!BoardTypeOK
    /\ part = "dump" => Dump!DumpTypeOK
    /\ part \in {"governor", "capacity"} => Governor!GovernorTypeOK
    /\ part = "logins" => LoginGovernor!GovernorTypeOK
    /\ part = "account" => Account!AccountTypeOK
    /\ part = "member" => Member!MemberTypeOK
    /\ part = "adapters" => Adapter!AdapterTypeOK
    /\ part = "factset" => FactSet!FactSetTypeOK
    /\ part = "plans" => PlansTypeOK
    /\ part = "gate" => GateTypeOK
    /\ part = "delivery" => DeliveryTypeOK

\* The number of records a feed passes with shrinks by no more than the
\* permitted ratio a session, and the freshness card, read query by query,
\* never calls a gap fresh.
VerdictsSound ==
    /\ part = "policy" => Policy!PassesShrinkSlowly
    /\ part = "board" => Board!CardSound

\* One first owner, however many bootstraps race; and every use of a key is in
\* a server's memory, its batch in flight or the table, and twice only if a
\* commit took effect without an answer.
AccessSound ==
    /\ part = "identity" => Identity!OneBootstrap
    /\ part = "credentials" => Credentials!UsageConserved

\* A canonical row is the best of all that was offered for it, statistics
\* follow the rows and no bar contradicts itself, in any order of the runs.
RowsAreBest ==
    part = "store" => /\ Store!RowIsBest
                      /\ Store!StatsFollowRows
                      /\ Store!RowsSound

\* A release is of one source state and whole, whatever was edited or killed
\* while it was built or loaded; a partial dump loads parents before
\* children, so that its order alone is never why a load is refused.
OutputsSound ==
    /\ part = "files" => Files!ReleaseCoherent /\ Files!OutputsWhole
    /\ part = "dump" => Dump!LoadOrderSound

\* A walk over the pages of a list gives every row it covers once although
\* rows arrive in between, and no window admits more requests than the limit.
PagesExact ==
    part = "pages" => /\ Pages!WalkIsExact
                      /\ Pages!QuietPagesPartition
                      /\ Pages!RateIsKept

\* Limits of a provider account, a member and a window hold over
\* crashes, waits and lost answers, FactSet's queries of a day among them, and
\* a merged identity keeps what its aliases owe, without a circle of locks.
BudgetsKept ==
    /\ part = "governor" => Governor!WindowBudget
    /\ part = "logins" => LoginGovernor!LoginBudget
    /\ part = "account" => Account!DebtKept /\ Account!NoLockCircle
    /\ part = "member" => Member!CallBudget
    /\ part = "factset" => FactSet!QueriesBounded

\* Whatever step a process is lost at, the Source is given one body of a
\* member, made from answers about the target date that the journal replays, a
\* failure is told or still staged (but for the two cases of ReportNotLost), and
\* a FactSet day reads completed only when it is.
BodiesSound ==
    /\ part = "member" => Member!OneBody /\ Member!ReportNotLost
    /\ part = "adapters" => Adapter!RebuiltAlike /\ Adapter!RequestsSound /\ Adapter!JournalSound
    /\ part = "factset" => FactSet!OneSnapshot /\ FactSet!CompletionTrue

\* Steps that need several facts at once: a trade date is decided on what is
\* true at the commit, a deployment narrows no scope, the provider is called
\* only when it may be and not after a stop, and a repair matches what was
\* inspected.
StepsJustified ==
    [][/\ part = "plans" => DecidedOnCurrentFacts
       /\ part = "credentials" => Credentials!ScopeRetained
       /\ part = "governor" => Governor!ProviderSpared /\ Governor!StopIsPrompt
       /\ part = "logins" => LoginGovernor!ProviderSpared
       /\ part = "capacity" => Governor!RepairMatches]_vars
=============================================================================

-------------------------- MODULE MCFetcherParts --------------------------
(* The parts of the fetcher, whose properties include liveness, checked in *)
(* one run. A behaviour is one of a single part, which part names and no   *)
(* step changes. The session of a work, the refresh of a universe and      *)
(* staging have their own variables, which rest in an initial state in the *)
(* behaviours of the others; those take turns with the variables s1, s2,   *)
(* ..., and the ones a part does not need stay 0. Of staging one symbol is *)
(* enough, for its safety is proved for any universe; of member delivery a *)
(* provider with a daily policy: MCSafetyParts has the others.             *)
EXTENDS WorkSession, UniverseRefresh, StagedDelivery

VARIABLES part,
          s1, s2, s3, s4, s5, s6, s7, s8, s9, s10, s11, s12, s13, s14, s15,
          s16, s17, s18, s19, s20, s21, s22, s23, s24, s25, s26, s27, s28, s29, s30

---------------------------------------------------------------------------
(* Values of the constants. *)

\* Two providers with a daily policy, one that makes a member wait and one that
\* has no data; the others are in MCSafetyParts.
PolicyProvider == {[policy |-> TRUE, failures |-> {f}] : f \in {"wait", "no_data"}}

\* Two editions of the pages: a share moves to another exchange in either
\* country, one is preferred, one of a type that is only a gap, one is a fund
\* nobody knows, and a name and a class disagree.  Some pages stay as they are.
Listing(symbol, exchange, name, class, fund) ==
    [symbol |-> symbol, exchange |-> exchange, name |-> name, class |-> class, fund |-> fund]
Ordinary(symbol, exchange) == Listing(symbol, exchange, symbol, "ordinary", FALSE)
Entry(symbol, exchange, name, type) ==
    [symbol |-> symbol, exchange |-> exchange, name |-> name, type |-> type]
Company(symbol, exchange) == [symbol |-> symbol, exchange |-> exchange]
On(d, n, x) == IF d = n THEN {x} ELSE {}
Editions == 1 .. 2
RefreshContents ==
  [us |-> [catalogue |-> [d \in Editions |->
             {Entry("A", "XNAS", "A", "stock"), Entry("B", "XNAS", "bb", "adr"), Entry("P", "XNAS", "P", "preferred"),
              Entry("L", "XNAS", "L", "partnership"), Entry("T", IF d = 1 THEN "XNYS" ELSE "XNAS", "T", "stock")}],
           listed |-> [d \in Editions |->
             {Listing("A", "XNAS", "A", "gap", FALSE), Ordinary("P", "XNAS"), Ordinary("L", "XNAS")}
               \cup On(d, 2, Ordinary("T", "XNAS"))],
           other |-> [d \in Editions |->
             {Ordinary("B", "XNYS"), Listing("F", "XNYS", "F", "gap", TRUE)} \cup On(d, 1, Ordinary("T", "XNYS"))]],
   tw |-> [company |-> [d \in {1} |-> {Company("1", "XTAI")}],
           companyOtc |-> [d \in {1} |-> {Company("2", "ROCO")}],
           isin |-> [d \in Editions |-> {Ordinary("1", "XTAI")} \cup On(d, 2, Ordinary("2", "XTAI"))],
           isinOtc |-> [d \in Editions |-> On(d, 1, Ordinary("2", "ROCO"))],
           catalogue |-> [d \in {1} |-> {Entry("1", "XTAI", "1", "stock"), Entry("2", "XTAI", "2", "stock")}]]]

\* One symbol to stage.
StageUniverse == <<"a">>
StageDatasets == [a |-> "d"]

---------------------------------------------------------------------------
(* The parts. *)

Delivery == INSTANCE MemberDelivery WITH
    Members <- <<"m", "n">>, Providers <- PolicyProvider, MaxAttempts <- 2,
    MaxMembers <- 1, Breaker <- 2, ProbeLimit <- 2, Nobody <- "nobody",
    MaxBodies <- 2, MaxCrashes <- 1, MaxRepairs <- 0, wstatus <- s1,
    attempts <- s2, held <- s3, reason <- s4, body <- s5, receipt <- s6,
    observed <- s7, probes <- s8, cursor <- s9, trips <- s10, outage <- s11,
    policy <- s12, failures <- s13, pc <- s14, cur <- s15, left <- s16,
    processed <- s17, streak <- s18, inhand <- s19, drainOnly <- s20,
    work <- s21, reserved <- s22, runOf <- s23, noTrade <- s24, bodies <- s25,
    told <- s26, calls <- s27, repairs <- s28, crashes <- s29, waited <- s30

Scheduler == INSTANCE LocalScheduler WITH
    Symbols <- {"a"}, Batch <- 1, LatestOnly <- FALSE, MaxTries <- 1,
    LastDate <- 2, MaxClaims <- 2, MaxCycles <- 2, MaxLost <- 1, MaxCrash <- 1,
    MaxFlips <- 1, desired <- s1, report <- s2, late <- s3, loop <- s4,
    jobs <- s5, checkpoint <- s6, date <- s7, fetched <- s8, taken <- s9,
    cycles <- s10, lost <- s11, crashes <- s12, flips <- s13

Cycle == INSTANCE DailyCycle WITH
    LastDate <- 2, MaxMishaps <- 1, MaxRetries <- 1, today <- s1,
    admitted <- s2, installed <- s3, closedDay <- s4, latest <- s5,
    archive <- s6, universe <- s7, plan <- s8, work <- s9, cycle <- s10,
    blocked <- s11, local <- s12, kept <- s13, mishaps <- s14, retries <- s15

\* The variables of the three parts that have their own.
owned == <<sessionVars, refreshVars, stageVars>>

From16 == <<s16, s17, s18, s19, s20, s21, s22, s23, s24, s25, s26, s27, s28, s29, s30,
            owned>>
From14 == <<s14, s15, From16>>

Off16 == /\ s16 = 0 /\ s17 = 0 /\ s18 = 0 /\ s19 = 0 /\ s20 = 0 /\ s21 = 0 /\ s22 = 0
         /\ s23 = 0 /\ s24 = 0 /\ s25 = 0 /\ s26 = 0 /\ s27 = 0 /\ s28 = 0 /\ s29 = 0 /\ s30 = 0
Off14 == /\ s14 = 0 /\ s15 = 0 /\ Off16
Off1 == /\ s1 = 0 /\ s2 = 0 /\ s3 = 0 /\ s4 = 0 /\ s5 = 0 /\ s6 = 0 /\ s7 = 0
        /\ s8 = 0 /\ s9 = 0 /\ s10 = 0 /\ s11 = 0 /\ s12 = 0 /\ s13 = 0 /\ Off14

\* The session at rest is a rerun that nobody has claimed, the refresh at rest a feed's first
\* day, staging at rest the recurring run before its first start.
SessionRests == SessionInit /\ kind = "rerun"
RefreshRests == RefreshInit /\ style = "us"
StageRests == StageInit /\ ~historical /\ ~walked
Rest == SessionRests /\ RefreshRests /\ StageRests

slots == <<s1, s2, s3, s4, s5, s6, s7, s8, s9, s10, s11, s12, s13, s14, s15, s16, s17,
           s18, s19, s20, s21, s22, s23, s24, s25, s26, s27, s28, s29, s30>>
vars == <<part, owned, slots>>

Init ==
    \/ part = "session" /\ SessionInit /\ RefreshRests /\ StageRests /\ Off1
    \/ part = "policy" /\ Delivery!MemberInit /\ Rest
    \/ part = "scheduler" /\ Scheduler!SchedulerInit /\ Off14 /\ Rest
    \/ part = "staged" /\ StageInit /\ SessionRests /\ RefreshRests /\ Off1
    \/ part = "refresh" /\ RefreshInit /\ SessionRests /\ StageRests /\ Off1
    \/ part = "cycle" /\ Cycle!CycleInit /\ Off16 /\ Rest

Next ==
    \/ part = "policy" /\ Delivery!MemberNext /\ UNCHANGED <<part, owned>>
    \/ part = "scheduler" /\ Scheduler!SchedulerNext /\ UNCHANGED <<part, From14>>
    \/ part = "staged" /\ StageNext /\ UNCHANGED <<part, sessionVars, refreshVars, slots>>
    \/ part = "session" /\ SessionNext /\ UNCHANGED <<part, refreshVars, stageVars, slots>>
    \/ part = "refresh" /\ RefreshNext /\ UNCHANGED <<part, sessionVars, stageVars, slots>>
    \/ part = "cycle" /\ Cycle!CycleNext /\ UNCHANGED <<part, From16>>

\* What each part's code keeps doing; see the Fair operators of the modules.
FairStep(i) ==
    \/ part = "policy" /\ Delivery!MemberFair(i) /\ UNCHANGED <<part, owned>>
    \/ part = "scheduler" /\ Scheduler!SchedulerFair(i) /\ UNCHANGED <<part, From14>>
    \/ part = "staged" /\ StageFair(i) /\ UNCHANGED <<part, sessionVars, refreshVars, slots>>
    \/ part = "session" /\ SessionFair(i) /\ UNCHANGED <<part, refreshVars, stageVars, slots>>
    \/ part = "refresh" /\ RefreshFair(i) /\ UNCHANGED <<part, sessionVars, stageVars, slots>>
    \/ part = "cycle" /\ Cycle!CycleFair(i) /\ UNCHANGED <<part, From16>>

StrongStep(i) == part = "policy" /\ Delivery!MemberStrong(i) /\ UNCHANGED <<part, owned>>

Spec ==
    /\ Init /\ [][Next]_vars
    /\ \A i \in 1 .. 7 : WF_vars(FairStep(i))
    /\ \A i \in 1 .. 3 : SF_vars(StrongStep(i))

---------------------------------------------------------------------------
(* Properties. *)

\* Every variable of every part keeps its type.
FetcherTypeOK ==
    /\ part = "policy" => Delivery!MemberTypeOK
    /\ part = "scheduler" => Scheduler!SchedulerTypeOK
    /\ SessionTypeOK /\ RefreshTypeOK /\ StageTypeOK
    /\ part = "cycle" => Cycle!CycleTypeOK

\* Whatever step a process is lost at, a member or a job has one body, which
\* is restored and not acquired anew, a member is asked for within its budget,
\* losses and given-back attempts counted, and what is told, kept and marked as
\* done is so: a failure is told or still staged (but for the two cases of
\* ReportNotLost), no date before a checkpoint is unfinished, dates keep their
\* order and a retired feed its bodies.
ReportsTrue ==
    /\ part = "policy" => Delivery!OneBody /\ Delivery!CallBudget /\ Delivery!ReportNotLost
    /\ part = "scheduler" => Scheduler!OneBodyPerJob /\ Scheduler!NothingBehindCheckpoint
    /\ part = "cycle" => Cycle!DatesInOrder /\ Cycle!RetiredKeepsBodies

\* Every part keeps its types and its reports true.
FetcherSound == FetcherTypeOK /\ ReportsTrue

\* What waits, by part: a member of a daily policy; a finished cycle that is
\* not reported, a stop that is not seen; rows that can be retried; a work
\* that is not stopped; the refresh of a day; a date that is due.
Waits(i) ==
    \/ part = "policy" /\ i \in 1 .. 2 /\ Delivery!MemberWaits(<<"m", "n">>[i])
    \/ part = "scheduler" /\ i \in 1 .. 2 /\ Scheduler!CycleUnreported(i - 1)
    \/ part = "scheduler" /\ i = 3 /\ Scheduler!StaysStopped
    \/ part = "staged" /\ i = 1 /\ ~StagingSettled
    \/ part = "session" /\ i = 1 /\ ~WorkStopped
    \/ part = "refresh" /\ i \in 1 .. 2 /\ RefreshOpen(i)
    \/ part = "cycle" /\ i \in 1 .. 2 /\ Cycle!DateDue(i)

Served(i) ==
    \/ part = "policy" /\ i \in 1 .. 2 /\ Delivery!MemberServed(<<"m", "n">>[i])
    \/ part = "scheduler" /\ i \in 1 .. 2 /\ Scheduler!CycleReported(i - 1)
    \/ part = "scheduler" /\ i = 3 /\ (Scheduler!SeenStopped \/ ~Scheduler!StaysStopped)
    \/ part = "staged" /\ i = 1 /\ StagingSettled
    \/ part = "session" /\ i = 1 /\ (WorkStopped \/ WorkEnded)
    \/ part = "refresh" /\ i \in 1 .. 2 /\ RefreshEnded(i)
    \/ part = "cycle" /\ i \in 1 .. 2 /\ Cycle!DateEnded(i)

\* None of it waits for ever, whatever was lost on the way.
FetcherSettles == \A i \in 1 .. 3 : Waits(i) ~> Served(i)
=============================================================================

-------------------------- MODULE AcquisitionGate --------------------------
(***************************************************************************)
(* The gate of every provider call of a full-market worker: the worker's   *)
(* loop and its per-acquisition check (full_market_cli.py,                 *)
(* full_market_runtime.py _governed), the Source's answer, which reads     *)
(* control, admission, environment and credential one after the other      *)
(* (api/v1/source.py, full_market_admission.py), and the operator and the  *)
(* deployment that change them meanwhile.  The second half is the          *)
(* enrolment of an installed runtime, serialized by the environment row.   *)
(*                                                                         *)
(* One provider and one worker, whose host lock keeps a second one out;    *)
(* beside it any other mode of the command line may start at any moment,   *)
(* which reports "stopped" on the worker's own scheduler key.              *)
(* A request keeps the rows its session has loaded, so the second          *)
(* projection of one request sees the control and the credential of the    *)
(* first.                                                                  *)
(***************************************************************************)
EXTENDS Integers, FiniteSets

CONSTANTS GatedDatasets,
          SourceClose, LocalClose,  \* when the daily windows close, by the Source's and by the local policy
          Enrollers, Declarations,  \* management commands; the declarations they enrol
          MaxClock, MaxCommands, MaxCycles, MaxLosses

None == "none"

ASSUME WindowsAssumption == SourceClose \in Nat /\ LocalClose \in Nat /\ MaxClock \in Nat
ASSUME EnrollersAssumption == None \notin Enrollers

VARIABLES clock,
          control,       \* scheduler_control: desired, observed
          admission,     \* the newest admission: its feeds, or None
          baseline,      \* datasets with a published baseline
          flag,          \* FULL_MARKET_ENABLED of the serving process
          enabled,       \* full_market_environment.enabled
          client,        \* the Source credential: valid, scope
          consumer,      \* the worker asks as "full_market" or as "maintenance"
          worker,        \* the worker's step and the grant it holds
          request,       \* the request the Source is answering and what it has read
          heard,         \* the last report: whose it was, the calls made behind it if it said "stopped"
          consent,       \* the owner has started the control since it last stopped
          was,           \* the conditions held together at some moment since the request
          calls,         \* the provider calls made: were the grant's conditions met
          enrolled,      \* enrollments: "none", "live", "revoked"
          reportedDead,  \* a report was recorded on a revoked enrollment
          command,       \* a management command: its step, declaration, what it read
          report,        \* a readiness report under way
          envLock, commands, cycles, losses

gateVars == <<clock, control, heard, admission, baseline, flag, enabled, client, consumer, worker, request, consent, was, calls, enrolled, reportedDead, command, report, envLock, commands, cycles, losses>>
sourceState == <<control, heard, admission, baseline, flag, enabled, client, consent>>
enrolling == <<consumer, enrolled, reportedDead, command, report, envLock>>
bounds == <<commands, cycles, losses>>

NoRequest == [pc |-> "none", control |-> None, client |-> {}, scope |-> {}, admitted |-> FALSE]
GateInit ==
    /\ clock = 0 /\ baseline \in {{}, GatedDatasets}
    /\ admission = [made |-> baseline # {}, scope |-> baseline]      \* never started, or started before
    /\ control = [desired |-> IF baseline = {} THEN "stopped" ELSE "running", observed |-> "stopped"]
    /\ consent = (baseline # {}) /\ heard = [by |-> "worker", masked |-> 0]
    /\ flag = TRUE /\ enabled = TRUE /\ client = [valid |-> TRUE, scope |-> GatedDatasets]
    /\ worker = [pc |-> "idle", expires |-> 0] /\ request = NoRequest /\ was = FALSE /\ calls = {}
    /\ consumer \in {"full_market", "maintenance"}
    /\ enrolled = [d \in Declarations |-> "none"] /\ reportedDead = FALSE
    /\ command = [e \in Enrollers |-> [pc |-> "idle", declaration |-> None, prior |-> {}]]
    /\ report = [pc |-> "idle", declaration |-> None]
    /\ envLock = None /\ commands = 0 /\ cycles = 0 /\ losses = 0

---------------------------------------------------------------------------
(* The owner and the deployment. *)

Command == commands < MaxCommands /\ commands' = commands + 1

\* eligibility(): every feed with a baseline is ready, one is enough.
Ready == GatedDatasets \cap baseline

\* scheduler_start_blockers(): the flag is no blocker of a start.
MayStart == Ready # {}

\* What a full-market grant asks of the Source's rows, apart from the credential.
AllowedNow ==
    /\ control.desired = "running" /\ consent /\ admission.made /\ flag /\ enabled /\ admission.scope \subseteq baseline
Witness(now) == was' = (was \/ (request.pc # "none" /\ now))

OwnerStarts ==
    /\ Command /\ control.desired = "stopped" /\ MayStart
    /\ control' = [control EXCEPT !.desired = "running"]
    /\ admission' = [made |-> TRUE, scope |-> Ready]
    /\ consent' = TRUE /\ Witness(flag /\ enabled)
    /\ UNCHANGED <<clock, heard, baseline, flag, enabled, client, worker, request, calls, enrolling, cycles, losses>>

OwnerStops ==
    /\ Command /\ control.desired = "running"
    /\ control' = [control EXCEPT !.desired = "stopped"] /\ consent' = FALSE
    /\ UNCHANGED <<clock, heard, admission, baseline, flag, enabled, client, worker, request, was, calls, enrolling, cycles, losses>>

\* reconcile_environment(): disabling stops every running control.
StoppedWith(f) == IF f THEN control.desired ELSE "stopped"

\* A deployment replaces the process; a request under way fails.
Deploy(f) ==
    /\ Command /\ envLock = None /\ f # flag
    /\ flag' = f /\ enabled' = f /\ consent' = (consent /\ f)
    /\ control' = [control EXCEPT !.desired = StoppedWith(f)]
    /\ request' = IF request.pc = "none" THEN request ELSE [NoRequest EXCEPT !.pc = "denied"]
    /\ UNCHANGED <<clock, heard, admission, baseline, client, worker, was, calls, enrolling, cycles, losses>>

PublishBaseline ==
    /\ Command /\ baseline # GatedDatasets /\ baseline' = GatedDatasets
    /\ Witness(AllowedNow)
    /\ UNCHANGED <<clock, control, heard, admission, flag, enabled, consent, client, worker, request, calls, enrolling, cycles, losses>>

\* Credentials are reconciled or revoked.
ChangeClient(c) ==
    /\ Command /\ c # client /\ client' = c
    /\ UNCHANGED <<clock, control, heard, admission, baseline, flag, consent, enabled, worker, request, was, calls, enrolling, cycles, losses>>

Tick ==
    /\ clock < MaxClock /\ clock' = clock + 1
    /\ UNCHANGED <<sourceState, worker, request, was, calls, enrolling, bounds>>

---------------------------------------------------------------------------
(* The Source answers GET full-market/authorization. *)

Ask(pc) == request' = [request EXCEPT !.pc = pc]

\* verify_source_api_key(): an unusable credential is refused at once.
Authenticate ==
    /\ request.pc = "client"
    /\ IF client.valid THEN request' = [request EXCEPT !.pc = "control", !.client = client.scope]
       ELSE request' = [NoRequest EXCEPT !.pc = "denied"]
    /\ Witness(AllowedNow)
    /\ UNCHANGED <<clock, sourceState, worker, calls, enrolling, bounds>>

\* A maintenance grant needs no control and no admission.
ReadControl ==
    /\ request.pc = "control"
    /\ request' = [request EXCEPT !.pc = "admission", !.control = control.desired]
    /\ Witness(AllowedNow)
    /\ UNCHANGED <<clock, sourceState, worker, calls, enrolling, bounds>>

ReadAdmission ==
    /\ request.pc = "admission"
    /\ request' = [request EXCEPT !.pc = "environment", !.admitted = admission.made, !.scope = admission.scope]
    /\ UNCHANGED <<clock, sourceState, worker, was, calls, enrolling, bounds>>

\* _valid_source_binding(): the credential of this request covers the scope.
Bound == request.client # {} /\ (consumer = "maintenance" \/ request.scope \subseteq request.client)

\* acquisition_eligibility() and the window; checked_at is taken last.
Answer ==
    /\ request.pc = "environment"
    /\ Ask(IF /\ flag /\ enabled /\ Bound
              /\ (consumer = "maintenance"
                  \/ /\ request.control = "running" /\ request.admitted
                     /\ request.scope \subseteq baseline /\ clock < SourceClose)
           THEN "allowed" ELSE "denied")
    /\ UNCHANGED <<clock, sourceState, worker, was, calls, enrolling, bounds>>

---------------------------------------------------------------------------
(* The worker: run_worker() and _governed(). *)

Go(pc) == worker' = [worker EXCEPT !.pc = pc]
LocallyOpen == consumer = "maintenance" \/ clock < LocalClose

\* poll_scheduler_control(): records the observed state, returns the desired.
Poll(observed, by) ==
    /\ control' = [control EXCEPT !.observed = observed]
    /\ heard' = [by |-> by, masked |-> 0]

\* main(): every other mode of the command line - the deployment's probe, a
\* maintenance command - begins with a report of "stopped" on the same key.
OtherMode ==
    /\ Command /\ Poll("stopped", "other")
    /\ UNCHANGED <<clock, admission, baseline, flag, enabled, consent, client, worker, request, was, calls, enrolling, cycles, losses>>

\* drain, poll "stopped"; go on only when the control is to run.
WakeUp ==
    /\ worker.pc = "idle" /\ cycles < MaxCycles /\ cycles' = cycles + 1
    /\ Poll("stopped", "worker")
    /\ IF consumer = "maintenance" \/ control.desired = "running" THEN Go("gate") ELSE UNCHANGED worker
    /\ UNCHANGED <<clock, admission, baseline, flag, enabled, consent, client, request, was, calls, enrolling, commands, losses>>

\* Faulty variant of Announced: only the start of a cycle reports "running".
AnnouncedLate == control.observed

\* What the check of every acquisition reports.
Announced == "running"

\* can_acquire(): poll "running", then ask for the authorization.
Gate ==
    /\ consumer = "full_market" /\ worker.pc \in {"gate", "cycle"} /\ request.pc = "none"
    /\ Poll(Announced, "worker")
    /\ IF control.desired = "running" /\ LocallyOpen
         THEN /\ request' = [NoRequest EXCEPT !.pc = "client"] /\ was' = AllowedNow
              /\ Go(IF worker.pc = "gate" THEN "checking" ELSE "asking")
         ELSE Go("ends") /\ UNCHANGED <<request, was>>
    /\ UNCHANGED <<clock, admission, baseline, flag, enabled, consent, client, calls, enrolling, bounds>>

\* The sync-universes command asks as maintenance, without control or window.
GateMaintenance ==
    /\ consumer = "maintenance" /\ worker.pc \in {"gate", "cycle"} /\ request.pc = "none"
    /\ request' = [NoRequest EXCEPT !.pc = "client"] /\ was' = AllowedNow
    /\ Go(IF worker.pc = "gate" THEN "checking" ELSE "asking")
    /\ UNCHANGED <<clock, sourceState, calls, enrolling, bounds>>

\* replace(grant, expires_at=min(...)): the earlier of the two windows.
Expiry ==
    IF consumer = "maintenance" THEN MaxClock + 1
    ELSE IF SourceClose < LocalClose THEN SourceClose ELSE LocalClose

\* The answer arrives: the cycle begins, or the call may be made.
Receive ==
    /\ worker.pc \in {"checking", "asking"} /\ request.pc \in {"allowed", "denied"}
    /\ worker' = CASE request.pc = "denied" \/ ~LocallyOpen -> [worker EXCEPT !.pc = "ends"]
                   [] worker.pc = "checking" -> [worker EXCEPT !.pc = "cycle"]
                   [] OTHER -> [pc |-> "granted", expires |-> Expiry]
    /\ request' = NoRequest
    /\ UNCHANGED <<clock, sourceState, was, calls, enrolling, bounds>>

\* Every call asks again.
AfterCall == IF clock < worker.expires THEN "cycle" ELSE "ends"

\* A scheduled call behind a report of "stopped".
Masked == consumer = "full_market" /\ control.observed = "stopped"

\* The call is dispatched while the grant is valid.
Dispatch ==
    /\ worker.pc = "granted"
    /\ IF clock < worker.expires
         THEN calls' = {[justified |-> was \/ consumer = "maintenance",
                         open |-> consumer = "maintenance" \/ (clock < SourceClose /\ clock < LocalClose)]}
         ELSE UNCHANGED calls
    /\ heard' = [heard EXCEPT !.masked = @ + (IF clock < worker.expires /\ Masked THEN 1 ELSE 0)]
    /\ Go(AfterCall) /\ was' = FALSE
    /\ UNCHANGED <<clock, control, admission, baseline, flag, enabled, client, consent, request, enrolling, bounds>>

\* The cycle has no more members, or was blocked: report "stopped".
EndCycle ==
    /\ worker.pc \in {"cycle", "ends"} /\ request.pc = "none"
    /\ Poll("stopped", "worker") /\ Go("idle")
    /\ UNCHANGED <<clock, admission, baseline, flag, enabled, consent, client, request, was, calls, enrolling, bounds>>

\* The worker dies or its request fails: it starts over from its loop.
Lose ==
    /\ losses < MaxLosses /\ losses' = losses + 1
    /\ worker.pc # "idle"
    /\ Go("idle") /\ request' = NoRequest
    /\ UNCHANGED <<clock, sourceState, was, calls, enrolling, commands, cycles>>

---------------------------------------------------------------------------
(* Enrolment of an installed runtime. *)

Live == {d \in Declarations : enrolled[d] = "live"}

\* lock_environment(): one management command at a time.
LockFree == envLock = None

\* A report holds the row it has read FOR UPDATE.
Locked(d) == report.pc = "write" /\ report.declaration = d

\* enroll(): under the lock, the declaration is looked up; a new one revokes
\* the live ones it reads here and locks.
EnrollRead(e, d) ==
    /\ command[e].pc = "idle" /\ commands < MaxCommands /\ commands' = commands + 1
    /\ LockFree /\ client.valid /\ \A p \in Live : ~Locked(p)
    /\ IF enrolled[d] = "none"
         THEN /\ command' = [command EXCEPT ![e] = [pc |-> "write", declaration |-> d, prior |-> Live]]
              /\ envLock' = e
         ELSE UNCHANGED <<command, envLock>>    \* the same installation again, or refused
    /\ UNCHANGED <<clock, sourceState, worker, request, was, calls, consumer, enrolled, reportedDead, report, cycles, losses>>

EnrollWrite(e) ==
    /\ command[e].pc = "write"
    /\ enrolled' = [d \in Declarations |->
                      CASE d = command[e].declaration -> "live"
                        [] d \in command[e].prior -> "revoked"
                        [] OTHER -> enrolled[d]]
    /\ command' = [command EXCEPT ![e] = [pc |-> "idle", declaration |-> None, prior |-> {}]]
    /\ envLock' = None
    /\ UNCHANGED <<clock, sourceState, worker, request, was, calls, consumer, reportedDead, report, bounds>>

\* report_readiness(): waits for an enrolment that has locked the row, then it
\* is checked and recorded under the lock.
ReportRead(d) ==
    /\ report.pc = "idle" /\ commands < MaxCommands /\ commands' = commands + 1
    /\ enrolled[d] = "live" /\ client.valid /\ \A e \in Enrollers : d \notin command[e].prior
    /\ report' = [pc |-> "write", declaration |-> d]
    /\ UNCHANGED <<clock, sourceState, worker, request, was, calls, consumer, enrolled, reportedDead, command, envLock, cycles, losses>>

ReportWrite ==
    /\ report.pc = "write"
    /\ reportedDead' = (reportedDead \/ enrolled[report.declaration] # "live")
    /\ report' = [pc |-> "idle", declaration |-> None]
    /\ UNCHANGED <<clock, sourceState, worker, request, was, calls, consumer, enrolled, command, envLock, bounds>>

GateNext ==
    \/ OwnerStarts \/ OwnerStops \/ (\E f \in BOOLEAN : Deploy(f)) \/ PublishBaseline \/ Tick
    \/ \E c \in [valid : {FALSE}, scope : {GatedDatasets}] \cup [valid : {TRUE}, scope : (SUBSET GatedDatasets) \ {{}}] : ChangeClient(c)
    \/ Authenticate \/ ReadControl \/ ReadAdmission \/ Answer
    \/ OtherMode \/ WakeUp \/ Gate \/ GateMaintenance \/ Receive \/ Dispatch \/ EndCycle \/ Lose
    \/ \E e \in Enrollers : EnrollWrite(e) \/ (\E d \in Declarations : EnrollRead(e, d))
    \/ (\E d \in Declarations : ReportRead(d)) \/ ReportWrite

GateSpec == GateInit /\ [][GateNext]_gateVars

---------------------------------------------------------------------------
GateTypeOK ==
    /\ clock \in 0 .. MaxClock /\ control \in [desired : {"stopped", "running"}, observed : {"stopped", "running"}]
    /\ heard \in [by : {"worker", "other"}, masked : Nat]
    /\ admission \in [made : BOOLEAN, scope : SUBSET GatedDatasets] /\ baseline \subseteq GatedDatasets
    /\ worker.pc \in {"idle", "gate", "checking", "cycle", "asking", "granted", "ends"}
    /\ request.pc \in {"none", "client", "control", "admission", "environment", "allowed", "denied"}
    /\ {flag, enabled, was, reportedDead, client.valid} \subseteq BOOLEAN
    /\ enrolled \in [Declarations -> {"none", "live", "revoked"}]

\* A provider call is made only on an answer whose conditions - the control
\* started by the owner since it last stopped, the admission, the flag, the
\* baselines - held together at some moment since this very call asked,
\* although they are read one by one, and never after either daily window has
\* closed (full_market_admission.py
\* admission_projection, full_market_runtime.py _governed).
GrantsHold == \A c \in calls : c.justified /\ c.open

\* What the deployment waits for, "desired/observed stopped", means that no
\* call is being authorized or made when the report is the worker's own: it
\* reports "running" before it asks and "stopped" only after its cycle.  Another
\* mode's report says nothing of the worker, but hides no more than the one
\* call whose check had begun: the next check overwrites it
\* (full_market_cli.py run_worker, main --require-stopped).
StoppedMeansQuiet ==
    consumer = "full_market" =>
      /\ control.desired = "stopped" /\ control.observed = "stopped" /\ heard.by = "worker"
           => worker.pc \notin {"asking", "granted", "checking", "cycle"}
      /\ heard.masked <= (IF heard.by = "worker" THEN 0 ELSE 1)

\* At most one enrolment of a provider is live, and no readiness report is
\* recorded on one that is revoked (full_market_admission.py enroll,
\* report_readiness).
EnrollmentSound == Cardinality(Live) <= 1 /\ ~reportedDead

\* The gate as a whole: a grant is used only while the conditions it was given
\* under hold, a worker that reports itself stopped makes no calls, another
\* mode's report hides one at most, and enrolments do not mix.
GateSound == GrantsHold /\ StoppedMeansQuiet /\ EnrollmentSound
=============================================================================

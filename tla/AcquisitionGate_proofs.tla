----------------------- MODULE AcquisitionGate_proofs -----------------------
(***************************************************************************)
(* The acquisition gate is sound for every set of datasets, enrollers and  *)
(* declarations and for any number of commands, cycles and losses.         *)
(***************************************************************************)
EXTENDS AcquisitionGate, FiniteSetTheorems, TLAPS

---------------------------------------------------------------------------
(* The inductive invariant. *)

Steps == {"idle", "gate", "checking", "cycle", "asking", "granted", "ends"}
Stages == {"none", "client", "control", "admission", "environment", "allowed", "denied"}
Asked == [pc : Stages, control : {None, "stopped", "running"}, client : SUBSET GatedDatasets,
          scope : SUBSET GatedDatasets, admitted : BOOLEAN]
GateTypes ==
    /\ clock \in 0 .. MaxClock /\ control \in [desired : {"stopped", "running"}, observed : {"stopped", "running"}]
    /\ heard \in [by : {"worker", "other"}, masked : Nat]
    /\ admission \in [made : BOOLEAN, scope : SUBSET GatedDatasets] /\ baseline \subseteq GatedDatasets
    /\ flag \in BOOLEAN /\ enabled \in BOOLEAN /\ consent \in BOOLEAN /\ was \in BOOLEAN
    /\ client \in [valid : BOOLEAN, scope : SUBSET GatedDatasets]
    /\ consumer \in {"full_market", "maintenance"}
    /\ worker \in [pc : Steps, expires : Int]
    /\ request \in Asked
    /\ enrolled \in [Declarations -> {"none", "live", "revoked"}]
    /\ command \in [Enrollers -> [pc : {"idle", "write"}, declaration : Declarations \cup {None},
                                  prior : SUBSET Declarations]]
    /\ report \in [pc : {"idle", "write"}, declaration : Declarations \cup {None}]

\* The Source's rows fit each other: the environment row is the flag's, a
\* control that is to run was started with an admission, and what was admitted
\* keeps its baseline.
RowsFit ==
    /\ flag = enabled
    /\ control.desired = "running" => consent /\ admission.made
    /\ admission.scope \subseteq baseline

\* A request is under way only for a worker that waits for it, and what it has
\* read so far bears witness: a control that was to run, with the flag of now,
\* is a moment at which everything held.
RequestBearsOut ==
    /\ request.pc # "none" => worker.pc \in {"checking", "asking"}
    /\ request.pc \in {"admission", "environment"} /\ request.control = "running" /\ flag => was
    /\ request.pc = "allowed" /\ consumer = "full_market" => was
    /\ worker.pc = "granted" => worker.expires = Expiry /\ (consumer = "full_market" => was)

\* From its first check to the end of the cycle the worker is reported running
\* unless another mode has reported since; a call made behind that report is the
\* only one, for the worker asks, and reports, before the next.
ObservedWhileBusy ==
    consumer = "full_market" =>
      /\ worker.pc \notin {"idle", "gate"} => control.observed = "running" \/ heard.by = "other"
      /\ heard.by = "worker" => heard.masked = 0
      /\ heard.masked <= 1
      /\ heard.masked = 1 => worker.pc \notin {"asking", "granted"}

\* A command that holds the environment row replaces exactly the live
\* enrolments, none of which a report has in hand.
EnrollmentsKept ==
    /\ \A a, b \in Live : a = b
    /\ \A e \in Enrollers :
          IF command[e].pc = "idle" THEN command[e].prior = {}
          ELSE /\ envLock = e /\ command[e].prior = Live
               /\ command[e].declaration \in Declarations
    /\ report.pc = "write" => /\ report.declaration \in Live
                             /\ \A e \in Enrollers : report.declaration \notin command[e].prior
    /\ reportedDead = FALSE

GateInv == GateTypes /\ RowsFit /\ RequestBearsOut /\ GrantsHold /\ ObservedWhileBusy /\ EnrollmentsKept

Clients == [valid : {FALSE}, scope : {GatedDatasets}] \cup [valid : {TRUE}, scope : (SUBSET GatedDatasets) \ {{}}]

---------------------------------------------------------------------------
\* The initial states satisfy the invariant.
LEMMA InitHolds ==
    ASSUME GateInit
    PROVE  GateInv
<1>1. request \in Asked /\ admission \in [made : BOOLEAN, scope : SUBSET GatedDatasets] /\ consent \in BOOLEAN
  BY DEF GateInit, NoRequest, Asked, Stages, None
<1>2. /\ command \in [Enrollers -> [pc : {"idle", "write"}, declaration : Declarations \cup {None},
                                    prior : SUBSET Declarations]]
      /\ report \in [pc : {"idle", "write"}, declaration : Declarations \cup {None}]
      /\ enrolled \in [Declarations -> {"none", "live", "revoked"}]
  BY DEF GateInit
<1>5. /\ control \in [desired : {"stopped", "running"}, observed : {"stopped", "running"}]
      /\ worker \in [pc : Steps, expires : Int] /\ baseline \subseteq GatedDatasets
      /\ client \in [valid : BOOLEAN, scope : SUBSET GatedDatasets]
  BY DEF GateInit, Steps
<1>6. GateTypes
  <2>1. clock \in 0 .. MaxClock  BY WindowsAssumption DEF GateInit
  <2> QED  BY <1>1, <1>2, <1>5, <2>1 DEF GateInit, GateTypes
<1>3. RowsFit /\ RequestBearsOut /\ GrantsHold /\ ObservedWhileBusy
  <2>1. RowsFit /\ RequestBearsOut /\ GrantsHold
    BY DEF GateInit, RowsFit, RequestBearsOut, GrantsHold, NoRequest
  <2>2. ObservedWhileBusy  BY DEF GateInit, ObservedWhileBusy
  <2> QED  BY <2>1, <2>2
<1>4. EnrollmentsKept
  BY DEF GateInit, EnrollmentsKept, Live, None
<1> QED  BY <1>3, <1>4, <1>6 DEF GateInv

\* A request at any stage with nothing read yet is a request.
LEMMA FreshRequest == \A stage \in Stages : [NoRequest EXCEPT !.pc = stage] \in Asked
BY DEF NoRequest, Asked, None

\* A request that moves on and keeps what else it has read is a request.
LEMMA MovedRequest ==
    ASSUME request \in Asked
    PROVE  /\ \A stage \in Stages : [request EXCEPT !.pc = stage] \in Asked
           /\ \A stage \in Stages : \A scope \in SUBSET GatedDatasets :
                 [request EXCEPT !.pc = stage, !.client = scope] \in Asked
BY DEF Asked

\* Every step keeps the types.
LEMMA TypesKept ==
    ASSUME GateInv, GateNext
    PROVE  GateTypes'
<1>1. CASE OwnerStarts
  BY <1>1, WindowsAssumption DEF OwnerStarts, Command, MayStart, Ready, Witness, GateInv,
     sourceState, enrolling, bounds, NoRequest, GateTypes, Asked, Steps, Stages, None
<1>2. CASE OwnerStops
  <2>1. control' \in [desired : {"stopped", "running"}, observed : {"stopped", "running"}]
    BY <1>2, WindowsAssumption DEF OwnerStops, GateInv, GateTypes
  <2> QED  BY <1>2, <2>1 DEF OwnerStops, Command, GateInv, GateTypes, sourceState, enrolling, bounds
<1>3. ASSUME NEW f \in BOOLEAN, Deploy(f) PROVE GateTypes'
  <2>1. control' \in [desired : {"stopped", "running"}, observed : {"stopped", "running"}]
    BY <1>3, WindowsAssumption DEF Deploy, StoppedWith, GateInv, GateTypes
  <2>2. request' \in Asked
    BY <1>3, WindowsAssumption DEF Deploy, GateInv, GateTypes, sourceState, Asked, Stages,
       NoRequest, None
  <2>3. flag' \in BOOLEAN /\ enabled' \in BOOLEAN /\ consent' \in BOOLEAN
    BY <1>3, WindowsAssumption DEF Deploy, GateInv, GateTypes
  <2> QED  BY <1>3, <2>1, <2>2, <2>3 DEF Deploy, Command, GateInv, GateTypes, sourceState,
              enrolling, bounds
<1>4. CASE PublishBaseline
  BY <1>4, WindowsAssumption DEF PublishBaseline, Command, Witness, AllowedNow, GateInv,
     sourceState, enrolling, bounds, NoRequest, GateTypes, Asked, Steps, Stages, None
<1>5. CASE Tick
  BY <1>5, WindowsAssumption DEF Tick, GateInv, sourceState, enrolling, bounds, NoRequest,
     GateTypes, Asked, Steps, Stages, None
<1>6. ASSUME NEW c \in Clients, ChangeClient(c) PROVE GateTypes'
  <2>1. client' \in [valid : BOOLEAN, scope : SUBSET GatedDatasets]
    BY <1>6, WindowsAssumption DEF ChangeClient, Clients
  <2> QED  BY <1>6, <2>1 DEF ChangeClient, Command, GateInv, GateTypes, sourceState, enrolling,
              bounds
<1>7. CASE Authenticate
  <2>1. request' \in Asked
    <3>1. request \in Asked /\ client.scope \in SUBSET GatedDatasets  BY DEF GateInv, GateTypes
    <3>2. CASE client.valid
      BY <1>7, <3>1, <3>2, MovedRequest DEF Authenticate, Stages
    <3>3. CASE ~client.valid
      BY <1>7, <3>3, FreshRequest DEF Authenticate, Stages
    <3> QED  BY <3>2, <3>3
  <2>2. was' \in BOOLEAN
    BY <1>7, WindowsAssumption DEF Authenticate, Witness, GateInv, GateTypes
  <2> QED  BY <1>7, <2>1, <2>2 DEF Authenticate, GateInv, GateTypes, sourceState, enrolling, bounds
<1>8. CASE ReadControl
  <2>1. request' \in Asked
    BY <1>8, WindowsAssumption DEF ReadControl, GateInv, GateTypes, sourceState, Asked, Stages,
       NoRequest, None
  <2>2. was' \in BOOLEAN
    BY <1>8, WindowsAssumption DEF ReadControl, Witness, GateInv, GateTypes
  <2> QED  BY <1>8, <2>1, <2>2 DEF ReadControl, GateInv, GateTypes, sourceState, enrolling, bounds
<1>9. CASE ReadAdmission
  <2>1. request' \in Asked
    BY <1>9, WindowsAssumption DEF ReadAdmission, GateInv, GateTypes, sourceState, Asked,
       Stages, NoRequest, None
  <2> QED  BY <1>9, <2>1 DEF ReadAdmission, GateInv, GateTypes, sourceState, enrolling, bounds
<1>10. CASE Answer
  BY <1>10, WindowsAssumption DEF Answer, Ask, Bound, GateInv, sourceState, enrolling, bounds,
     NoRequest, GateTypes, Asked, Steps, Stages, None
<1>11. CASE WakeUp
  BY <1>11, WindowsAssumption DEF WakeUp, Poll, Go, GateInv, sourceState, enrolling, bounds,
     NoRequest, GateTypes, Asked, Steps, Stages, None
<1>12. CASE Gate
  <2>1. /\ control' \in [desired : {"stopped", "running"}, observed : {"stopped", "running"}]
        /\ heard' \in [by : {"worker", "other"}, masked : Nat]
    BY <1>12 DEF Gate, Poll, Announced, GateInv, GateTypes
  <2>2. request' \in Asked
    BY <1>12, FreshRequest DEF Gate, GateInv, GateTypes, Stages
  <2>3. was' \in BOOLEAN
    BY <1>12, WindowsAssumption DEF Gate, AllowedNow, GateInv, GateTypes
  <2>4. worker' \in [pc : Steps, expires : Int]
    BY <1>12, WindowsAssumption DEF Gate, Go, GateInv, GateTypes, Steps
  <2> QED  BY <1>12, <2>1, <2>2, <2>3, <2>4 DEF Gate, GateInv, GateTypes, enrolling, bounds
<1>13. CASE GateMaintenance
  <2>1. request' \in Asked
    BY <1>13, WindowsAssumption DEF GateMaintenance, GateInv, GateTypes, sourceState, Asked,
       Stages, NoRequest, None
  <2>2. was' \in BOOLEAN
    BY <1>13, WindowsAssumption DEF GateMaintenance, AllowedNow, GateInv, GateTypes
  <2>3. worker' \in [pc : Steps, expires : Int]
    BY <1>13, WindowsAssumption DEF GateMaintenance, Go, GateInv, GateTypes, Steps
  <2> QED  BY <1>13, <2>1, <2>2, <2>3 DEF GateMaintenance, GateInv, GateTypes, sourceState,
              enrolling, bounds
<1>14. CASE Receive
  <2>1. request' \in Asked
    BY <1>14, WindowsAssumption DEF Receive, GateInv, GateTypes, sourceState, Asked, Stages,
       NoRequest, None
  <2>2. worker' \in [pc : Steps, expires : Int]
    BY <1>14, WindowsAssumption DEF Receive, Expiry, GateInv, GateTypes, Steps
  <2> QED  BY <1>14, <2>1, <2>2 DEF Receive, GateInv, GateTypes, sourceState, enrolling, bounds
<1>15. CASE Dispatch
  <2>1. was' \in BOOLEAN
    BY <1>15, WindowsAssumption DEF Dispatch
  <2>2. worker' \in [pc : Steps, expires : Int]
    BY <1>15, WindowsAssumption DEF Dispatch, Masked, Go, AfterCall, GateInv, GateTypes, Steps
  <2> QED  BY <1>15, <2>1, <2>2 DEF Dispatch, GateInv, GateTypes, sourceState, enrolling, bounds
<1>16. CASE EndCycle
  BY <1>16, WindowsAssumption DEF EndCycle, Poll, Go, GateInv, sourceState, enrolling, bounds,
     NoRequest, GateTypes, Asked, Steps, Stages, None
<1>17. CASE Lose
  BY <1>17, WindowsAssumption DEF Lose, Go, GateInv, sourceState, enrolling, bounds, NoRequest,
     GateTypes, Asked, Steps, Stages, None
<1>18. ASSUME NEW e \in Enrollers, EnrollWrite(e) PROVE GateTypes'
  BY <1>18, WindowsAssumption DEF EnrollWrite, Live, GateInv, sourceState, enrolling, bounds,
     NoRequest, GateTypes, Asked, Steps, Stages, None
<1>19. ASSUME NEW e \in Enrollers, NEW d \in Declarations, EnrollRead(e, d) PROVE GateTypes'
  BY <1>19, WindowsAssumption DEF EnrollRead, Live, LockFree, Locked, GateInv, sourceState,
     enrolling, bounds, NoRequest, GateTypes, Asked, Steps, Stages, None
<1>20. ASSUME NEW d \in Declarations, ReportRead(d) PROVE GateTypes'
  BY <1>20, WindowsAssumption DEF ReportRead, GateInv, sourceState, enrolling, bounds,
     NoRequest, GateTypes, Asked, Steps, Stages, None
<1>21. CASE ReportWrite
  BY <1>21, WindowsAssumption DEF ReportWrite, GateInv, sourceState, enrolling, bounds,
     NoRequest, GateTypes, Asked, Steps, Stages, None
<1>22. CASE OtherMode
  BY <1>22, WindowsAssumption DEF OtherMode, Command, Poll, enrolling, GateInv,
     GateTypes
<1> QED  BY <1>1, <1>2, <1>3, <1>4, <1>5, <1>6, <1>7, <1>8, <1>9, <1>10, <1>11, <1>12, <1>13,
            <1>14, <1>15, <1>16, <1>17, <1>18, <1>19, <1>20, <1>21, <1>22 DEF GateNext, Clients

\* Every step keeps the rows of the Source in accord.
LEMMA RowsFitKept ==
    ASSUME GateInv, GateNext
    PROVE  RowsFit'
<1>1. CASE OwnerStarts
  BY <1>1 DEF OwnerStarts, Command, MayStart, Ready, Witness, GateInv, sourceState, enrolling,
     bounds, NoRequest, GateTypes, RowsFit, Clients
<1>2. CASE OwnerStops
  BY <1>2 DEF OwnerStops, Command, GateInv, sourceState, enrolling, bounds, NoRequest,
     GateTypes, RowsFit, Clients
<1>3. ASSUME NEW f \in BOOLEAN, Deploy(f) PROVE RowsFit'
  BY <1>3 DEF Deploy, Command, StoppedWith, GateInv, sourceState, enrolling, bounds, NoRequest,
     GateTypes, RowsFit, Clients
<1>4. CASE PublishBaseline
  BY <1>4 DEF PublishBaseline, Command, Witness, AllowedNow, GateInv, sourceState, enrolling,
     bounds, NoRequest, GateTypes, RowsFit, Clients
<1>5. CASE Tick
  BY <1>5 DEF Tick, GateInv, sourceState, enrolling, bounds, NoRequest, GateTypes, RowsFit, Clients
<1>6. ASSUME NEW c \in Clients, ChangeClient(c) PROVE RowsFit'
  BY <1>6 DEF ChangeClient, Command, GateInv, sourceState, enrolling, bounds, NoRequest,
     GateTypes, RowsFit, Clients
<1>7. CASE Authenticate
  BY <1>7 DEF Authenticate, Witness, AllowedNow, GateInv, sourceState, enrolling, bounds,
     NoRequest, GateTypes, RowsFit, Clients
<1>8. CASE ReadControl
  BY <1>8 DEF ReadControl, Witness, AllowedNow, GateInv, sourceState, enrolling, bounds,
     NoRequest, GateTypes, RowsFit, Clients
<1>9. CASE ReadAdmission
  BY <1>9 DEF ReadAdmission, GateInv, sourceState, enrolling, bounds, NoRequest, GateTypes,
     RowsFit, Clients
<1>10. CASE Answer
  BY <1>10 DEF Answer, Ask, Bound, GateInv, sourceState, enrolling, bounds, NoRequest,
     GateTypes, RowsFit, Clients
<1>11. CASE WakeUp
  BY <1>11 DEF WakeUp, Poll, Go, GateInv, sourceState, enrolling, bounds, NoRequest, GateTypes,
     RowsFit, Clients
<1>12. CASE Gate
  BY <1>12 DEF Gate, Poll, Go, LocallyOpen, AllowedNow, Announced, GateInv, sourceState,
     enrolling, bounds, NoRequest, GateTypes, RowsFit, Clients
<1>13. CASE GateMaintenance
  BY <1>13 DEF GateMaintenance, Go, AllowedNow, GateInv, sourceState, enrolling, bounds,
     NoRequest, GateTypes, RowsFit, Clients
<1>14. CASE Receive
  BY <1>14 DEF Receive, LocallyOpen, Expiry, GateInv, sourceState, enrolling, bounds, NoRequest,
     GateTypes, RowsFit, Clients
<1>15. CASE Dispatch
  BY <1>15 DEF Dispatch, Masked, Go, AfterCall, GateInv, sourceState, enrolling, bounds, NoRequest,
     GateTypes, RowsFit, Clients
<1>16. CASE EndCycle
  BY <1>16 DEF EndCycle, Poll, Go, GateInv, sourceState, enrolling, bounds, NoRequest,
     GateTypes, RowsFit, Clients
<1>17. CASE Lose
  BY <1>17 DEF Lose, Go, GateInv, sourceState, enrolling, bounds, NoRequest, GateTypes, RowsFit,
     Clients
<1>18. ASSUME NEW e \in Enrollers, EnrollWrite(e) PROVE RowsFit'
  BY <1>18 DEF EnrollWrite, Live, GateInv, sourceState, enrolling, bounds, NoRequest, GateTypes,
     RowsFit, Clients
<1>19. ASSUME NEW e \in Enrollers, NEW d \in Declarations, EnrollRead(e, d) PROVE RowsFit'
  BY <1>19 DEF EnrollRead, Live, LockFree, Locked, GateInv, sourceState, enrolling, bounds,
     NoRequest, GateTypes, RowsFit, Clients
<1>20. ASSUME NEW d \in Declarations, ReportRead(d) PROVE RowsFit'
  BY <1>20 DEF ReportRead, GateInv, sourceState, enrolling, bounds, NoRequest, GateTypes,
     RowsFit, Clients
<1>21. CASE ReportWrite
  BY <1>21 DEF ReportWrite, GateInv, sourceState, enrolling, bounds, NoRequest, GateTypes,
     RowsFit, Clients
<1>22. CASE OtherMode
  BY <1>22 DEF OtherMode, Command, Poll, enrolling, GateInv,
     GateTypes, RowsFit
<1> QED  BY <1>1, <1>2, <1>3, <1>4, <1>5, <1>6, <1>7, <1>8, <1>9, <1>10, <1>11, <1>12, <1>13,
            <1>14, <1>15, <1>16, <1>17, <1>18, <1>19, <1>20, <1>21, <1>22 DEF GateNext, Clients

\* Every step of the worker, of the Source and of those who change its rows
\* keeps what a request has read true.
LEMMA RequestKept ==
    ASSUME GateInv, GateNext
    PROVE  RequestBearsOut'
<1>1. CASE OwnerStarts
  BY <1>1 DEF OwnerStarts, Command, MayStart, Ready, Witness, GateInv, sourceState, enrolling,
     bounds, NoRequest, GateTypes, RowsFit, RequestBearsOut, Expiry, Asked, Steps, Stages, None
<1>2. CASE OwnerStops
  BY <1>2 DEF OwnerStops, Command, GateInv, sourceState, enrolling, bounds, NoRequest,
     GateTypes, RowsFit, RequestBearsOut, Expiry, Asked, Steps, Stages, None
<1>3. ASSUME NEW f \in BOOLEAN, Deploy(f) PROVE RequestBearsOut'
  BY <1>3 DEF Deploy, Command, StoppedWith, GateInv, sourceState, enrolling, bounds, NoRequest,
     GateTypes, RowsFit, RequestBearsOut, Expiry, Asked, Steps, Stages, None
<1>4. CASE PublishBaseline
  BY <1>4 DEF PublishBaseline, Command, Witness, AllowedNow, GateInv, sourceState, enrolling,
     bounds, NoRequest, GateTypes, RowsFit, RequestBearsOut, Expiry, Asked, Steps, Stages, None
<1>5. CASE Tick
  BY <1>5 DEF Tick, GateInv, sourceState, enrolling, bounds, NoRequest, GateTypes, RowsFit,
     RequestBearsOut, Expiry, Asked, Steps, Stages, None
<1>6. ASSUME NEW c \in Clients, ChangeClient(c) PROVE RequestBearsOut'
  BY <1>6 DEF ChangeClient, Command, GateInv, sourceState, enrolling, bounds, NoRequest,
     GateTypes, RowsFit, RequestBearsOut, Expiry, Asked, Steps, Stages, None
<1>7. CASE Authenticate
  <2>1. request'.pc \in {"control", "denied"} /\ worker.pc \in {"checking", "asking"}
    BY <1>7 DEF Authenticate, NoRequest, GateInv, GateTypes, Asked, RequestBearsOut
  <2>2. UNCHANGED <<worker, consumer>>  BY <1>7 DEF Authenticate, enrolling
  <2> QED  BY <2>1, <2>2 DEF RequestBearsOut
<1>8. CASE ReadControl
  BY <1>8 DEF ReadControl, Witness, AllowedNow, GateInv, sourceState, enrolling, bounds,
     NoRequest, GateTypes, RowsFit, RequestBearsOut, Expiry, Asked, Steps, Stages, None
<1>9. CASE ReadAdmission
  BY <1>9 DEF ReadAdmission, GateInv, sourceState, enrolling, bounds, NoRequest, GateTypes,
     RowsFit, RequestBearsOut, Expiry, Asked, Steps, Stages, None
<1>10. CASE Answer
  BY <1>10 DEF Answer, Ask, Bound, GateInv, sourceState, enrolling, bounds, NoRequest,
     GateTypes, RowsFit, RequestBearsOut, Expiry, Asked, Steps, Stages, None
<1>11. CASE WakeUp
  BY <1>11 DEF WakeUp, Poll, Go, GateInv, sourceState, enrolling, bounds, NoRequest, GateTypes,
     RowsFit, RequestBearsOut, Expiry, Asked, Steps, Stages, None
<1>12. CASE Gate
  BY <1>12 DEF Gate, Poll, Go, LocallyOpen, AllowedNow, Announced, GateInv, sourceState,
     enrolling, bounds, NoRequest, GateTypes, RowsFit, RequestBearsOut, Expiry, Asked, Steps,
     Stages, None
<1>13. CASE GateMaintenance
  BY <1>13 DEF GateMaintenance, Go, AllowedNow, GateInv, sourceState, enrolling, bounds,
     NoRequest, GateTypes, RowsFit, RequestBearsOut, Expiry, Asked, Steps, Stages, None
<1>14. CASE Receive
  BY <1>14 DEF Receive, LocallyOpen, Expiry, GateInv, sourceState, enrolling, bounds, NoRequest,
     GateTypes, RowsFit, RequestBearsOut, Expiry, Asked, Steps, Stages, None
<1>15. CASE Dispatch
  BY <1>15 DEF Dispatch, Masked, Go, AfterCall, GateInv, sourceState, enrolling, bounds, NoRequest,
     GateTypes, RowsFit, RequestBearsOut, Expiry, Asked, Steps, Stages, None
<1>16. CASE EndCycle
  BY <1>16 DEF EndCycle, Poll, Go, GateInv, sourceState, enrolling, bounds, NoRequest,
     GateTypes, RowsFit, RequestBearsOut, Expiry, Asked, Steps, Stages, None
<1>17. CASE Lose
  BY <1>17 DEF Lose, Go, GateInv, sourceState, enrolling, bounds, NoRequest, GateTypes, RowsFit,
     RequestBearsOut, Expiry, Asked, Steps, Stages, None
<1>18. ASSUME NEW e \in Enrollers, EnrollWrite(e) PROVE RequestBearsOut'
  BY <1>18 DEF EnrollWrite, Live, GateInv, sourceState, enrolling, bounds, NoRequest, GateTypes,
     RowsFit, RequestBearsOut, Expiry, Asked, Steps, Stages, None
<1>19. ASSUME NEW e \in Enrollers, NEW d \in Declarations, EnrollRead(e, d) PROVE RequestBearsOut'
  BY <1>19 DEF EnrollRead, Live, LockFree, Locked, GateInv, sourceState, enrolling, bounds,
     NoRequest, GateTypes, RowsFit, RequestBearsOut, Expiry, Asked, Steps, Stages, None
<1>20. ASSUME NEW d \in Declarations, ReportRead(d) PROVE RequestBearsOut'
  BY <1>20 DEF ReportRead, GateInv, sourceState, enrolling, bounds, NoRequest, GateTypes,
     RowsFit, RequestBearsOut, Expiry, Asked, Steps, Stages, None
<1>21. CASE ReportWrite
  BY <1>21 DEF ReportWrite, GateInv, sourceState, enrolling, bounds, NoRequest, GateTypes,
     RowsFit, RequestBearsOut, Expiry, Asked, Steps, Stages, None
<1>22. CASE OtherMode
  BY <1>22 DEF OtherMode, Command, Poll, enrolling, GateInv,
     Expiry, GateTypes, RequestBearsOut
<1> QED  BY <1>1, <1>2, <1>3, <1>4, <1>5, <1>6, <1>7, <1>8, <1>9, <1>10, <1>11, <1>12, <1>13,
            <1>14, <1>15, <1>16, <1>17, <1>18, <1>19, <1>20, <1>21, <1>22 DEF GateNext, Clients

\* A call is only made on a grant that is borne out.
LEMMA GrantsKept ==
    ASSUME GateInv, GateNext
    PROVE  GrantsHold'
<1>1. CASE OwnerStarts
  BY <1>1, WindowsAssumption DEF OwnerStarts, Command, MayStart, Ready, Witness, GateInv,
     sourceState, enrolling, bounds, NoRequest, GateTypes, RequestBearsOut, GrantsHold, Expiry
<1>2. CASE OwnerStops
  BY <1>2, WindowsAssumption DEF OwnerStops, Command, GateInv, sourceState, enrolling, bounds,
     NoRequest, GateTypes, RequestBearsOut, GrantsHold, Expiry
<1>3. ASSUME NEW f \in BOOLEAN, Deploy(f) PROVE GrantsHold'
  BY <1>3, WindowsAssumption DEF Deploy, Command, StoppedWith, GateInv, sourceState, enrolling,
     bounds, NoRequest, GateTypes, RequestBearsOut, GrantsHold, Expiry
<1>4. CASE PublishBaseline
  BY <1>4, WindowsAssumption DEF PublishBaseline, Command, Witness, AllowedNow, GateInv,
     sourceState, enrolling, bounds, NoRequest, GateTypes, RequestBearsOut, GrantsHold, Expiry
<1>5. CASE Tick
  BY <1>5, WindowsAssumption DEF Tick, GateInv, sourceState, enrolling, bounds, NoRequest,
     GateTypes, RequestBearsOut, GrantsHold, Expiry
<1>6. ASSUME NEW c \in Clients, ChangeClient(c) PROVE GrantsHold'
  BY <1>6, WindowsAssumption DEF ChangeClient, Command, GateInv, sourceState, enrolling, bounds,
     NoRequest, GateTypes, RequestBearsOut, GrantsHold, Expiry
<1>7. CASE Authenticate
  BY <1>7, WindowsAssumption DEF Authenticate, Witness, AllowedNow, GateInv, sourceState,
     enrolling, bounds, NoRequest, GateTypes, RequestBearsOut, GrantsHold, Expiry
<1>8. CASE ReadControl
  BY <1>8, WindowsAssumption DEF ReadControl, Witness, AllowedNow, GateInv, sourceState,
     enrolling, bounds, NoRequest, GateTypes, RequestBearsOut, GrantsHold, Expiry
<1>9. CASE ReadAdmission
  BY <1>9, WindowsAssumption DEF ReadAdmission, GateInv, sourceState, enrolling, bounds,
     NoRequest, GateTypes, RequestBearsOut, GrantsHold, Expiry
<1>10. CASE Answer
  BY <1>10, WindowsAssumption DEF Answer, Ask, Bound, GateInv, sourceState, enrolling, bounds,
     NoRequest, GateTypes, RequestBearsOut, GrantsHold, Expiry
<1>11. CASE WakeUp
  BY <1>11, WindowsAssumption DEF WakeUp, Poll, Go, GateInv, sourceState, enrolling, bounds,
     NoRequest, GateTypes, RequestBearsOut, GrantsHold, Expiry
<1>12. CASE Gate
  BY <1>12, WindowsAssumption DEF Gate, Poll, Go, LocallyOpen, AllowedNow, Announced, GateInv,
     sourceState, enrolling, bounds, NoRequest, GateTypes, RequestBearsOut, GrantsHold, Expiry
<1>13. CASE GateMaintenance
  BY <1>13, WindowsAssumption DEF GateMaintenance, Go, AllowedNow, GateInv, sourceState,
     enrolling, bounds, NoRequest, GateTypes, RequestBearsOut, GrantsHold, Expiry
<1>14. CASE Receive
  BY <1>14, WindowsAssumption DEF Receive, LocallyOpen, Expiry, GateInv, sourceState, enrolling,
     bounds, NoRequest, GateTypes, RequestBearsOut, GrantsHold, Expiry
<1>15. CASE Dispatch
  <2>1. was \/ consumer = "maintenance"
    BY <1>15 DEF Dispatch, GateInv, GateTypes, RequestBearsOut
  <2>2. ASSUME clock < worker.expires
        PROVE  consumer = "maintenance" \/ (clock < SourceClose /\ clock < LocalClose)
    BY <1>15, <2>2, WindowsAssumption DEF Dispatch, GateInv, GateTypes, RequestBearsOut, Expiry
  <2>3. CASE clock < worker.expires
    <3> DEFINE j == was \/ consumer = "maintenance"
               o == consumer = "maintenance" \/ (clock < SourceClose /\ clock < LocalClose)
    <3>1. j = TRUE /\ o = TRUE  BY <2>1, <2>2, <2>3
    <3>2. calls' = {[justified |-> j, open |-> o]}  BY <1>15, <2>3 DEF Dispatch
    <3> HIDE DEF j, o
    <3>3. \A a, b : \A c \in {[justified |-> a, open |-> b]} : c.justified = a /\ c.open = b
      OBVIOUS
    <3>4. \A c \in calls' : c.justified = TRUE /\ c.open = TRUE  BY <3>1, <3>2, <3>3
    <3> QED  BY <3>4 DEF GrantsHold
  <2>4. CASE ~(clock < worker.expires)
    BY <1>15, <2>4 DEF Dispatch, GateInv, GrantsHold
  <2> QED  BY <2>3, <2>4
<1>16. CASE EndCycle
  BY <1>16, WindowsAssumption DEF EndCycle, Poll, Go, GateInv, sourceState, enrolling, bounds,
     NoRequest, GateTypes, RequestBearsOut, GrantsHold, Expiry
<1>17. CASE Lose
  BY <1>17, WindowsAssumption DEF Lose, Go, GateInv, sourceState, enrolling, bounds, NoRequest,
     GateTypes, RequestBearsOut, GrantsHold, Expiry
<1>18. ASSUME NEW e \in Enrollers, EnrollWrite(e) PROVE GrantsHold'
  BY <1>18, WindowsAssumption DEF EnrollWrite, Live, GateInv, sourceState, enrolling, bounds,
     NoRequest, GateTypes, RequestBearsOut, GrantsHold, Expiry
<1>19. ASSUME NEW e \in Enrollers, NEW d \in Declarations, EnrollRead(e, d) PROVE GrantsHold'
  BY <1>19, WindowsAssumption DEF EnrollRead, Live, LockFree, Locked, GateInv, sourceState,
     enrolling, bounds, NoRequest, GateTypes, RequestBearsOut, GrantsHold, Expiry
<1>20. ASSUME NEW d \in Declarations, ReportRead(d) PROVE GrantsHold'
  BY <1>20, WindowsAssumption DEF ReportRead, GateInv, sourceState, enrolling, bounds,
     NoRequest, GateTypes, RequestBearsOut, GrantsHold, Expiry
<1>21. CASE ReportWrite
  BY <1>21, WindowsAssumption DEF ReportWrite, GateInv, sourceState, enrolling, bounds,
     NoRequest, GateTypes, RequestBearsOut, GrantsHold, Expiry
<1>22. CASE OtherMode
  BY <1>22, WindowsAssumption DEF OtherMode, Command, Poll, enrolling, GateInv,
     GateTypes, GrantsHold
<1> QED  BY <1>1, <1>2, <1>3, <1>4, <1>5, <1>6, <1>7, <1>8, <1>9, <1>10, <1>11, <1>12, <1>13,
            <1>14, <1>15, <1>16, <1>17, <1>18, <1>19, <1>20, <1>21, <1>22 DEF GateNext, Clients

\* The worker reports itself stopped between its cycles only, and another
\* mode's report hides one call at most.
LEMMA ObservedKept ==
    ASSUME GateInv, GateNext
    PROVE  ObservedWhileBusy'
<1>1. CASE OwnerStarts
  BY <1>1 DEF OwnerStarts, Command, MayStart, Ready, Witness, GateInv, sourceState, enrolling,
     bounds, NoRequest, GateTypes, ObservedWhileBusy
<1>2. CASE OwnerStops
  BY <1>2 DEF OwnerStops, Command, GateInv, sourceState, enrolling, bounds, NoRequest,
     GateTypes, ObservedWhileBusy
<1>3. ASSUME NEW f \in BOOLEAN, Deploy(f) PROVE ObservedWhileBusy'
  BY <1>3 DEF Deploy, Command, StoppedWith, GateInv, sourceState, enrolling, bounds, NoRequest,
     GateTypes, ObservedWhileBusy
<1>4. CASE PublishBaseline
  BY <1>4 DEF PublishBaseline, Command, Witness, AllowedNow, GateInv, sourceState, enrolling,
     bounds, NoRequest, GateTypes, ObservedWhileBusy
<1>5. CASE Tick
  BY <1>5 DEF Tick, GateInv, sourceState, enrolling, bounds, NoRequest, GateTypes, ObservedWhileBusy
<1>6. ASSUME NEW c \in Clients, ChangeClient(c) PROVE ObservedWhileBusy'
  BY <1>6 DEF ChangeClient, Command, GateInv, sourceState, enrolling, bounds, NoRequest,
     GateTypes, ObservedWhileBusy
<1>7. CASE Authenticate
  BY <1>7 DEF Authenticate, Witness, AllowedNow, GateInv, sourceState, enrolling, bounds,
     NoRequest, GateTypes, ObservedWhileBusy
<1>8. CASE ReadControl
  BY <1>8 DEF ReadControl, Witness, AllowedNow, GateInv, sourceState, enrolling, bounds,
     NoRequest, GateTypes, ObservedWhileBusy
<1>9. CASE ReadAdmission
  BY <1>9 DEF ReadAdmission, GateInv, sourceState, enrolling, bounds, NoRequest, GateTypes,
     ObservedWhileBusy
<1>10. CASE Answer
  BY <1>10 DEF Answer, Ask, Bound, GateInv, sourceState, enrolling, bounds, NoRequest,
     GateTypes, ObservedWhileBusy
<1>11. CASE WakeUp
  BY <1>11 DEF WakeUp, Poll, Go, GateInv, sourceState, enrolling, bounds, NoRequest, GateTypes,
     ObservedWhileBusy
<1>12. CASE Gate
  BY <1>12 DEF Gate, Poll, Go, LocallyOpen, AllowedNow, Announced, GateInv, sourceState,
     enrolling, bounds, NoRequest, GateTypes, ObservedWhileBusy
<1>13. CASE GateMaintenance
  BY <1>13 DEF GateMaintenance, Go, AllowedNow, GateInv, sourceState, enrolling, bounds,
     NoRequest, GateTypes, ObservedWhileBusy
<1>14. CASE Receive
  BY <1>14 DEF Receive, LocallyOpen, Expiry, GateInv, sourceState, enrolling, bounds, NoRequest,
     GateTypes, ObservedWhileBusy
<1>15. CASE Dispatch
  BY <1>15 DEF Dispatch, Masked, Go, AfterCall, GateInv, sourceState, enrolling, bounds, NoRequest,
     GateTypes, ObservedWhileBusy
<1>16. CASE EndCycle
  BY <1>16 DEF EndCycle, Poll, Go, GateInv, sourceState, enrolling, bounds, NoRequest,
     GateTypes, ObservedWhileBusy
<1>17. CASE Lose
  BY <1>17 DEF Lose, Go, GateInv, sourceState, enrolling, bounds, NoRequest, GateTypes,
     ObservedWhileBusy
<1>18. ASSUME NEW e \in Enrollers, EnrollWrite(e) PROVE ObservedWhileBusy'
  BY <1>18 DEF EnrollWrite, Live, GateInv, sourceState, enrolling, bounds, NoRequest, GateTypes,
     ObservedWhileBusy
<1>19. ASSUME NEW e \in Enrollers, NEW d \in Declarations, EnrollRead(e, d) PROVE ObservedWhileBusy'
  BY <1>19 DEF EnrollRead, Live, LockFree, Locked, GateInv, sourceState, enrolling, bounds,
     NoRequest, GateTypes, ObservedWhileBusy
<1>20. ASSUME NEW d \in Declarations, ReportRead(d) PROVE ObservedWhileBusy'
  BY <1>20 DEF ReportRead, GateInv, sourceState, enrolling, bounds, NoRequest, GateTypes,
     ObservedWhileBusy
<1>21. CASE ReportWrite
  BY <1>21 DEF ReportWrite, GateInv, sourceState, enrolling, bounds, NoRequest, GateTypes,
     ObservedWhileBusy
<1>22. CASE OtherMode
  BY <1>22 DEF OtherMode, Command, Poll, enrolling, GateInv,
     GateTypes, ObservedWhileBusy
<1> QED  BY <1>1, <1>2, <1>3, <1>4, <1>5, <1>6, <1>7, <1>8, <1>9, <1>10, <1>11, <1>12, <1>13,
            <1>14, <1>15, <1>16, <1>17, <1>18, <1>19, <1>20, <1>21, <1>22 DEF GateNext, Clients

\* Commands replace enrolments one at a time, and none that is being reported.
LEMMA EnrollmentsStay ==
    ASSUME GateInv, GateNext
    PROVE  EnrollmentsKept'
<1>1. CASE OwnerStarts
  BY <1>1, EnrollersAssumption DEF OwnerStarts, Command, MayStart, Ready, Witness, GateInv,
     sourceState, enrolling, bounds, NoRequest, GateTypes, EnrollmentsKept, Live, None
<1>2. CASE OwnerStops
  BY <1>2, EnrollersAssumption DEF OwnerStops, Command, GateInv, sourceState, enrolling, bounds,
     NoRequest, GateTypes, EnrollmentsKept, Live, None
<1>3. ASSUME NEW f \in BOOLEAN, Deploy(f) PROVE EnrollmentsKept'
  BY <1>3, EnrollersAssumption DEF Deploy, Command, StoppedWith, GateInv, sourceState,
     enrolling, bounds, NoRequest, GateTypes, EnrollmentsKept, Live, None
<1>4. CASE PublishBaseline
  BY <1>4, EnrollersAssumption DEF PublishBaseline, Command, Witness, AllowedNow, GateInv,
     sourceState, enrolling, bounds, NoRequest, GateTypes, EnrollmentsKept, Live, None
<1>5. CASE Tick
  BY <1>5, EnrollersAssumption DEF Tick, GateInv, sourceState, enrolling, bounds, NoRequest,
     GateTypes, EnrollmentsKept, Live, None
<1>6. ASSUME NEW c \in Clients, ChangeClient(c) PROVE EnrollmentsKept'
  BY <1>6, EnrollersAssumption DEF ChangeClient, Command, GateInv, sourceState, enrolling,
     bounds, NoRequest, GateTypes, EnrollmentsKept, Live, None
<1>7. CASE Authenticate
  BY <1>7, EnrollersAssumption DEF Authenticate, Witness, AllowedNow, GateInv, sourceState,
     enrolling, bounds, NoRequest, GateTypes, EnrollmentsKept, Live, None
<1>8. CASE ReadControl
  BY <1>8, EnrollersAssumption DEF ReadControl, Witness, AllowedNow, GateInv, sourceState,
     enrolling, bounds, NoRequest, GateTypes, EnrollmentsKept, Live, None
<1>9. CASE ReadAdmission
  BY <1>9, EnrollersAssumption DEF ReadAdmission, GateInv, sourceState, enrolling, bounds,
     NoRequest, GateTypes, EnrollmentsKept, Live, None
<1>10. CASE Answer
  BY <1>10, EnrollersAssumption DEF Answer, Ask, Bound, GateInv, sourceState, enrolling, bounds,
     NoRequest, GateTypes, EnrollmentsKept, Live, None
<1>11. CASE WakeUp
  BY <1>11, EnrollersAssumption DEF WakeUp, Poll, Go, GateInv, sourceState, enrolling, bounds,
     NoRequest, GateTypes, EnrollmentsKept, Live, None
<1>12. CASE Gate
  BY <1>12, EnrollersAssumption DEF Gate, Poll, Go, LocallyOpen, AllowedNow, Announced, GateInv,
     sourceState, enrolling, bounds, NoRequest, GateTypes, EnrollmentsKept, Live, None
<1>13. CASE GateMaintenance
  BY <1>13, EnrollersAssumption DEF GateMaintenance, Go, AllowedNow, GateInv, sourceState,
     enrolling, bounds, NoRequest, GateTypes, EnrollmentsKept, Live, None
<1>14. CASE Receive
  BY <1>14, EnrollersAssumption DEF Receive, LocallyOpen, Expiry, GateInv, sourceState,
     enrolling, bounds, NoRequest, GateTypes, EnrollmentsKept, Live, None
<1>15. CASE Dispatch
  BY <1>15, EnrollersAssumption DEF Dispatch, Masked, Go, AfterCall, GateInv, sourceState, enrolling,
     bounds, NoRequest, GateTypes, EnrollmentsKept, Live, None
<1>16. CASE EndCycle
  BY <1>16, EnrollersAssumption DEF EndCycle, Poll, Go, GateInv, sourceState, enrolling, bounds,
     NoRequest, GateTypes, EnrollmentsKept, Live, None
<1>17. CASE Lose
  BY <1>17, EnrollersAssumption DEF Lose, Go, GateInv, sourceState, enrolling, bounds,
     NoRequest, GateTypes, EnrollmentsKept, Live, None
<1>18. ASSUME NEW e \in Enrollers, EnrollWrite(e) PROVE EnrollmentsKept'
  BY <1>18, EnrollersAssumption DEF EnrollWrite, Live, GateInv, sourceState, enrolling, bounds,
     NoRequest, GateTypes, EnrollmentsKept, Live, None
<1>19. ASSUME NEW e \in Enrollers, NEW d \in Declarations, EnrollRead(e, d) PROVE EnrollmentsKept'
  BY <1>19, EnrollersAssumption DEF EnrollRead, Live, LockFree, Locked, GateInv, sourceState,
     enrolling, bounds, NoRequest, GateTypes, EnrollmentsKept, Live, None
<1>20. ASSUME NEW d \in Declarations, ReportRead(d) PROVE EnrollmentsKept'
  BY <1>20, EnrollersAssumption DEF ReportRead, GateInv, sourceState, enrolling, bounds,
     NoRequest, GateTypes, EnrollmentsKept, Live, None
<1>21. CASE ReportWrite
  <2>1. enrolled[report.declaration] = "live"
    BY <1>21 DEF ReportWrite, GateInv, EnrollmentsKept, Live
  <2>2. reportedDead' = FALSE
    BY <1>21, <2>1 DEF ReportWrite, GateInv, EnrollmentsKept
  <2>3. report'.pc = "idle" /\ UNCHANGED <<enrolled, command, envLock>>
    BY <1>21 DEF ReportWrite
  <2> QED  BY <2>2, <2>3 DEF GateInv, EnrollmentsKept, Live
<1>22. CASE OtherMode
  BY <1>22 DEF OtherMode, Command, Poll, enrolling, GateInv,
     Live, GateTypes, EnrollmentsKept
<1> QED  BY <1>1, <1>2, <1>3, <1>4, <1>5, <1>6, <1>7, <1>8, <1>9, <1>10, <1>11, <1>12, <1>13,
            <1>14, <1>15, <1>16, <1>17, <1>18, <1>19, <1>20, <1>21, <1>22 DEF GateNext, Clients

---------------------------------------------------------------------------
\* A step that changes no variable of the gate keeps the invariant.
LEMMA StutterKeeps ==
    ASSUME GateInv, UNCHANGED gateVars
    PROVE  GateInv'
BY DEF gateVars, GateInv, GateTypes, RowsFit, RequestBearsOut, GrantsHold, ObservedWhileBusy,
       EnrollmentsKept, Live, Expiry

\* Between the request of a call and its dispatch every condition the Source
\* reads one after the other bears witness, and enrolments stay apart, whatever
\* the owner, the deployment, the clock and lost workers do in between.
THEOREM GateInvariance == GateSpec => []GateInv
<1>1. GateInit => GateInv
  BY InitHolds
<1>2. GateInv /\ [GateNext]_gateVars => GateInv'
  BY StutterKeeps, TypesKept, RowsFitKept, RequestKept, GrantsKept, ObservedKept, EnrollmentsStay
     DEF GateInv
<1> QED  BY <1>1, <1>2, PTL DEF GateSpec

\* The worker reports itself stopped only when no call of it is authorized or
\* made, another mode's report hides one call at most, at most one enrolment is
\* live, and every call is justified.
LEMMA InvariantSuffices == GateInv => GateSound
<1> SUFFICES ASSUME GateInv PROVE GateSound  OBVIOUS
<1>1. GrantsHold  BY DEF GateInv
<1>2. StoppedMeansQuiet
  BY DEF GateInv, GateTypes, ObservedWhileBusy, StoppedMeansQuiet
<1>3. Cardinality(Live) <= 1
  <2>1. CASE Live = {}
    BY <2>1, FS_EmptySet
  <2>2. ASSUME NEW d \in Live PROVE Cardinality(Live) <= 1
    <3>1. Live = {d}  BY <2>2 DEF GateInv, EnrollmentsKept
    <3> QED  BY <3>1, FS_Singleton
  <2> QED  BY <2>1, <2>2
<1> QED  BY <1>1, <1>2, <1>3 DEF GateInv, EnrollmentsKept, EnrollmentSound, GateSound

\* The gate is sound (full_market_runtime.py _governed, full_market_admission.py
\* admission_projection, enroll and report_readiness): no provider call is made
\* on conditions that never held together or after a window has closed, none
\* behind the worker's own report of "stopped", at most one behind the report of
\* another mode of the command line, and enrolments do not mix.
THEOREM GateIsSound == GateSpec => []GateSound
BY GateInvariance, InvariantSuffices, PTL

\* The gate's variables keep their types.
THEOREM GateTypesHold == GateSpec => []GateTypeOK
<1>1. ASSUME GateInv PROVE GateTypeOK
  <2>1. client.valid \in BOOLEAN /\ worker.pc \in Steps /\ request.pc \in Stages /\ reportedDead \in BOOLEAN
    BY <1>1 DEF GateInv, GateTypes, Asked, EnrollmentsKept
  <2> QED  BY <1>1, <2>1 DEF GateInv, GateTypes, Steps, Stages, GateTypeOK
<1> QED  BY <1>1, GateInvariance, PTL
=============================================================================

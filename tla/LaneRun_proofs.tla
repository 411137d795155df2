--------------------------- MODULE LaneRun_proofs ---------------------------
(***************************************************************************)
(* Proofs about LaneRun, for every set of lanes, resources, controllers and *)
(* commands and every value of the bounds, in three parts: type            *)
(* correctness, leases (SupervisionInv), and what rests on both.           *)
(***************************************************************************)
EXTENDS LaneRun, TLAPS

\* The positions of run_controller, as facts that need no expansion of CtlPcs.
LEMMA PcsKnown ==
    /\ "spawned" \in CtlPcs /\ "read" \in CtlPcs /\ "starting" \in CtlPcs
    /\ "owned" \in CtlPcs /\ "bound" \in CtlPcs /\ "busy" \in CtlPcs
    /\ "leased" \in CtlPcs /\ "attempt" \in CtlPcs /\ "created" \in CtlPcs
    /\ "recorded" \in CtlPcs /\ "raised" \in CtlPcs /\ "streaming" \in CtlPcs
    /\ "ended" \in CtlPcs /\ "judge" \in CtlPcs /\ "proven" \in CtlPcs
    /\ "relValid" \in CtlPcs /\ "review" \in CtlPcs /\ "waiting" \in CtlPcs
    /\ "copied" \in CtlPcs /\ "failed" \in CtlPcs /\ "noResult" \in CtlPcs
    /\ "relNoResult" \in CtlPcs /\ "exited" \in CtlPcs /\ "quit" \in CtlPcs
BY DEF CtlPcs

\* What _write_status starts from is a well-formed status record.
LEMMA MergedTyped ==
    ASSUME TypeOK, Known, NEW c \in Controllers, ctl[c].pc # "absent"
    PROVE  Merged(c) \in StatusRecord
<1>1. ctl[c].run \in Runs /\ ctl[c].lane \in Lanes
    BY DEF TypeOK, Known, CtlRecord
<1>2. FreshStatus(ctl[c].run) \in StatusRecord
    BY <1>1, BoundsAssumption DEF FreshStatus, EmptyStatus, StatusRecord, Boundary, NoBoundary, Attempts
<1>3. status[ctl[c].lane] \in StatusRecord
    BY <1>1 DEF TypeOK
<1> QED BY <1>2, <1>3 DEF Merged, MergedStatus

LEMMA TypeInit == Init => TypeOK /\ Known
<1> SUFFICES ASSUME Init PROVE TypeOK /\ Known
    OBVIOUS
<1>1. NoStatus \in StatusRecord
    BY BoundsAssumption
    DEF NoStatus, EmptyStatus, StatusRecord, Boundary, NoBoundary, Attempts, Runs
<1>2. Idle.pc = "idle" 
    BY DEF Idle
<1>3. cmd \in [Commands -> CmdRecord]
    BY <1>1, BoundsAssumption DEF Init, Idle, CmdRecord, CmdKinds, CmdPcs, LaneRecord, Lifecycles, Runs, Sessions
<1>4. TypeOK
    BY <1>1, <1>3, BoundsAssumption
    DEF Init, TypeOK, LaneRecord, Lifecycles, Runs, Attempts, CtlRecord, CtlPcs,
        ChainRecord, FailEvents, ProvStates, Sessions
<1>5. Known
    BY <1>2, NoneAssumption DEF Init, Known
<1> QED BY <1>4, <1>5

\* A step of controller c changes no other controller's position, no controller's
\* lane and no command.
OwnStep(c) ==
    /\ ctl[c].pc \notin {"absent", "exited"}
    /\ ctl'[c].pc # "absent"
    /\ \A d \in Controllers : ctl'[d].lane = ctl[d].lane
    /\ \A d \in Controllers : d # c => ctl'[d].pc = ctl[d].pc
    /\ cmd' = cmd

LEMMA ControllerFrame ==
    ASSUME TypeOK, NEW c \in Controllers, ControllerStep(c)
    PROVE  OwnStep(c)
<1> USE DEF At, Goto, TypeOK, CtlRecord, OwnStep
<1>1. CASE FindActiveLane(c)
    BY <1>1 DEF FindActiveLane
<1>2. CASE WriteStarting(c)
    BY <1>2 DEF WriteStarting
<1>3. CASE OwnLane(c)
    BY <1>3 DEF OwnLane
<1>4. CASE WriteIdentity(c)
    BY <1>4 DEF WriteIdentity
<1>5. CASE BindingFailed(c)
    BY <1>5 DEF BindingFailed, Refuse
<1>6. CASE LeaseBusy(c)
    BY <1>6 DEF LeaseBusy, Refuse
<1>7. CASE LeaseWriteFailed(c)
    BY <1>7 DEF LeaseWriteFailed, Refuse
<1>8. CASE Unprepare(c)
    BY <1>8 DEF Unprepare
<1>9. CASE Acquire(c)
    BY <1>9 DEF Acquire
<1>10. CASE WriteRunning(c)
    BY <1>10 DEF WriteRunning
<1>11. CASE SpawnProvider(c)
    BY <1>11 DEF SpawnProvider
<1>12. CASE ProviderNotCreated(c)
    BY <1>12 DEF ProviderNotCreated
<1>13. CASE BuildArgvFailed(c)
    BY <1>13 DEF BuildArgvFailed
<1>14. CASE RecordBoundary(c)
    BY <1>14 DEF RecordBoundary
<1>15. CASE BoundaryFailed(c)
    BY <1>15 DEF BoundaryFailed
<1>16. CASE AttemptRaised(c)
    BY <1>16 DEF AttemptRaised
<1>17. CASE RecordProvider(c)
    BY <1>17 DEF RecordProvider
<1>18. CASE ShutdownStop(c)
    BY <1>18 DEF ShutdownStop
<1>19. CASE EndStream(c)
  <2>1. \/ ctl' = [ctl EXCEPT ![c].pc = "ended", ![c].session = "saved"]
        \/ ctl' = [ctl EXCEPT ![c].pc = "ended"]
    BY <1>19 DEF EndStream
  <2>2. ctl[c].pc = "streaming" /\ cmd' = cmd
    BY <1>19 DEF EndStream
  <2>3. CASE ctl' = [ctl EXCEPT ![c].pc = "ended", ![c].session = "saved"]
    BY <2>2, <2>3
  <2>4. CASE ctl' = [ctl EXCEPT ![c].pc = "ended"]
    BY <2>2, <2>4
  <2> QED BY <2>1, <2>3, <2>4
<1>20. CASE WriteProviderExited(c)
    BY <1>20 DEF WriteProviderExited
<1>21. CASE CleanupProven(c)
    BY <1>21 DEF CleanupProven
<1>22. CASE CleanupUnproven(c)
    BY <1>22 DEF CleanupUnproven
<1>23. CASE ValidResult(c)
    BY <1>23 DEF ValidResult
<1>24. CASE NoResult(c)
    BY <1>24 DEF NoResult
<1>25. CASE Correct(c)
    BY <1>25 DEF Correct
<1>26. CASE ControllerRelease(c)
    BY <1>26 DEF ControllerRelease
<1>27. CASE LaneReviewPending(c)
    BY <1>27 DEF LaneReviewPending
<1>28. CASE LaneResultInvalid(c)
    BY <1>28 DEF LaneResultInvalid
<1>29. CASE StopWaiting(c)
    BY <1>29 DEF StopWaiting
<1>30. CASE LaneAccepted(c)
    BY <1>30 DEF LaneAccepted
<1>31. CASE ProviderRaised(c)
    BY <1>31 DEF ProviderRaised
<1>32. CASE Exit(c)
    BY <1>32 DEF Exit
<1> QED BY <1>1, <1>2, <1>3, <1>4, <1>5, <1>6, <1>7, <1>8, <1>9, <1>10, <1>11, <1>12, <1>13, <1>14, <1>15, <1>16, <1>17, <1>18, <1>19, <1>20, <1>21, <1>22, <1>23, <1>24, <1>25, <1>26, <1>27, <1>28, <1>29, <1>30, <1>31, <1>32 DEF ControllerStep

LEMMA KnownKept ==
    ASSUME Known, NEW c \in Controllers, OwnStep(c)
    PROVE  Known'
BY DEF Known, OwnStep

LEMMA GotoTyped ==
    ASSUME TypeOK, NEW c \in Controllers, NEW pc \in CtlPcs, Goto(c, pc)
    PROVE  ctl' \in [Controllers -> CtlRecord]
BY DEF TypeOK, Goto, CtlRecord

LEMMA StatusWritten ==
    ASSUME TypeOK, NEW c \in Controllers, NEW new \in StatusRecord, WriteStatus(c, new)
    PROVE  status' \in [Lanes -> StatusRecord]
BY DEF TypeOK, WriteStatus

\* A lifecycle that is written is one of Lifecycles.
LEMMA LifecycleSet ==
    ASSUME TypeOK, NEW c \in Controllers, NEW value \in Lifecycles, SetLifecycle(c, value)
    PROVE  lane' \in [Lanes -> LaneRecord]
<1>1. lane \in [Lanes -> LaneRecord]
    BY DEF TypeOK
<1> QED BY <1>1 DEF SetLifecycle, LaneRecord

\* The session of a lane is written.
LEMMA SessionSaved ==
    ASSUME TypeOK, NEW l, lane' = [lane EXCEPT ![l].session = "saved"] \/ lane' = lane
    PROVE  lane' \in [Lanes -> LaneRecord]
<1>1. lane \in [Lanes -> LaneRecord] /\ "saved" \in Sessions
    BY DEF TypeOK, Sessions
<1> QED BY <1>1 DEF LaneRecord

\* The lane names its process.
LEMMA ProcessSet ==
    ASSUME TypeOK, NEW l, NEW value \in Lifecycles, NEW c \in Controllers \cup {None},
           lane' = [lane EXCEPT ![l].lifecycle = value, ![l].process = c]
    PROVE  lane' \in [Lanes -> LaneRecord]
<1>1. lane \in [Lanes -> LaneRecord]
    BY DEF TypeOK
<1>2. ASSUME l \in Lanes PROVE [lane[l] EXCEPT !.lifecycle = value, !.process = c] \in LaneRecord
    BY <1>1, <1>2 DEF LaneRecord
<1>3. lane' = [lane EXCEPT ![l] = [lane[l] EXCEPT !.lifecycle = value, !.process = c]]
    BY <1>1
<1> QED BY <1>1, <1>2, <1>3

\* The boundary of the attempt under way, and a status that records it.
LEMMA OwnBoundary ==
    ASSUME TypeOK, NEW c \in Controllers
    PROVE  [ctl |-> c, attempt |-> ctl[c].attempt] \in Boundary
BY DEF TypeOK, CtlRecord, Boundary

LEMMA BoundaryStatus ==
    ASSUME NEW s \in StatusRecord, NEW b \in Boundary, NEW p \in {"starting", "running", "exited"}
    PROVE  /\ [s EXCEPT !.pstate = p, !.boundary = b] \in StatusRecord
           /\ [s EXCEPT !.pstate = p, !.proven = FALSE, !.boundary = b] \in StatusRecord
BY DEF StatusRecord

\* Start-up keeps the types.
LEMMA StartupTypes ==
    ASSUME TypeOK, Known, NEW c \in Controllers,
           \/ FindActiveLane(c) \/ WriteStarting(c) \/ OwnLane(c) \/ WriteIdentity(c)
           \/ Unprepare(c) \/ Acquire(c) \/ WriteRunning(c)
    PROVE  TypeOK'
<1>1. CASE FindActiveLane(c)
  <2>1. ctl' \in [Controllers -> CtlRecord]
    <3>1. /\ lane[ctl[c].lane].run \in Runs /\ lane[ctl[c].lane].session \in Sessions
          /\ "read" \in CtlPcs /\ "exited" \in CtlPcs
        BY <1>1, PcsKnown DEF FindActiveLane, At, TypeOK, Known, LaneRecord
    <3>2. ctl \in [Controllers -> CtlRecord]
        BY DEF TypeOK
    <3>3. \/ ctl' = [ctl EXCEPT ![c].pc = "read", ![c].run = lane[ctl[c].lane].run,
                              ![c].session = lane[ctl[c].lane].session]
          \/ ctl' = [ctl EXCEPT ![c].pc = "exited"]
        BY <1>1 DEF FindActiveLane
    <3> QED BY <3>1, <3>2, <3>3 DEF CtlRecord
  <2> QED BY <1>1, <2>1 DEF FindActiveLane, TypeOK, records
<1>2. CASE WriteStarting(c)
  <2>1. status' \in [Lanes -> StatusRecord]
    BY <1>2, MergedTyped, StatusWritten DEF WriteStarting, At, StatusRecord
  <2>2. ctl' \in [Controllers -> CtlRecord]
    BY <1>2, GotoTyped, PcsKnown DEF WriteStarting, At
  <2> QED BY <1>2, <2>1, <2>2 DEF WriteStarting, TypeOK, records
<1>3. CASE OwnLane(c)
  <2>1. lane' \in [Lanes -> LaneRecord]
    BY <1>3, ProcessSet DEF OwnLane, Lifecycles
  <2>2. ctl' \in [Controllers -> CtlRecord]
    <3>1. /\ lane[ctl[c].lane].run \in Runs /\ lane[ctl[c].lane].session \in Sessions
          /\ "owned" \in CtlPcs
        BY <1>3, PcsKnown DEF OwnLane, At, TypeOK, Known, LaneRecord
    <3>2. ctl \in [Controllers -> CtlRecord]
        BY DEF TypeOK
    <3>3. ctl' = [ctl EXCEPT ![c].pc = "owned", ![c].run = lane[ctl[c].lane].run,
                             ![c].session = lane[ctl[c].lane].session]
        BY <1>3 DEF OwnLane
    <3>4. [ctl[c] EXCEPT !.pc = "owned", !.run = lane[ctl[c].lane].run,
                         !.session = lane[ctl[c].lane].session] \in CtlRecord
        BY <3>1, <3>2 DEF CtlRecord
    <3>5. ctl' = [ctl EXCEPT ![c] = [ctl[c] EXCEPT !.pc = "owned", !.run = lane[ctl[c].lane].run,
                                                   !.session = lane[ctl[c].lane].session]]
        BY <3>2, <3>3
    <3> QED BY <3>2, <3>4, <3>5
  <2> QED BY <1>3, <2>1, <2>2 DEF OwnLane, TypeOK, records
<1>4. CASE WriteIdentity(c)
  <2>1. status' \in [Lanes -> StatusRecord]
    BY <1>4, MergedTyped, StatusWritten DEF WriteIdentity, At, StatusRecord
  <2>2. ctl' \in [Controllers -> CtlRecord]
    BY <1>4, GotoTyped, PcsKnown DEF WriteIdentity, At
  <2> QED BY <1>4, <2>1, <2>2 DEF WriteIdentity, TypeOK, records
<1>5. CASE Unprepare(c)
  <2>1. lane' \in [Lanes -> LaneRecord]
    BY <1>5, ProcessSet DEF Unprepare, Lifecycles
  <2>2. ctl' \in [Controllers -> CtlRecord]
    BY <1>5, GotoTyped, PcsKnown DEF Unprepare, At
  <2> QED BY <1>5, <2>1, <2>2 DEF Unprepare, TypeOK, records
<1>6. CASE Acquire(c)
  <2>1. lease' \in [Resources -> Controllers \cup {None}]
    BY <1>6 DEF Acquire, At, TypeOK, AcquireLeases
  <2>2. ctl' \in [Controllers -> CtlRecord]
    BY <1>6, GotoTyped, PcsKnown DEF Acquire, At
  <2> QED BY <1>6, <2>1, <2>2 DEF Acquire, TypeOK, records
<1>7. CASE WriteRunning(c)
  <2>1. status' \in [Lanes -> StatusRecord]
    BY <1>7, MergedTyped, StatusWritten DEF WriteRunning, At, StatusRecord
  <2>2. ctl' \in [Controllers -> CtlRecord]
    <3>1. 1 \in Attempts /\ "attempt" \in CtlPcs
        BY BoundsAssumption, PcsKnown DEF Attempts
    <3>2. ctl \in [Controllers -> CtlRecord]
        BY DEF TypeOK
    <3>3. ctl' = [ctl EXCEPT ![c].pc = "attempt", ![c].attempt = 1]
        BY <1>7 DEF WriteRunning
    <3> QED BY <3>1, <3>2, <3>3 DEF CtlRecord
  <2> QED BY <1>7, <2>1, <2>2 DEF WriteRunning, TypeOK, records
<1> QED BY <1>1, <1>2, <1>3, <1>4, <1>5, <1>6, <1>7

LEMMA RefuseTypes ==
    ASSUME TypeOK, Known, NEW c \in Controllers,
           \/ BindingFailed(c) \/ LeaseBusy(c) \/ LeaseWriteFailed(c)
    PROVE  TypeOK'
<1>1. PICK why \in {"binding_failed", "lease_busy"} : Refuse(c, why)
    BY DEF BindingFailed, LeaseBusy, LeaseWriteFailed
<1>2. ctl[c].pc # "absent"
    BY DEF BindingFailed, LeaseBusy, LeaseWriteFailed, At
<1>3. status' \in [Lanes -> StatusRecord]
    BY <1>1, <1>2, MergedTyped, StatusWritten DEF Refuse, StatusRecord
<1>4. failEvent' \in [Lanes -> FailEvents]
    BY <1>1 DEF Refuse, TypeOK, FailEvents
<1>5. ctl' \in [Controllers -> CtlRecord]
    BY <1>1, GotoTyped, PcsKnown DEF Refuse
<1> QED BY <1>1, <1>3, <1>4, <1>5 DEF Refuse, TypeOK

\* One provider attempt keeps the types.
LEMMA AttemptTypes ==
    ASSUME TypeOK, Known, NEW c \in Controllers,
           \/ SpawnProvider(c) \/ ProviderNotCreated(c) \/ BuildArgvFailed(c) \/ RecordBoundary(c)
           \/ BoundaryFailed(c) \/ AttemptRaised(c) \/ RecordProvider(c) \/ ShutdownStop(c)
           \/ EndStream(c) \/ WriteProviderExited(c) \/ CleanupProven(c) \/ CleanupUnproven(c)
           \/ ProviderRaised(c) \/ Exit(c)
    PROVE  TypeOK'
<1>1. CASE SpawnProvider(c)
  <2>1. prov' \in [Controllers -> ProvStates]
    BY <1>1 DEF SpawnProvider, At, TypeOK, ProvStates
  <2>2. ctl' \in [Controllers -> CtlRecord]
    BY <1>1, GotoTyped, PcsKnown DEF SpawnProvider, At
  <2> QED BY <1>1, <2>1, <2>2 DEF SpawnProvider, TypeOK, records
<1>2. CASE ProviderNotCreated(c)
  <2>1. status' \in [Lanes -> StatusRecord]
    BY <1>2, MergedTyped, StatusWritten DEF ProviderNotCreated, At, StatusRecord
  <2>2. failEvent' \in [Lanes -> FailEvents]
    BY <1>2 DEF ProviderNotCreated, At, TypeOK, FailEvents
  <2>3. ctl' \in [Controllers -> CtlRecord]
    BY <1>2, GotoTyped, PcsKnown DEF ProviderNotCreated, At
  <2> QED BY <1>2, <2>1, <2>2, <2>3 DEF ProviderNotCreated, TypeOK, records
<1>3. CASE BuildArgvFailed(c)
  <2>1. ctl' \in [Controllers -> CtlRecord]
    BY <1>3, GotoTyped, PcsKnown DEF BuildArgvFailed, At
  <2> QED BY <1>3, <2>1 DEF BuildArgvFailed, TypeOK, records
<1>4. CASE RecordBoundary(c)
  <2>1. status' \in [Lanes -> StatusRecord]
    <3>1. Merged(c) \in StatusRecord
        BY <1>4, MergedTyped DEF RecordBoundary, At
    <3> QED BY <1>4, <3>1, OwnBoundary, BoundaryStatus, StatusWritten DEF RecordBoundary
  <2>2. ctl' \in [Controllers -> CtlRecord]
    BY <1>4, GotoTyped, PcsKnown DEF RecordBoundary, At
  <2> QED BY <1>4, <2>1, <2>2 DEF RecordBoundary, TypeOK, records
<1>5. CASE BoundaryFailed(c)
  <2>1. prov' \in [Controllers -> ProvStates]
    BY <1>5 DEF BoundaryFailed, At, TypeOK, ProvStates
  <2>2. ctl' \in [Controllers -> CtlRecord]
    BY <1>5, GotoTyped, PcsKnown DEF BoundaryFailed, At
  <2> QED BY <1>5, <2>1, <2>2 DEF BoundaryFailed, TypeOK, records
<1>6. CASE AttemptRaised(c)
  <2>1. prov' \in [Controllers -> ProvStates]
    BY <1>6 DEF AttemptRaised, At, TypeOK, ProvStates
  <2>2. status' \in [Lanes -> StatusRecord]
    <3>1. Merged(c) \in StatusRecord
        BY <1>6, MergedTyped DEF AttemptRaised, At
    <3>2. \A v \in BOOLEAN, why \in {"provider_exited_no_result", "provider_start_failed"} :
             [Merged(c) EXCEPT !.cstate = "exited", !.pstate = "exited", !.proven = v,
                               !.recorded = why] \in StatusRecord
        BY <3>1 DEF StatusRecord
    <3> QED BY <1>6, <3>2, StatusWritten DEF AttemptRaised
  <2>3. failEvent' \in [Lanes -> FailEvents]
    BY <1>6 DEF AttemptRaised, At, TypeOK, FailEvents
  <2>4. ctl' \in [Controllers -> CtlRecord]
    BY <1>6, GotoTyped, PcsKnown DEF AttemptRaised, At
  <2> QED BY <1>6, <2>1, <2>2, <2>3, <2>4 DEF AttemptRaised, TypeOK, records
<1>7. CASE RecordProvider(c)
  <2>1. status' \in [Lanes -> StatusRecord]
    <3>1. Merged(c) \in StatusRecord
        BY <1>7, MergedTyped DEF RecordProvider, At
    <3> QED BY <1>7, <3>1, OwnBoundary, BoundaryStatus, StatusWritten DEF RecordProvider
  <2>2. ctl' \in [Controllers -> CtlRecord]
    BY <1>7, GotoTyped, PcsKnown DEF RecordProvider, At
  <2> QED BY <1>7, <2>1, <2>2 DEF RecordProvider, TypeOK, records
<1>8. CASE ShutdownStop(c)
  <2>1. prov' \in [Controllers -> ProvStates]
    BY <1>8 DEF ShutdownStop, At, TypeOK, ProvStates
  <2> QED BY <1>8, <2>1 DEF ShutdownStop, TypeOK, records
<1>9. CASE EndStream(c)
  <2>1. lane' \in [Lanes -> LaneRecord]
    <3>1. "saved" \in Sessions
        BY DEF Sessions
    <3>2. lane \in [Lanes -> LaneRecord]
        BY DEF TypeOK
    <3>3. lane' = [lane EXCEPT ![ctl[c].lane].session = "saved"] \/ lane' = lane
        BY <1>9 DEF EndStream
    <3> QED BY <3>1, <3>2, <3>3 DEF LaneRecord
  <2>2. ctl' \in [Controllers -> CtlRecord]
    <3>1. "saved" \in Sessions /\ "ended" \in CtlPcs
        BY PcsKnown DEF Sessions
    <3>2. ctl \in [Controllers -> CtlRecord]
        BY DEF TypeOK
    <3>3. \/ ctl' = [ctl EXCEPT ![c].pc = "ended", ![c].session = "saved"]
          \/ ctl' = [ctl EXCEPT ![c].pc = "ended"]
        BY <1>9 DEF EndStream, Goto
    <3> QED BY <3>1, <3>2, <3>3 DEF CtlRecord
  <2> QED BY <1>9, <2>1, <2>2 DEF EndStream, TypeOK, records
<1>10. CASE WriteProviderExited(c)
  <2>1. status' \in [Lanes -> StatusRecord]
    <3>1. Merged(c) \in StatusRecord
        BY <1>10, MergedTyped DEF WriteProviderExited, At
    <3> QED BY <1>10, <3>1, OwnBoundary, BoundaryStatus, StatusWritten DEF WriteProviderExited
  <2>2. ctl' \in [Controllers -> CtlRecord]
    BY <1>10, GotoTyped, PcsKnown DEF WriteProviderExited, At
  <2> QED BY <1>10, <2>1, <2>2 DEF WriteProviderExited, TypeOK, records
<1>11. CASE CleanupProven(c)
  <2>1. prov' \in [Controllers -> ProvStates]
    BY <1>11 DEF CleanupProven, At, TypeOK, ProvStates
  <2>2. ctl' \in [Controllers -> CtlRecord]
    BY <1>11, GotoTyped, PcsKnown DEF CleanupProven, At
  <2> QED BY <1>11, <2>1, <2>2 DEF CleanupProven, TypeOK, records
<1>12. CASE CleanupUnproven(c)
  <2>1. status' \in [Lanes -> StatusRecord]
    <3>1. Merged(c) \in StatusRecord
        BY <1>12, MergedTyped DEF CleanupUnproven, At
    <3> QED BY <1>12, <3>1, OwnBoundary, BoundaryStatus, StatusWritten DEF CleanupUnproven
  <2>2. prov' \in [Controllers -> ProvStates]
    BY <1>12 DEF CleanupUnproven, At, TypeOK, ProvStates, KilledProvider
  <2>3. ctl' \in [Controllers -> CtlRecord]
    BY <1>12, GotoTyped, PcsKnown DEF CleanupUnproven, At
  <2> QED BY <1>12, <2>1, <2>2, <2>3 DEF CleanupUnproven, TypeOK, records
<1>13. CASE ProviderRaised(c)
  <2>1. ctl' \in [Controllers -> CtlRecord]
    BY <1>13, GotoTyped, PcsKnown DEF ProviderRaised
  <2> QED BY <1>13, <2>1 DEF ProviderRaised, TypeOK, records
<1>14. CASE Exit(c)
  <2>1. ctl' \in [Controllers -> CtlRecord]
    BY <1>14, GotoTyped, PcsKnown DEF Exit
  <2>2. prov' \in [Controllers -> ProvStates]
    BY <1>14 DEF Exit, KilledProvider, TypeOK, ProvStates
  <2> QED BY <1>14, <2>1, <2>2 DEF Exit, TypeOK, records
<1> QED BY <1>1, <1>2, <1>3, <1>4, <1>5, <1>6, <1>7, <1>8, <1>9, <1>10, <1>11, <1>12, <1>13, <1>14

\* Judging the result and waiting for the decision keep the types.
LEMMA JudgeTypes ==
    ASSUME TypeOK, Known, NEW c \in Controllers,
           \/ ValidResult(c) \/ NoResult(c) \/ Correct(c) \/ ControllerRelease(c)
           \/ LaneReviewPending(c) \/ LaneResultInvalid(c) \/ StopWaiting(c) \/ LaneAccepted(c)
    PROVE  TypeOK'
<1>1. CASE ValidResult(c)
  <2>1. status' \in [Lanes -> StatusRecord]
    BY <1>1, MergedTyped, StatusWritten DEF ValidResult, At, StatusRecord
  <2>2. ctl' \in [Controllers -> CtlRecord]
    BY <1>1, GotoTyped, PcsKnown DEF ValidResult, At
  <2> QED BY <1>1, <2>1, <2>2 DEF ValidResult, TypeOK, records
<1>2. CASE NoResult(c)
  <2>1. lane' \in [Lanes -> LaneRecord]
    BY <1>2, SessionSaved DEF NoResult
  <2>2. status' \in [Lanes -> StatusRecord]
    BY <1>2, MergedTyped, StatusWritten DEF NoResult, At, StatusRecord
  <2>3. ctl' \in [Controllers -> CtlRecord]
    BY <1>2, GotoTyped, PcsKnown DEF NoResult, At
  <2> QED BY <1>2, <2>1, <2>2, <2>3 DEF NoResult, TypeOK, records
<1>3. CASE Correct(c)
  <2>1. lane' \in [Lanes -> LaneRecord]
    BY <1>3, SessionSaved DEF Correct
  <2>2. status' \in [Lanes -> StatusRecord]
    BY <1>3, MergedTyped, StatusWritten DEF Correct, At, StatusRecord
  <2>3. ctl' \in [Controllers -> CtlRecord]
    BY <1>3, BoundsAssumption, PcsKnown DEF Correct, At, TypeOK, CtlRecord, Attempts, MayCorrect, CorrectionCount
  <2> QED BY <1>3, <2>1, <2>2, <2>3 DEF Correct, TypeOK, records
<1>4. CASE ControllerRelease(c)
  <2>1. lease' \in [Resources -> Controllers \cup {None}]
    BY <1>4 DEF ControllerRelease, At, TypeOK, ReleaseLeases
  <2>2. ctl' \in [Controllers -> CtlRecord]
    BY <1>4, GotoTyped, PcsKnown DEF ControllerRelease, At
  <2> QED BY <1>4, <2>1, <2>2 DEF ControllerRelease, TypeOK, records
<1>5. CASE LaneReviewPending(c)
  <2>1. lane' \in [Lanes -> LaneRecord]
    BY <1>5, LifecycleSet DEF LaneReviewPending, Lifecycles
  <2>2. ctl' \in [Controllers -> CtlRecord]
    BY <1>5, GotoTyped, PcsKnown DEF LaneReviewPending, At
  <2> QED BY <1>5, <2>1, <2>2 DEF LaneReviewPending, TypeOK, records
<1>6. CASE LaneResultInvalid(c)
  <2>1. lane' \in [Lanes -> LaneRecord]
    BY <1>6, LifecycleSet DEF LaneResultInvalid, Lifecycles
  <2>2. ctl' \in [Controllers -> CtlRecord]
    BY <1>6, GotoTyped, PcsKnown DEF LaneResultInvalid, At
  <2>3. prov' \in [Controllers -> ProvStates]
    BY <1>6 DEF LaneResultInvalid, KilledProvider, TypeOK, ProvStates
  <2> QED BY <1>6, <2>1, <2>2, <2>3 DEF LaneResultInvalid, TypeOK, records
<1>7. CASE StopWaiting(c)
  <2>1. status' \in [Lanes -> StatusRecord]
    BY <1>7, MergedTyped, StatusWritten DEF StopWaiting, At, StatusRecord
  <2>2. ctl' \in [Controllers -> CtlRecord]
    BY <1>7, GotoTyped, PcsKnown DEF StopWaiting, At
  <2> QED BY <1>7, <2>1, <2>2 DEF StopWaiting, TypeOK, records
<1>8. CASE LaneAccepted(c)
  <2>1. lane' \in [Lanes -> LaneRecord]
    BY <1>8, LifecycleSet DEF LaneAccepted, Lifecycles
  <2>2. ctl' \in [Controllers -> CtlRecord]
    BY <1>8, GotoTyped, PcsKnown DEF LaneAccepted, At
  <2> QED BY <1>8, <2>1, <2>2 DEF LaneAccepted, TypeOK, records
<1> QED BY <1>1, <1>2, <1>3, <1>4, <1>5, <1>6, <1>7, <1>8
LEMMA CmdNames ==
    /\ "none" \in CmdKinds /\ "launch" \in CmdKinds /\ "force-stop" \in CmdKinds
    /\ "retire" \in CmdKinds /\ "resume" \in CmdKinds /\ "shutdown" \in CmdKinds
    /\ "idle" \in CmdPcs /\ "spawn" \in CmdPcs /\ "record" \in CmdPcs
    /\ "handshake" \in CmdPcs /\ "kill" \in CmdPcs /\ "clean" \in CmdPcs /\ "survived" \in CmdPcs
    /\ "release" \in CmdPcs /\ "retire" \in CmdPcs /\ "check" \in CmdPcs
    /\ "mark" \in CmdPcs /\ "clear" \in CmdPcs /\ "invocation" \in CmdPcs
    /\ "replace" \in CmdPcs /\ "lane" \in CmdPcs
BY DEF CmdKinds, CmdPcs

LEMMA NoStatusTyped == NoStatus \in StatusRecord
BY BoundsAssumption DEF NoStatus, EmptyStatus, StatusRecord, Boundary, NoBoundary, Attempts, Runs

LEMMA IdleTyped == Idle \in CmdRecord
<1>1. [run |-> 0, lifecycle |-> "prepared", process |-> None, session |-> "none"] \in LaneRecord
    BY BoundsAssumption DEF LaneRecord, Lifecycles, Runs, Sessions
<1> QED BY <1>1, NoStatusTyped, CmdNames, BoundsAssumption DEF Idle, CmdRecord, Runs

\* A command that begins: every field is the idle one or is given here.
LEMMA BegunTyped ==
    ASSUME NEW kind \in CmdKinds, NEW pc \in CmdPcs, NEW l \in Lanes \cup {None}, NEW rec \in LaneRecord,
           NEW s \in StatusRecord, NEW r \in Runs
    PROVE  /\ [Idle EXCEPT !.kind = kind, !.pc = pc, !.lane = l, !.snap = rec] \in CmdRecord
           /\ [Idle EXCEPT !.kind = kind, !.pc = pc, !.lane = l, !.snap = rec, !.st = s] \in CmdRecord
           /\ [Idle EXCEPT !.kind = kind, !.pc = pc, !.lane = l, !.snap = rec, !.run = r] \in CmdRecord
           /\ \A S \in SUBSET Lanes :
                 [Idle EXCEPT !.kind = kind, !.pc = pc, !.todo = S] \in CmdRecord
BY IdleTyped DEF CmdRecord


\* The fields of a command that begins.
LEMMA BegunFields ==
    ASSUME NEW kind, NEW pc, NEW l, NEW rec, NEW s, NEW r, NEW S
    PROVE  /\ LET new == [Idle EXCEPT !.kind = kind, !.pc = pc, !.lane = l, !.snap = rec]
              IN  new.pc = pc /\ new.lane = l /\ new.snap = rec /\ new.kind = kind
           /\ LET new == [Idle EXCEPT !.kind = kind, !.pc = pc, !.lane = l, !.snap = rec, !.st = s]
              IN  new.pc = pc /\ new.lane = l /\ new.snap = rec /\ new.kind = kind
           /\ LET new == [Idle EXCEPT !.kind = kind, !.pc = pc, !.lane = l, !.snap = rec, !.run = r]
              IN  new.pc = pc /\ new.lane = l /\ new.snap = rec /\ new.kind = kind
           /\ LET new == [Idle EXCEPT !.kind = kind, !.pc = pc, !.todo = S]
              IN  new.pc = pc /\ new.lane = None /\ new.kind = kind
BY DEF Idle

\* No controller appears or changes its lane.
SameControllers ==
    \A d \in Controllers :
        /\ ctl'[d].lane = ctl[d].lane
        /\ (ctl[d].pc = "absent") <=> (ctl'[d].pc = "absent")

LEMMA CommandKnown ==
    ASSUME TypeOK, Known, SameControllers, NEW k \in Commands, NEW new,
           cmd' = [cmd EXCEPT ![k] = new],
           new.pc \notin {"idle", "lane"} => new.lane \in Lanes,
           new.pc \in {"record", "handshake"}
              => new.child \in Controllers /\ ctl[new.child].pc # "absent"
    PROVE  Known'
<1>1. \A j \in Commands : cmd'[j] = IF j = k THEN new ELSE cmd[j]
    BY DEF TypeOK
<1>2. ASSUME NEW d \in Controllers, ctl'[d].pc # "absent"
      PROVE  ctl'[d].lane \in Lanes
  <2>1. ctl[d].pc # "absent" /\ ctl'[d].lane = ctl[d].lane
    BY <1>2 DEF SameControllers
  <2> QED BY <2>1 DEF Known
<1>3. ASSUME NEW j \in Commands, cmd'[j].pc \notin {"idle", "lane"}
      PROVE  cmd'[j].lane \in Lanes
    BY <1>1, <1>3 DEF Known
<1>4. ASSUME NEW j \in Commands, cmd'[j].pc \in {"record", "handshake"}
      PROVE  cmd'[j].child \in Controllers /\ ctl'[cmd'[j].child].pc # "absent"
  <2>1. cmd'[j].child \in Controllers /\ ctl[cmd'[j].child].pc # "absent"
    BY <1>1, <1>4 DEF Known
  <2> QED BY <2>1 DEF SameControllers
<1> QED BY <1>2, <1>3, <1>4 DEF Known

LEMMA FinishTyped ==
    ASSUME TypeOK, NEW k \in Commands, Finish(k)
    PROVE  cmd' \in [Commands -> CmdRecord]
BY IdleTyped DEF TypeOK, Finish

LEMMA FinishKnown ==
    ASSUME TypeOK, Known, SameControllers, NEW k \in Commands, Finish(k)
    PROVE  Known'
<1>1. Idle.pc = "idle"
    BY DEF Idle
<1> QED BY <1>1, CommandKnown DEF Finish

LEMMA ContinueTyped ==
    ASSUME TypeOK, NEW k \in Commands, NEW pc \in CmdPcs, Continue(k, pc)
    PROVE  cmd' \in [Commands -> CmdRecord]
<1>1. cmd \in [Commands -> CmdRecord]
    BY DEF TypeOK
<1> QED BY <1>1 DEF Continue, CmdRecord

LEMMA ContinueKnown ==
    ASSUME TypeOK, Known, SameControllers, NEW k \in Commands,
           NEW pc, Continue(k, pc), cmd[k].pc \notin {"idle", "lane"},
           pc \notin {"record", "handshake"}
    PROVE  Known'
<1> DEFINE new == [cmd[k] EXCEPT !.pc = pc]
<1>1. cmd' = [cmd EXCEPT ![k] = new]
    BY DEF Continue
<1>2. new.pc = pc /\ new.lane = cmd[k].lane
    BY DEF TypeOK, CmdRecord
<1>3. cmd[k].lane \in Lanes
    BY DEF Known
<1> HIDE DEF new
<1> QED BY <1>1, <1>2, <1>3, CommandKnown


\* lane launch keeps the types.
LEMMA LaunchTypes ==
    ASSUME TypeOK, Known, NEW k \in Commands, NEW l,
           \/ (l \in Lanes /\ RunLaunch(k, l)) \/ RecordController(k) \/ RecordFailed(k)
           \/ LaunchOk(k) \/ LaunchFailed(k)
    PROVE  TypeOK' /\ Known'
<1>1. CASE l \in Lanes /\ RunLaunch(k, l)
  <2> l \in Lanes
    BY <1>1
  <2>1. cmd' \in [Commands -> CmdRecord]
    <3>1. lane[l] \in LaneRecord /\ cmd \in [Commands -> CmdRecord]
        BY DEF TypeOK
    <3>2. [Idle EXCEPT !.kind = "launch", !.pc = "spawn", !.lane = l, !.snap = lane[l]] \in CmdRecord
        BY <3>1, IdleTyped, CmdNames DEF CmdRecord
    <3> QED BY <1>1, <3>1, <3>2 DEF RunLaunch, Start
  <2>2. SameControllers
    BY <1>1 DEF RunLaunch, SameControllers
  <2>3. Known'
    <3>1. /\ [Idle EXCEPT !.kind = "launch", !.pc = "spawn", !.lane = l, !.snap = lane[l]].pc = "spawn"
          /\ [Idle EXCEPT !.kind = "launch", !.pc = "spawn", !.lane = l, !.snap = lane[l]].lane = l
        BY DEF Idle
    <3> QED BY <1>1, <2>2, <3>1, CommandKnown DEF RunLaunch, Start
  <2> QED BY <1>1, <2>1, <2>2, <2>3 DEF RunLaunch, TypeOK, records
<1>2. CASE RecordController(k)
  <2>1. lane' \in [Lanes -> LaneRecord]
    <3>1. "running" \in Lifecycles
        BY DEF Lifecycles
    <3>2. cmd[k].child \in Controllers
        BY <1>2 DEF RecordController, Step, Known
    <3> QED BY <1>2, <3>1, <3>2, ProcessSet DEF RecordController
  <2>2. cmd' \in [Commands -> CmdRecord]
    <3>1. cmd \in [Commands -> CmdRecord] /\ lane[cmd[k].lane].run \in Runs
        BY <1>2 DEF RecordController, Step, Known, TypeOK, LaneRecord
    <3>2. cmd' = [cmd EXCEPT ![k].pc = "handshake", ![k].run = lane[cmd[k].lane].run]
        BY <1>2 DEF RecordController
    <3>3. [cmd[k] EXCEPT !.pc = "handshake", !.run = lane[cmd[k].lane].run] \in CmdRecord
        BY <3>1, CmdNames DEF CmdRecord
    <3>4. cmd' = [cmd EXCEPT ![k] = [cmd[k] EXCEPT !.pc = "handshake", !.run = lane[cmd[k].lane].run]]
        BY <3>1, <3>2
    <3> QED BY <3>1, <3>3, <3>4
  <2>3. SameControllers
    BY <1>2 DEF RecordController, SameControllers
  <2>4. Known'
    <3>1. /\ [cmd[k] EXCEPT !.pc = "handshake", !.run = lane[cmd[k].lane].run].lane = cmd[k].lane
          /\ [cmd[k] EXCEPT !.pc = "handshake", !.run = lane[cmd[k].lane].run].child = cmd[k].child
        BY DEF TypeOK, CmdRecord
    <3>2. cmd[k].lane \in Lanes /\ cmd[k].child \in Controllers /\ ctl[cmd[k].child].pc # "absent"
        BY <1>2 DEF RecordController, Step, Known
    <3>3. cmd' = [cmd EXCEPT ![k] = [cmd[k] EXCEPT !.pc = "handshake", !.run = lane[cmd[k].lane].run]]
        BY <1>2 DEF RecordController, TypeOK
    <3> QED BY <2>3, <3>1, <3>2, <3>3, CommandKnown
  <2> QED BY <1>2, <2>1, <2>2, <2>3, <2>4 DEF RecordController, TypeOK, records
<1>3. CASE RecordFailed(k)
  <2>1. ctl' \in [Controllers -> CtlRecord]
    <3>1. ctl \in [Controllers -> CtlRecord] /\ "exited" \in CtlPcs
        BY PcsKnown DEF TypeOK
    <3>2. ctl' = ctl \/ \E c \in Controllers : ctl' = [ctl EXCEPT ![c].pc = "exited"]
        BY <1>3 DEF RecordFailed, Step, Known, Live, TypeOK, CmdRecord, LaneRecord
    <3> QED BY <3>1, <3>2 DEF CtlRecord
  <2>2. prov' \in [Controllers -> ProvStates]
    BY <1>3 DEF RecordFailed, TypeOK, ProvStates, KilledProvider
  <2>3. cmd' \in [Commands -> CmdRecord]
    BY <1>3, FinishTyped DEF RecordFailed
  <2>4. SameControllers
    <3>1. ctl' = ctl \/ \E c \in Controllers : /\ ctl[c].pc # "absent"
                                                /\ ctl' = [ctl EXCEPT ![c].pc = "exited"]
        BY <1>3 DEF RecordFailed, Step, Known, Live, TypeOK, CmdRecord, LaneRecord
    <3> QED BY <3>1 DEF SameControllers, TypeOK, CtlRecord
  <2>5. Known'
    BY <1>3, <2>4, FinishKnown DEF RecordFailed
  <2> QED BY <1>3, <2>1, <2>2, <2>3, <2>4, <2>5 DEF RecordFailed, TypeOK, records
<1>4. CASE LaunchOk(k)
  <2>1. cmd' \in [Commands -> CmdRecord]
    BY <1>4, FinishTyped DEF LaunchOk
  <2>2. SameControllers
    BY <1>4 DEF LaunchOk, SameControllers
  <2>3. Known'
    BY <1>4, <2>2, FinishKnown DEF LaunchOk
  <2> QED BY <1>4, <2>1, <2>2, <2>3 DEF LaunchOk, TypeOK, records
<1>5. CASE LaunchFailed(k)
  <2>1. ctl' \in [Controllers -> CtlRecord]
    <3>1. ctl \in [Controllers -> CtlRecord] /\ "exited" \in CtlPcs
        BY PcsKnown DEF TypeOK
    <3>2. ctl' = ctl \/ \E c \in Controllers : ctl' = [ctl EXCEPT ![c].pc = "exited"]
        BY <1>5 DEF LaunchFailed, Step, Known, Live, TypeOK, CmdRecord, LaneRecord
    <3> QED BY <3>1, <3>2 DEF CtlRecord
  <2>2. prov' \in [Controllers -> ProvStates]
    BY <1>5 DEF LaunchFailed, TypeOK, ProvStates, KilledProvider
  <2>3. lane' \in [Lanes -> LaneRecord]
    BY <1>5 DEF LaunchFailed, TypeOK, LaneRecord
  <2>4. cmd' \in [Commands -> CmdRecord]
    BY <1>5, FinishTyped DEF LaunchFailed
  <2>5. SameControllers
    <3>1. ctl' = ctl \/ \E c \in Controllers : /\ ctl[c].pc # "absent"
                                                /\ ctl' = [ctl EXCEPT ![c].pc = "exited"]
        BY <1>5 DEF LaunchFailed, Step, Known, Live, TypeOK, CmdRecord, LaneRecord
    <3> QED BY <3>1 DEF SameControllers, TypeOK, CtlRecord
  <2>6. Known'
    BY <1>5, <2>5, FinishKnown DEF LaunchFailed
  <2> QED BY <1>5, <2>1, <2>2, <2>3, <2>4, <2>5, <2>6 DEF LaunchFailed, TypeOK, records
<1> QED BY <1>1, <1>2, <1>3, <1>4, <1>5


\* lane force-stop keeps the types.
LEMMA ForceStopTypes ==
    ASSUME TypeOK, Known, NEW k \in Commands, NEW l,
           \/ (l \in Lanes /\ RunForceStop(k, l)) \/ KillController(k) \/ CleanBoundary(k)
           \/ ForceStopRelease(k) \/ ForceStopRetire(k)
    PROVE  TypeOK' /\ Known'
<1>1. CASE l \in Lanes /\ RunForceStop(k, l)
  <2> l \in Lanes
    BY <1>1
  <2>1. cmd' \in [Commands -> CmdRecord]
    <3>1. lane[l] \in LaneRecord /\ StatusOf(l, lane[l].run) \in StatusRecord
        BY NoStatusTyped DEF TypeOK, StatusOf
    <3>2. cmd \in [Commands -> CmdRecord]
        BY DEF TypeOK
    <3>3. \/ cmd' = [cmd EXCEPT ![k] = [Idle EXCEPT !.kind = "force-stop", !.pc = "release",
                                          !.lane = l, !.snap = lane[l]]]
          \/ cmd' = [cmd EXCEPT ![k] = [Idle EXCEPT !.kind = "force-stop", !.pc = "kill",
                                          !.lane = l, !.snap = lane[l],
                                          !.st = StatusOf(l, lane[l].run)]]
        BY <1>1 DEF RunForceStop, Start
    <3>4. [Idle EXCEPT !.kind = "force-stop", !.pc = "release", !.lane = l, !.snap = lane[l]] \in CmdRecord
        BY <3>1, IdleTyped, CmdNames DEF CmdRecord
    <3>5. [Idle EXCEPT !.kind = "force-stop", !.pc = "kill", !.lane = l, !.snap = lane[l],
                       !.st = StatusOf(l, lane[l].run)] \in CmdRecord
        BY <3>1, IdleTyped, CmdNames DEF CmdRecord
    <3> QED BY <3>2, <3>3, <3>4, <3>5
  <2>2. SameControllers
    BY <1>1 DEF RunForceStop, SameControllers
  <2>3. Known'
    <3> DEFINE rel == [Idle EXCEPT !.kind = "force-stop", !.pc = "release", !.lane = l, !.snap = lane[l]]
               kil == [Idle EXCEPT !.kind = "force-stop", !.pc = "kill", !.lane = l, !.snap = lane[l],
                                   !.st = StatusOf(l, lane[l].run)]
    <3>1. cmd' = [cmd EXCEPT ![k] = rel] \/ cmd' = [cmd EXCEPT ![k] = kil]
        BY <1>1 DEF RunForceStop, Start
    <3>2. rel.lane = l /\ rel.pc = "release" /\ kil.lane = l /\ kil.pc = "kill"
        BY BegunFields
    <3> HIDE DEF rel, kil
    <3> QED BY <2>2, <3>1, <3>2, CommandKnown
  <2> QED BY <1>1, <2>1, <2>2, <2>3 DEF RunForceStop, TypeOK, records
<1>2. CASE KillController(k)
  <2>1. ctl' \in [Controllers -> CtlRecord]
    <3>1. ctl \in [Controllers -> CtlRecord] /\ "exited" \in CtlPcs
        BY PcsKnown DEF TypeOK
    <3>2. ctl' = ctl \/ \E c \in Controllers : ctl' = [ctl EXCEPT ![c].pc = "exited"]
        BY <1>2 DEF KillController, Step, Known, Live, TypeOK, CmdRecord, LaneRecord
    <3> QED BY <3>1, <3>2 DEF CtlRecord
  <2>2. prov' \in [Controllers -> ProvStates]
    BY <1>2 DEF KillController, TypeOK, ProvStates, KilledProvider
  <2>3. cmd' \in [Commands -> CmdRecord]
    BY <1>2, ContinueTyped, CmdNames DEF KillController
  <2>4. SameControllers
    <3>1. ctl' = ctl \/ \E c \in Controllers : /\ ctl[c].pc # "absent"
                                                /\ ctl' = [ctl EXCEPT ![c].pc = "exited"]
        BY <1>2 DEF KillController, Step, Known, Live, TypeOK, CmdRecord, LaneRecord
    <3> QED BY <3>1 DEF SameControllers, TypeOK, CtlRecord
  <2>5. Known'
    BY <1>2, <2>4, ContinueKnown DEF KillController, Step
  <2> QED BY <1>2, <2>1, <2>2, <2>3, <2>4, <2>5 DEF KillController, TypeOK, records
<1>3. CASE CleanBoundary(k)
  <2>1. prov' \in [Controllers -> ProvStates]
    BY <1>3 DEF CleanBoundary, TypeOK, ProvStates
  <2>2. cmd' \in [Commands -> CmdRecord]
    BY <1>3, FinishTyped, ContinueTyped, CmdNames DEF CleanBoundary, BoundaryCleaned
  <2>3. SameControllers
    BY <1>3 DEF CleanBoundary, SameControllers
  <2>4. Known'
    BY <1>3, <2>3, FinishKnown, ContinueKnown DEF CleanBoundary, BoundaryCleaned
  <2> QED BY <1>3, <2>1, <2>2, <2>3, <2>4 DEF CleanBoundary, TypeOK, records
<1>4. CASE ForceStopRelease(k)
  <2>1. lease' \in [Resources -> Controllers \cup {None}]
    BY <1>4 DEF ForceStopRelease, TypeOK, ForceReleaseLeases
  <2>2. cmd' \in [Commands -> CmdRecord]
    BY <1>4, ContinueTyped, CmdNames DEF ForceStopRelease
  <2>3. SameControllers
    BY <1>4 DEF ForceStopRelease, SameControllers
  <2>4. Known'
    BY <1>4, <2>3, ContinueKnown DEF ForceStopRelease, Step
  <2> QED BY <1>4, <2>1, <2>2, <2>3, <2>4 DEF ForceStopRelease, TypeOK, records
<1>5. CASE ForceStopRetire(k)
  <2>1. lane' \in [Lanes -> LaneRecord]
    <3>1. "retired" \in Lifecycles
        BY DEF Lifecycles
    <3>2. lane \in [Lanes -> LaneRecord]
        BY DEF TypeOK
    <3>3. lane' = lane \/ lane' = [lane EXCEPT ![cmd[k].lane].lifecycle = "retired"]
        BY <1>5 DEF ForceStopRetire
    <3> QED BY <3>1, <3>2, <3>3 DEF LaneRecord
  <2>2. cmd' \in [Commands -> CmdRecord]
    BY <1>5, FinishTyped DEF ForceStopRetire
  <2>3. SameControllers
    BY <1>5 DEF ForceStopRetire, SameControllers
  <2>4. Known'
    BY <1>5, <2>3, FinishKnown DEF ForceStopRetire
  <2> QED BY <1>5, <2>1, <2>2, <2>3, <2>4 DEF ForceStopRetire, TypeOK, records
<1> QED BY <1>1, <1>2, <1>3, <1>4, <1>5


\* lane retire keeps the types.
LEMMA RetireTypes ==
    ASSUME TypeOK, Known, NEW k \in Commands, NEW l,
           \/ (l \in Lanes /\ RunRetire(k, l)) \/ RetireCheck(k) \/ RetireRefused(k)
           \/ RetireRelease(k) \/ RetireLane(k)
    PROVE  TypeOK' /\ Known'
<1>1. CASE l \in Lanes /\ RunRetire(k, l)
  <2> l \in Lanes
    BY <1>1
  <2>1. cmd' \in [Commands -> CmdRecord]
    <3>1. lane[l] \in LaneRecord /\ cmd \in [Commands -> CmdRecord]
        BY DEF TypeOK
    <3>2. [Idle EXCEPT !.kind = "retire", !.pc = "check", !.lane = l, !.snap = lane[l]] \in CmdRecord
        BY <3>1, IdleTyped, CmdNames DEF CmdRecord
    <3> QED BY <1>1, <3>1, <3>2 DEF RunRetire, Start
  <2>2. SameControllers
    BY <1>1 DEF RunRetire, SameControllers
  <2>3. Known'
    <3>1. /\ [Idle EXCEPT !.kind = "retire", !.pc = "check", !.lane = l, !.snap = lane[l]].pc = "check"
          /\ [Idle EXCEPT !.kind = "retire", !.pc = "check", !.lane = l, !.snap = lane[l]].lane = l
        BY DEF Idle
    <3> QED BY <1>1, <2>2, <3>1, CommandKnown DEF RunRetire, Start
  <2> QED BY <1>1, <2>1, <2>2, <2>3 DEF RunRetire, TypeOK, records
<1>2. CASE RetireCheck(k)
  <2>1. cmd' \in [Commands -> CmdRecord]
    BY <1>2, ContinueTyped, CmdNames DEF RetireCheck
  <2>2. SameControllers
    BY <1>2 DEF RetireCheck, SameControllers
  <2>3. Known'
    BY <1>2, <2>2, ContinueKnown DEF RetireCheck, Step
  <2> QED BY <1>2, <2>1, <2>2, <2>3 DEF RetireCheck, TypeOK, records
<1>3. CASE RetireRefused(k)
  <2>1. cmd' \in [Commands -> CmdRecord]
    BY <1>3, FinishTyped DEF RetireRefused
  <2>2. SameControllers
    BY <1>3 DEF RetireRefused, SameControllers
  <2>3. Known'
    BY <1>3, <2>2, FinishKnown DEF RetireRefused
  <2> QED BY <1>3, <2>1, <2>2, <2>3 DEF RetireRefused, TypeOK, records
<1>4. CASE RetireRelease(k)
  <2>1. lease' \in [Resources -> Controllers \cup {None}]
    BY <1>4 DEF RetireRelease, TypeOK, ReleaseLeases
  <2>2. cmd' \in [Commands -> CmdRecord]
    BY <1>4, ContinueTyped, CmdNames DEF RetireRelease
  <2>3. SameControllers
    BY <1>4 DEF RetireRelease, SameControllers
  <2>4. Known'
    BY <1>4, <2>3, ContinueKnown DEF RetireRelease, Step
  <2> QED BY <1>4, <2>1, <2>2, <2>3, <2>4 DEF RetireRelease, TypeOK, records
<1>5. CASE RetireLane(k)
  <2>1. lane' \in [Lanes -> LaneRecord]
    <3>1. "retired" \in Lifecycles
        BY DEF Lifecycles
    <3>2. lane \in [Lanes -> LaneRecord]
        BY DEF TypeOK
    <3>3. lane' = lane \/ lane' = [lane EXCEPT ![cmd[k].lane].lifecycle = "retired"]
        BY <1>5 DEF RetireLane
    <3> QED BY <3>1, <3>2, <3>3 DEF LaneRecord
  <2>2. cmd' \in [Commands -> CmdRecord]
    BY <1>5, FinishTyped DEF RetireLane
  <2>3. SameControllers
    BY <1>5 DEF RetireLane, SameControllers
  <2>4. Known'
    BY <1>5, <2>3, FinishKnown DEF RetireLane
  <2> QED BY <1>5, <2>1, <2>2, <2>3, <2>4 DEF RetireLane, TypeOK, records
<1> QED BY <1>1, <1>2, <1>3, <1>4, <1>5


\* resume-lane keeps the types.
LEMMA ResumeTypes ==
    ASSUME TypeOK, Known, NEW k \in Commands, NEW l,
           \/ (l \in Lanes /\ RunResume(k, l)) \/ MarkResuming(k) \/ ClearPriorRun(k) \/ ClearInterrupted(k)
           \/ WriteInvocation(k) \/ ReplaceRun(k)
    PROVE  TypeOK' /\ Known'
<1>1. CASE l \in Lanes /\ RunResume(k, l)
  <2> l \in Lanes
    BY <1>1
  <2>1. issued' \in [Lanes -> Runs]
    BY <1>1, BoundsAssumption DEF RunResume, TypeOK, Runs
  <2>2. cmd' \in [Commands -> CmdRecord]
    <3>1. lane[l] \in LaneRecord /\ status[l] \in StatusRecord /\ issued[l] + 1 \in Runs
        BY <1>1, BoundsAssumption DEF RunResume, TypeOK, Runs
    <3>2. [Idle EXCEPT !.kind = "resume", !.pc = "mark", !.lane = l, !.snap = lane[l],
                       !.run = issued[l] + 1] \in CmdRecord
        BY <3>1, BegunTyped, CmdNames
    <3>3. cmd \in [Commands -> CmdRecord]
        BY DEF TypeOK
    <3>4. cmd' = [cmd EXCEPT ![k] = [Idle EXCEPT !.kind = "resume", !.pc = "mark", !.lane = l,
                                        !.snap = lane[l], !.run = issued[l] + 1]]
        BY <1>1 DEF RunResume
    <3> QED BY <3>2, <3>3, <3>4
  <2>3. SameControllers
    BY <1>1 DEF RunResume, SameControllers
  <2>4. Known'
    <3> DEFINE new == [Idle EXCEPT !.kind = "resume", !.pc = "mark", !.lane = l,
                                   !.snap = lane[l], !.run = issued[l] + 1]
    <3>1. cmd' = [cmd EXCEPT ![k] = new]
        BY <1>1 DEF RunResume
    <3>2. new.lane = l /\ new.pc = "mark"
        BY BegunFields
    <3> HIDE DEF new
    <3> QED BY <2>3, <3>1, <3>2, CommandKnown
  <2> QED BY <1>1, <2>1, <2>2, <2>3, <2>4 DEF RunResume, TypeOK, records
<1>2. CASE MarkResuming(k)
  <2>1. lane' \in [Lanes -> LaneRecord]
    <3>1. "resuming" \in Lifecycles
        BY DEF Lifecycles
    <3>2. lane \in [Lanes -> LaneRecord]
        BY DEF TypeOK
    <3>3. lane' = lane \/ lane' = [lane EXCEPT ![cmd[k].lane].lifecycle = "resuming"]
        BY <1>2 DEF MarkResuming
    <3> QED BY <3>1, <3>2, <3>3 DEF LaneRecord
  <2>2. cmd' \in [Commands -> CmdRecord]
    BY <1>2, FinishTyped, ContinueTyped, CmdNames DEF MarkResuming
  <2>3. SameControllers
    BY <1>2 DEF MarkResuming, SameControllers
  <2>4. Known'
    BY <1>2, <2>3, FinishKnown, ContinueKnown DEF MarkResuming, Step
  <2> QED BY <1>2, <2>1, <2>2, <2>3, <2>4 DEF MarkResuming, TypeOK, records
<1>3. CASE ClearPriorRun(k)
  <2>1. result' \in [Lanes -> Runs]
    BY <1>3, BoundsAssumption DEF ClearPriorRun, TypeOK, Runs
  <2>2. chain' \in [Lanes -> ChainRecord]
    <3>1. [run |-> 0, approval |-> "none"] \in ChainRecord
        BY BoundsAssumption DEF ChainRecord, Runs
    <3> QED BY <1>3, <3>1 DEF ClearPriorRun, TypeOK
  <2>3. status' \in [Lanes -> StatusRecord]
    BY <1>3, NoStatusTyped DEF ClearPriorRun, TypeOK, StatusCleared
  <2>4. cmd' \in [Commands -> CmdRecord]
    BY <1>3, FinishTyped, ContinueTyped, CmdNames DEF ClearPriorRun
  <2>5. SameControllers
    BY <1>3 DEF ClearPriorRun, SameControllers
  <2>6. Known'
    BY <1>3, <2>5, FinishKnown, ContinueKnown DEF ClearPriorRun, Step
  <2> QED BY <1>3, <2>1, <2>2, <2>3, <2>4, <2>5, <2>6 DEF ClearPriorRun, TypeOK, records
<1>4. CASE ClearInterrupted(k)
  <2>1. result' \in [Lanes -> Runs]
    <3>1. 0 \in Runs
        BY BoundsAssumption DEF Runs
    <3> QED BY <1>4, <3>1 DEF ClearInterrupted, TypeOK
  <2>2. chain' \in [Lanes -> ChainRecord]
    <3>1. [run |-> 0, approval |-> "none"] \in ChainRecord
        BY BoundsAssumption DEF ChainRecord, Runs
    <3> QED BY <1>4, <3>1 DEF ClearInterrupted, TypeOK
  <2>3. cmd' \in [Commands -> CmdRecord]
    BY <1>4, FinishTyped DEF ClearInterrupted
  <2>4. SameControllers
    BY <1>4 DEF ClearInterrupted, SameControllers
  <2>5. Known'
    BY <1>4, <2>4, FinishKnown DEF ClearInterrupted
  <2> QED BY <1>4, <2>1, <2>2, <2>3, <2>4, <2>5 DEF ClearInterrupted, TypeOK, records
<1>5. CASE WriteInvocation(k)
  <2>1. invocation' \in [Lanes -> Runs]
    BY <1>5 DEF WriteInvocation, TypeOK, CmdRecord
  <2>2. cmd' \in [Commands -> CmdRecord]
    BY <1>5, ContinueTyped, CmdNames DEF WriteInvocation
  <2>3. SameControllers
    BY <1>5 DEF WriteInvocation, SameControllers
  <2>4. Known'
    BY <1>5, <2>3, ContinueKnown DEF WriteInvocation, Step
  <2> QED BY <1>5, <2>1, <2>2, <2>3, <2>4 DEF WriteInvocation, TypeOK, records
<1>6. CASE ReplaceRun(k)
  <2>1. lane' \in [Lanes -> LaneRecord]
    <3>1. "running" \in Lifecycles /\ cmd[k].run \in Runs
        BY DEF Lifecycles, TypeOK, CmdRecord
    <3>2. lane \in [Lanes -> LaneRecord]
        BY DEF TypeOK
    <3>3. \/ lane' = lane
          \/ lane' = [lane EXCEPT ![cmd[k].lane].run = cmd[k].run,
                                   ![cmd[k].lane].lifecycle = "running",
                                   ![cmd[k].lane].process = None]
        BY <1>6 DEF ReplaceRun
    <3> QED BY <3>1, <3>2, <3>3 DEF LaneRecord
  <2>2. cmd' \in [Commands -> CmdRecord]
    BY <1>6, FinishTyped DEF ReplaceRun
  <2>3. SameControllers
    BY <1>6 DEF ReplaceRun, SameControllers
  <2>4. Known'
    BY <1>6, <2>3, FinishKnown DEF ReplaceRun
  <2> QED BY <1>6, <2>1, <2>2, <2>3, <2>4 DEF ReplaceRun, TypeOK, records
<1> QED BY <1>1, <1>2, <1>3, <1>4, <1>5, <1>6


\* harness shutdown keeps the types.
LEMMA ShutdownTypes ==
    ASSUME TypeOK, Known, NEW k \in Commands, NEW l,
           \/ RunShutdown(k) \/ (l \in Lanes /\ ShutdownLane(k, l)) \/ ShutdownRelease(k)
           \/ ShutdownRetire(k) \/ ShutdownClose(k)
    PROVE  TypeOK' /\ Known'
<1>1. CASE RunShutdown(k)
  <2>1. cmd' \in [Commands -> CmdRecord]
    <3>1. [Idle EXCEPT !.kind = "shutdown", !.pc = "lane",
                       !.todo = IF epochOpen THEN Lanes ELSE {}] \in CmdRecord
        BY IdleTyped, CmdNames DEF CmdRecord
    <3> QED BY <1>1, <3>1 DEF RunShutdown, TypeOK
  <2>2. SameControllers
    BY <1>1 DEF RunShutdown, SameControllers
  <2>3. Known'
    <3> DEFINE new == [Idle EXCEPT !.kind = "shutdown", !.pc = "lane",
                                   !.todo = IF epochOpen THEN Lanes ELSE {}]
    <3>1. cmd' = [cmd EXCEPT ![k] = new]
        BY <1>1 DEF RunShutdown
    <3>2. new.pc = "lane"
        BY BegunFields
    <3> HIDE DEF new
    <3> QED BY <2>2, <3>1, <3>2, CommandKnown
  <2> QED BY <1>1, <2>1, <2>2, <2>3 DEF RunShutdown, TypeOK, records
<1>2. CASE l \in Lanes /\ ShutdownLane(k, l)
  <2> l \in Lanes
    BY <1>2
  <2>1. cmd' \in [Commands -> CmdRecord]
    <3>1. cmd \in [Commands -> CmdRecord] /\ lane[l] \in LaneRecord
        BY DEF TypeOK
    <3>2. \/ cmd' = [cmd EXCEPT ![k].todo = @ \ {l}]
          \/ cmd' = [cmd EXCEPT ![k].pc = "release", ![k].lane = l, ![k].snap = lane[l]]
          \/ cmd' = [cmd EXCEPT ![k] = Idle]
        BY <1>2, CmdNames DEF ShutdownLane, Finish
    <3> QED BY <3>1, <3>2, IdleTyped, CmdNames DEF CmdRecord
  <2>2. SameControllers
    BY <1>2 DEF ShutdownLane, SameControllers
  <2>3. Known'
    <3>1. PICK new : /\ cmd' = [cmd EXCEPT ![k] = new]
                     /\ \/ new.pc \in {"lane", "idle"}
                        \/ new.pc = "release" /\ new.lane = l
        BY <1>2 DEF ShutdownLane, Step, Finish, Idle, TypeOK, CmdRecord
    <3> QED BY <2>2, <3>1, CommandKnown
  <2> QED BY <1>2, <2>1, <2>2, <2>3 DEF ShutdownLane, TypeOK, records
<1>3. CASE ShutdownRelease(k)
  <2>1. lease' \in [Resources -> Controllers \cup {None}]
    BY <1>3 DEF ShutdownRelease, TypeOK, ReleaseLeases
  <2>2. cmd' \in [Commands -> CmdRecord]
    BY <1>3, ContinueTyped, CmdNames DEF ShutdownRelease
  <2>3. SameControllers
    BY <1>3 DEF ShutdownRelease, SameControllers
  <2>4. Known'
    BY <1>3, <2>3, ContinueKnown DEF ShutdownRelease, Step
  <2> QED BY <1>3, <2>1, <2>2, <2>3, <2>4 DEF ShutdownRelease, TypeOK, records
<1>4. CASE ShutdownRetire(k)
  <2>1. lane' \in [Lanes -> LaneRecord]
    <3>1. "retired" \in Lifecycles
        BY DEF Lifecycles
    <3>2. lane \in [Lanes -> LaneRecord]
        BY DEF TypeOK
    <3>3. lane' = lane \/ lane' = [lane EXCEPT ![cmd[k].lane].lifecycle = "retired"]
        BY <1>4 DEF ShutdownRetire
    <3> QED BY <3>1, <3>2, <3>3 DEF LaneRecord
  <2>2. cmd' \in [Commands -> CmdRecord]
    <3>1. cmd \in [Commands -> CmdRecord]
        BY DEF TypeOK
    <3>2. cmd' = [cmd EXCEPT ![k].pc = "lane", ![k].todo = @ \ {cmd[k].lane}, ![k].lane = None]
        BY <1>4 DEF ShutdownRetire
    <3>3. cmd[k] \in CmdRecord
        BY <3>1
    <3>4. [cmd[k] EXCEPT !.pc = "lane", !.todo = @ \ {cmd[k].lane}, !.lane = None] \in CmdRecord
        BY <3>3, CmdNames DEF CmdRecord
    <3>5. cmd' = [cmd EXCEPT ![k] = [cmd[k] EXCEPT !.pc = "lane", !.todo = @ \ {cmd[k].lane}, !.lane = None]]
        BY <3>1, <3>2
    <3> QED BY <3>1, <3>4, <3>5
  <2>3. SameControllers
    BY <1>4 DEF ShutdownRetire, SameControllers
  <2>4. Known'
    <3> DEFINE new == [[[cmd[k] EXCEPT !.pc = "lane"] EXCEPT !.todo = @ \ {cmd[k].lane}]
                       EXCEPT !.lane = None]
    <3>1. cmd \in [Commands -> CmdRecord]
        BY DEF TypeOK
    <3>2. cmd' = [cmd EXCEPT ![k] = new]
        BY <1>4, <3>1 DEF ShutdownRetire
    <3>3. new.pc = "lane"
        BY <3>1 DEF CmdRecord
    <3> HIDE DEF new
    <3> QED BY <2>3, <3>2, <3>3, CommandKnown
  <2> QED BY <1>4, <2>1, <2>2, <2>3, <2>4 DEF ShutdownRetire, TypeOK, records
<1>5. CASE ShutdownClose(k)
  <2>1. cmd' \in [Commands -> CmdRecord]
    BY <1>5, FinishTyped DEF ShutdownClose
  <2>2. SameControllers
    BY <1>5 DEF ShutdownClose, SameControllers
  <2>3. Known'
    BY <1>5, <2>2, FinishKnown DEF ShutdownClose
  <2> QED BY <1>5, <2>1, <2>2, <2>3 DEF ShutdownClose, TypeOK, records
<1> QED BY <1>1, <1>2, <1>3, <1>4, <1>5

\* The controller a launch creates is typed and knows its lane.
LEMMA SpawnTypes ==
    ASSUME TypeOK, Known, NEW k \in Commands, SpawnController(k)
    PROVE  TypeOK' /\ Known'
<1>1. PICK c \in Controllers :
         /\ ctl[c].pc = "absent"
         /\ ctl' = [ctl EXCEPT ![c].pc = "spawned", ![c].lane = cmd[k].lane]
         /\ cmd' = [cmd EXCEPT ![k].pc = "record", ![k].child = c]
    BY DEF SpawnController
<1>2. ctl \in [Controllers -> CtlRecord] /\ cmd \in [Commands -> CmdRecord]
    BY DEF TypeOK
<1>3. cmd[k].lane \in Lanes
    BY DEF SpawnController, Step, Known
<1>4. ctl' \in [Controllers -> CtlRecord]
    BY <1>1, <1>2, <1>3, PcsKnown DEF CtlRecord
<1>5. cmd' \in [Commands -> CmdRecord]
  <2>1. [cmd[k] EXCEPT !.pc = "record", !.child = c] \in CmdRecord
    BY <1>2, CmdNames DEF CmdRecord
  <2>2. cmd' = [cmd EXCEPT ![k] = [cmd[k] EXCEPT !.pc = "record", !.child = c]]
    BY <1>1, <1>2
  <2> QED BY <1>2, <2>1, <2>2
<1>6. \A d \in Controllers :
         /\ d # c => ctl'[d] = ctl[d]
         /\ ctl'[c].pc = "spawned" /\ ctl'[c].lane = cmd[k].lane
    BY <1>1, <1>2 DEF CtlRecord
<1>7. \A j \in Commands :
         /\ j # k => cmd'[j] = cmd[j]
         /\ cmd'[k].lane = cmd[k].lane /\ cmd'[k].child = c
    BY <1>1, <1>2 DEF CmdRecord
<1>8. ASSUME NEW d \in Controllers, ctl'[d].pc # "absent"
      PROVE  ctl'[d].lane \in Lanes
    BY <1>3, <1>6, <1>8 DEF Known
<1>9. ASSUME NEW j \in Commands, cmd'[j].pc \notin {"idle", "lane"}
      PROVE  cmd'[j].lane \in Lanes
    BY <1>3, <1>7, <1>9 DEF Known
<1>10. ASSUME NEW j \in Commands, cmd'[j].pc \in {"record", "handshake"}
       PROVE  cmd'[j].child \in Controllers /\ ctl'[cmd'[j].child].pc # "absent"
  <2>1. CASE j = k
    BY <1>6, <1>7, <2>1
  <2>2. CASE j # k
    BY <1>6, <1>7, <1>10, <2>2 DEF Known
  <2> QED BY <2>1, <2>2
<1>11. Known'
    BY <1>8, <1>9, <1>10 DEF Known
<1> QED BY <1>4, <1>5, <1>11 DEF SpawnController, TypeOK, records

\* Deaths, the provider, force-release and completion-review keep the types.
LEMMA EnvironmentTypes ==
    ASSUME TypeOK, Known, NEW c \in Controllers,
           \/ DieWhileAcquiring(c) \/ Crash(c) \/ ProviderExits(c)
    PROVE  TypeOK' /\ Known'
<1>1. CASE DieWhileAcquiring(c)
  <2>1. ctl' \in [Controllers -> CtlRecord]
    BY <1>1, GotoTyped, PcsKnown DEF DieWhileAcquiring
  <2>2. lease' \in [Resources -> Controllers \cup {None}]
    BY <1>1 DEF DieWhileAcquiring, AcquireLeases, TypeOK
  <2>3. OwnStep(c)
    BY <1>1 DEF DieWhileAcquiring, At, Goto, OwnStep, TypeOK, CtlRecord
  <2> QED BY <1>1, <2>1, <2>2, <2>3, KnownKept DEF DieWhileAcquiring, TypeOK, records
<1>2. CASE Crash(c)
  <2>1. ctl' \in [Controllers -> CtlRecord]
    BY <1>2, GotoTyped, PcsKnown DEF Crash
  <2>2. prov' \in [Controllers -> ProvStates]
    BY <1>2 DEF Crash, KilledProvider, TypeOK, ProvStates
  <2>3. OwnStep(c)
    BY <1>2 DEF Crash, Live, Goto, OwnStep, TypeOK, CtlRecord
  <2> QED BY <1>2, <2>1, <2>2, <2>3, KnownKept DEF Crash, TypeOK, records
<1>3. CASE ProviderExits(c)
  <2>1. prov' \in [Controllers -> ProvStates]
    BY <1>3 DEF ProviderExits, TypeOK, ProvStates
  <2>2. ctl[c].run \in Runs
    BY DEF TypeOK, CtlRecord
  <2>3. result' \in [Lanes -> Runs]
    BY <1>3, <2>2 DEF ProviderExits, TypeOK
  <2>4. Known'
    BY <1>3 DEF ProviderExits, Known
  <2> QED BY <1>3, <2>1, <2>3, <2>4 DEF ProviderExits, TypeOK
<1> QED BY <1>1, <1>2, <1>3

LEMMA CommandDiesTypes ==
    ASSUME TypeOK, Known, NEW k \in Commands, CommandDies(k)
    PROVE  TypeOK' /\ Known'
<1>1. cmd' \in [Commands -> CmdRecord]
    BY FinishTyped DEF CommandDies
<1>2. SameControllers
    BY DEF CommandDies, SameControllers
<1>3. Known'
    BY <1>2, FinishKnown DEF CommandDies
<1> QED BY <1>1, <1>3 DEF CommandDies, TypeOK, records

LEMMA ReviewTypes ==
    ASSUME TypeOK, Known, NEW l \in Lanes, CompletionReview(l)
    PROVE  TypeOK' /\ Known'
<1>1. lane[l].run \in Runs
    BY DEF TypeOK, LaneRecord
<1>2. PICK approval \in {"ACCEPTED", "REJECTED"} :
         chain' = [chain EXCEPT ![l] = [run |-> lane[l].run, approval |-> approval]]
    BY DEF CompletionReview
<1>3. chain' \in [Lanes -> ChainRecord]
    BY <1>1, <1>2 DEF TypeOK, ChainRecord
<1> QED BY <1>3 DEF CompletionReview, TypeOK, Known

LEMMA TypeNext ==
    ASSUME TypeOK, Known, [Next]_vars
    PROVE  TypeOK' /\ Known'
<1>1. ASSUME NEW c \in Controllers, ControllerStep(c)
      PROVE  TypeOK' /\ Known'
  <2>1. Known'
    BY <1>1, ControllerFrame, KnownKept
  <2>2. TypeOK'
    BY <1>1, StartupTypes, RefuseTypes, AttemptTypes, JudgeTypes DEF ControllerStep
  <2> QED BY <2>1, <2>2
<1>2. ASSUME NEW k \in Commands, CommandStep(k) \/ ClearInterrupted(k)
      PROVE  TypeOK' /\ Known'
  <2>1. ASSUME NEW l \in Lanes,
               \/ RunLaunch(k, l) \/ RunForceStop(k, l) \/ RunRetire(k, l)
               \/ RunResume(k, l) \/ ShutdownLane(k, l)
        PROVE  TypeOK' /\ Known'
    BY <2>1, LaunchTypes, ForceStopTypes, RetireTypes, ResumeTypes, ShutdownTypes
  <2>2. CASE RecordController(k) \/ RecordFailed(k) \/ LaunchOk(k) \/ LaunchFailed(k)
    BY <2>2, LaunchTypes
  <2>3. CASE KillController(k) \/ CleanBoundary(k) \/ ForceStopRelease(k) \/ ForceStopRetire(k)
    BY <2>3, ForceStopTypes
  <2>4. CASE RetireCheck(k) \/ RetireRefused(k) \/ RetireRelease(k) \/ RetireLane(k)
    BY <2>4, RetireTypes
  <2>5. CASE \/ MarkResuming(k) \/ ClearPriorRun(k) \/ ClearInterrupted(k)
             \/ WriteInvocation(k) \/ ReplaceRun(k)
    BY <2>5, ResumeTypes
  <2>6. CASE RunShutdown(k) \/ ShutdownRelease(k) \/ ShutdownRetire(k) \/ ShutdownClose(k)
    BY <2>6, ShutdownTypes
  <2>7. CASE SpawnController(k)
    BY <2>7, SpawnTypes
  <2> QED BY <1>2, <2>1, <2>2, <2>3, <2>4, <2>5, <2>6, <2>7 DEF CommandStep
<1>3. ASSUME NEW r \in Resources, ForceReleaseLease(r)
      PROVE  TypeOK' /\ Known'
    BY <1>3 DEF ForceReleaseLease, TypeOK, Known, records
<1>4. CASE UNCHANGED vars
    BY <1>4 DEF vars, records, TypeOK, Known
<1> QED BY <1>1, <1>2, <1>3, <1>4, EnvironmentTypes, CommandDiesTypes, ReviewTypes DEF Next

\* Every record of the epoch keeps its shape (TypeOK), for every number of
\* lanes, controllers, commands, runs and corrections.
THEOREM TypeCorrect == Spec => []TypeOK
<1>1. Init => TypeOK /\ Known
    BY TypeInit
<1>2. TypeOK /\ Known /\ [Next]_vars => (TypeOK /\ Known)'
    BY TypeNext
<1> QED BY <1>1, <1>2, PTL DEF Spec

----------------------------------------------------------------------------
(***************************************************************************)
(* A supervised lane keeps its leases (SupervisedLeasesHeld), for every    *)
(* set of lanes, resources, controllers and commands, when a lane with a   *)
(* live controller is not launched again and two commands do not work on   *)
(* one lane at once.  The inductive invariant is SupervisionInv of LaneRun: *)
(* a lane has at most one live controller, the lane record (or the launch  *)
(* that is about to write it) names that controller, and every command     *)
(* that releases leases knows that its lane has no live controller.        *)
(***************************************************************************)

\* A live controller has a lane, and a supervising one is live.
LEMMA SupervisingIsLive ==
    ASSUME NEW c \in Controllers, Supervising(c)
    PROVE  Live(c)
BY NoneAssumption DEF Supervising, Live

----------------------------------------------------------------------------
(* Steps that leave every command alone.                                   *)

\* No controller becomes live or changes its lane.
NoneRevived ==
    \A c \in Controllers :
        /\ ctl'[c].lane = ctl[c].lane
        /\ Live(c)' => Live(c)

\* A lane record that names another process than before names the lane's only
\* live controller.
ProcessKept ==
    \A c \in Controllers :
        Live(c)' => \/ lane'[ctl[c].lane].process = lane[ctl[c].lane].process
                    \/ lane'[ctl[c].lane].process = c

LEMMA UniqueKept ==
    ASSUME UniqueSupervisor, NoneRevived
    PROVE  UniqueSupervisor'
BY DEF UniqueSupervisor, NoneRevived

LEMMA OnlyLiveKept ==
    ASSUME NoneRevived, NEW l, NEW p, OnlyLive(l, p)
    PROVE  \A c \in Controllers : Live(c)' /\ ctl'[c].lane = l => c = p
BY DEF OnlyLive, NoneRevived

LEMMA ViewKept ==
    ASSUME NoneRevived, NEW k \in Commands, View(k), cmd'[k] = cmd[k],
           Step(k, "launch", "record") => cmd[k].child \in Controllers
    PROVE  View(k)'
<1> DEFINE q == cmd[k]
<1>1. ASSUME NEW p, OnlyLive(q.lane, p)
      PROVE  \A c \in Controllers : Live(c)' /\ ctl'[c].lane = q.lane => c = p
    BY <1>1, OnlyLiveKept
<1>2. Step(k, "launch", "record") => ctl'[cmd[k].child].lane = ctl[cmd[k].child].lane
    BY DEF NoneRevived
<1> QED BY <1>1, <1>2 DEF View, Step, OnlyLive

LEMMA QuietCommands ==
    ASSUME Known, UniqueSupervisor, RecordedProcess, SerialCommands, CommandView,
           cmd' = cmd, NoneRevived, ProcessKept
    PROVE  UniqueSupervisor' /\ RecordedProcess' /\ SerialCommands' /\ CommandView'
<1>1. UniqueSupervisor'
    BY UniqueKept
<1>2. RecordedProcess'
    BY DEF RecordedProcess, NoneRevived, ProcessKept, Step
<1>3. SerialCommands'
    BY DEF SerialCommands
<1>4. CommandView'
    BY ViewKept DEF CommandView, Known, Step
<1> QED BY <1>1, <1>2, <1>3, <1>4

\* Leases stay as they are, and no controller starts to supervise.
LEMMA HeldKept ==
    ASSUME SupervisedLeasesHeld, lease' = lease,
           \A c \in Controllers : /\ ctl'[c].lane = ctl[c].lane
                                  /\ Supervising(c)' => Supervising(c)
    PROVE  SupervisedLeasesHeld'
BY DEF SupervisedLeasesHeld
----------------------------------------------------------------------------
(* The controller's steps.                                                 *)

Quiet ==
    /\ cmd' = cmd /\ lease' = lease
    /\ NoneRevived /\ ProcessKept
    /\ \A c \in Controllers : Supervising(c)' => Supervising(c)

LEMMA QuietKeeps ==
    ASSUME SupervisionInv, Quiet
    PROVE  /\ UniqueSupervisor' /\ RecordedProcess' /\ SerialCommands' /\ CommandView'
           /\ SupervisedLeasesHeld'
<1>1. UniqueSupervisor' /\ RecordedProcess' /\ SerialCommands' /\ CommandView'
    BY QuietCommands DEF SupervisionInv, Quiet
<1>2. SupervisedLeasesHeld'
    BY HeldKept DEF SupervisionInv, Quiet, NoneRevived
<1> QED BY <1>1, <1>2

SameProcess == \A l \in Lanes : lane'[l].process = lane[l].process

LEMMA OwnQuiet ==
    ASSUME Known, NEW c \in Controllers, OwnStep(c), Live(c), SameProcess, lease' = lease,
           Supervising(c)' => Supervising(c)
    PROVE  Quiet
<1>1. NoneRevived
    BY DEF OwnStep, NoneRevived, Live
<1>2. ProcessKept
    BY <1>1 DEF ProcessKept, SameProcess, NoneRevived, Known, Live
<1>3. \A d \in Controllers : Supervising(d)' => Supervising(d)
    BY DEF OwnStep, Supervising
<1> QED BY <1>1, <1>2, <1>3 DEF Quiet, OwnStep

\* One field of a lane record other than the process changes.
LEMMA LaneWritten ==
    ASSUME TypeOK, NEW l, NEW v,
           \/ lane' = lane
           \/ lane' = [lane EXCEPT ![l].lifecycle = v]
           \/ lane' = [lane EXCEPT ![l].session = v]
    PROVE  SameProcess
<1>1. lane \in [Lanes -> LaneRecord]
    BY DEF TypeOK
<1>2. CASE lane' = [lane EXCEPT ![l].lifecycle = v]
    BY <1>1, <1>2 DEF LaneRecord, SameProcess
<1>3. CASE lane' = [lane EXCEPT ![l].session = v]
    BY <1>1, <1>3 DEF LaneRecord, SameProcess
<1> QED BY <1>2, <1>3 DEF SameProcess

\* Every step of a controller but the ones that own the lane, give it back,
\* acquire the leases or release them.
LEMMA QuietController ==
    ASSUME TypeOK, Known, NEW c \in Controllers, OwnStep(c),
           \/ FindActiveLane(c) \/ WriteStarting(c) \/ WriteIdentity(c) \/ BindingFailed(c)
           \/ LeaseBusy(c) \/ LeaseWriteFailed(c) \/ WriteRunning(c) \/ SpawnProvider(c)
           \/ ProviderNotCreated(c) \/ BuildArgvFailed(c) \/ RecordBoundary(c) \/ BoundaryFailed(c)
           \/ ProviderRaised(c) \/ AttemptRaised(c) \/ Exit(c) \/ RecordProvider(c)
           \/ ShutdownStop(c) \/ EndStream(c) \/ WriteProviderExited(c) \/ CleanupProven(c)
           \/ CleanupUnproven(c) \/ ValidResult(c) \/ NoResult(c) \/ Correct(c)
           \/ LaneReviewPending(c) \/ LaneResultInvalid(c) \/ StopWaiting(c) \/ LaneAccepted(c)
    PROVE  Quiet
<1> USE NoneAssumption DEF At, Goto, Live, Supervising
<1>1. CASE FindActiveLane(c)
  <2>1. SameProcess
    BY <1>1 DEF FindActiveLane, SameProcess, records
  <2>2. Live(c) /\ (Supervising(c)' => Supervising(c))
    BY <1>1 DEF FindActiveLane, TypeOK, CtlRecord
  <2> QED BY <1>1, <2>1, <2>2, OwnQuiet DEF FindActiveLane
<1>2. CASE WriteStarting(c)
  <2>1. SameProcess
    BY <1>2 DEF WriteStarting, SameProcess, records
  <2>2. Live(c) /\ (Supervising(c)' => Supervising(c))
    BY <1>2 DEF WriteStarting, TypeOK, CtlRecord
  <2> QED BY <1>2, <2>1, <2>2, OwnQuiet DEF WriteStarting
<1>3. CASE WriteIdentity(c)
  <2>1. SameProcess
    BY <1>3 DEF WriteIdentity, SameProcess, records
  <2>2. Live(c) /\ (Supervising(c)' => Supervising(c))
    BY <1>3 DEF WriteIdentity, TypeOK, CtlRecord
  <2> QED BY <1>3, <2>1, <2>2, OwnQuiet DEF WriteIdentity
<1>4. CASE BindingFailed(c)
  <2>1. SameProcess
    BY <1>4 DEF BindingFailed, Refuse, SameProcess, records
  <2>2. Live(c) /\ (Supervising(c)' => Supervising(c))
    BY <1>4 DEF BindingFailed, Refuse, TypeOK, CtlRecord
  <2> QED BY <1>4, <2>1, <2>2, OwnQuiet DEF BindingFailed, Refuse
<1>5. CASE LeaseBusy(c)
  <2>1. SameProcess
    BY <1>5 DEF LeaseBusy, Refuse, SameProcess, records
  <2>2. Live(c) /\ (Supervising(c)' => Supervising(c))
    BY <1>5 DEF LeaseBusy, Refuse, TypeOK, CtlRecord
  <2> QED BY <1>5, <2>1, <2>2, OwnQuiet DEF LeaseBusy, Refuse
<1>6. CASE LeaseWriteFailed(c)
  <2>1. SameProcess
    BY <1>6 DEF LeaseWriteFailed, Refuse, SameProcess, records
  <2>2. Live(c) /\ (Supervising(c)' => Supervising(c))
    BY <1>6 DEF LeaseWriteFailed, Refuse, TypeOK, CtlRecord
  <2> QED BY <1>6, <2>1, <2>2, OwnQuiet DEF LeaseWriteFailed, Refuse
<1>7. CASE WriteRunning(c)
  <2>1. SameProcess
    BY <1>7 DEF WriteRunning, SameProcess, records
  <2>2. Live(c) /\ (Supervising(c)' => Supervising(c))
    BY <1>7 DEF WriteRunning, TypeOK, CtlRecord
  <2> QED BY <1>7, <2>1, <2>2, OwnQuiet DEF WriteRunning
<1>8. CASE SpawnProvider(c)
  <2>1. SameProcess
    BY <1>8 DEF SpawnProvider, SameProcess, records
  <2>2. Live(c) /\ (Supervising(c)' => Supervising(c))
    BY <1>8 DEF SpawnProvider, TypeOK, CtlRecord
  <2> QED BY <1>8, <2>1, <2>2, OwnQuiet DEF SpawnProvider
<1>9. CASE ProviderNotCreated(c)
  <2>1. SameProcess
    BY <1>9 DEF ProviderNotCreated, SameProcess, records
  <2>2. Live(c) /\ (Supervising(c)' => Supervising(c))
    BY <1>9 DEF ProviderNotCreated, TypeOK, CtlRecord
  <2> QED BY <1>9, <2>1, <2>2, OwnQuiet DEF ProviderNotCreated
<1>10. CASE BuildArgvFailed(c)
  <2>1. SameProcess
    BY <1>10 DEF BuildArgvFailed, SameProcess, records
  <2>2. Live(c) /\ (Supervising(c)' => Supervising(c))
    BY <1>10 DEF BuildArgvFailed, TypeOK, CtlRecord
  <2> QED BY <1>10, <2>1, <2>2, OwnQuiet DEF BuildArgvFailed
<1>11. CASE RecordBoundary(c)
  <2>1. SameProcess
    BY <1>11 DEF RecordBoundary, SameProcess, records
  <2>2. Live(c) /\ (Supervising(c)' => Supervising(c))
    BY <1>11 DEF RecordBoundary, TypeOK, CtlRecord
  <2> QED BY <1>11, <2>1, <2>2, OwnQuiet DEF RecordBoundary
<1>12. CASE BoundaryFailed(c)
  <2>1. SameProcess
    BY <1>12 DEF BoundaryFailed, SameProcess, records
  <2>2. Live(c) /\ (Supervising(c)' => Supervising(c))
    BY <1>12 DEF BoundaryFailed, TypeOK, CtlRecord
  <2> QED BY <1>12, <2>1, <2>2, OwnQuiet DEF BoundaryFailed
<1>13. CASE ProviderRaised(c)
  <2>1. SameProcess
    BY <1>13 DEF ProviderRaised, SameProcess, records
  <2>2. Live(c) /\ (Supervising(c)' => Supervising(c))
    BY <1>13 DEF ProviderRaised, TypeOK, CtlRecord
  <2> QED BY <1>13, <2>1, <2>2, OwnQuiet DEF ProviderRaised
<1>14. CASE AttemptRaised(c)
  <2>1. SameProcess
    BY <1>14 DEF AttemptRaised, SameProcess, records
  <2>2. Live(c) /\ (Supervising(c)' => Supervising(c))
    BY <1>14 DEF AttemptRaised, TypeOK, CtlRecord
  <2> QED BY <1>14, <2>1, <2>2, OwnQuiet DEF AttemptRaised
<1>15. CASE Exit(c)
  <2>1. SameProcess
    BY <1>15 DEF Exit, SameProcess, records
  <2>2. Live(c) /\ (Supervising(c)' => Supervising(c))
    BY <1>15 DEF Exit, TypeOK, CtlRecord
  <2> QED BY <1>15, <2>1, <2>2, OwnQuiet DEF Exit
<1>16. CASE RecordProvider(c)
  <2>1. SameProcess
    BY <1>16 DEF RecordProvider, SameProcess, records
  <2>2. Live(c) /\ (Supervising(c)' => Supervising(c))
    BY <1>16 DEF RecordProvider, TypeOK, CtlRecord
  <2> QED BY <1>16, <2>1, <2>2, OwnQuiet DEF RecordProvider
<1>17. CASE ShutdownStop(c)
  <2>1. SameProcess
    BY <1>17 DEF ShutdownStop, SameProcess, records
  <2>2. Live(c) /\ (Supervising(c)' => Supervising(c))
    BY <1>17 DEF ShutdownStop, TypeOK, CtlRecord
  <2> QED BY <1>17, <2>1, <2>2, OwnQuiet DEF ShutdownStop
<1>18. CASE EndStream(c)
  <2>1. SameProcess
    BY <1>18, LaneWritten DEF EndStream, SetLifecycle
  <2>2. Live(c) /\ (Supervising(c)' => Supervising(c))
    BY <1>18 DEF EndStream, TypeOK, CtlRecord
  <2> QED BY <1>18, <2>1, <2>2, OwnQuiet DEF EndStream
<1>19. CASE WriteProviderExited(c)
  <2>1. SameProcess
    BY <1>19 DEF WriteProviderExited, SameProcess, records
  <2>2. Live(c) /\ (Supervising(c)' => Supervising(c))
    BY <1>19 DEF WriteProviderExited, TypeOK, CtlRecord
  <2> QED BY <1>19, <2>1, <2>2, OwnQuiet DEF WriteProviderExited
<1>20. CASE CleanupProven(c)
  <2>1. SameProcess
    BY <1>20 DEF CleanupProven, SameProcess, records
  <2>2. Live(c) /\ (Supervising(c)' => Supervising(c))
    BY <1>20 DEF CleanupProven, TypeOK, CtlRecord
  <2> QED BY <1>20, <2>1, <2>2, OwnQuiet DEF CleanupProven
<1>21. CASE CleanupUnproven(c)
  <2>1. SameProcess
    BY <1>21 DEF CleanupUnproven, SameProcess, records
  <2>2. Live(c) /\ (Supervising(c)' => Supervising(c))
    BY <1>21 DEF CleanupUnproven, TypeOK, CtlRecord
  <2> QED BY <1>21, <2>1, <2>2, OwnQuiet DEF CleanupUnproven
<1>22. CASE ValidResult(c)
  <2>1. SameProcess
    BY <1>22 DEF ValidResult, SameProcess, records
  <2>2. Live(c) /\ (Supervising(c)' => Supervising(c))
    BY <1>22 DEF ValidResult, TypeOK, CtlRecord
  <2> QED BY <1>22, <2>1, <2>2, OwnQuiet DEF ValidResult
<1>23. CASE NoResult(c)
  <2>1. SameProcess
    BY <1>23, LaneWritten DEF NoResult, SetLifecycle
  <2>2. Live(c) /\ (Supervising(c)' => Supervising(c))
    BY <1>23 DEF NoResult, TypeOK, CtlRecord
  <2> QED BY <1>23, <2>1, <2>2, OwnQuiet DEF NoResult
<1>24. CASE Correct(c)
  <2>1. SameProcess
    BY <1>24, LaneWritten DEF Correct, SetLifecycle
  <2>2. Live(c) /\ (Supervising(c)' => Supervising(c))
    BY <1>24 DEF Correct, TypeOK, CtlRecord
  <2> QED BY <1>24, <2>1, <2>2, OwnQuiet DEF Correct
<1>25. CASE LaneReviewPending(c)
  <2>1. SameProcess
    BY <1>25, LaneWritten DEF LaneReviewPending, SetLifecycle
  <2>2. Live(c) /\ (Supervising(c)' => Supervising(c))
    BY <1>25 DEF LaneReviewPending, TypeOK, CtlRecord
  <2> QED BY <1>25, <2>1, <2>2, OwnQuiet DEF LaneReviewPending
<1>26. CASE LaneResultInvalid(c)
  <2>1. SameProcess
    BY <1>26, LaneWritten DEF LaneResultInvalid, SetLifecycle
  <2>2. Live(c) /\ (Supervising(c)' => Supervising(c))
    BY <1>26 DEF LaneResultInvalid, TypeOK, CtlRecord
  <2> QED BY <1>26, <2>1, <2>2, OwnQuiet DEF LaneResultInvalid
<1>27. CASE StopWaiting(c)
  <2>1. SameProcess
    BY <1>27 DEF StopWaiting, SameProcess, records
  <2>2. Live(c) /\ (Supervising(c)' => Supervising(c))
    BY <1>27 DEF StopWaiting, TypeOK, CtlRecord
  <2> QED BY <1>27, <2>1, <2>2, OwnQuiet DEF StopWaiting
<1>28. CASE LaneAccepted(c)
  <2>1. SameProcess
    BY <1>28, LaneWritten DEF LaneAccepted, SetLifecycle
  <2>2. Live(c) /\ (Supervising(c)' => Supervising(c))
    BY <1>28 DEF LaneAccepted, TypeOK, CtlRecord
  <2> QED BY <1>28, <2>1, <2>2, OwnQuiet DEF LaneAccepted
<1> QED BY <1>1, <1>2, <1>3, <1>4, <1>5, <1>6, <1>7, <1>8, <1>9, <1>10, <1>11, <1>12, <1>13, <1>14, <1>15, <1>16, <1>17, <1>18, <1>19, <1>20, <1>21, <1>22, <1>23, <1>24, <1>25, <1>26, <1>27, <1>28

LEMMA OwnLaneQuiet ==
    ASSUME TypeOK, Known, UniqueSupervisor, NEW c \in Controllers, OwnStep(c), OwnLane(c)
    PROVE  Quiet
<1>1. Live(c) /\ ctl'[c].pc = "owned" /\ lease' = lease
    BY NoneAssumption DEF OwnLane, At, Live, TypeOK, CtlRecord
<1>2. NoneRevived
    BY <1>1 DEF OwnStep, NoneRevived, Live
<1>3. \A l \in Lanes : lane'[l].process = IF l = ctl[c].lane THEN c ELSE lane[l].process
  <2>1. lane \in [Lanes -> LaneRecord]
    BY DEF TypeOK
  <2>2. lane' = [lane EXCEPT ![ctl[c].lane].lifecycle = "running", ![ctl[c].lane].process = c]
    BY DEF OwnLane
  <2> QED BY <2>1, <2>2 DEF LaneRecord
<1>4. ProcessKept
    BY <1>1, <1>2, <1>3 DEF ProcessKept, NoneRevived, UniqueSupervisor, Known, Live
<1>5. \A d \in Controllers : Supervising(d)' => Supervising(d)
    BY <1>1 DEF OwnStep, Supervising
<1> QED BY <1>1, <1>2, <1>4, <1>5 DEF Quiet, OwnStep

LEMMA UnprepareQuiet ==
    ASSUME TypeOK, Known, UniqueSupervisor, NEW c \in Controllers, OwnStep(c), Unprepare(c)
    PROVE  Quiet
<1>1. Live(c) /\ ctl'[c].pc = "exited" /\ lease' = lease
    BY NoneAssumption DEF Unprepare, At, Goto, Live, TypeOK, CtlRecord
<1>2. NoneRevived
    BY <1>1 DEF OwnStep, NoneRevived, Live
<1>3. \A l \in Lanes : l # ctl[c].lane => lane'[l].process = lane[l].process
    BY DEF Unprepare, TypeOK, LaneRecord
<1>4. ~Live(c)'
    BY <1>1 DEF Live
<1>5. ProcessKept
    BY <1>1, <1>2, <1>3, <1>4 DEF ProcessKept, NoneRevived, UniqueSupervisor, Known, Live
<1>6. \A d \in Controllers : Supervising(d)' => Supervising(d)
    BY <1>1 DEF OwnStep, Supervising
<1> QED BY <1>1, <1>2, <1>5, <1>6 DEF Quiet, OwnStep

\* Taking leases that nobody holds disturbs no supervised lane.
LEMMA AcquireKeepsOthers ==
    ASSUME SupervisedLeasesHeld, TypeOK, Known,
           NEW c \in Controllers, NEW S \in SUBSET Resources, LeasesFree(c),
           S \subseteq Declared[ctl[c].lane], AcquireLeases(c, S),
           NEW d \in Controllers, Supervising(d)
    PROVE  \A r \in Declared[ctl[d].lane] : lease'[r] = d
<1>1. Declared[ctl[d].lane] \subseteq Resources
    BY DeclaredAssumption, SupervisingIsLive DEF Known, Live
<1>2. \A r \in Declared[ctl[d].lane] : lease[r] = d
    BY DEF SupervisedLeasesHeld
<1>3. \A r \in Declared[ctl[d].lane] : r \notin S
    BY <1>1, <1>2, NoneAssumption DEF LeasesFree
<1> QED BY <1>1, <1>2, <1>3 DEF AcquireLeases

LEMMA AcquireHeld ==
    ASSUME TypeOK, Known, SupervisedLeasesHeld, NEW c \in Controllers, OwnStep(c), Acquire(c)
    PROVE  SupervisedLeasesHeld'
<1>1. ctl[c].pc = "bound" /\ ctl'[c].pc = "leased"
    BY DEF Acquire, At, Goto, TypeOK, CtlRecord
<1>2. Declared[ctl[c].lane] \subseteq Resources
    BY <1>1, DeclaredAssumption DEF Known
<1>3. \A r \in Declared[ctl[c].lane] : lease'[r] = c
    BY <1>2 DEF Acquire, AcquireLeases
<1>4. ASSUME NEW d \in Controllers, d # c, Supervising(d)'
      PROVE  \A r \in Declared[ctl[d].lane] : lease'[r] = d
  <2>1. Supervising(d)
    BY <1>4 DEF OwnStep, Supervising
  <2> QED BY <1>2, <2>1, AcquireKeepsOthers DEF Acquire
<1> QED BY <1>3, <1>4 DEF SupervisedLeasesHeld, OwnStep

LEMMA AcquireKeeps ==
    ASSUME TypeOK, SupervisionInv, NEW c \in Controllers, OwnStep(c), Acquire(c)
    PROVE  /\ UniqueSupervisor' /\ RecordedProcess' /\ SerialCommands' /\ CommandView'
           /\ SupervisedLeasesHeld'
<1>1. NoneRevived
    BY NoneAssumption DEF Acquire, At, OwnStep, NoneRevived, Live
<1>2. ProcessKept
    BY DEF Acquire, records, ProcessKept
<1> QED BY <1>1, <1>2, QuietCommands, AcquireHeld DEF SupervisionInv, OwnStep

\* A controller that dies while it acquires supervises nothing.
LEMMA DieKeeps ==
    ASSUME TypeOK, SupervisionInv, NEW c \in Controllers, DieWhileAcquiring(c)
    PROVE  /\ UniqueSupervisor' /\ RecordedProcess' /\ SerialCommands' /\ CommandView'
           /\ SupervisedLeasesHeld'
<1>1. /\ ctl[c].pc = "bound" /\ ctl'[c].pc = "exited"
      /\ \A d \in Controllers : ctl'[d].lane = ctl[d].lane /\ (d # c => ctl'[d].pc = ctl[d].pc)
    BY DEF DieWhileAcquiring, At, Goto, TypeOK, CtlRecord
<1>2. NoneRevived
    BY <1>1, NoneAssumption DEF NoneRevived, Live
<1>3. ProcessKept
    BY DEF DieWhileAcquiring, records, ProcessKept
<1>4. Declared[ctl[c].lane] \subseteq Resources
    BY <1>1, DeclaredAssumption DEF SupervisionInv, Known
<1>5. PICK S \in SUBSET Resources : S \subseteq Declared[ctl[c].lane] /\ AcquireLeases(c, S)
    BY <1>4 DEF DieWhileAcquiring
<1>6. ASSUME NEW d \in Controllers, Supervising(d)'
      PROVE  \A r \in Declared[ctl[d].lane] : lease'[r] = d
  <2>1. Supervising(d)
    BY <1>1, <1>6 DEF Supervising
  <2> QED BY <1>5, <2>1, AcquireKeepsOthers DEF DieWhileAcquiring, SupervisionInv
<1>7. SupervisedLeasesHeld'
    BY <1>1, <1>6 DEF SupervisedLeasesHeld
<1> QED BY <1>2, <1>3, <1>7, QuietCommands DEF SupervisionInv, DieWhileAcquiring

\* Releasing leases of lane l disturbs no controller that supervises another lane.
LEMMA ReleaseKeepsOthers ==
    ASSUME TypeOK, Known, SupervisedLeasesHeld, NEW l, NEW run,
           ReleaseLeases(l, run) \/ ForceReleaseLeases(l),
           NEW d \in Controllers, Supervising(d), ctl[d].lane # l
    PROVE  \A r \in Declared[ctl[d].lane] : lease'[r] = d
<1>1. Declared[ctl[d].lane] \subseteq Resources
    BY DeclaredAssumption, SupervisingIsLive DEF Known, Live
<1>2. \A r \in Declared[ctl[d].lane] : lease[r] = d
    BY DEF SupervisedLeasesHeld
<1> QED BY <1>1, <1>2 DEF ReleaseLeases, ForceReleaseLeases

\* The controller gives back its own leases and stops supervising; the lane has no
\* other live controller whose leases would go with them.
LEMMA ReleaseKeeps ==
    ASSUME TypeOK, SupervisionInv, NEW c \in Controllers, OwnStep(c), ControllerRelease(c)
    PROVE  /\ UniqueSupervisor' /\ RecordedProcess' /\ SerialCommands' /\ CommandView'
           /\ SupervisedLeasesHeld'
<1>1. ctl[c].pc \in {"relValid", "noResult", "failed"}
    BY DEF ControllerRelease
<1>2. ctl'[c].pc \in {"review", "relNoResult", "exited"}
    BY DEF ControllerRelease, Goto, TypeOK, CtlRecord
<1>3. Live(c)
    BY <1>1, NoneAssumption DEF Live
<1>4. NoneRevived
    BY <1>3 DEF OwnStep, NoneRevived, Live
<1>5. ProcessKept
    BY DEF ControllerRelease, records, ProcessKept
<1>6. ASSUME NEW d \in Controllers, Supervising(d)'
      PROVE  \A r \in Declared[ctl[d].lane] : lease'[r] = d
  <2>1. d # c /\ Supervising(d)
    BY <1>2, <1>6 DEF OwnStep, Supervising
  <2>2. ctl[d].lane # ctl[c].lane
    BY <1>3, <2>1, SupervisingIsLive DEF SupervisionInv, UniqueSupervisor
  <2> QED BY <2>1, <2>2, ReleaseKeepsOthers DEF ControllerRelease, SupervisionInv
<1>7. SupervisedLeasesHeld'
    BY <1>6 DEF SupervisedLeasesHeld, OwnStep
<1> QED BY <1>4, <1>5, <1>7, QuietCommands DEF SupervisionInv, OwnStep

LEMMA ControllerKeeps ==
    ASSUME TypeOK, SupervisionInv, NEW c \in Controllers,
           ControllerStep(c) \/ DieWhileAcquiring(c) \/ Crash(c) \/ ProviderExits(c)
    PROVE  /\ UniqueSupervisor' /\ RecordedProcess' /\ SerialCommands' /\ CommandView'
           /\ SupervisedLeasesHeld'
<1>1. CASE ControllerStep(c)
  <2>1. OwnStep(c)
    BY <1>1, ControllerFrame
  <2>2. CASE OwnLane(c)
    BY <2>1, <2>2, OwnLaneQuiet, QuietKeeps DEF SupervisionInv
  <2>3. CASE Unprepare(c)
    BY <2>1, <2>3, UnprepareQuiet, QuietKeeps DEF SupervisionInv
  <2>4. CASE Acquire(c)
    BY <2>1, <2>4, AcquireKeeps
  <2>5. CASE ControllerRelease(c)
    BY <2>1, <2>5, ReleaseKeeps
  <2>6. CASE ~(OwnLane(c) \/ Unprepare(c) \/ Acquire(c) \/ ControllerRelease(c))
    <3>1. Known /\ Quiet
        BY <1>1, <2>1, <2>6, QuietController DEF ControllerStep, SupervisionInv
    <3> QED BY <3>1, QuietKeeps
  <2> QED BY <2>2, <2>3, <2>4, <2>5, <2>6
<1>2. CASE DieWhileAcquiring(c)
    BY <1>2, DieKeeps
<1>3. CASE Crash(c)
  <2>1. /\ ctl'[c].pc = "exited" /\ Live(c)
        /\ \A d \in Controllers : ctl'[d].lane = ctl[d].lane /\ (d # c => ctl'[d].pc = ctl[d].pc)
    BY <1>3 DEF Crash, Goto, TypeOK, CtlRecord
  <2>2. NoneRevived /\ \A d \in Controllers : Supervising(d)' => Supervising(d)
    BY <2>1 DEF NoneRevived, Live, Supervising
  <2>3. Quiet
    BY <1>3, <2>2 DEF Crash, records, Quiet, ProcessKept
  <2> QED BY <2>3, QuietKeeps
<1>4. CASE ProviderExits(c)
  <2>1. ctl' = ctl /\ lane' = lane /\ cmd' = cmd /\ lease' = lease
    BY <1>4 DEF ProviderExits
  <2>2. Quiet
    BY <2>1 DEF Quiet, NoneRevived, ProcessKept, Live, Supervising
  <2> QED BY <2>2, QuietKeeps
<1> QED BY <1>1, <1>2, <1>3, <1>4

----------------------------------------------------------------------------
(* The commands' steps.                                                    *)

\* The conclusion of the lemmas below.
Kept ==
    /\ UniqueSupervisor' /\ RecordedProcess' /\ SerialCommands' /\ CommandView'
    /\ SupervisedLeasesHeld'

\* No controller is live on lane l after the step.
LaneQuiet(l) == \A c \in Controllers : ~(Live(c)' /\ ctl'[c].lane = l)

LEMMA SameCtl ==
    ASSUME ctl' = ctl
    PROVE  /\ NoneRevived
           /\ \A c \in Controllers : Supervising(c)' => Supervising(c)
BY DEF NoneRevived, Live, Supervising

LEMMA SameProcessKept ==
    ASSUME Known, NoneRevived, SameProcess
    PROVE  ProcessKept
BY DEF Known, NoneRevived, SameProcess, ProcessKept, Live

\* What command k has to show; the other commands keep what they know.
LEMMA CommandFrame ==
    ASSUME TypeOK, SupervisionInv, NEW k \in Commands, NoneRevived, ProcessKept,
           \A j \in Commands : j # k => cmd'[j] = cmd[j],
           \A j \in Commands :
              j # k /\ cmd[j].pc # "idle" /\ cmd'[k].pc # "idle"
              => /\ cmd[j].kind # "shutdown" /\ cmd'[k].kind # "shutdown"
                 /\ cmd[j].lane # cmd'[k].lane,
           Step(k, "launch", "record") =>
              \A d \in Controllers :
                 Live(d)' /\ d = cmd[k].child => lane'[ctl[d].lane].process = d,
           View(k)'
    PROVE  UniqueSupervisor' /\ RecordedProcess' /\ SerialCommands' /\ CommandView'
<1>1. UniqueSupervisor'
    BY UniqueKept DEF SupervisionInv
<1>2. RecordedProcess'
  <2> SUFFICES ASSUME NEW d \in Controllers, Live(d)'
               PROVE  \/ lane'[ctl'[d].lane].process = d
                      \/ \E j \in Commands : Step(j, "launch", "record")' /\ cmd'[j].child = d
    BY DEF RecordedProcess
  <2>1. Live(d) /\ ctl'[d].lane = ctl[d].lane
    BY DEF NoneRevived
  <2>2. CASE lane[ctl[d].lane].process = d
    BY <2>1, <2>2 DEF ProcessKept
  <2>3. CASE \E j \in Commands : Step(j, "launch", "record") /\ cmd[j].child = d
    <3>1. PICK j \in Commands : Step(j, "launch", "record") /\ cmd[j].child = d
        BY <2>3
    <3>2. CASE j = k
        BY <2>1, <3>1, <3>2
    <3>3. CASE j # k
        BY <3>1, <3>3 DEF Step
    <3> QED BY <3>2, <3>3
  <2> QED BY <2>1, <2>2, <2>3 DEF SupervisionInv, RecordedProcess
<1>3. SerialCommands'
    BY DEF SupervisionInv, SerialCommands
<1>4. ASSUME NEW j \in Commands
      PROVE  View(j)'
  <2>1. CASE j = k
    BY <2>1
  <2>2. CASE j # k
    BY <2>2, ViewKept DEF SupervisionInv, CommandView, Known, Step
  <2> QED BY <2>1, <2>2
<1> QED BY <1>1, <1>2, <1>3, <1>4 DEF CommandView

\* A command ends.
LEMMA FinishKeeps ==
    ASSUME TypeOK, SupervisionInv, NEW k \in Commands, Finish(k),
           NoneRevived, ProcessKept, lease' = lease,
           \A c \in Controllers : Supervising(c)' => Supervising(c),
           Step(k, "launch", "record") =>
              \A d \in Controllers : d = cmd[k].child => ~Live(d)'
    PROVE  Kept
<1>1. Idle.pc = "idle" /\ Idle.kind = "none"
    BY DEF Idle
<1>2. cmd'[k].pc = "idle" /\ cmd'[k].kind = "none" /\ \A j \in Commands : j # k => cmd'[j] = cmd[j]
    BY <1>1 DEF Finish, TypeOK
<1>3. View(k)'
    BY <1>2 DEF View, Step
<1>4. UniqueSupervisor' /\ RecordedProcess' /\ SerialCommands' /\ CommandView'
    BY <1>2, <1>3, CommandFrame
<1>5. SupervisedLeasesHeld'
    BY HeldKept DEF SupervisionInv, NoneRevived
<1> QED BY <1>4, <1>5 DEF Kept

\* The same, when no controller and no lane record's process is touched.
LEMMA FinishQuietly ==
    ASSUME TypeOK, SupervisionInv, NEW k \in Commands, Finish(k), ~Step(k, "launch", "record"),
           ctl' = ctl, SameProcess, lease' = lease
    PROVE  Kept
<1>1. NoneRevived /\ \A c \in Controllers : Supervising(c)' => Supervising(c)
    BY SameCtl
<1>2. ProcessKept
    BY <1>1, SameProcessKept DEF SupervisionInv
<1> QED BY <1>1, <1>2, FinishKeeps

\* A command goes on to a position that presumes at most that no controller of
\* its lane is live.
LEMMA ContinueKeeps ==
    ASSUME TypeOK, SupervisionInv, NEW k \in Commands, NEW pc, Continue(k, pc),
           cmd[k].pc # "idle", ~Step(k, "launch", "record"),
           pc \notin {"spawn", "record", "handshake", "kill", "check"},
           pc # "survived" => LaneQuiet(cmd[k].lane),
           NoneRevived, ProcessKept
    PROVE  UniqueSupervisor' /\ RecordedProcess' /\ SerialCommands' /\ CommandView'
<1>1. \A j \in Commands : j # k => cmd'[j] = cmd[j]
    BY DEF Continue, TypeOK
<1>2. cmd'[k].pc = pc /\ cmd'[k].kind = cmd[k].kind /\ cmd'[k].lane = cmd[k].lane
    BY DEF Continue, TypeOK, CmdRecord
<1>3. \A j \in Commands :
         j # k /\ cmd[j].pc # "idle" /\ cmd'[k].pc # "idle"
         => /\ cmd[j].kind # "shutdown" /\ cmd'[k].kind # "shutdown"
            /\ cmd[j].lane # cmd'[k].lane
    BY <1>2 DEF SupervisionInv, SerialCommands
<1>4. View(k)'
    BY <1>2 DEF View, Step, OnlyLive, LaneQuiet
<1> QED BY <1>1, <1>3, <1>4, CommandFrame

\* The same, when only the command and perhaps lifecycles change.
LEMMA ContinueQuietly ==
    ASSUME TypeOK, SupervisionInv, NEW k \in Commands, NEW pc, Continue(k, pc),
           cmd[k].pc # "idle", ~Step(k, "launch", "record"),
           pc \notin {"spawn", "record", "handshake", "kill", "check"},
           OnlyLive(cmd[k].lane, None), ctl' = ctl, SameProcess, lease' = lease
    PROVE  Kept
<1>1. NoneRevived /\ \A c \in Controllers : Supervising(c)' => Supervising(c)
    BY SameCtl
<1>2. ProcessKept
    BY <1>1, SameProcessKept DEF SupervisionInv
<1>3. LaneQuiet(cmd[k].lane)
    BY <1>1, NoneAssumption DEF LaneQuiet, NoneRevived, OnlyLive
<1>4. UniqueSupervisor' /\ RecordedProcess' /\ SerialCommands' /\ CommandView'
    BY <1>1, <1>2, <1>3, ContinueKeeps
<1>5. SupervisedLeasesHeld'
    BY <1>1, HeldKept DEF SupervisionInv, NoneRevived
<1> QED BY <1>4, <1>5 DEF Kept

\* A command that knows its lane has no live controller releases the lane's leases.
LEMMA CommandRelease ==
    ASSUME TypeOK, SupervisionInv, NEW k \in Commands, NEW run,
           cmd[k].pc = "release", Continue(k, "retire"),
           ReleaseLeases(cmd[k].lane, run) \/ ForceReleaseLeases(cmd[k].lane),
           UNCHANGED <<records, ctl>>
    PROVE  Kept
<1>1. NoneRevived /\ \A c \in Controllers : Supervising(c)' => Supervising(c)
    BY SameCtl
<1>2. ProcessKept
    BY DEF records, ProcessKept
<1>3. OnlyLive(cmd[k].lane, None)
    BY DEF SupervisionInv, CommandView, View
<1>4. LaneQuiet(cmd[k].lane)
    BY <1>1, <1>3, NoneAssumption DEF LaneQuiet, NoneRevived, OnlyLive
<1>5. UniqueSupervisor' /\ RecordedProcess' /\ SerialCommands' /\ CommandView'
    BY <1>1, <1>2, <1>4, ContinueKeeps DEF Step
<1>6. ASSUME NEW d \in Controllers, Supervising(d)'
      PROVE  \A r \in Declared[ctl'[d].lane] : lease'[r] = d
  <2>1. Supervising(d)
    BY <1>1, <1>6
  <2>2. ctl[d].lane # cmd[k].lane
    BY <1>3, <2>1, SupervisingIsLive, NoneAssumption DEF OnlyLive
  <2> QED BY <2>1, <2>2, ReleaseKeepsOthers DEF SupervisionInv
<1>7. SupervisedLeasesHeld'
    BY <1>6 DEF SupervisedLeasesHeld
<1> QED BY <1>5, <1>7 DEF Kept

\* A command that starts on lane l finds in the lane record the only controller
\* that may be live: no launch is in between creating one and recording it.
LEMMA BeginView ==
    ASSUME TypeOK, SupervisionInv, ~Overlap, NEW k \in Commands, NEW l \in Lanes, Begin(k, l)
    PROVE  OnlyLive(l, lane[l].process)
<1> SUFFICES ASSUME NEW c \in Controllers, Live(c), ctl[c].lane = l
             PROVE  c = lane[l].process
    BY DEF OnlyLive
<1>1. CASE \E j \in Commands : Step(j, "launch", "record") /\ cmd[j].child = c
    BY <1>1 DEF Begin, SupervisionInv, CommandView, View
<1> QED BY <1>1 DEF SupervisionInv, RecordedProcess

\* A command starts on lane l.
LEMMA StartKeeps ==
    ASSUME TypeOK, SupervisionInv, ~Overlap, NEW k \in Commands, NEW l \in Lanes, Begin(k, l),
           NEW new, cmd' = [cmd EXCEPT ![k] = new],
           new.lane = l, new.kind # "shutdown", new.pc \notin {"record", "handshake"},
           new.pc \in {"kill", "check"} => new.snap.process = lane[l].process,
           new.pc \notin {"kill", "check"} => OnlyLive(l, None),
           lane' = lane, lease' = lease, ctl' = ctl
    PROVE  Kept
<1>1. NoneRevived /\ \A c \in Controllers : Supervising(c)' => Supervising(c)
    BY SameCtl
<1>2. ProcessKept
    BY DEF ProcessKept
<1>3. cmd'[k] = new /\ \A j \in Commands : j # k => cmd'[j] = cmd[j]
    BY DEF TypeOK
<1>4. cmd[k].pc = "idle" /\ \A j \in Commands : cmd[j].lane # l /\ cmd[j].kind # "shutdown"
    BY DEF Begin
<1>5. OnlyLive(l, lane[l].process)
    BY BeginView
<1>6. View(k)'
  <2>1. \A p : OnlyLive(l, p) => \A c \in Controllers : Live(c)' /\ ctl'[c].lane = l => c = p
    BY <1>1, OnlyLiveKept
  <2> QED BY <1>3, <1>5, <2>1 DEF View, Step, OnlyLive
<1>7. UniqueSupervisor' /\ RecordedProcess' /\ SerialCommands' /\ CommandView'
    BY <1>1, <1>2, <1>3, <1>4, <1>6, CommandFrame DEF Step
<1>8. SupervisedLeasesHeld'
    BY <1>1, HeldKept DEF SupervisionInv, NoneRevived
<1> QED BY <1>7, <1>8 DEF Kept

\* The commands that start on a lane.
LEMMA StartsKeep ==
    ASSUME TypeOK, SupervisionInv, ~Overlap, ~Relaunch, NEW k \in Commands, NEW l \in Lanes,
           RunLaunch(k, l) \/ RunForceStop(k, l) \/ RunRetire(k, l) \/ RunResume(k, l)
    PROVE  Kept
<1>1. OnlyLive(l, lane[l].process)
    BY BeginView DEF RunLaunch, RunForceStop, RunRetire, RunResume
<1>2. CASE RunLaunch(k, l)
  <2> DEFINE new == [Idle EXCEPT !.kind = "launch", !.pc = "spawn", !.lane = l, !.snap = lane[l]]
  <2>1. cmd' = [cmd EXCEPT ![k] = new]
    BY <1>2 DEF RunLaunch, Start
  <2>2. new.lane = l /\ new.kind = "launch" /\ new.pc = "spawn"
    BY BegunFields
  <2>3. OnlyLive(l, None)
    BY <1>2 DEF RunLaunch, ControllersOf, OnlyLive
  <2> HIDE DEF new
  <2> QED BY <1>2, <2>1, <2>2, <2>3, StartKeeps DEF RunLaunch, records
<1>3. CASE RunForceStop(k, l) /\ lane[l].process = None /\ ~StatusOf(l, lane[l].run).present
  <2> DEFINE new == [Idle EXCEPT !.kind = "force-stop", !.pc = "release", !.lane = l,
                                 !.snap = lane[l]]
  <2>1. cmd' = [cmd EXCEPT ![k] = new]
    BY <1>3 DEF RunForceStop, Start
  <2>2. new.lane = l /\ new.kind = "force-stop" /\ new.pc = "release"
    BY BegunFields
  <2> HIDE DEF new
  <2> QED BY <1>1, <1>3, <2>1, <2>2, StartKeeps DEF RunForceStop, records
<1>4. CASE RunForceStop(k, l) /\ ~(lane[l].process = None /\ ~StatusOf(l, lane[l].run).present)
  <2> DEFINE new == [Idle EXCEPT !.kind = "force-stop", !.pc = "kill", !.lane = l,
                                 !.snap = lane[l], !.st = StatusOf(l, lane[l].run)]
  <2>1. cmd' = [cmd EXCEPT ![k] = new]
    BY <1>4 DEF RunForceStop
  <2>2. new.lane = l /\ new.kind = "force-stop" /\ new.pc = "kill" /\ new.snap = lane[l]
    BY BegunFields
  <2> HIDE DEF new
  <2> QED BY <1>4, <2>1, <2>2, StartKeeps DEF RunForceStop, records
<1>5. CASE RunRetire(k, l)
  <2> DEFINE new == [Idle EXCEPT !.kind = "retire", !.pc = "check", !.lane = l, !.snap = lane[l]]
  <2>1. cmd' = [cmd EXCEPT ![k] = new]
    BY <1>5 DEF RunRetire, Start
  <2>2. new.lane = l /\ new.kind = "retire" /\ new.pc = "check" /\ new.snap = lane[l]
    BY BegunFields
  <2> HIDE DEF new
  <2> QED BY <1>5, <2>1, <2>2, StartKeeps DEF RunRetire, records
<1>6. CASE RunResume(k, l)
  <2> DEFINE new == [Idle EXCEPT !.kind = "resume", !.pc = "mark", !.lane = l,
                                 !.snap = lane[l], !.run = issued[l] + 1]
  <2>1. cmd' = [cmd EXCEPT ![k] = new]
    BY <1>6 DEF RunResume
  <2>2. new.lane = l /\ new.kind = "resume" /\ new.pc = "mark"
    BY BegunFields
  <2>3. OnlyLive(l, None)
    BY <1>1, <1>6 DEF RunResume, LiveController, OnlyLive
  <2> HIDE DEF new
  <2> QED BY <1>6, <2>1, <2>2, <2>3, StartKeeps DEF RunResume
<1> QED BY <1>2, <1>3, <1>4, <1>5, <1>6

\* The controller a launch creates is the only live one of its lane.
LEMMA SpawnKeeps ==
    ASSUME TypeOK, SupervisionInv, NEW k \in Commands, SpawnController(k)
    PROVE  Kept
<1>1. PICK c \in Controllers :
         /\ ctl[c].pc = "absent"
         /\ ctl' = [ctl EXCEPT ![c].pc = "spawned", ![c].lane = cmd[k].lane]
         /\ cmd' = [cmd EXCEPT ![k].pc = "record", ![k].child = c]
    BY DEF SpawnController
<1>2. /\ ctl'[c].pc = "spawned" /\ ctl'[c].lane = cmd[k].lane
      /\ \A d \in Controllers : d # c => ctl'[d] = ctl[d]
    BY <1>1 DEF TypeOK, CtlRecord
<1>3. /\ cmd'[k].pc = "record" /\ cmd'[k].child = c /\ cmd'[k].kind = cmd[k].kind
      /\ cmd'[k].lane = cmd[k].lane
      /\ \A j \in Commands : j # k => cmd'[j] = cmd[j]
    BY <1>1 DEF TypeOK, CmdRecord
<1>4. cmd[k].kind = "launch" /\ cmd[k].pc = "spawn" /\ lane' = lane /\ lease' = lease
    BY DEF SpawnController, Step, records
<1>5. \A d \in Controllers : ~(Live(d) /\ ctl[d].lane = cmd[k].lane)
    BY <1>4, NoneAssumption DEF SupervisionInv, CommandView, View, Step, OnlyLive
<1>6. \A d \in Controllers : Live(d)' => d = c \/ (Live(d) /\ ctl'[d] = ctl[d])
    BY <1>2 DEF Live
<1>7. UniqueSupervisor'
    BY <1>2, <1>5, <1>6 DEF SupervisionInv, UniqueSupervisor
<1>8. RecordedProcess'
  <2> SUFFICES ASSUME NEW d \in Controllers, Live(d)'
               PROVE  \/ lane'[ctl'[d].lane].process = d
                      \/ \E j \in Commands : Step(j, "launch", "record")' /\ cmd'[j].child = d
    BY DEF RecordedProcess
  <2>1. CASE d = c
    BY <1>3, <1>4, <2>1 DEF Step
  <2>2. CASE d # c
    <3>1. Live(d) /\ ctl'[d] = ctl[d]
        BY <1>6, <2>2
    <3>2. \/ lane[ctl[d].lane].process = d
          \/ \E j \in Commands : Step(j, "launch", "record") /\ cmd[j].child = d
        BY <3>1 DEF SupervisionInv, RecordedProcess
    <3>3. \A j \in Commands : Step(j, "launch", "record") => cmd'[j] = cmd[j]
        BY <1>3, <1>4 DEF Step
    <3> QED BY <1>4, <3>1, <3>2, <3>3 DEF Step
  <2> QED BY <2>1, <2>2
<1>9. SerialCommands'
    BY <1>3, <1>4 DEF SupervisionInv, SerialCommands
<1>10. ASSUME NEW j \in Commands
       PROVE  View(j)'
  <2>1. CASE j = k
    BY <1>2, <1>3, <1>5, <1>6, <2>1 DEF View, Step, OnlyLive
  <2>2. CASE j # k /\ cmd[j].pc = "idle"
    BY <1>3, <2>2 DEF View, Step
  <2>3. CASE j # k /\ cmd[j].pc # "idle"
    <3>1. cmd[j].lane # cmd[k].lane /\ cmd'[j] = cmd[j]
        BY <1>3, <1>4, <2>3 DEF SupervisionInv, SerialCommands
    <3>2. ASSUME NEW p, OnlyLive(cmd[j].lane, p)
          PROVE  \A d \in Controllers : Live(d)' /\ ctl'[d].lane = cmd[j].lane => d = p
        BY <1>2, <1>6, <3>1, <3>2 DEF OnlyLive
    <3>3. Step(j, "launch", "record") => /\ cmd[j].child \in Controllers
                                         /\ ctl[cmd[j].child].pc # "absent"
        BY DEF SupervisionInv, Known, Step
    <3>4. Step(j, "launch", "record") => ctl'[cmd[j].child] = ctl[cmd[j].child]
        BY <1>1, <1>2, <3>3
    <3>5. View(j)
        BY DEF SupervisionInv, CommandView
    <3> QED BY <3>1, <3>2, <3>4, <3>5 DEF View, Step, OnlyLive
  <2> QED BY <2>1, <2>2, <2>3
<1>11. SupervisedLeasesHeld'
    BY <1>2, <1>4 DEF SupervisionInv, SupervisedLeasesHeld, Supervising
<1> QED BY <1>7, <1>8, <1>9, <1>10, <1>11 DEF Kept, CommandView

\* The launch's other steps.
LEMMA LaunchKeeps ==
    ASSUME TypeOK, SupervisionInv, NEW k \in Commands,
           RecordController(k) \/ RecordFailed(k) \/ LaunchOk(k) \/ LaunchFailed(k)
    PROVE  Kept
<1>1. CASE RecordController(k)
  <2> DEFINE l == cmd[k].lane
  <2>1. Step(k, "launch", "record") /\ l \in Lanes /\ ctl' = ctl /\ lease' = lease
    BY <1>1 DEF RecordController, Step, SupervisionInv, Known
  <2>2. OnlyLive(l, cmd[k].child)
    BY <2>1 DEF SupervisionInv, CommandView, View
  <2>3. NoneRevived /\ \A c \in Controllers : Supervising(c)' => Supervising(c)
    BY <2>1, SameCtl
  <2>4. \A m \in Lanes : lane'[m].process = IF m = l THEN cmd[k].child ELSE lane[m].process
    <3>1. lane \in [Lanes -> LaneRecord]
        BY DEF TypeOK
    <3>2. lane' = [lane EXCEPT ![l].lifecycle = "running", ![l].process = cmd[k].child]
        BY <1>1 DEF RecordController
    <3> QED BY <3>1, <3>2 DEF LaneRecord
  <2>5. \A d \in Controllers :
           Live(d)' => /\ ctl[d].lane \in Lanes
                       /\ ctl[d].lane = l => lane'[ctl[d].lane].process = d
    BY <2>2, <2>3, <2>4 DEF OnlyLive, NoneRevived, SupervisionInv, Known, Live
  <2>6. ProcessKept
    BY <2>4, <2>5 DEF ProcessKept
  <2>7. /\ cmd'[k].pc = "handshake" /\ cmd'[k].kind = "launch" /\ cmd'[k].lane = l
        /\ cmd'[k].child = cmd[k].child
        /\ \A j \in Commands : j # k => cmd'[j] = cmd[j]
    BY <1>1, <2>1 DEF RecordController, Step, TypeOK, CmdRecord
  <2>8. View(k)'
    BY <2>2, <2>3, <2>7, OnlyLiveKept DEF View, Step, OnlyLive
  <2>9. ctl[cmd[k].child].lane = l
    BY <2>1 DEF SupervisionInv, CommandView, View
  <2>10. \A j \in Commands :
            j # k /\ cmd[j].pc # "idle" /\ cmd'[k].pc # "idle"
            => /\ cmd[j].kind # "shutdown" /\ cmd'[k].kind # "shutdown"
               /\ cmd[j].lane # cmd'[k].lane
    BY <2>1, <2>7 DEF SupervisionInv, SerialCommands, Step
  <2>11. UniqueSupervisor' /\ RecordedProcess' /\ SerialCommands' /\ CommandView'
    BY <2>3, <2>5, <2>6, <2>7, <2>8, <2>9, <2>10, CommandFrame
  <2>12. SupervisedLeasesHeld'
    BY <2>1, <2>3, HeldKept DEF SupervisionInv, NoneRevived
  <2> QED BY <2>11, <2>12 DEF Kept
<1>2. ASSUME NEW c, c = cmd[k].child, cmd[k].pc \in {"record", "handshake"},
             cmd[k].kind = "launch", Finish(k), lease' = lease,
             ctl' = [ctl EXCEPT ![c].pc = "exited"],
             \A m \in Lanes : m # cmd[k].lane => lane'[m].process = lane[m].process
      PROVE  Kept
  <2>1. c \in Controllers /\ ctl[c].pc # "absent" /\ cmd[k].lane \in Lanes
    BY <1>2 DEF SupervisionInv, Known
  <2>2. /\ ctl'[c].pc = "exited"
        /\ \A d \in Controllers : ctl'[d].lane = ctl[d].lane /\ (d # c => ctl'[d] = ctl[d])
    BY <1>2, <2>1 DEF TypeOK, CtlRecord
  <2>3. NoneRevived /\ ~Live(c)' /\ \A d \in Controllers : Supervising(d)' => Supervising(d)
    BY <2>2 DEF NoneRevived, Live, Supervising
  <2>4. OnlyLive(cmd[k].lane, c)
    BY <1>2 DEF SupervisionInv, CommandView, View, Step
  <2>5. ProcessKept
    BY <1>2, <2>1, <2>3, <2>4 DEF ProcessKept, NoneRevived, OnlyLive, SupervisionInv, Known, Live
  <2> QED BY <1>2, <2>3, <2>5, FinishKeeps
<1>3. CASE RecordFailed(k)
    BY <1>2, <1>3 DEF RecordFailed, Step, records
<1>4. CASE LaunchOk(k)
    BY <1>4, FinishQuietly DEF LaunchOk, Step, SameProcess, records
<1>5. CASE LaunchFailed(k) /\ ctl' = ctl /\ lane' = lane
    BY <1>5, FinishQuietly DEF LaunchFailed, Step, SameProcess
<1>6. CASE LaunchFailed(k) /\ ctl' = [ctl EXCEPT ![cmd[k].child].pc = "exited"]
  <2>1. \/ lane' = [lane EXCEPT ![cmd[k].lane].process = None]
        \/ lane' = lane
    BY <1>6 DEF LaunchFailed
  <2>2. \A m \in Lanes : m # cmd[k].lane => lane'[m].process = lane[m].process
    BY <2>1 DEF TypeOK
  <2>3. cmd[k].kind = "launch" /\ cmd[k].pc = "handshake" /\ Finish(k) /\ lease' = lease
    BY <1>6 DEF LaunchFailed, Step
  <2> QED BY <1>2, <1>6, <2>2, <2>3
<1>7. LaunchFailed(k) => \/ ctl' = ctl /\ lane' = lane
                         \/ ctl' = [ctl EXCEPT ![cmd[k].child].pc = "exited"]
    BY DEF LaunchFailed
<1> QED BY <1>1, <1>3, <1>4, <1>5, <1>6, <1>7

\* force-stop: the controller is killed before anything is released.
LEMMA ForceStopKeeps ==
    ASSUME TypeOK, SupervisionInv, NEW k \in Commands,
           KillController(k) \/ CleanBoundary(k) \/ ForceStopRelease(k) \/ ForceStopRetire(k)
    PROVE  Kept
<1>1. CASE KillController(k)
  <2> DEFINE c == cmd[k].snap.process
  <2>1. cmd[k].kind = "force-stop" /\ cmd[k].pc = "kill" /\ lease' = lease /\ lane' = lane
    BY <1>1 DEF KillController, Step, records
  <2>2. OnlyLive(cmd[k].lane, c)
    BY <2>1 DEF SupervisionInv, CommandView, View
  <2>3. c \in Controllers \cup {None}
    BY DEF TypeOK, CmdRecord, LaneRecord
  <2>4. \/ Live(c) /\ ctl' = [ctl EXCEPT ![c].pc = "exited"] /\ Continue(k, "clean")
        \/ ctl' = ctl /\ Continue(k, "survived")
        \/ ~Live(c) /\ ctl' = ctl /\ Continue(k, "clean")
    BY <1>1 DEF KillController
  <2>5. CASE Live(c) /\ ctl' = [ctl EXCEPT ![c].pc = "exited"] /\ Continue(k, "clean")
    <3>1. c \in Controllers
        BY <2>3, <2>5 DEF Live
    <3>2. /\ ctl'[c].pc = "exited"
          /\ \A d \in Controllers : ctl'[d].lane = ctl[d].lane /\ (d # c => ctl'[d] = ctl[d])
        BY <2>5, <3>1 DEF TypeOK, CtlRecord
    <3>3. NoneRevived /\ \A d \in Controllers : Supervising(d)' => Supervising(d)
      <4> HIDE DEF c
      <4> QED BY <2>5, <3>2 DEF NoneRevived, Live, Supervising
    <3>4. ProcessKept
        BY <2>1 DEF ProcessKept
    <3>5. LaneQuiet(cmd[k].lane)
        BY <2>2, <3>2, <3>3 DEF LaneQuiet, OnlyLive, NoneRevived, Live
    <3>6. UniqueSupervisor' /\ RecordedProcess' /\ SerialCommands' /\ CommandView'
        BY <2>1, <2>5, <3>3, <3>4, <3>5, ContinueKeeps DEF Step
    <3>7. SupervisedLeasesHeld'
        BY <2>1, <3>3, HeldKept DEF SupervisionInv, NoneRevived
    <3> QED BY <3>6, <3>7 DEF Kept
  <2>6. CASE ctl' = ctl /\ Continue(k, "survived")
    <3>1. NoneRevived /\ \A d \in Controllers : Supervising(d)' => Supervising(d)
        BY <2>6, SameCtl
    <3>2. ProcessKept
        BY <2>1 DEF ProcessKept
    <3>3. UniqueSupervisor' /\ RecordedProcess' /\ SerialCommands' /\ CommandView'
        BY <2>1, <2>6, <3>1, <3>2, ContinueKeeps DEF Step
    <3>4. SupervisedLeasesHeld'
        BY <2>1, <3>1, HeldKept DEF SupervisionInv, NoneRevived
    <3> QED BY <3>3, <3>4 DEF Kept
  <2>7. CASE ~Live(c) /\ ctl' = ctl /\ Continue(k, "clean")
    <3>1. OnlyLive(cmd[k].lane, None)
        BY <2>2, <2>7 DEF OnlyLive
    <3> QED BY <2>1, <2>7, <3>1, ContinueQuietly DEF Step, SameProcess
  <2> QED BY <2>4, <2>5, <2>6, <2>7
<1>2. CASE CleanBoundary(k)
  <2>1. /\ cmd[k].kind = "force-stop" /\ cmd[k].pc \in {"clean", "survived"}
        /\ ctl' = ctl /\ lane' = lane /\ lease' = lease
        /\ Finish(k) \/ (cmd[k].pc = "clean" /\ Continue(k, "release"))
    BY <1>2 DEF CleanBoundary, BoundaryCleaned, records
  <2>2. CASE Finish(k)
    BY <2>1, <2>2, FinishQuietly DEF Step, SameProcess
  <2>3. CASE cmd[k].pc = "clean" /\ Continue(k, "release")
    <3>1. OnlyLive(cmd[k].lane, None)
        BY <2>3 DEF SupervisionInv, CommandView, View
    <3> QED BY <2>1, <2>3, <3>1, ContinueQuietly DEF Step, SameProcess
  <2> QED BY <2>1, <2>2, <2>3
<1>3. CASE ForceStopRelease(k)
    BY <1>3, CommandRelease DEF ForceStopRelease, Step
<1>4. CASE ForceStopRetire(k)
  <2>1. SameProcess
    BY <1>4, LaneWritten DEF ForceStopRetire
  <2> QED BY <1>4, <2>1, FinishQuietly DEF ForceStopRetire, Step
<1> QED BY <1>1, <1>2, <1>3, <1>4

\* retire: what it checks leaves no live controller on the lane.
LEMMA RetireKeeps ==
    ASSUME TypeOK, SupervisionInv, NEW k \in Commands,
           RetireCheck(k) \/ RetireRefused(k) \/ RetireRelease(k) \/ RetireLane(k)
    PROVE  Kept
<1>1. CASE RetireCheck(k)
  <2>1. OnlyLive(cmd[k].lane, cmd[k].snap.process)
    BY <1>1 DEF RetireCheck, Step, SupervisionInv, CommandView, View
  <2>2. OnlyLive(cmd[k].lane, None)
    BY <1>1, <2>1 DEF RetireCheck, CleanupEvidence, OnlyLive
  <2> QED BY <1>1, <2>2, ContinueQuietly DEF RetireCheck, Step, SameProcess, records
<1>2. CASE RetireRefused(k)
    BY <1>2, FinishQuietly DEF RetireRefused, Step, SameProcess, records
<1>3. CASE RetireRelease(k)
    BY <1>3, CommandRelease DEF RetireRelease, Step
<1>4. CASE RetireLane(k)
  <2>1. SameProcess
    BY <1>4, LaneWritten DEF RetireLane
  <2> QED BY <1>4, <2>1, FinishQuietly DEF RetireLane, Step
<1> QED BY <1>1, <1>2, <1>3, <1>4

\* resume-lane: it replaces the record of a lane without a live controller.
LEMMA ResumeKeeps ==
    ASSUME TypeOK, SupervisionInv, NEW k \in Commands,
           \/ MarkResuming(k) \/ ClearPriorRun(k) \/ ClearInterrupted(k)
           \/ WriteInvocation(k) \/ ReplaceRun(k)
    PROVE  Kept
<1>1. /\ cmd[k].kind = "resume" /\ cmd[k].pc \in {"mark", "clear", "invocation", "replace"}
      /\ ctl' = ctl /\ lease' = lease
    BY DEF MarkResuming, ClearPriorRun, ClearInterrupted, WriteInvocation, ReplaceRun, Step
<1>2. OnlyLive(cmd[k].lane, None)
    BY <1>1 DEF SupervisionInv, CommandView, View
<1>3. ASSUME SameProcess,
             \/ Finish(k)
             \/ Continue(k, "clear") \/ Continue(k, "invocation") \/ Continue(k, "replace")
      PROVE  Kept
    BY <1>1, <1>2, <1>3, FinishQuietly, ContinueQuietly DEF Step
<1>4. CASE MarkResuming(k)
  <2>1. SameProcess
    BY <1>4, LaneWritten DEF MarkResuming
  <2> QED BY <1>3, <1>4, <2>1 DEF MarkResuming
<1>5. CASE ClearPriorRun(k) \/ ClearInterrupted(k) \/ WriteInvocation(k)
    BY <1>3, <1>5 DEF ClearPriorRun, ClearInterrupted, WriteInvocation, SameProcess
<1>6. CASE ReplaceRun(k)
  <2>1. \A m \in Lanes : m # cmd[k].lane => lane'[m].process = lane[m].process
    BY <1>6 DEF ReplaceRun, TypeOK
  <2>2. NoneRevived /\ \A c \in Controllers : Supervising(c)' => Supervising(c)
    BY <1>1, SameCtl
  <2>3. ProcessKept
    BY <1>2, <2>1, <2>2, NoneAssumption
       DEF ProcessKept, NoneRevived, OnlyLive, SupervisionInv, Known, Live
  <2> QED BY <1>1, <1>6, <2>2, <2>3, FinishKeeps DEF ReplaceRun, Step
<1> QED BY <1>4, <1>5, <1>6

\* harness shutdown: it works alone, lane by lane.
LEMMA ShutdownKeeps ==
    ASSUME TypeOK, SupervisionInv, ~Overlap, NEW k \in Commands, NEW l,
           \/ RunShutdown(k) \/ (l \in Lanes /\ ShutdownLane(k, l)) \/ ShutdownRelease(k)
           \/ ShutdownRetire(k) \/ ShutdownClose(k)
    PROVE  Kept
<1>1. CASE ShutdownRelease(k)
    BY <1>1, CommandRelease DEF ShutdownRelease, Step
<1>2. CASE ShutdownClose(k)
    BY <1>2, FinishQuietly DEF ShutdownClose, Step, SameProcess
<1>3. CASE Finish(k) /\ l \in Lanes /\ ShutdownLane(k, l)
    BY <1>3, FinishQuietly DEF ShutdownLane, Step, SameProcess, records
<1>4. ASSUME NEW new, cmd' = [cmd EXCEPT ![k] = new], new.pc \in {"lane", "release"},
             new.kind = "shutdown", \A j \in Commands : j # k => cmd[j].pc = "idle",
             ~Step(k, "launch", "record"),
             new.pc = "release" => OnlyLive(new.lane, None),
             ctl' = ctl, SameProcess, lease' = lease
      PROVE  Kept
  <2>1. NoneRevived /\ \A c \in Controllers : Supervising(c)' => Supervising(c)
    BY <1>4, SameCtl
  <2>2. ProcessKept
    BY <1>4, <2>1, SameProcessKept DEF SupervisionInv
  <2>3. cmd'[k] = new /\ \A j \in Commands : j # k => cmd'[j] = cmd[j]
    BY <1>4 DEF TypeOK
  <2>4. View(k)'
    BY <1>4, <2>1, <2>3, OnlyLiveKept DEF View, Step, OnlyLive
  <2>5. UniqueSupervisor' /\ RecordedProcess' /\ SerialCommands' /\ CommandView'
    BY <1>4, <2>1, <2>2, <2>3, <2>4, CommandFrame
  <2>6. SupervisedLeasesHeld'
    BY <1>4, <2>1, HeldKept DEF SupervisionInv, NoneRevived
  <2> QED BY <2>5, <2>6 DEF Kept
<1>5. CASE RunShutdown(k)
  <2> DEFINE new == [Idle EXCEPT !.kind = "shutdown", !.pc = "lane",
                                 !.todo = IF epochOpen THEN Lanes ELSE {}]
  <2>1. cmd' = [cmd EXCEPT ![k] = new]
    BY <1>5 DEF RunShutdown
  <2>2. new.pc = "lane" /\ new.kind = "shutdown"
    BY BegunFields
  <2> HIDE DEF new
  <2> QED BY <1>4, <1>5, <2>1, <2>2 DEF RunShutdown, Step, SameProcess
<1>6. ASSUME Step(k, "shutdown", "lane") \/ Step(k, "shutdown", "retire"),
             NEW j \in Commands, j # k
      PROVE  cmd[j].pc = "idle"
    BY <1>6 DEF Step, SupervisionInv, SerialCommands
<1>7. CASE l \in Lanes /\ ShutdownLane(k, l) /\ ~Finish(k)
  <2>1. Step(k, "shutdown", "lane") /\ ctl' = ctl /\ lane' = lane /\ lease' = lease
    BY <1>7 DEF ShutdownLane, records
  <2>2. cmd[k] \in CmdRecord
    BY DEF TypeOK
  <2>3. CASE cmd' = [cmd EXCEPT ![k].todo = @ \ {l}]
    <3> DEFINE new == [cmd[k] EXCEPT !.todo = @ \ {l}]
    <3>1. cmd' = [cmd EXCEPT ![k] = new]
        BY <2>3 DEF TypeOK
    <3>2. new.pc = "lane" /\ new.kind = "shutdown"
        BY <2>1, <2>2 DEF Step, CmdRecord
    <3> HIDE DEF new
    <3> QED BY <1>4, <1>6, <2>1, <3>1, <3>2 DEF Step, SameProcess
  <2>4. CASE /\ cmd' = [cmd EXCEPT ![k].pc = "release", ![k].lane = l, ![k].snap = lane[l]]
             /\ ~Live(lane[l].process)
    <3> DEFINE new == [[[cmd[k] EXCEPT !.pc = "release"] EXCEPT !.lane = l] EXCEPT !.snap = lane[l]]
    <3>1. cmd' = [cmd EXCEPT ![k] = new]
        BY <2>4 DEF TypeOK
    <3>2. new.pc = "release" /\ new.kind = "shutdown" /\ new.lane = l
        BY <2>1, <2>2 DEF Step, CmdRecord
    <3>3. ASSUME NEW c \in Controllers, Live(c), ctl[c].lane = l
          PROVE  FALSE
      <4>1. \A j \in Commands : ~Step(j, "launch", "record")
        BY <1>6, <2>1 DEF Step
      <4> QED BY <2>4, <3>3, <4>1 DEF SupervisionInv, RecordedProcess
    <3>4. OnlyLive(l, None)
        BY <3>3 DEF OnlyLive
    <3> HIDE DEF new
    <3> QED BY <1>4, <1>6, <2>1, <3>1, <3>2, <3>4 DEF Step, SameProcess
  <2> QED BY <1>7, <2>3, <2>4 DEF ShutdownLane, CleanupEvidence
<1>8. CASE ShutdownRetire(k)
  <2> DEFINE new == [[[cmd[k] EXCEPT !.pc = "lane"] EXCEPT !.todo = @ \ {cmd[k].lane}]
                       EXCEPT !.lane = None]
  <2>1. cmd' = [cmd EXCEPT ![k] = new]
    BY <1>8 DEF ShutdownRetire, TypeOK
  <2>2. cmd[k] \in CmdRecord /\ Step(k, "shutdown", "retire") /\ ctl' = ctl /\ lease' = lease
    BY <1>8 DEF ShutdownRetire, TypeOK
  <2>3. new.pc = "lane" /\ new.kind = "shutdown"
    BY <2>2 DEF Step, CmdRecord
  <2>4. SameProcess
    BY <1>8, LaneWritten DEF ShutdownRetire
  <2> HIDE DEF new
  <2> QED BY <1>4, <1>6, <2>1, <2>2, <2>3, <2>4 DEF Step
<1> QED BY <1>1, <1>2, <1>3, <1>5, <1>7, <1>8

\* force-release never takes the lease of a live holder.
LEMMA ForceReleaseKeeps ==
    ASSUME TypeOK, SupervisionInv, NEW r \in Resources, ForceReleaseLease(r)
    PROVE  Kept
<1>1. ctl' = ctl /\ cmd' = cmd /\ lane' = lane
    BY DEF ForceReleaseLease, records
<1>2. NoneRevived /\ \A c \in Controllers : Supervising(c)' => Supervising(c)
    BY <1>1, SameCtl
<1>3. ProcessKept
    BY <1>1 DEF ProcessKept
<1>4. UniqueSupervisor' /\ RecordedProcess' /\ SerialCommands' /\ CommandView'
    BY <1>1, <1>2, <1>3, QuietCommands DEF SupervisionInv
<1>5. ASSUME NEW c \in Controllers, Supervising(c)'
      PROVE  \A x \in Declared[ctl'[c].lane] : lease'[x] = c
  <2>1. Supervising(c) /\ Live(c)
    BY <1>2, <1>5, SupervisingIsLive
  <2>2. \A x \in Declared[ctl[c].lane] : x \in Resources /\ lease[x] = c
    BY <2>1, DeclaredAssumption DEF SupervisionInv, SupervisedLeasesHeld, Known, Live
  <2>3. r \notin Declared[ctl[c].lane]
    BY <2>1, <2>2 DEF ForceReleaseLease, HolderGone
  <2> QED BY <1>1, <2>2, <2>3 DEF ForceReleaseLease, TypeOK
<1>6. SupervisedLeasesHeld'
    BY <1>5 DEF SupervisedLeasesHeld
<1> QED BY <1>4, <1>6 DEF Kept

LEMMA SupervisionInit == Init => SupervisionInv
<1> SUFFICES ASSUME Init
             PROVE  SupervisionInv
    OBVIOUS
<1>1. \A c \in Controllers : ctl[c].pc = "absent"
    BY DEF Init
<1>2. \A k \in Commands : cmd[k].pc = "idle" /\ cmd[k].kind = "none"
    BY DEF Init, Idle
<1>3. \A c \in Controllers : ~Live(c) /\ ~Supervising(c)
    BY <1>1 DEF Live, Supervising
<1>4. Known
    BY <1>1, <1>2 DEF Known
<1>5. UniqueSupervisor /\ RecordedProcess /\ SupervisedLeasesHeld
    BY <1>3 DEF UniqueSupervisor, RecordedProcess, SupervisedLeasesHeld
<1>6. SerialCommands /\ CommandView
    BY <1>2 DEF SerialCommands, CommandView, View, Step
<1> QED BY <1>4, <1>5, <1>6 DEF SupervisionInv

LEMMA SupervisionNext ==
    ASSUME TypeOK, SupervisionInv, ~Relaunch, ~Overlap, [Next]_vars
    PROVE  SupervisionInv'
<1>1. Known'
    BY TypeNext DEF SupervisionInv
<1>2. ASSUME NEW c \in Controllers,
             ControllerStep(c) \/ DieWhileAcquiring(c) \/ Crash(c) \/ ProviderExits(c)
      PROVE  Kept
    BY <1>2, ControllerKeeps DEF Kept
<1>3. ASSUME NEW k \in Commands, CommandStep(k) \/ ClearInterrupted(k)
      PROVE  Kept
  <2>1. ASSUME NEW l \in Lanes,
               \/ RunLaunch(k, l) \/ RunForceStop(k, l) \/ RunRetire(k, l)
               \/ RunResume(k, l) \/ ShutdownLane(k, l)
        PROVE  Kept
    BY <2>1, StartsKeep, ShutdownKeeps
  <2>2. CASE SpawnController(k)
    BY <2>2, SpawnKeeps
  <2>3. CASE RecordController(k) \/ RecordFailed(k) \/ LaunchOk(k) \/ LaunchFailed(k)
    BY <2>3, LaunchKeeps
  <2>4. CASE KillController(k) \/ CleanBoundary(k) \/ ForceStopRelease(k) \/ ForceStopRetire(k)
    BY <2>4, ForceStopKeeps
  <2>5. CASE RetireCheck(k) \/ RetireRefused(k) \/ RetireRelease(k) \/ RetireLane(k)
    BY <2>5, RetireKeeps
  <2>6. CASE \/ MarkResuming(k) \/ ClearPriorRun(k) \/ ClearInterrupted(k)
             \/ WriteInvocation(k) \/ ReplaceRun(k)
    BY <2>6, ResumeKeeps
  <2>7. CASE RunShutdown(k) \/ ShutdownRelease(k) \/ ShutdownRetire(k) \/ ShutdownClose(k)
    BY <2>7, ShutdownKeeps
  <2> QED BY <1>3, <2>1, <2>2, <2>3, <2>4, <2>5, <2>6, <2>7 DEF CommandStep
<1>4. ASSUME NEW k \in Commands, CommandDies(k)
      PROVE  Kept
    BY <1>4, FinishQuietly DEF CommandDies, SameProcess, records
<1>5. ASSUME NEW l \in Lanes, CompletionReview(l)
      PROVE  Kept
  <2>1. Quiet
    BY <1>5, SameCtl DEF CompletionReview, Quiet, ProcessKept
  <2> QED BY <2>1, QuietKeeps DEF Kept
<1>6. CASE UNCHANGED vars
  <2>1. Quiet
    BY <1>6, SameCtl DEF vars, records, Quiet, ProcessKept
  <2> QED BY <1>1, <2>1, QuietKeeps DEF SupervisionInv
<1>7. Kept => SupervisionInv'
    BY <1>1 DEF Kept, SupervisionInv
<1> QED BY <1>2, <1>3, <1>4, <1>5, <1>6, <1>7, ForceReleaseKeeps DEF Next

\* For every set of lanes, resources, controllers and commands: a controller that
\* has acquired its leases keeps every one of them until it releases them itself
\* (SupervisedLeasesHeld), when lanes are not launched twice and commands on one
\* lane do not overlap.
THEOREM LeasesHeld ==
    ASSUME ~Relaunch, ~Overlap
    PROVE  Spec => []SupervisedLeasesHeld
<1>1. Init => TypeOK /\ SupervisionInv
    BY TypeInit, SupervisionInit
<1>2. TypeOK /\ SupervisionInv /\ [Next]_vars => (TypeOK /\ SupervisionInv)'
    BY TypeNext, SupervisionNext DEF SupervisionInv
<1>3. SupervisionInv => SupervisedLeasesHeld
    BY DEF SupervisionInv
<1> QED BY <1>1, <1>2, <1>3, PTL DEF Spec

----------------------------------------------------------------------------
(***************************************************************************)
(* What a lane's records and resources mean while it is worked in, under   *)
(* the same two assumptions: the status file speaks of the lane's own run  *)
(* (StatusOfCurrentRun), a retired lane is not revived (RetiredIsFinal),   *)
(* and, where a provider dies with its controller, a provider has its lane *)
(* (OneWorkerPerLane) and its resources (ExclusiveUse) to itself until it  *)
(* is gone (ReleasesWhenGone).                                             *)
(***************************************************************************)

\* What a live controller writes is about the lane's own run, and the status
\* file is gone before a resume gives the lane another run.
RunKnown ==
    /\ \A c \in Controllers : Live(c) /\ ctl[c].pc # "spawned"
                                 => ctl[c].run = lane[ctl[c].lane].run
    /\ \A k \in Commands : cmd[k].kind = "resume" /\ cmd[k].pc \in {"invocation", "replace"}
                              => ~status[cmd[k].lane].present

RunInv == RunKnown /\ StatusOfCurrentRun

\* Nothing is at work in a retired lane that could write its lifecycle.
RetiredInv ==
    /\ \A c \in Controllers : Live(c) => lane[ctl[c].lane].lifecycle # "retired"
    /\ \A k \in Commands : cmd[k].kind = "launch" /\ cmd[k].pc \in {"spawn", "record", "handshake"}
                              => lane[cmd[k].lane].lifecycle # "retired"
    /\ \A k \in Commands : Step(k, "resume", "mark") => cmd[k].snap.lifecycle # "retired"

\* Where the controller is while its provider may still be there.
ProviderPcs == {"created", "recorded", "raised", "streaming", "ended", "judge", "relNoResult", "quit"}

ProviderAt == \A c \in Controllers : ProviderLive(c) => ctl[c].pc \in ProviderPcs

\* The status file names the provider of this very attempt.
Recorded(c) ==
    /\ status[ctl[c].lane].present
    /\ status[ctl[c].lane].boundary = [ctl |-> c, attempt |-> ctl[c].attempt]

\* The handler of an exception out of an attempt (AttemptRaised) judges the
\* provider by the boundary that names it, or has none to judge.
BoundaryKnown ==
    \A c \in Controllers :
        \/ ctl[c].pc \in {"recorded", "streaming"}
        \/ ctl[c].pc = "raised" /\ ProviderLive(c)
        => Recorded(c)

\* The resources of a provider that may still be there are leased to its
\* controller, also on the paths on which the controller gives up (relNoResult,
\* quit) and no longer supervises.
ProviderHolds ==
    \A c \in Controllers : ProviderLive(c) => \A r \in Declared[ctl[c].lane] : lease[r] = c

ProviderInv == ProviderAt /\ BoundaryKnown /\ ProviderHolds

----------------------------------------------------------------------------
(* A controller's step, as the records see it.                             *)

\* What _write_status starts from speaks of the controller's run.
LEMMA MergedRun ==
    ASSUME TypeOK, Known, NEW c \in Controllers, ctl[c].pc # "absent"
    PROVE  Merged(c) \in StatusRecord /\ Merged(c).run = ctl[c].run /\ Merged(c).present
<1>1. Merged(c) \in StatusRecord
    BY MergedTyped
<1>2. Merged(c).run = ctl[c].run /\ Merged(c).present
    BY DEF Merged, MergedStatus, FreshStatus, EmptyStatus
<1> QED BY <1>1, <1>2

\* The run the controller goes on with is the one it had or the lane's.
RunTaken(c) ==
    \/ ctl'[c].pc = "exited"
    \/ ctl'[c].run = ctl[c].run /\ ctl[c].pc # "spawned"
    \/ ctl'[c].run = lane[ctl[c].lane].run

\* Only the status of its own lane, and only about its own run.
StatusOwn(c) ==
    \A l \in Lanes : \/ status'[l] = status[l]
                     \/ l = ctl[c].lane /\ ctl[c].pc # "spawned" /\ status'[l].run = ctl[c].run

\* Only the lane record of its own lane, never its run, and never to retire it.
LaneOwn(c) ==
    \A l \in Lanes :
        /\ lane'[l].run = lane[l].run
        /\ \/ lane'[l].lifecycle = lane[l].lifecycle
           \/ l = ctl[c].lane /\ lane'[l].lifecycle # "retired"

OwnEffect(c) ==
    /\ \A d \in Controllers : d # c => ctl'[d] = ctl[d]
    /\ RunTaken(c) /\ StatusOwn(c) /\ LaneOwn(c)

LEMMA GotoEffect ==
    ASSUME TypeOK, NEW c \in Controllers, NEW pc, Goto(c, pc), ctl[c].pc # "spawned" \/ pc = "exited"
    PROVE  /\ \A d \in Controllers : d # c => ctl'[d] = ctl[d]
           /\ RunTaken(c)
BY DEF Goto, TypeOK, CtlRecord, RunTaken

LEMMA LaneUntouched ==
    ASSUME lane' = lane, NEW c \in Controllers
    PROVE  LaneOwn(c)
BY DEF LaneOwn

LEMMA StatusUntouched ==
    ASSUME status' = status, NEW c \in Controllers
    PROVE  StatusOwn(c)
BY DEF StatusOwn

LEMMA WriteEffect ==
    ASSUME TypeOK, NEW c \in Controllers, NEW new, new.run = ctl[c].run,
           ctl[c].pc # "spawned", WriteStatus(c, new)
    PROVE  StatusOwn(c)
BY DEF WriteStatus, TypeOK, StatusOwn

LEMMA LifecycleEffect ==
    ASSUME TypeOK, NEW c \in Controllers, NEW v, v # "retired", SetLifecycle(c, v)
    PROVE  LaneOwn(c)
<1>1. lane \in [Lanes -> LaneRecord] /\ lane' = [lane EXCEPT ![ctl[c].lane].lifecycle = v]
    BY DEF TypeOK, SetLifecycle
<1> QED BY <1>1 DEF LaneOwn, LaneRecord

LEMMA ProcessEffect ==
    ASSUME TypeOK, NEW c \in Controllers, NEW v, v # "retired", NEW p,
           lane' = [lane EXCEPT ![ctl[c].lane].lifecycle = v, ![ctl[c].lane].process = p]
    PROVE  LaneOwn(c)
<1>1. lane \in [Lanes -> LaneRecord]
    BY DEF TypeOK
<1> QED BY <1>1 DEF LaneOwn, LaneRecord

LEMMA SessionEffect ==
    ASSUME TypeOK, NEW c \in Controllers,
           lane' = [lane EXCEPT ![ctl[c].lane].session = "saved"] \/ lane' = lane
    PROVE  LaneOwn(c)
<1>1. lane \in [Lanes -> LaneRecord]
    BY DEF TypeOK
<1>2. CASE lane' = [lane EXCEPT ![ctl[c].lane].session = "saved"]
    BY <1>1, <1>2 DEF LaneOwn, LaneRecord
<1>3. CASE lane' = lane
    BY <1>3, LaneUntouched
<1> QED BY <1>2, <1>3

\* Start-up.
LEMMA StartupEffect ==
    ASSUME TypeOK, Known, NEW c \in Controllers,
           \/ FindActiveLane(c) \/ WriteStarting(c) \/ OwnLane(c) \/ WriteIdentity(c)
           \/ BindingFailed(c) \/ LeaseBusy(c) \/ LeaseWriteFailed(c) \/ Unprepare(c)
           \/ Acquire(c) \/ WriteRunning(c)
    PROVE  OwnEffect(c)
<1> USE DEF At
<1>1. CASE FindActiveLane(c)
  <2>1. (\A d \in Controllers : d # c => ctl'[d] = ctl[d]) /\ RunTaken(c)
    BY <1>1 DEF FindActiveLane, Goto, RunTaken, TypeOK, CtlRecord
  <2>2. StatusOwn(c)
    BY <1>1, StatusUntouched DEF FindActiveLane, records
  <2>3. LaneOwn(c)
    BY <1>1, LaneUntouched DEF FindActiveLane, records
  <2> QED BY <2>1, <2>2, <2>3 DEF OwnEffect
<1>2. CASE WriteStarting(c)
  <2>1. (\A d \in Controllers : d # c => ctl'[d] = ctl[d]) /\ RunTaken(c)
    BY <1>2, GotoEffect DEF WriteStarting
  <2>2. StatusOwn(c)
    BY <1>2, MergedRun, WriteEffect DEF WriteStarting, StatusRecord
  <2>3. LaneOwn(c)
    BY <1>2, LaneUntouched DEF WriteStarting, records
  <2> QED BY <2>1, <2>2, <2>3 DEF OwnEffect
<1>3. CASE OwnLane(c)
  <2>1. (\A d \in Controllers : d # c => ctl'[d] = ctl[d]) /\ RunTaken(c)
    BY <1>3 DEF OwnLane, Goto, RunTaken, TypeOK, CtlRecord
  <2>2. StatusOwn(c)
    BY <1>3, StatusUntouched DEF OwnLane, records
  <2>3. LaneOwn(c)
    BY <1>3, ProcessEffect DEF OwnLane
  <2> QED BY <2>1, <2>2, <2>3 DEF OwnEffect
<1>4. CASE WriteIdentity(c)
  <2>1. (\A d \in Controllers : d # c => ctl'[d] = ctl[d]) /\ RunTaken(c)
    BY <1>4, GotoEffect DEF WriteIdentity
  <2>2. StatusOwn(c)
    BY <1>4, MergedRun, WriteEffect DEF WriteIdentity, StatusRecord
  <2>3. LaneOwn(c)
    BY <1>4, LaneUntouched DEF WriteIdentity, records
  <2> QED BY <2>1, <2>2, <2>3 DEF OwnEffect
<1>5. CASE BindingFailed(c)
  <2>1. (\A d \in Controllers : d # c => ctl'[d] = ctl[d]) /\ RunTaken(c)
    BY <1>5, GotoEffect DEF BindingFailed, Refuse
  <2>2. StatusOwn(c)
    BY <1>5, MergedRun, WriteEffect DEF BindingFailed, Refuse, StatusRecord
  <2>3. LaneOwn(c)
    BY <1>5, LaneUntouched DEF BindingFailed, Refuse, records
  <2> QED BY <2>1, <2>2, <2>3 DEF OwnEffect
<1>6. CASE LeaseBusy(c)
  <2>1. (\A d \in Controllers : d # c => ctl'[d] = ctl[d]) /\ RunTaken(c)
    BY <1>6, GotoEffect DEF LeaseBusy, Refuse
  <2>2. StatusOwn(c)
    BY <1>6, MergedRun, WriteEffect DEF LeaseBusy, Refuse, StatusRecord
  <2>3. LaneOwn(c)
    BY <1>6, LaneUntouched DEF LeaseBusy, Refuse, records
  <2> QED BY <2>1, <2>2, <2>3 DEF OwnEffect
<1>7. CASE LeaseWriteFailed(c)
  <2>1. (\A d \in Controllers : d # c => ctl'[d] = ctl[d]) /\ RunTaken(c)
    BY <1>7, GotoEffect DEF LeaseWriteFailed, Refuse
  <2>2. StatusOwn(c)
    BY <1>7, MergedRun, WriteEffect DEF LeaseWriteFailed, Refuse, StatusRecord
  <2>3. LaneOwn(c)
    BY <1>7, LaneUntouched DEF LeaseWriteFailed, Refuse, records
  <2> QED BY <2>1, <2>2, <2>3 DEF OwnEffect
<1>8. CASE Unprepare(c)
  <2>1. (\A d \in Controllers : d # c => ctl'[d] = ctl[d]) /\ RunTaken(c)
    BY <1>8, GotoEffect DEF Unprepare
  <2>2. StatusOwn(c)
    BY <1>8, StatusUntouched DEF Unprepare, records
  <2>3. LaneOwn(c)
    BY <1>8, ProcessEffect DEF Unprepare
  <2> QED BY <2>1, <2>2, <2>3 DEF OwnEffect
<1>9. CASE Acquire(c)
  <2>1. (\A d \in Controllers : d # c => ctl'[d] = ctl[d]) /\ RunTaken(c)
    BY <1>9, GotoEffect DEF Acquire
  <2>2. StatusOwn(c)
    BY <1>9, StatusUntouched DEF Acquire, records
  <2>3. LaneOwn(c)
    BY <1>9, LaneUntouched DEF Acquire, records
  <2> QED BY <2>1, <2>2, <2>3 DEF OwnEffect
<1>10. CASE WriteRunning(c)
  <2>1. (\A d \in Controllers : d # c => ctl'[d] = ctl[d]) /\ RunTaken(c)
    BY <1>10 DEF WriteRunning, Goto, RunTaken, TypeOK, CtlRecord
  <2>2. StatusOwn(c)
    BY <1>10, MergedRun, WriteEffect DEF WriteRunning, StatusRecord
  <2>3. LaneOwn(c)
    BY <1>10, LaneUntouched DEF WriteRunning, records
  <2> QED BY <2>1, <2>2, <2>3 DEF OwnEffect
<1> QED BY <1>1, <1>2, <1>3, <1>4, <1>5, <1>6, <1>7, <1>8, <1>9, <1>10

\* A provider attempt.
LEMMA AttemptEffect ==
    ASSUME TypeOK, Known, NEW c \in Controllers,
           \/ SpawnProvider(c) \/ ProviderNotCreated(c) \/ BuildArgvFailed(c) \/ RecordBoundary(c)
           \/ BoundaryFailed(c) \/ ProviderRaised(c) \/ AttemptRaised(c) \/ Exit(c)
           \/ RecordProvider(c) \/ ShutdownStop(c) \/ EndStream(c) \/ WriteProviderExited(c)
           \/ CleanupProven(c) \/ CleanupUnproven(c)
    PROVE  OwnEffect(c)
<1> USE DEF At
<1>1. CASE SpawnProvider(c)
  <2>1. (\A d \in Controllers : d # c => ctl'[d] = ctl[d]) /\ RunTaken(c)
    BY <1>1, GotoEffect DEF SpawnProvider
  <2>2. StatusOwn(c)
    BY <1>1, StatusUntouched DEF SpawnProvider, records
  <2>3. LaneOwn(c)
    BY <1>1, LaneUntouched DEF SpawnProvider, records
  <2> QED BY <2>1, <2>2, <2>3 DEF OwnEffect
<1>2. CASE ProviderNotCreated(c)
  <2>1. (\A d \in Controllers : d # c => ctl'[d] = ctl[d]) /\ RunTaken(c)
    BY <1>2, GotoEffect DEF ProviderNotCreated
  <2>2. StatusOwn(c)
    BY <1>2, MergedRun, WriteEffect DEF ProviderNotCreated, StatusRecord
  <2>3. LaneOwn(c)
    BY <1>2, LaneUntouched DEF ProviderNotCreated, records
  <2> QED BY <2>1, <2>2, <2>3 DEF OwnEffect
<1>3. CASE BuildArgvFailed(c)
  <2>1. (\A d \in Controllers : d # c => ctl'[d] = ctl[d]) /\ RunTaken(c)
    BY <1>3, GotoEffect DEF BuildArgvFailed
  <2>2. StatusOwn(c)
    BY <1>3, StatusUntouched DEF BuildArgvFailed, records
  <2>3. LaneOwn(c)
    BY <1>3, LaneUntouched DEF BuildArgvFailed, records
  <2> QED BY <2>1, <2>2, <2>3 DEF OwnEffect
<1>4. CASE RecordBoundary(c)
  <2>1. (\A d \in Controllers : d # c => ctl'[d] = ctl[d]) /\ RunTaken(c)
    BY <1>4, GotoEffect DEF RecordBoundary
  <2>2. StatusOwn(c)
    BY <1>4, MergedRun, WriteEffect DEF RecordBoundary, StatusRecord
  <2>3. LaneOwn(c)
    BY <1>4, LaneUntouched DEF RecordBoundary, records
  <2> QED BY <2>1, <2>2, <2>3 DEF OwnEffect
<1>5. CASE BoundaryFailed(c)
  <2>1. (\A d \in Controllers : d # c => ctl'[d] = ctl[d]) /\ RunTaken(c)
    BY <1>5, GotoEffect DEF BoundaryFailed
  <2>2. StatusOwn(c)
    BY <1>5, StatusUntouched DEF BoundaryFailed, records
  <2>3. LaneOwn(c)
    BY <1>5, LaneUntouched DEF BoundaryFailed, records
  <2> QED BY <2>1, <2>2, <2>3 DEF OwnEffect
<1>6. CASE ProviderRaised(c)
  <2>1. (\A d \in Controllers : d # c => ctl'[d] = ctl[d]) /\ RunTaken(c)
    BY <1>6, GotoEffect DEF ProviderRaised
  <2>2. StatusOwn(c)
    BY <1>6, StatusUntouched DEF ProviderRaised, records
  <2>3. LaneOwn(c)
    BY <1>6, LaneUntouched DEF ProviderRaised, records
  <2> QED BY <2>1, <2>2, <2>3 DEF OwnEffect
<1>7. CASE AttemptRaised(c)
  <2>1. ctl[c].pc = "raised" /\ lane' = lane
    BY <1>7, Zenon DEF AttemptRaised, At
  <2>2. \E proven \in BOOLEAN :
           /\ WriteStatus(c, [Merged(c) EXCEPT !.cstate = "exited", !.pstate = "exited",
                                 !.proven = proven,
                                 !.recorded = IF ctl[c].attempt > 1
                                              THEN "provider_exited_no_result"
                                              ELSE "provider_start_failed"])
           /\ Goto(c, IF ctl[c].attempt > 1
                      THEN (IF proven THEN "noResult" ELSE "relNoResult")
                      ELSE (IF proven THEN "failed" ELSE "quit"))
    BY <1>7, Zenon DEF AttemptRaised
  <2>3. (\A d \in Controllers : d # c => ctl'[d] = ctl[d]) /\ RunTaken(c)
    BY <2>1, <2>2, GotoEffect
  <2>4. StatusOwn(c)
    BY <2>1, <2>2, MergedRun, WriteEffect DEF StatusRecord
  <2> QED BY <2>1, <2>3, <2>4, LaneUntouched DEF OwnEffect
<1>8. CASE Exit(c)
  <2>1. (\A d \in Controllers : d # c => ctl'[d] = ctl[d]) /\ RunTaken(c)
    BY <1>8, GotoEffect DEF Exit
  <2>2. StatusOwn(c)
    BY <1>8, StatusUntouched DEF Exit, records
  <2>3. LaneOwn(c)
    BY <1>8, LaneUntouched DEF Exit, records
  <2> QED BY <2>1, <2>2, <2>3 DEF OwnEffect
<1>9. CASE RecordProvider(c)
  <2>1. (\A d \in Controllers : d # c => ctl'[d] = ctl[d]) /\ RunTaken(c)
    BY <1>9, GotoEffect DEF RecordProvider
  <2>2. StatusOwn(c)
    BY <1>9, MergedRun, WriteEffect DEF RecordProvider, StatusRecord
  <2>3. LaneOwn(c)
    BY <1>9, LaneUntouched DEF RecordProvider, records
  <2> QED BY <2>1, <2>2, <2>3 DEF OwnEffect
<1>10. CASE ShutdownStop(c)
  <2>1. (\A d \in Controllers : d # c => ctl'[d] = ctl[d]) /\ RunTaken(c)
    BY <1>10 DEF ShutdownStop, RunTaken
  <2>2. StatusOwn(c)
    BY <1>10, StatusUntouched DEF ShutdownStop, records
  <2>3. LaneOwn(c)
    BY <1>10, LaneUntouched DEF ShutdownStop, records
  <2> QED BY <2>1, <2>2, <2>3 DEF OwnEffect
<1>11. CASE EndStream(c)
  <2>1. (\A d \in Controllers : d # c => ctl'[d] = ctl[d]) /\ RunTaken(c)
    BY <1>11 DEF EndStream, Goto, RunTaken, TypeOK, CtlRecord
  <2>2. StatusOwn(c)
    BY <1>11, StatusUntouched DEF EndStream, records
  <2>3. LaneOwn(c)
    BY <1>11, SessionEffect DEF EndStream
  <2> QED BY <2>1, <2>2, <2>3 DEF OwnEffect
<1>12. CASE WriteProviderExited(c)
  <2>1. (\A d \in Controllers : d # c => ctl'[d] = ctl[d]) /\ RunTaken(c)
    BY <1>12, GotoEffect DEF WriteProviderExited
  <2>2. StatusOwn(c)
    BY <1>12, MergedRun, WriteEffect DEF WriteProviderExited, StatusRecord
  <2>3. LaneOwn(c)
    BY <1>12, LaneUntouched DEF WriteProviderExited, records
  <2> QED BY <2>1, <2>2, <2>3 DEF OwnEffect
<1>13. CASE CleanupProven(c)
  <2>1. (\A d \in Controllers : d # c => ctl'[d] = ctl[d]) /\ RunTaken(c)
    BY <1>13, GotoEffect DEF CleanupProven
  <2>2. StatusOwn(c)
    BY <1>13, StatusUntouched DEF CleanupProven, records
  <2>3. LaneOwn(c)
    BY <1>13, LaneUntouched DEF CleanupProven, records
  <2> QED BY <2>1, <2>2, <2>3 DEF OwnEffect
<1>14. CASE CleanupUnproven(c)
  <2>1. (\A d \in Controllers : d # c => ctl'[d] = ctl[d]) /\ RunTaken(c)
    BY <1>14, GotoEffect DEF CleanupUnproven
  <2>2. StatusOwn(c)
    BY <1>14, MergedRun, WriteEffect DEF CleanupUnproven, StatusRecord
  <2>3. LaneOwn(c)
    BY <1>14, LaneUntouched DEF CleanupUnproven, records
  <2> QED BY <2>1, <2>2, <2>3 DEF OwnEffect
<1> QED BY <1>1, <1>2, <1>3, <1>4, <1>5, <1>6, <1>7, <1>8, <1>9, <1>10, <1>11, <1>12, <1>13, <1>14

\* Judging the result and waiting.
LEMMA JudgeEffect ==
    ASSUME TypeOK, Known, NEW c \in Controllers,
           \/ ValidResult(c) \/ NoResult(c) \/ Correct(c) \/ ControllerRelease(c)
           \/ LaneReviewPending(c) \/ LaneResultInvalid(c) \/ StopWaiting(c) \/ LaneAccepted(c)
    PROVE  OwnEffect(c)
<1> USE DEF At
<1>1. CASE ValidResult(c)
  <2>1. (\A d \in Controllers : d # c => ctl'[d] = ctl[d]) /\ RunTaken(c)
    BY <1>1, GotoEffect DEF ValidResult
  <2>2. StatusOwn(c)
    BY <1>1, MergedRun, WriteEffect DEF ValidResult, StatusRecord
  <2>3. LaneOwn(c)
    BY <1>1, LaneUntouched DEF ValidResult, records
  <2> QED BY <2>1, <2>2, <2>3 DEF OwnEffect
<1>2. CASE NoResult(c)
  <2>1. (\A d \in Controllers : d # c => ctl'[d] = ctl[d]) /\ RunTaken(c)
    BY <1>2, GotoEffect DEF NoResult
  <2>2. StatusOwn(c)
    BY <1>2, MergedRun, WriteEffect DEF NoResult, StatusRecord
  <2>3. LaneOwn(c)
    BY <1>2, SessionEffect DEF NoResult
  <2> QED BY <2>1, <2>2, <2>3 DEF OwnEffect
<1>3. CASE Correct(c)
  <2>1. (\A d \in Controllers : d # c => ctl'[d] = ctl[d]) /\ RunTaken(c)
    BY <1>3 DEF Correct, Goto, RunTaken, TypeOK, CtlRecord
  <2>2. StatusOwn(c)
    BY <1>3, MergedRun, WriteEffect DEF Correct, StatusRecord
  <2>3. LaneOwn(c)
    BY <1>3, SessionEffect DEF Correct
  <2> QED BY <2>1, <2>2, <2>3 DEF OwnEffect
<1>4. CASE ControllerRelease(c)
  <2>1. (\A d \in Controllers : d # c => ctl'[d] = ctl[d]) /\ RunTaken(c)
    BY <1>4, GotoEffect DEF ControllerRelease
  <2>2. StatusOwn(c)
    BY <1>4, StatusUntouched DEF ControllerRelease, records
  <2>3. LaneOwn(c)
    BY <1>4, LaneUntouched DEF ControllerRelease, records
  <2> QED BY <2>1, <2>2, <2>3 DEF OwnEffect
<1>5. CASE LaneReviewPending(c)
  <2>1. (\A d \in Controllers : d # c => ctl'[d] = ctl[d]) /\ RunTaken(c)
    BY <1>5, GotoEffect DEF LaneReviewPending
  <2>2. StatusOwn(c)
    BY <1>5, StatusUntouched DEF LaneReviewPending, records
  <2>3. LaneOwn(c)
    BY <1>5, LifecycleEffect DEF LaneReviewPending
  <2> QED BY <2>1, <2>2, <2>3 DEF OwnEffect
<1>6. CASE LaneResultInvalid(c)
  <2>1. (\A d \in Controllers : d # c => ctl'[d] = ctl[d]) /\ RunTaken(c)
    BY <1>6, GotoEffect DEF LaneResultInvalid
  <2>2. StatusOwn(c)
    BY <1>6, StatusUntouched DEF LaneResultInvalid, records
  <2>3. LaneOwn(c)
    BY <1>6, LifecycleEffect DEF LaneResultInvalid
  <2> QED BY <2>1, <2>2, <2>3 DEF OwnEffect
<1>7. CASE StopWaiting(c)
  <2>1. (\A d \in Controllers : d # c => ctl'[d] = ctl[d]) /\ RunTaken(c)
    BY <1>7, GotoEffect DEF StopWaiting
  <2>2. StatusOwn(c)
    BY <1>7, MergedRun, WriteEffect DEF StopWaiting, StatusRecord
  <2>3. LaneOwn(c)
    BY <1>7, LaneUntouched DEF StopWaiting, records
  <2> QED BY <2>1, <2>2, <2>3 DEF OwnEffect
<1>8. CASE LaneAccepted(c)
  <2>1. (\A d \in Controllers : d # c => ctl'[d] = ctl[d]) /\ RunTaken(c)
    BY <1>8, GotoEffect DEF LaneAccepted
  <2>2. StatusOwn(c)
    BY <1>8, StatusUntouched DEF LaneAccepted, records
  <2>3. LaneOwn(c)
    BY <1>8, LifecycleEffect DEF LaneAccepted
  <2> QED BY <2>1, <2>2, <2>3 DEF OwnEffect
<1> QED BY <1>1, <1>2, <1>3, <1>4, <1>5, <1>6, <1>7, <1>8

LEMMA ControllerEffect ==
    ASSUME TypeOK, Known, NEW c \in Controllers, ControllerStep(c)
    PROVE  OwnEffect(c)
BY StartupEffect, AttemptEffect, JudgeEffect DEF ControllerStep

----------------------------------------------------------------------------
(* A command's step, as the records see it.                                *)

\* What the other invariants need to know of the commands at work.
ResumesKept ==
    \A j \in Commands :
        cmd'[j].kind = "resume" /\ cmd'[j].pc \in {"invocation", "replace"}
        => /\ cmd[j].kind = "resume" /\ cmd[j].pc \in {"invocation", "replace"}
           /\ cmd'[j].lane = cmd[j].lane

LaunchesKept ==
    \A j \in Commands :
        cmd'[j].kind = "launch" /\ cmd'[j].pc \in {"spawn", "record", "handshake"}
        => /\ cmd[j].kind = "launch" /\ cmd[j].pc \in {"spawn", "record", "handshake"}
           /\ cmd'[j].lane = cmd[j].lane

MarksKept ==
    \A j \in Commands :
        cmd'[j].kind = "resume" /\ cmd'[j].pc = "mark"
        => cmd[j].kind = "resume" /\ cmd[j].pc = "mark" /\ cmd'[j].snap = cmd[j].snap

WorkKept == ResumesKept /\ LaunchesKept /\ MarksKept

\* A command ends, or goes on to a position nothing is presumed of.
LEMMA FinishWork ==
    ASSUME TypeOK, NEW k \in Commands, Finish(k)
    PROVE  WorkKept
<1>1. Idle.kind = "none"
    BY DEF Idle
<1>2. cmd'[k].kind = "none" /\ \A j \in Commands : j # k => cmd'[j] = cmd[j]
    BY <1>1 DEF Finish, TypeOK
<1> QED BY <1>2 DEF WorkKept, ResumesKept, LaunchesKept, MarksKept

LEMMA ContinueWork ==
    ASSUME TypeOK, NEW k \in Commands, NEW pc, Continue(k, pc), cmd[k].pc # "idle",
           pc \notin {"mark", "invocation", "spawn", "record", "handshake"},
           pc = "replace" => cmd[k].pc = "invocation"
    PROVE  WorkKept
<1>1. /\ cmd'[k].pc = pc /\ cmd'[k].kind = cmd[k].kind /\ cmd'[k].lane = cmd[k].lane
      /\ \A j \in Commands : j # k => cmd'[j] = cmd[j]
    BY DEF Continue, TypeOK, CmdRecord
<1> QED BY <1>1 DEF WorkKept, ResumesKept, LaunchesKept, MarksKept

\* A command of another kind starts or goes on.
LEMMA OtherWork ==
    ASSUME TypeOK, NEW k \in Commands, NEW new, cmd' = [cmd EXCEPT ![k] = new],
           new.kind \notin {"launch", "resume"}
    PROVE  WorkKept
<1>1. cmd'[k] = new /\ \A j \in Commands : j # k => cmd'[j] = cmd[j]
    BY DEF TypeOK
<1> QED BY <1>1 DEF WorkKept, ResumesKept, LaunchesKept, MarksKept

LEMMA SameWork == cmd' = cmd => WorkKept
BY DEF WorkKept, ResumesKept, LaunchesKept, MarksKept

\* Controllers are left alone, or one of them is ended.
ControllersKept ==
    \A d \in Controllers :
        /\ ctl'[d].lane = ctl[d].lane /\ ctl'[d].run = ctl[d].run
        /\ ctl'[d].attempt = ctl[d].attempt
        /\ ctl'[d].pc = ctl[d].pc \/ ctl'[d].pc = "exited"

LEMMA SameControllersKept == ctl' = ctl => ControllersKept
BY DEF ControllersKept

LEMMA EndedKept ==
    ASSUME TypeOK, NEW c, ctl' = [ctl EXCEPT ![c].pc = "exited"]
    PROVE  ControllersKept /\ (c \in Controllers => ctl'[c].pc = "exited")
BY DEF TypeOK, CtlRecord, ControllersKept

LEMMA KeptNotRevived ==
    ASSUME ControllersKept
    PROVE  NoneRevived
BY DEF ControllersKept, NoneRevived, Live

\* No lane record changes its run or becomes retired.
LanesKept ==
    \A l \in Lanes :
        /\ lane'[l].run = lane[l].run
        /\ lane'[l].lifecycle = "retired" => lane[l].lifecycle = "retired"

\* The steps of commands that neither create a controller, nor start on a lane,
\* nor clear, replace or retire it.
LEMMA PlainCommand ==
    ASSUME TypeOK, Known, NEW k \in Commands,
           \/ RecordController(k) \/ RecordFailed(k) \/ LaunchOk(k) \/ LaunchFailed(k)
           \/ KillController(k) \/ CleanBoundary(k) \/ ForceStopRelease(k)
           \/ RetireCheck(k) \/ RetireRefused(k) \/ RetireRelease(k) \/ WriteInvocation(k)
           \/ RunShutdown(k) \/ ShutdownRelease(k) \/ ShutdownClose(k) \/ CommandDies(k)
           \/ ClearInterrupted(k)
    PROVE  status' = status /\ LanesKept /\ ControllersKept /\ WorkKept
<1>1. lane' = lane => LanesKept
    BY DEF LanesKept
<1>2. CASE RecordController(k)
  <2>1. LanesKept
    <3>1. lane \in [Lanes -> LaneRecord]
        BY DEF TypeOK
    <3>2. lane' = [lane EXCEPT ![cmd[k].lane].lifecycle = "running",
                               ![cmd[k].lane].process = cmd[k].child]
        BY <1>2 DEF RecordController
    <3> QED BY <3>1, <3>2 DEF LanesKept, LaneRecord
  <2>2. WorkKept
    <3>1. /\ cmd[k].kind = "launch" /\ cmd[k].pc = "record"
          /\ cmd' = [cmd EXCEPT ![k].pc = "handshake", ![k].run = lane[cmd[k].lane].run]
        BY <1>2 DEF RecordController, Step
    <3>2. /\ cmd'[k].kind = "launch" /\ cmd'[k].lane = cmd[k].lane
          /\ \A j \in Commands : j # k => cmd'[j] = cmd[j]
        BY <3>1 DEF TypeOK, CmdRecord
    <3> QED BY <3>1, <3>2 DEF WorkKept, ResumesKept, LaunchesKept, MarksKept
  <2> QED BY <1>2, <2>1, <2>2, SameControllersKept DEF RecordController
<1>3. CASE RecordFailed(k)
    BY <1>1, <1>3, EndedKept, FinishWork DEF RecordFailed, records
<1>4. CASE LaunchOk(k)
    BY <1>1, <1>4, SameControllersKept, FinishWork DEF LaunchOk, records
<1>5. CASE LaunchFailed(k)
  <2>1. ControllersKept
    BY <1>5, SameControllersKept, EndedKept DEF LaunchFailed
  <2>2. LanesKept
    <3>1. lane \in [Lanes -> LaneRecord]
        BY DEF TypeOK
    <3>2. lane' = lane \/ lane' = [lane EXCEPT ![cmd[k].lane].process = None]
        BY <1>5 DEF LaunchFailed
    <3> QED BY <1>1, <3>1, <3>2 DEF LanesKept, LaneRecord
  <2> QED BY <1>5, <2>1, <2>2, FinishWork DEF LaunchFailed
<1>6. CASE KillController(k)
    BY <1>1, <1>6, SameControllersKept, EndedKept, ContinueWork DEF KillController, Step, records
<1>7. CASE CleanBoundary(k)
  <2>1. WorkKept
    BY <1>7, FinishWork, ContinueWork DEF CleanBoundary, BoundaryCleaned
  <2> QED BY <1>1, <1>7, <2>1, SameControllersKept DEF CleanBoundary, records
<1>8. CASE ForceStopRelease(k)
    BY <1>1, <1>8, SameControllersKept, ContinueWork DEF ForceStopRelease, Step, records
<1>9. CASE RetireCheck(k)
    BY <1>1, <1>9, SameControllersKept, ContinueWork DEF RetireCheck, Step, records
<1>10. CASE RetireRefused(k)
    BY <1>1, <1>10, SameControllersKept, FinishWork DEF RetireRefused, Step, records
<1>11. CASE RetireRelease(k)
    BY <1>1, <1>11, SameControllersKept, ContinueWork DEF RetireRelease, Step, records
<1>12. CASE WriteInvocation(k)
    BY <1>1, <1>12, SameControllersKept, ContinueWork DEF WriteInvocation, Step, records
<1>13. CASE RunShutdown(k)
  <2> DEFINE new == [Idle EXCEPT !.kind = "shutdown", !.pc = "lane",
                                 !.todo = IF epochOpen THEN Lanes ELSE {}]
  <2>1. cmd' = [cmd EXCEPT ![k] = new] /\ new.kind = "shutdown"
    BY <1>13, BegunFields DEF RunShutdown
  <2> HIDE DEF new
  <2>2. WorkKept
    BY <2>1, OtherWork
  <2> QED BY <1>1, <1>13, <2>2, SameControllersKept DEF RunShutdown
<1>14. CASE ShutdownRelease(k)
    BY <1>1, <1>14, SameControllersKept, ContinueWork DEF ShutdownRelease, Step, records
<1>15. CASE ShutdownClose(k)
    BY <1>1, <1>15, SameControllersKept, FinishWork DEF ShutdownClose, Step, records
<1>16. CASE CommandDies(k)
    BY <1>1, <1>16, SameControllersKept, FinishWork DEF CommandDies, Step, records
<1>17. CASE ClearInterrupted(k)
    BY <1>1, <1>17, SameControllersKept, FinishWork DEF ClearInterrupted, Step, records
<1> QED BY <1>2, <1>3, <1>4, <1>5, <1>6, <1>7, <1>8, <1>9, <1>10, <1>11, <1>12, <1>13, <1>14, <1>15, <1>16, <1>17

\* Of the commands that start on a lane, launch and resume are presumed something of.
LEMMA StartEffect ==
    ASSUME TypeOK, Known, NEW k \in Commands, NEW l \in Lanes,
           RunLaunch(k, l) \/ RunForceStop(k, l) \/ RunRetire(k, l) \/ RunResume(k, l)
    PROVE  /\ status' = status /\ lane' = lane /\ ctl' = ctl /\ lease' = lease /\ prov' = prov
           /\ ResumesKept
           /\ LaunchesKept \/ RunLaunch(k, l)
           /\ MarksKept \/ RunResume(k, l)
           /\ \A j \in Commands : j # k => cmd'[j] = cmd[j]
           /\ RunLaunch(k, l) => cmd'[k].lane = l /\ cmd'[k].kind = "launch"
           /\ RunResume(k, l) => cmd'[k].snap = lane[l] /\ cmd'[k].kind = "resume"
<1>1. CASE RunLaunch(k, l)
  <2> DEFINE new == [Idle EXCEPT !.kind = "launch", !.pc = "spawn", !.lane = l, !.snap = lane[l]]
  <2>1. cmd' = [cmd EXCEPT ![k] = new] /\ new.kind = "launch" /\ new.lane = l
    BY <1>1, BegunFields DEF RunLaunch, Start
  <2> HIDE DEF new
  <2>2. cmd'[k].kind = "launch" /\ cmd'[k].lane = l /\ \A j \in Commands : j # k => cmd'[j] = cmd[j]
    BY <2>1 DEF TypeOK
  <2>3. ~RunResume(k, l)
    <3>1. RunResume(k, l) => issued' # issued
        BY DEF RunResume, TypeOK, Runs
    <3> QED BY <1>1, <3>1 DEF RunLaunch, records
  <2> QED BY <1>1, <2>2, <2>3 DEF RunLaunch, records, ResumesKept, MarksKept
<1>2. CASE RunResume(k, l)
  <2> DEFINE new == [Idle EXCEPT !.kind = "resume", !.pc = "mark", !.lane = l,
                                 !.snap = lane[l], !.run = issued[l] + 1]
  <2>1. cmd' = [cmd EXCEPT ![k] = new] /\ new.kind = "resume" /\ new.pc = "mark" /\ new.snap = lane[l]
    BY <1>2, BegunFields DEF RunResume
  <2> HIDE DEF new
  <2>2. /\ cmd'[k].kind = "resume" /\ cmd'[k].pc = "mark" /\ cmd'[k].snap = lane[l]
        /\ \A j \in Commands : j # k => cmd'[j] = cmd[j]
    BY <2>1 DEF TypeOK
  <2>3. ~RunLaunch(k, l)
    <3>1. RunResume(k, l) => issued' # issued
        BY DEF RunResume, TypeOK, Runs
    <3> QED BY <1>2, <3>1 DEF RunLaunch, records
  <2> QED BY <1>2, <2>2, <2>3 DEF RunResume, ResumesKept, LaunchesKept
<1>3. CASE RunForceStop(k, l) \/ RunRetire(k, l)
  <2> DEFINE rel == [Idle EXCEPT !.kind = "force-stop", !.pc = "release", !.lane = l, !.snap = lane[l]]
             kil == [Idle EXCEPT !.kind = "force-stop", !.pc = "kill", !.lane = l,
                                 !.snap = lane[l], !.st = StatusOf(l, lane[l].run)]
             ret == [Idle EXCEPT !.kind = "retire", !.pc = "check", !.lane = l, !.snap = lane[l]]
  <2>1. \/ cmd' = [cmd EXCEPT ![k] = rel] \/ cmd' = [cmd EXCEPT ![k] = kil]
        \/ cmd' = [cmd EXCEPT ![k] = ret]
    BY <1>3 DEF RunForceStop, RunRetire, Start
  <2>2. rel.kind = "force-stop" /\ kil.kind = "force-stop" /\ ret.kind = "retire"
    BY BegunFields
  <2> HIDE DEF rel, kil, ret
  <2>3. PICK new : cmd' = [cmd EXCEPT ![k] = new] /\ new.kind \in {"force-stop", "retire"}
    BY <2>1, <2>2
  <2>4. WorkKept
    BY <2>3, OtherWork
  <2>5. cmd'[k].kind \in {"force-stop", "retire"} /\ \A j \in Commands : j # k => cmd'[j] = cmd[j]
    BY <2>3 DEF TypeOK
  <2>6. ~RunLaunch(k, l) /\ ~RunResume(k, l)
    BY <1>1, <1>2, <2>5
  <2> QED BY <1>3, <2>4, <2>5, <2>6 DEF RunForceStop, RunRetire, records, WorkKept
<1> QED BY <1>1, <1>2, <1>3

----------------------------------------------------------------------------
(* The status file speaks of the lane's own run.                           *)

LEMMA RunFrame ==
    ASSUME Known, RunInv, ControllersKept, ResumesKept, status' = status,
           \A l \in Lanes : lane'[l].run = lane[l].run
    PROVE  RunInv'
<1>1. ASSUME NEW c \in Controllers, Live(c)', ctl'[c].pc # "spawned"
      PROVE  ctl'[c].run = lane'[ctl'[c].lane].run
  <2>1. Live(c) /\ ctl[c].pc # "spawned" /\ ctl[c].lane \in Lanes
    BY <1>1 DEF ControllersKept, Live, Known
  <2> QED BY <2>1 DEF RunInv, RunKnown, ControllersKept
<1>2. ASSUME NEW k \in Commands, cmd'[k].kind = "resume", cmd'[k].pc \in {"invocation", "replace"}
      PROVE  ~status'[cmd'[k].lane].present
    BY <1>2 DEF ResumesKept, RunInv, RunKnown
<1> QED BY <1>1, <1>2 DEF RunInv, RunKnown, StatusOfCurrentRun

\* A controller writes about its own run, and no resume is at work beside it.
LEMMA RunByController ==
    ASSUME TypeOK, SupervisionInv, RunInv, NEW c \in Controllers, Live(c), OwnStep(c), OwnEffect(c)
    PROVE  RunInv'
<1>1. ctl[c].lane \in Lanes
    BY DEF SupervisionInv, Known, Live
<1>2. ctl[c].pc # "spawned" => ctl[c].run = lane[ctl[c].lane].run
    BY DEF RunInv, RunKnown
<1>3. ASSUME NEW d \in Controllers, Live(d)', ctl'[d].pc # "spawned"
      PROVE  ctl'[d].run = lane'[ctl'[d].lane].run
  <2>1. CASE d = c
    BY <1>1, <1>2, <1>3, <2>1 DEF OwnEffect, OwnStep, RunTaken, LaneOwn, Live
  <2>2. CASE d # c
    <3>1. Live(d) /\ ctl'[d] = ctl[d] /\ ctl[d].lane \in Lanes
        BY <1>3, <2>2 DEF OwnEffect, Live, SupervisionInv, Known
    <3> QED BY <1>3, <3>1 DEF RunInv, RunKnown, OwnEffect, LaneOwn
  <2> QED BY <2>1, <2>2
<1>4. ASSUME NEW k \in Commands, cmd[k].kind = "resume", cmd[k].pc \in {"invocation", "replace"}
      PROVE  ~status'[cmd[k].lane].present
  <2>1. OnlyLive(cmd[k].lane, None) /\ cmd[k].lane \in Lanes
    BY <1>4 DEF SupervisionInv, CommandView, View, Known
  <2>2. cmd[k].lane # ctl[c].lane
    BY <2>1, NoneAssumption DEF OnlyLive
  <2>3. ~status[cmd[k].lane].present
    BY <1>4 DEF RunInv, RunKnown
  <2> QED BY <2>1, <2>2, <2>3 DEF OwnEffect, StatusOwn
<1>5. StatusOfCurrentRun'
    BY <1>2 DEF RunInv, StatusOfCurrentRun, OwnEffect, StatusOwn, LaneOwn
<1> QED BY <1>3, <1>4, <1>5 DEF RunInv, RunKnown, OwnStep

LEMMA RunByDeath ==
    ASSUME TypeOK, Known, RunInv, NEW c \in Controllers,
           DieWhileAcquiring(c) \/ Crash(c) \/ ProviderExits(c)
    PROVE  RunInv'
<1>1. ControllersKept
    BY SameControllersKept, EndedKept DEF DieWhileAcquiring, Crash, ProviderExits, Goto
<1>2. status' = status /\ lane' = lane /\ cmd' = cmd
    BY DEF DieWhileAcquiring, Crash, ProviderExits, records
<1> QED BY <1>1, <1>2, SameWork, RunFrame DEF WorkKept

\* The other commands: those that mark, clear, replace or retire the lane.
LEMMA MarkEffect ==
    ASSUME TypeOK, Known, NEW k \in Commands, MarkResuming(k)
    PROVE  status' = status /\ LanesKept /\ ControllersKept /\ WorkKept
<1>1. LanesKept
  <2>1. lane \in [Lanes -> LaneRecord]
    BY DEF TypeOK
  <2>2. lane' = lane \/ lane' = [lane EXCEPT ![cmd[k].lane].lifecycle = "resuming"]
    BY DEF MarkResuming
  <2> QED BY <2>1, <2>2 DEF LanesKept, LaneRecord
<1> QED BY <1>1, SameControllersKept, FinishWork, ContinueWork DEF MarkResuming, Step

\* The steps that retire a lane.
LEMMA RetireEffect ==
    ASSUME TypeOK, Known, NEW k \in Commands,
           ForceStopRetire(k) \/ RetireLane(k) \/ ShutdownRetire(k)
    PROVE  /\ status' = status /\ ctl' = ctl /\ WorkKept /\ prov' = prov /\ lease' = lease
           /\ cmd[k].pc = "retire" /\ cmd[k].kind \in {"force-stop", "retire", "shutdown"}
           /\ \A l \in Lanes : /\ lane'[l].run = lane[l].run
                               /\ lane'[l].lifecycle = IF l = cmd[k].lane THEN "retired"
                                                       ELSE lane[l].lifecycle
<1>1. \A l \in Lanes : /\ lane'[l].run = lane[l].run
                       /\ lane'[l].lifecycle = IF l = cmd[k].lane THEN "retired"
                                               ELSE lane[l].lifecycle
  <2>1. lane \in [Lanes -> LaneRecord]
    BY DEF TypeOK
  <2>2. lane' = [lane EXCEPT ![cmd[k].lane].lifecycle = "retired"]
    BY DEF ForceStopRetire, RetireLane, ShutdownRetire
  <2> QED BY <2>1, <2>2 DEF LaneRecord
<1>2. WorkKept
  <2>1. CASE ForceStopRetire(k) \/ RetireLane(k)
    BY <2>1, FinishWork DEF ForceStopRetire, RetireLane
  <2>2. CASE ShutdownRetire(k)
    <3> DEFINE new == [[[cmd[k] EXCEPT !.pc = "lane"] EXCEPT !.todo = @ \ {cmd[k].lane}]
                       EXCEPT !.lane = None]
    <3>1. cmd \in [Commands -> CmdRecord] /\ cmd[k] \in CmdRecord /\ cmd[k].kind = "shutdown"
        BY <2>2 DEF ShutdownRetire, TypeOK, Step
    <3>2. cmd' = [cmd EXCEPT ![k] = new]
        BY <2>2, <3>1 DEF ShutdownRetire
    <3>3. new.kind = "shutdown"
        BY <3>1 DEF CmdRecord
    <3> HIDE DEF new
    <3> QED BY <3>2, <3>3, OtherWork
  <2> QED BY <2>1, <2>2
<1>3. cmd[k].pc = "retire" /\ cmd[k].kind \in {"force-stop", "retire", "shutdown"}
    BY DEF ForceStopRetire, RetireLane, ShutdownRetire, Step
<1> QED BY <1>1, <1>2, <1>3 DEF ForceStopRetire, RetireLane, ShutdownRetire

\* harness shutdown looks at a lane.
LEMMA LookEffect ==
    ASSUME TypeOK, NEW k \in Commands, NEW l \in Lanes, ShutdownLane(k, l)
    PROVE  /\ WorkKept
           /\ status' = status /\ lane' = lane /\ ctl' = ctl /\ lease' = lease /\ prov' = prov
<1>1. cmd[k] \in CmdRecord /\ cmd[k].kind = "shutdown"
    BY DEF ShutdownLane, Step, TypeOK
<1>2. \/ cmd' = [cmd EXCEPT ![k] = [cmd[k] EXCEPT !.todo = @ \ {l}]]
      \/ cmd' = [cmd EXCEPT ![k] = [[[cmd[k] EXCEPT !.pc = "release"] EXCEPT !.lane = l]
                                     EXCEPT !.snap = lane[l]]]
      \/ Finish(k)
    BY DEF ShutdownLane, TypeOK
<1>3. /\ [cmd[k] EXCEPT !.todo = @ \ {l}].kind = "shutdown"
      /\ [[[cmd[k] EXCEPT !.pc = "release"] EXCEPT !.lane = l] EXCEPT !.snap = lane[l]].kind = "shutdown"
    BY <1>1 DEF CmdRecord
<1>4. WorkKept
    BY <1>2, <1>3, OtherWork, FinishWork
<1> QED BY <1>4 DEF ShutdownLane, records

\* The controller a launch creates; the launch goes on to record it.
LEMMA SpawnEffect ==
    ASSUME TypeOK, NEW k \in Commands, SpawnController(k)
    PROVE  /\ WorkKept
           /\ status' = status /\ lane' = lane /\ lease' = lease /\ prov' = prov
           /\ cmd[k].kind = "launch" /\ cmd[k].pc = "spawn"
           /\ \E c \in Controllers : /\ ctl[c].pc = "absent" /\ ctl'[c].pc = "spawned"
                                     /\ ctl'[c].lane = cmd[k].lane
                                     /\ \A d \in Controllers : d # c => ctl'[d] = ctl[d]
<1>1. PICK c \in Controllers :
         /\ ctl[c].pc = "absent"
         /\ ctl' = [ctl EXCEPT ![c].pc = "spawned", ![c].lane = cmd[k].lane]
         /\ cmd' = [cmd EXCEPT ![k].pc = "record", ![k].child = c]
    BY DEF SpawnController
<1>2. /\ ctl'[c].pc = "spawned" /\ ctl'[c].lane = cmd[k].lane
      /\ \A d \in Controllers : d # c => ctl'[d] = ctl[d]
    BY <1>1 DEF TypeOK, CtlRecord
<1>3. cmd[k].kind = "launch" /\ cmd[k].pc = "spawn"
    BY DEF SpawnController, Step
<1>4. /\ cmd'[k].pc = "record" /\ cmd'[k].kind = cmd[k].kind /\ cmd'[k].lane = cmd[k].lane
      /\ \A j \in Commands : j # k => cmd'[j] = cmd[j]
    BY <1>1 DEF TypeOK, CmdRecord
<1>5. WorkKept
    BY <1>3, <1>4 DEF WorkKept, ResumesKept, LaunchesKept, MarksKept
<1> QED BY <1>1, <1>2, <1>3, <1>5 DEF SpawnController, records

LEMMA RunBySpawn ==
    ASSUME TypeOK, Known, RunInv, NEW k \in Commands, SpawnController(k)
    PROVE  RunInv'
<1>1. PICK c \in Controllers : /\ ctl'[c].pc = "spawned"
                               /\ \A d \in Controllers : d # c => ctl'[d] = ctl[d]
    BY SpawnEffect
<1>2. WorkKept /\ status' = status /\ lane' = lane
    BY SpawnEffect
<1> QED BY <1>1, <1>2 DEF RunInv, RunKnown, StatusOfCurrentRun, Live, WorkKept, ResumesKept

\* resume-lane: no controller is live that knows the prior run, and its status
\* file is gone, when the lane gets its new run.
LEMMA RunByResume ==
    ASSUME TypeOK, SupervisionInv, RunInv, NEW k \in Commands, ClearPriorRun(k) \/ ReplaceRun(k)
    PROVE  RunInv'
<1> DEFINE l == cmd[k].lane
<1>1. ctl' = ctl /\ cmd[k].kind = "resume" /\ cmd[k].pc \in {"clear", "replace"}
    BY DEF ClearPriorRun, ReplaceRun, Step
<1>2. OnlyLive(l, None) /\ l \in Lanes /\ Known
    BY <1>1 DEF SupervisionInv, CommandView, View, Known
<1>3. CASE ClearPriorRun(k) /\ Finish(k) /\ UNCHANGED <<result, chain, status>>
    BY <1>1, <1>2, <1>3, FinishWork, SameControllersKept, RunFrame DEF ClearPriorRun, WorkKept
<1>4. CASE ClearPriorRun(k) /\ status' = StatusCleared(l) /\ Continue(k, "invocation")
  <2>1. ~status'[l].present /\ \A m \in Lanes : m # l => status'[m] = status[m]
    BY <1>2, <1>4 DEF StatusCleared, NoStatus, EmptyStatus, TypeOK
  <2>2. /\ cmd'[k].lane = l
        /\ \A j \in Commands : j # k => cmd'[j] = cmd[j]
    BY <1>4 DEF Continue, TypeOK, CmdRecord
  <2>3. lane' = lane
    BY <1>4 DEF ClearPriorRun
  <2>4. StatusOfCurrentRun'
    BY <2>1, <2>3 DEF RunInv, StatusOfCurrentRun
  <2>5. ASSUME NEW j \in Commands, cmd'[j].kind = "resume", cmd'[j].pc \in {"invocation", "replace"}
        PROVE  ~status'[cmd'[j].lane].present
    <3>1. CASE j = k
        BY <2>1, <2>2, <3>1
    <3>2. CASE j # k
        <4>1. cmd'[j] = cmd[j] /\ cmd[j].lane \in Lanes /\ ~status[cmd[j].lane].present
            BY <1>2, <2>2, <2>5, <3>2 DEF RunInv, RunKnown, Known
        <4> QED BY <2>1, <4>1
    <3> QED BY <3>1, <3>2
  <2> QED BY <1>1, <2>3, <2>4, <2>5 DEF RunInv, RunKnown, Live
<1>5. CASE ReplaceRun(k)
  <2>1. \A m \in Lanes : m # l => lane'[m].run = lane[m].run
    BY <1>5 DEF ReplaceRun, TypeOK
  <2>2. ~status[l].present /\ status' = status
    BY <1>1, <1>5 DEF ReplaceRun, Step, RunInv, RunKnown
  <2>3. WorkKept
    BY <1>5, FinishWork DEF ReplaceRun
  <2>4. \A c \in Controllers : Live(c) => ctl[c].lane # l /\ ctl[c].lane \in Lanes
    BY <1>2, NoneAssumption DEF OnlyLive, Known, Live
  <2>5. StatusOfCurrentRun'
    BY <2>1, <2>2 DEF RunInv, StatusOfCurrentRun
  <2> QED BY <1>1, <2>1, <2>2, <2>3, <2>4, <2>5 DEF RunInv, RunKnown, WorkKept, ResumesKept, Live
<1> QED BY <1>3, <1>4, <1>5 DEF ClearPriorRun

LEMMA RunByCommand ==
    ASSUME TypeOK, SupervisionInv, RunInv, NEW k \in Commands, CommandStep(k) \/ ClearInterrupted(k)
    PROVE  RunInv'
<1>1. Known
    BY DEF SupervisionInv
<1>2. ASSUME NEW l \in Lanes,
             RunLaunch(k, l) \/ RunForceStop(k, l) \/ RunRetire(k, l) \/ RunResume(k, l)
      PROVE  RunInv'
    BY <1>1, <1>2, StartEffect, SameControllersKept, RunFrame
<1>3. ASSUME NEW l \in Lanes, ShutdownLane(k, l)
      PROVE  RunInv'
    BY <1>1, <1>3, LookEffect, SameControllersKept, RunFrame DEF WorkKept
<1>4. CASE \/ RecordController(k) \/ RecordFailed(k) \/ LaunchOk(k) \/ LaunchFailed(k)
           \/ KillController(k) \/ CleanBoundary(k) \/ ForceStopRelease(k)
           \/ RetireCheck(k) \/ RetireRefused(k) \/ RetireRelease(k) \/ WriteInvocation(k)
           \/ RunShutdown(k) \/ ShutdownRelease(k) \/ ShutdownClose(k) \/ ClearInterrupted(k)
    BY <1>1, <1>4, PlainCommand, RunFrame DEF WorkKept, LanesKept
<1>5. CASE MarkResuming(k)
    BY <1>1, <1>5, MarkEffect, RunFrame DEF WorkKept, LanesKept
<1>6. CASE ForceStopRetire(k) \/ RetireLane(k) \/ ShutdownRetire(k)
    BY <1>1, <1>6, RetireEffect, SameControllersKept, RunFrame DEF WorkKept
<1> QED BY <1>1, <1>2, <1>3, <1>4, <1>5, <1>6, RunBySpawn, RunByResume DEF CommandStep

LEMMA RunNext ==
    ASSUME TypeOK, SupervisionInv, RunInv, [Next]_vars
    PROVE  RunInv'
<1>1. Known
    BY DEF SupervisionInv
<1>2. ASSUME NEW c \in Controllers, ControllerStep(c)
      PROVE  RunInv'
  <2>1. OwnStep(c) /\ OwnEffect(c)
    BY <1>1, <1>2, ControllerFrame, ControllerEffect
  <2>2. Live(c)
    BY <2>1, NoneAssumption DEF OwnStep, Live
  <2> QED BY <2>1, <2>2, RunByController
<1>3. ASSUME NEW k \in Commands, CommandDies(k)
      PROVE  RunInv'
    BY <1>1, <1>3, PlainCommand, RunFrame DEF WorkKept, LanesKept
<1>4. CASE UNCHANGED vars
    BY <1>1, <1>4, SameWork, SameControllersKept, RunFrame DEF vars, records, WorkKept
<1>5. CASE \/ \E r \in Resources : ForceReleaseLease(r)
           \/ \E l \in Lanes : CompletionReview(l)
  <2>1. ctl' = ctl /\ cmd' = cmd /\ status' = status /\ lane' = lane
    BY <1>5 DEF ForceReleaseLease, CompletionReview, records
  <2> QED BY <1>1, <2>1, SameWork, SameControllersKept, RunFrame DEF WorkKept
<1> QED BY <1>1, <1>2, <1>3, <1>4, <1>5, RunByDeath, RunByCommand DEF Next

----------------------------------------------------------------------------
(* A retired lane stays retired.                                           *)

LEMMA RetiredFrame ==
    ASSUME Known, RetiredInv, NoneRevived, LaunchesKept, MarksKept,
           \A l \in Lanes : lane'[l].lifecycle = "retired" => lane[l].lifecycle = "retired"
    PROVE  RetiredInv'
<1>1. ASSUME NEW c \in Controllers, Live(c)'
      PROVE  lane'[ctl'[c].lane].lifecycle # "retired"
  <2>1. Live(c) /\ ctl[c].lane \in Lanes /\ ctl'[c].lane = ctl[c].lane
    BY <1>1 DEF NoneRevived, Known, Live
  <2> QED BY <2>1 DEF RetiredInv
<1>2. ASSUME NEW k \in Commands, cmd'[k].kind = "launch", cmd'[k].pc \in {"spawn", "record", "handshake"}
      PROVE  lane'[cmd'[k].lane].lifecycle # "retired"
  <2>1. /\ cmd[k].kind = "launch" /\ cmd[k].pc \in {"spawn", "record", "handshake"}
        /\ cmd'[k].lane = cmd[k].lane
    BY <1>2 DEF LaunchesKept
  <2>2. cmd[k].lane \in Lanes
    BY <2>1 DEF Known
  <2> QED BY <2>1, <2>2 DEF RetiredInv
<1>3. ASSUME NEW k \in Commands, cmd'[k].kind = "resume", cmd'[k].pc = "mark"
      PROVE  cmd'[k].snap.lifecycle # "retired"
    BY <1>3 DEF MarksKept, RetiredInv, Step
<1> QED BY <1>1, <1>2, <1>3 DEF RetiredInv, Step

\* No step gives a retired lane another lifecycle.
Final == \A l \in Lanes : lane[l].lifecycle = "retired" => lane'[l].lifecycle = "retired"

LEMMA RetiredByController ==
    ASSUME TypeOK, Known, RetiredInv, NEW c \in Controllers, Live(c), OwnStep(c), OwnEffect(c)
    PROVE  RetiredInv' /\ Final
<1>1. NoneRevived
    BY DEF OwnStep, NoneRevived, Live
<1>2. \A l \in Lanes : lane'[l].lifecycle = "retired" => lane[l].lifecycle = "retired"
    BY DEF OwnEffect, LaneOwn
<1>3. WorkKept
    BY SameWork DEF OwnStep
<1>4. RetiredInv'
    BY <1>1, <1>2, <1>3, RetiredFrame DEF WorkKept
<1>5. Final
    BY DEF Final, OwnEffect, LaneOwn, RetiredInv
<1> QED BY <1>4, <1>5

\* Steps that change no lane record and make no controller live.
LEMMA RetiredUntouched ==
    ASSUME Known, RetiredInv, NoneRevived, LaunchesKept, MarksKept, lane' = lane
    PROVE  RetiredInv' /\ Final
BY RetiredFrame DEF Final

LEMMA RetiredByStart ==
    ASSUME TypeOK, Known, RetiredInv, NEW k \in Commands, NEW l \in Lanes,
           RunLaunch(k, l) \/ RunForceStop(k, l) \/ RunRetire(k, l) \/ RunResume(k, l)
    PROVE  RetiredInv' /\ Final
<1>1. /\ lane' = lane /\ ctl' = ctl
      /\ LaunchesKept \/ RunLaunch(k, l)
      /\ MarksKept \/ RunResume(k, l)
      /\ \A j \in Commands : j # k => cmd'[j] = cmd[j]
      /\ RunLaunch(k, l) => cmd'[k].lane = l /\ cmd'[k].kind = "launch"
      /\ RunResume(k, l) => cmd'[k].snap = lane[l] /\ cmd'[k].kind = "resume"
    BY StartEffect
<1>2. RunLaunch(k, l) \/ RunResume(k, l) => lane[l].lifecycle # "retired"
    BY DEF RunLaunch, RunResume, Resumable
<1>3. ASSUME NEW j \in Commands, cmd'[j].kind = "launch", cmd'[j].pc \in {"spawn", "record", "handshake"}
      PROVE  lane[cmd'[j].lane].lifecycle # "retired"
    BY <1>1, <1>2, <1>3 DEF LaunchesKept, RetiredInv
<1>4. ASSUME NEW j \in Commands, cmd'[j].kind = "resume", cmd'[j].pc = "mark"
      PROVE  cmd'[j].snap.lifecycle # "retired"
    BY <1>1, <1>2, <1>4 DEF MarksKept, RetiredInv, Step
<1> QED BY <1>1, <1>3, <1>4 DEF RetiredInv, Final, Step, Live

LEMMA RetiredBySpawn ==
    ASSUME TypeOK, Known, RetiredInv, NEW k \in Commands, SpawnController(k)
    PROVE  RetiredInv' /\ Final
<1>1. PICK c \in Controllers : /\ ctl'[c].lane = cmd[k].lane
                               /\ \A d \in Controllers : d # c => ctl'[d] = ctl[d]
    BY SpawnEffect
<1>2. WorkKept /\ lane' = lane /\ cmd[k].kind = "launch" /\ cmd[k].pc = "spawn"
    BY SpawnEffect
<1>3. lane[cmd[k].lane].lifecycle # "retired"
    BY <1>2 DEF RetiredInv
<1> QED BY <1>1, <1>2, <1>3
        DEF RetiredInv, Final, Step, Live, WorkKept, LaunchesKept, MarksKept

\* The command that retires a lane is alone on it and has seen its controller gone.
LEMMA RetiredByRetire ==
    ASSUME TypeOK, SupervisionInv, RetiredInv, NEW k \in Commands,
           ForceStopRetire(k) \/ RetireLane(k) \/ ShutdownRetire(k)
    PROVE  RetiredInv' /\ Final
<1>1. /\ ctl' = ctl /\ WorkKept
      /\ cmd[k].pc = "retire" /\ cmd[k].kind \in {"force-stop", "retire", "shutdown"}
      /\ \A l \in Lanes : lane'[l].lifecycle = IF l = cmd[k].lane THEN "retired"
                                               ELSE lane[l].lifecycle
    BY RetireEffect DEF SupervisionInv
<1>2. OnlyLive(cmd[k].lane, None)
    BY <1>1 DEF SupervisionInv, CommandView, View
<1>3. ASSUME NEW c \in Controllers, Live(c)'
      PROVE  lane'[ctl'[c].lane].lifecycle # "retired"
  <2>1. Live(c) /\ ctl[c].lane \in Lanes /\ ctl[c].lane # cmd[k].lane
    BY <1>1, <1>2, <1>3, NoneAssumption DEF Live, OnlyLive, SupervisionInv, Known
  <2> QED BY <1>1, <2>1 DEF RetiredInv
<1>4. ASSUME NEW j \in Commands, cmd'[j].kind = "launch", cmd'[j].pc \in {"spawn", "record", "handshake"}
      PROVE  lane'[cmd'[j].lane].lifecycle # "retired"
  <2>1. /\ cmd[j].kind = "launch" /\ cmd[j].pc \in {"spawn", "record", "handshake"}
        /\ cmd'[j].lane = cmd[j].lane
    BY <1>1, <1>4 DEF WorkKept, LaunchesKept
  <2>2. j # k /\ cmd[j].lane \in Lanes
    BY <1>1, <2>1 DEF SupervisionInv, Known
  <2>3. cmd[j].lane # cmd[k].lane
    BY <1>1, <2>1, <2>2 DEF SupervisionInv, SerialCommands
  <2> QED BY <1>1, <2>1, <2>2, <2>3 DEF RetiredInv
<1>5. ASSUME NEW j \in Commands, cmd'[j].kind = "resume", cmd'[j].pc = "mark"
      PROVE  cmd'[j].snap.lifecycle # "retired"
    BY <1>1, <1>5 DEF WorkKept, MarksKept, RetiredInv, Step
<1> QED BY <1>1, <1>3, <1>4, <1>5 DEF RetiredInv, Final, Step

\* resume-lane writes the lifecycle of a lane it still finds as it left it.
LEMMA RetiredByResume ==
    ASSUME TypeOK, Known, RetiredInv, NEW k \in Commands,
           \/ MarkResuming(k) \/ ClearPriorRun(k) \/ ReplaceRun(k)
    PROVE  RetiredInv' /\ Final
<1>1. ctl' = ctl /\ NoneRevived
    BY SameCtl DEF MarkResuming, ClearPriorRun, ReplaceRun
<1>2. lane \in [Lanes -> LaneRecord]
    BY DEF TypeOK
<1>3. CASE MarkResuming(k)
  <2>1. lane' = lane \/ (/\ lane' = [lane EXCEPT ![cmd[k].lane].lifecycle = "resuming"]
                         /\ lane[cmd[k].lane].lifecycle # "retired")
    BY <1>3 DEF MarkResuming, RetiredInv
  <2>2. Final /\ \A l \in Lanes : lane'[l].lifecycle = "retired" => lane[l].lifecycle = "retired"
    BY <1>2, <2>1 DEF Final, LaneRecord
  <2> QED BY <1>1, <1>3, <2>2, MarkEffect, RetiredFrame DEF WorkKept
<1>4. CASE ClearPriorRun(k)
  <2>1. LaunchesKept /\ MarksKept
    <3>1. CASE Finish(k)
        BY <3>1, FinishWork DEF WorkKept
    <3>2. CASE Continue(k, "invocation")
      <4>1. /\ cmd'[k].pc = "invocation" /\ \A j \in Commands : j # k => cmd'[j] = cmd[j]
        BY <3>2 DEF Continue, TypeOK, CmdRecord
      <4> QED BY <4>1 DEF LaunchesKept, MarksKept
    <3> QED BY <1>4, <3>1, <3>2 DEF ClearPriorRun
  <2> QED BY <1>1, <1>4, <2>1, RetiredUntouched DEF ClearPriorRun
<1>5. CASE ReplaceRun(k)
  <2>1. \/ lane' = lane
        \/ /\ lane' = [lane EXCEPT ![cmd[k].lane].run = cmd[k].run,
                                   ![cmd[k].lane].lifecycle = "running",
                                   ![cmd[k].lane].process = None]
           /\ lane[cmd[k].lane].lifecycle = "resuming"
    BY <1>5 DEF ReplaceRun
  <2>2. Final /\ \A l \in Lanes : lane'[l].lifecycle = "retired" => lane[l].lifecycle = "retired"
    BY <1>2, <2>1 DEF Final, LaneRecord
  <2>3. WorkKept
    BY <1>5, FinishWork DEF ReplaceRun
  <2> QED BY <1>1, <2>2, <2>3, RetiredFrame DEF WorkKept
<1> QED BY <1>3, <1>4, <1>5

\* The commands of PlainCommand: a launch records the controller of a lane that
\* it has found not retired.
LEMMA RetiredByPlain ==
    ASSUME TypeOK, Known, RetiredInv, NEW k \in Commands,
           \/ RecordController(k) \/ RecordFailed(k) \/ LaunchOk(k) \/ LaunchFailed(k)
           \/ KillController(k) \/ CleanBoundary(k) \/ ForceStopRelease(k)
           \/ RetireCheck(k) \/ RetireRefused(k) \/ RetireRelease(k) \/ WriteInvocation(k)
           \/ RunShutdown(k) \/ ShutdownRelease(k) \/ ShutdownClose(k) \/ CommandDies(k)
           \/ ClearInterrupted(k)
    PROVE  RetiredInv' /\ Final
<1>1. LanesKept /\ NoneRevived /\ WorkKept
    BY PlainCommand, KeptNotRevived
<1>2. RetiredInv'
    BY <1>1, RetiredFrame DEF LanesKept, WorkKept
<1>3. lane \in [Lanes -> LaneRecord]
    BY DEF TypeOK
<1>4. CASE RecordController(k)
  <2>1. /\ lane' = [lane EXCEPT ![cmd[k].lane].lifecycle = "running",
                                ![cmd[k].lane].process = cmd[k].child]
        /\ lane[cmd[k].lane].lifecycle # "retired"
    BY <1>4 DEF RecordController, Step, RetiredInv
  <2>2. Final
    BY <1>3, <2>1 DEF Final, LaneRecord
  <2> QED BY <1>2, <2>2
<1>5. CASE LaunchFailed(k)
  <2>1. lane' = lane \/ lane' = [lane EXCEPT ![cmd[k].lane].process = None]
    BY <1>5 DEF LaunchFailed
  <2>2. Final
    BY <1>3, <2>1 DEF Final, LaneRecord
  <2> QED BY <1>2, <2>2
<1>6. CASE ~(RecordController(k) \/ LaunchFailed(k))
  <2>1. ASSUME KillController(k) \/ CleanBoundary(k)
        PROVE  lane' = lane
    BY <2>1 DEF KillController, CleanBoundary, records
  <2>2. ASSUME RecordFailed(k) \/ LaunchOk(k) \/ ForceStopRelease(k) \/ CommandDies(k)
        PROVE  lane' = lane
    BY <2>2 DEF RecordFailed, LaunchOk, ForceStopRelease, CommandDies, records
  <2>3. ASSUME RetireCheck(k) \/ RetireRefused(k) \/ RetireRelease(k)
        PROVE  lane' = lane
    BY <2>3 DEF RetireCheck, RetireRefused, RetireRelease, records
  <2>4. ASSUME WriteInvocation(k) \/ ClearInterrupted(k)
        PROVE  lane' = lane
    BY <2>4 DEF WriteInvocation, ClearInterrupted
  <2>5. ASSUME RunShutdown(k) \/ ShutdownRelease(k) \/ ShutdownClose(k)
        PROVE  lane' = lane
    BY <2>5 DEF RunShutdown, ShutdownRelease, ShutdownClose, records
  <2>6. lane' = lane
    BY <1>6, <2>1, <2>2, <2>3, <2>4, <2>5
  <2> QED BY <1>2, <2>6 DEF Final
<1> QED BY <1>4, <1>5, <1>6

LEMMA RetiredNext ==
    ASSUME TypeOK, SupervisionInv, RetiredInv, [Next]_vars
    PROVE  RetiredInv' /\ Final
<1>1. Known
    BY DEF SupervisionInv
<1>2. ASSUME NEW c \in Controllers, ControllerStep(c)
      PROVE  RetiredInv' /\ Final
  <2>1. OwnStep(c) /\ OwnEffect(c)
    BY <1>1, <1>2, ControllerFrame, ControllerEffect
  <2>2. Live(c)
    BY <2>1, NoneAssumption DEF OwnStep, Live
  <2> QED BY <1>1, <2>1, <2>2, RetiredByController
<1>3. ASSUME NEW c \in Controllers, DieWhileAcquiring(c) \/ Crash(c) \/ ProviderExits(c)
      PROVE  RetiredInv' /\ Final
  <2>1. NoneRevived
    BY <1>3, SameControllersKept, EndedKept, KeptNotRevived
       DEF DieWhileAcquiring, Crash, ProviderExits, Goto
  <2>2. lane' = lane /\ cmd' = cmd
    BY <1>3 DEF DieWhileAcquiring, Crash, ProviderExits, records
  <2> QED BY <1>1, <2>1, <2>2, SameWork, RetiredUntouched DEF WorkKept
<1>4. ASSUME NEW k \in Commands, CommandStep(k) \/ ClearInterrupted(k)
      PROVE  RetiredInv' /\ Final
  <2>1. ASSUME NEW l \in Lanes, ShutdownLane(k, l)
        PROVE  RetiredInv' /\ Final
    BY <1>1, <2>1, LookEffect, SameCtl, RetiredUntouched DEF WorkKept
  <2>2. CASE \/ RecordController(k) \/ RecordFailed(k) \/ LaunchOk(k) \/ LaunchFailed(k)
             \/ KillController(k) \/ CleanBoundary(k) \/ ForceStopRelease(k)
             \/ RetireCheck(k) \/ RetireRefused(k) \/ RetireRelease(k) \/ WriteInvocation(k)
             \/ RunShutdown(k) \/ ShutdownRelease(k) \/ ShutdownClose(k) \/ ClearInterrupted(k)
    BY <1>1, <2>2, RetiredByPlain
  <2>3. CASE MarkResuming(k) \/ ClearPriorRun(k) \/ ReplaceRun(k)
    BY <1>1, <2>3, RetiredByResume
  <2>4. CASE ForceStopRetire(k) \/ RetireLane(k) \/ ShutdownRetire(k)
    BY <2>4, RetiredByRetire
  <2> QED BY <1>1, <1>4, <2>1, <2>2, <2>3, <2>4, RetiredByStart, RetiredBySpawn DEF CommandStep
<1>5. ASSUME NEW k \in Commands, CommandDies(k)
      PROVE  RetiredInv' /\ Final
    BY <1>1, <1>5, RetiredByPlain
<1>6. CASE \/ UNCHANGED vars
           \/ \E r \in Resources : ForceReleaseLease(r)
           \/ \E l \in Lanes : CompletionReview(l)
  <2>1. ctl' = ctl /\ cmd' = cmd /\ lane' = lane
    BY <1>6 DEF ForceReleaseLease, CompletionReview, records, vars
  <2> QED BY <1>1, <2>1, SameWork, SameCtl, RetiredUntouched DEF WorkKept
<1> QED BY <1>2, <1>3, <1>4, <1>5, <1>6 DEF Next

----------------------------------------------------------------------------
(* Who takes a lease away.                                                 *)

\* A lease is taken away from a controller that is gone, or by that controller on
\* its way to release; and no provider is touched in the same step.
Taken ==
    \A r \in Resources :
        lease[r] # None /\ lease'[r] # lease[r]
        => /\ ~Live(lease[r]) \/ ctl[lease[r]].pc \in {"relValid", "noResult", "failed"}
           /\ prov' = prov

LEMMA NothingTaken == lease' = lease => Taken
BY DEF Taken

\* Leases of a lane are released when at most p of its controllers is live, and p
\* is on its way to release, if it is one.
LEMMA ReleaseTakes ==
    ASSUME TypeOK, NEW l, NEW run, NEW p, OnlyLive(l, p),
           ReleaseLeases(l, run) \/ ForceReleaseLeases(l), prov' = prov,
           p = None \/ (p \in Controllers /\ ctl[p].pc \in {"relValid", "noResult", "failed"})
    PROVE  Taken
<1> SUFFICES ASSUME NEW r \in Resources, lease[r] # None, lease'[r] # lease[r]
             PROVE  ~Live(lease[r]) \/ ctl[lease[r]].pc \in {"relValid", "noResult", "failed"}
    BY DEF Taken
<1>1. lease[r] \in Controllers /\ ctl[lease[r]].lane = l
    BY DEF TypeOK, ReleaseLeases, ForceReleaseLeases
<1>2. Live(lease[r]) => lease[r] = p
    BY <1>1 DEF OnlyLive
<1> QED BY <1>2, <1>1, NoneAssumption

LEMMA AcquireTakes ==
    ASSUME TypeOK, Known, NEW c \in Controllers, ctl[c].pc = "bound", LeasesFree(c),
           NEW S \in SUBSET Declared[ctl[c].lane], AcquireLeases(c, S)
    PROVE  Taken
<1>1. Declared[ctl[c].lane] \subseteq Resources
    BY DeclaredAssumption DEF Known
<1> QED BY <1>1 DEF Taken, LeasesFree, AcquireLeases

LEMMA TakenByController ==
    ASSUME TypeOK, SupervisionInv, NEW c \in Controllers,
           ControllerStep(c) \/ DieWhileAcquiring(c) \/ Crash(c) \/ ProviderExits(c)
    PROVE  Taken
<1>1. Known /\ UniqueSupervisor
    BY DEF SupervisionInv
<1>2. CASE ControllerStep(c)
  <2>1. OwnStep(c)
    BY <1>2, ControllerFrame
  <2>2. CASE Acquire(c)
    BY <1>1, <2>2, AcquireTakes DEF Acquire, At
  <2>3. CASE ControllerRelease(c)
    <3>1. ctl[c].pc \in {"relValid", "noResult", "failed"} /\ ReleaseLeases(ctl[c].lane, ctl[c].run)
          /\ prov' = prov
        BY <2>3 DEF ControllerRelease
    <3>2. Live(c)
        BY <3>1, NoneAssumption DEF Live
    <3>3. OnlyLive(ctl[c].lane, c)
        BY <1>1, <3>2 DEF UniqueSupervisor, OnlyLive
    <3> QED BY <3>1, <3>3, ReleaseTakes
  <2>4. CASE ~(Acquire(c) \/ ControllerRelease(c))
    <3>1. Quiet
        BY <1>1, <1>2, <2>1, <2>4, OwnLaneQuiet, UnprepareQuiet, QuietController
           DEF ControllerStep
    <3> QED BY <3>1, NothingTaken DEF Quiet
  <2> QED BY <2>2, <2>3, <2>4
<1>3. CASE DieWhileAcquiring(c)
  <2>1. ctl[c].pc = "bound" /\ LeasesFree(c)
        /\ \E S \in SUBSET Declared[ctl[c].lane] : AcquireLeases(c, S)
    BY <1>3 DEF DieWhileAcquiring, At
  <2> QED BY <1>1, <2>1, AcquireTakes
<1>4. CASE Crash(c) \/ ProviderExits(c)
    BY <1>4, NothingTaken DEF Crash, ProviderExits
<1> QED BY <1>2, <1>3, <1>4

LEMMA TakenByCommand ==
    ASSUME TypeOK, SupervisionInv, NEW k \in Commands,
           CommandStep(k) \/ ClearInterrupted(k) \/ CommandDies(k)
    PROVE  Taken
<1>1. Known /\ (cmd[k].pc = "release" => OnlyLive(cmd[k].lane, None))
    BY DEF SupervisionInv, CommandView, View
<1>2. ASSUME NEW l \in Lanes,
             \/ RunLaunch(k, l) \/ RunForceStop(k, l) \/ RunRetire(k, l) \/ RunResume(k, l)
             \/ ShutdownLane(k, l)
      PROVE  Taken
    BY <1>1, <1>2, StartEffect, LookEffect, NothingTaken
<1>3. CASE ForceStopRelease(k) \/ RetireRelease(k) \/ ShutdownRelease(k)
  <2>1. /\ cmd[k].pc = "release" /\ prov' = prov
        /\ \/ ReleaseLeases(cmd[k].lane, cmd[k].snap.run)
           \/ ForceReleaseLeases(cmd[k].lane)
    BY <1>3 DEF ForceStopRelease, RetireRelease, ShutdownRelease, Step
  <2> QED BY <1>1, <2>1, ReleaseTakes
<1>4. CASE ForceStopRetire(k) \/ RetireLane(k) \/ ShutdownRetire(k) \/ SpawnController(k)
    BY <1>1, <1>4, RetireEffect, SpawnEffect, NothingTaken
<1>5. CASE RecordController(k) \/ RecordFailed(k) \/ LaunchOk(k) \/ LaunchFailed(k)
    BY <1>5, NothingTaken DEF RecordController, RecordFailed, LaunchOk, LaunchFailed
<1>6. CASE KillController(k) \/ CleanBoundary(k) \/ CommandDies(k)
    BY <1>6, NothingTaken DEF KillController, CleanBoundary, CommandDies
<1>7. CASE RetireCheck(k) \/ RetireRefused(k) \/ RunShutdown(k) \/ ShutdownClose(k)
    BY <1>7, NothingTaken DEF RetireCheck, RetireRefused, RunShutdown, ShutdownClose
<1>8. CASE \/ MarkResuming(k) \/ ClearPriorRun(k) \/ ClearInterrupted(k)
           \/ WriteInvocation(k) \/ ReplaceRun(k)
    BY <1>8, NothingTaken
       DEF MarkResuming, ClearPriorRun, ClearInterrupted, WriteInvocation, ReplaceRun
<1> QED BY <1>2, <1>3, <1>4, <1>5, <1>6, <1>7, <1>8 DEF CommandStep

LEMMA TakenNext ==
    ASSUME TypeOK, SupervisionInv, [Next]_vars
    PROVE  Taken
<1>1. ASSUME NEW r \in Resources, ForceReleaseLease(r)
      PROVE  Taken
    BY <1>1 DEF ForceReleaseLease, HolderGone, TypeOK, Taken
<1>2. ASSUME NEW l \in Lanes, CompletionReview(l)
      PROVE  Taken
    BY <1>2, NothingTaken DEF CompletionReview
<1>3. CASE UNCHANGED vars
    BY <1>3, NothingTaken DEF vars
<1> QED BY <1>1, <1>2, <1>3, TakenByController, TakenByCommand DEF Next

----------------------------------------------------------------------------
(* A provider has its lane and its resources to itself.                    *)

LEMMA ProviderIsLive ==
    ASSUME ProviderAt, NEW c \in Controllers, ProviderLive(c)
    PROVE  Live(c) /\ ctl[c].pc \notin {"relValid", "noResult", "failed"}
BY NoneAssumption DEF ProviderAt, ProviderPcs, Live

\* A provider that was there and still is keeps its resources, and one that is
\* created finds them leased.
LEMMA HoldsKept ==
    ASSUME TypeOK, SupervisionInv, ProviderAt, ProviderHolds, Taken,
           \A d \in Controllers :
              /\ ProviderLive(d)' => ProviderLive(d) \/ ctl[d].pc = "attempt"
              /\ ProviderLive(d) \/ ctl[d].pc = "attempt" => ctl'[d].lane = ctl[d].lane
    PROVE  ProviderHolds'
<1> SUFFICES ASSUME NEW d \in Controllers, ProviderLive(d)', NEW r \in Declared[ctl'[d].lane]
             PROVE  lease'[r] = d
    BY DEF ProviderHolds
<1>1. ProviderLive(d) \/ ctl[d].pc = "attempt"
    OBVIOUS
<1>2. Live(d) /\ ctl[d].pc \notin {"relValid", "noResult", "failed"}
    BY <1>1, ProviderIsLive, NoneAssumption DEF Live
<1>3. ctl[d].lane \in Lanes /\ ctl'[d].lane = ctl[d].lane
    BY <1>1, <1>2 DEF SupervisionInv, Known, Live
<1>4. r \in Resources /\ r \in Declared[ctl[d].lane]
    BY <1>3, DeclaredAssumption
<1>5. lease[r] = d
    BY <1>1, <1>4 DEF ProviderHolds, SupervisionInv, SupervisedLeasesHeld, Supervising
<1> QED BY <1>2, <1>4, <1>5, NoneAssumption DEF Taken

\* Providers end or are left alone, and the status of lanes with a live
\* controller too.
ProvidersKept == \A d \in Controllers : ProviderLive(d)' => ProviderLive(d) /\ ctl'[d].pc = ctl[d].pc

LEMMA ProviderFrame ==
    ASSUME TypeOK, SupervisionInv, ProviderInv, Taken, ControllersKept, ProvidersKept,
           \A d \in Controllers : Live(d) => status'[ctl[d].lane] = status[ctl[d].lane]
    PROVE  ProviderInv'
<1>1. ProviderAt'
    BY DEF ProviderInv, ProviderAt, ProvidersKept
<1>2. ProviderHolds'
    BY HoldsKept DEF ProviderInv, ProvidersKept, ControllersKept
<1>3. ASSUME NEW d \in Controllers,
             \/ ctl'[d].pc \in {"recorded", "streaming"}
             \/ ctl'[d].pc = "raised" /\ ProviderLive(d)'
      PROVE  Recorded(d)'
  <2>1. ctl'[d].pc = ctl[d].pc /\ Live(d)
    BY <1>3, NoneAssumption DEF ControllersKept, Live
  <2>2. Recorded(d)
    BY <1>3, <2>1 DEF ProviderInv, BoundaryKnown, ProvidersKept
  <2> QED BY <2>1, <2>2 DEF Recorded, ControllersKept
<1> QED BY <1>1, <1>2, <1>3 DEF ProviderInv, BoundaryKnown

LEMMA SameProviders ==
    ASSUME prov' = prov, ctl' = ctl
    PROVE  ProvidersKept /\ ControllersKept
BY SameControllersKept DEF ProvidersKept, ProviderLive

\* A controller that is ended takes its provider along.
LEMMA KilledKept ==
    ASSUME TypeOK, KillOnClose, ProviderAt, NEW c \in Controllers,
           ctl' = [ctl EXCEPT ![c].pc = "exited"],
           prov' = KilledProvider(c) \/ (~Live(c) /\ prov' = prov)
    PROVE  ProvidersKept /\ ControllersKept
<1>1. ControllersKept /\ \A d \in Controllers : d # c => ctl'[d] = ctl[d]
    BY EndedKept DEF TypeOK
<1>2. ~ProviderLive(c)'
    BY ProviderIsLive DEF KilledProvider, ProviderLive, TypeOK
<1>3. \A d \in Controllers : d # c => prov'[d] = prov[d]
    BY DEF KilledProvider, TypeOK
<1> QED BY <1>1, <1>2, <1>3 DEF ProvidersKept, ProviderLive

\* A controller's own step: its provider is there only where it looks after it, and
\* the status names the provider whenever an exception could ask for it.
ProviderEffect(c) ==
    /\ \A d \in Controllers : ProviderLive(d)' => ProviderLive(d) \/ (d = c /\ ctl[c].pc = "attempt")
    /\ ProviderLive(c)' => ctl'[c].pc \in ProviderPcs
    /\ \/ ctl'[c].pc \in {"recorded", "streaming"}
       \/ ctl'[c].pc = "raised" /\ ProviderLive(c)'
       => Recorded(c)'

LEMMA ProviderByController ==
    ASSUME TypeOK, SupervisionInv, ProviderInv, NEW c \in Controllers, Live(c),
           OwnStep(c), OwnEffect(c), Taken, ProviderEffect(c)
    PROVE  ProviderInv'
<1>1. ProviderAt'
    BY DEF ProviderInv, ProviderAt, ProviderEffect, OwnEffect
<1>2. ProviderHolds'
    BY HoldsKept DEF ProviderInv, ProviderEffect, OwnStep
<1>3. ASSUME NEW d \in Controllers, d # c,
             \/ ctl'[d].pc \in {"recorded", "streaming"}
             \/ ctl'[d].pc = "raised" /\ ProviderLive(d)'
      PROVE  Recorded(d)'
  <2>1. ctl'[d] = ctl[d] /\ Live(d)
    BY <1>3, NoneAssumption DEF OwnEffect, Live
  <2>2. Recorded(d)
    BY <1>3, <2>1 DEF ProviderInv, BoundaryKnown, ProviderEffect
  <2>3. ctl[d].lane # ctl[c].lane /\ ctl[d].lane \in Lanes
    BY <1>3, <2>1 DEF SupervisionInv, UniqueSupervisor, Known, Live
  <2>4. status'[ctl[d].lane] = status[ctl[d].lane]
    BY <2>3 DEF OwnEffect, StatusOwn
  <2> QED BY <2>1, <2>2, <2>4 DEF Recorded
<1>4. BoundaryKnown'
    BY <1>3 DEF BoundaryKnown, ProviderEffect
<1> QED BY <1>1, <1>2, <1>4 DEF ProviderInv

LEMMA GotoFields ==
    ASSUME TypeOK, NEW c \in Controllers, NEW pc, Goto(c, pc)
    PROVE  ctl'[c].pc = pc /\ ctl'[c].lane = ctl[c].lane /\ ctl'[c].attempt = ctl[c].attempt
BY DEF TypeOK, CtlRecord, Goto

\* Where no provider can be, nothing is to be known of one.
LEMMA NoProvider ==
    ASSUME ProviderAt, NEW c \in Controllers, ctl[c].pc \notin ProviderPcs, prov' = prov,
           ctl'[c].pc \notin {"recorded", "streaming"}
    PROVE  ProviderEffect(c)
BY DEF ProviderAt, ProviderEffect, ProviderLive

LEMMA EffectWithoutProvider ==
    ASSUME TypeOK, ProviderAt, NEW c \in Controllers,
           \/ FindActiveLane(c) \/ WriteStarting(c) \/ OwnLane(c) \/ WriteIdentity(c)
           \/ BindingFailed(c) \/ LeaseBusy(c) \/ LeaseWriteFailed(c) \/ Unprepare(c)
           \/ Acquire(c) \/ WriteRunning(c) \/ ProviderNotCreated(c) \/ BuildArgvFailed(c)
           \/ ValidResult(c) \/ NoResult(c) \/ Correct(c) \/ ControllerRelease(c)
           \/ LaneReviewPending(c) \/ StopWaiting(c) \/ LaneAccepted(c)
    PROVE  ProviderEffect(c)
<1>1. CASE FindActiveLane(c) \/ OwnLane(c) \/ WriteRunning(c) \/ Correct(c)
  <2>1. ctl[c].pc \notin ProviderPcs /\ ctl'[c].pc \notin {"recorded", "streaming"} /\ prov' = prov
    BY <1>1 DEF FindActiveLane, OwnLane, WriteRunning, Correct, At, TypeOK, CtlRecord, ProviderPcs
  <2> QED BY <2>1, NoProvider
<1>2. CASE WriteStarting(c) \/ WriteIdentity(c) \/ Unprepare(c) \/ Acquire(c)
  <2>1. ctl[c].pc \notin ProviderPcs /\ ctl'[c].pc \notin {"recorded", "streaming"} /\ prov' = prov
    BY <1>2, GotoFields DEF WriteStarting, WriteIdentity, Unprepare, Acquire, At, ProviderPcs
  <2> QED BY <2>1, NoProvider
<1>3. CASE BindingFailed(c) \/ LeaseBusy(c) \/ LeaseWriteFailed(c)
  <2>1. ctl[c].pc \notin ProviderPcs /\ ctl'[c].pc \notin {"recorded", "streaming"} /\ prov' = prov
    BY <1>3, GotoFields DEF BindingFailed, LeaseBusy, LeaseWriteFailed, Refuse, At, ProviderPcs
  <2> QED BY <2>1, NoProvider
<1>4. CASE ProviderNotCreated(c) \/ BuildArgvFailed(c) \/ ValidResult(c) \/ NoResult(c)
  <2>1. ctl[c].pc \notin ProviderPcs /\ ctl'[c].pc \notin {"recorded", "streaming"} /\ prov' = prov
    BY <1>4, GotoFields DEF ProviderNotCreated, BuildArgvFailed, ValidResult, NoResult, At, ProviderPcs
  <2> QED BY <2>1, NoProvider
<1>5. CASE ControllerRelease(c)
  <2>1. /\ ctl[c].pc \in {"relValid", "noResult", "failed"} /\ prov' = prov
        /\ \E pc \in {"review", "relNoResult", "exited"} : Goto(c, pc)
    BY <1>5 DEF ControllerRelease
  <2>2. ctl[c].pc \notin ProviderPcs /\ ctl'[c].pc \notin {"recorded", "streaming"}
    BY <2>1, GotoFields DEF ProviderPcs
  <2> QED BY <2>1, <2>2, NoProvider
<1>6. CASE LaneReviewPending(c) \/ StopWaiting(c) \/ LaneAccepted(c)
  <2>1. ctl[c].pc \notin ProviderPcs /\ ctl'[c].pc \notin {"recorded", "streaming"} /\ prov' = prov
    BY <1>6, GotoFields DEF LaneReviewPending, StopWaiting, LaneAccepted, At, ProviderPcs
  <2> QED BY <2>1, NoProvider
<1> QED BY <1>1, <1>2, <1>3, <1>4, <1>5, <1>6

\* The provider of this attempt is written to the status file.
LEMMA RecordedNow ==
    ASSUME TypeOK, Known, NEW c \in Controllers, ctl[c].pc # "absent", NEW pc, Goto(c, pc),
           NEW new, WriteStatus(c, new), new.present,
           new.boundary = [ctl |-> c, attempt |-> ctl[c].attempt]
    PROVE  Recorded(c)'
<1>1. ctl[c].lane \in Lanes
    BY DEF Known
<1>2. status'[ctl[c].lane] = new
    BY <1>1 DEF TypeOK, WriteStatus
<1> QED BY <1>2, GotoFields DEF Recorded

LEMMA SameProv ==
    ASSUME prov' = prov
    PROVE  \A d \in Controllers : ProviderLive(d)' => ProviderLive(d)
BY DEF ProviderLive

LEMMA OwnProv ==
    ASSUME TypeOK, NEW c \in Controllers, NEW left, prov' = [prov EXCEPT ![c] = left],
           left \in {"gone", "helpers"}, left = "helpers" => ProviderLive(c)
    PROVE  \A d \in Controllers : ProviderLive(d)' => ProviderLive(d)
BY DEF ProviderLive, TypeOK

LEMMA GoneProv ==
    ASSUME TypeOK, NEW c \in Controllers, prov' = [prov EXCEPT ![c] = "gone"]
    PROVE  /\ ~ProviderLive(c)'
           /\ \A d \in Controllers : ProviderLive(d)' => ProviderLive(d)
BY DEF ProviderLive, TypeOK

LEMMA KilledProv ==
    ASSUME TypeOK, KillOnClose, NEW c \in Controllers, prov' = KilledProvider(c)
    PROVE  /\ ~ProviderLive(c)'
           /\ \A d \in Controllers : ProviderLive(d)' => ProviderLive(d)
BY DEF KilledProvider, ProviderLive, TypeOK

LEMMA EffectWithProvider ==
    ASSUME TypeOK, Known, KillOnClose, ProviderInv, NEW c \in Controllers,
           \/ SpawnProvider(c) \/ RecordBoundary(c) \/ BoundaryFailed(c) \/ ProviderRaised(c)
           \/ Exit(c) \/ RecordProvider(c) \/ ShutdownStop(c) \/ EndStream(c)
           \/ WriteProviderExited(c) \/ CleanupProven(c) \/ CleanupUnproven(c)
           \/ LaneResultInvalid(c)
    PROVE  ProviderEffect(c)
<1> USE DEF At
<1>1. CASE SpawnProvider(c)
  <2>1. ctl[c].pc = "attempt" /\ ctl'[c].pc = "created"
    BY <1>1, GotoFields DEF SpawnProvider
  <2>2. \A d \in Controllers : d # c => prov'[d] = prov[d]
    BY <1>1 DEF SpawnProvider, TypeOK
  <2> QED BY <2>1, <2>2 DEF ProviderEffect, ProviderPcs, ProviderLive
<1>2. CASE RecordBoundary(c)
  <2>1. ctl[c].pc = "created" /\ Goto(c, "recorded") /\ prov' = prov
    BY <1>2 DEF RecordBoundary
  <2>2. Recorded(c)'
    BY <1>2, <2>1, MergedRun, RecordedNow DEF RecordBoundary, StatusRecord
  <2> QED BY <2>1, <2>2, SameProv, GotoFields DEF ProviderEffect, ProviderPcs
<1>3. CASE BoundaryFailed(c)
  <2>1. Goto(c, "raised") /\ prov' = [prov EXCEPT ![c] = "gone"]
    BY <1>3 DEF BoundaryFailed
  <2>2. ctl'[c].pc = "raised"
    BY <2>1, GotoFields
  <2>3. ~ProviderLive(c)' /\ \A d \in Controllers : ProviderLive(d)' => ProviderLive(d)
    BY <2>1, GoneProv
  <2> QED BY <2>2, <2>3 DEF ProviderEffect
<1>4. CASE ProviderRaised(c)
  <2>1. ctl[c].pc \in {"streaming", "recorded"} /\ Goto(c, "raised") /\ prov' = prov /\ status' = status
    BY <1>4 DEF ProviderRaised, records
  <2>2. Recorded(c)
    BY <2>1 DEF ProviderInv, BoundaryKnown
  <2>3. Recorded(c)'
    BY <2>1, <2>2, GotoFields DEF Recorded
  <2> QED BY <2>1, <2>3, SameProv, GotoFields DEF ProviderEffect, ProviderPcs
<1>5. CASE Exit(c)
    BY <1>5, KilledProv, GotoFields DEF Exit, ProviderEffect
<1>6. CASE RecordProvider(c)
  <2>1. ctl[c].pc = "recorded" /\ Goto(c, "streaming") /\ prov' = prov
    BY <1>6 DEF RecordProvider
  <2>2. Recorded(c)'
    BY <1>6, <2>1, MergedRun, RecordedNow DEF RecordProvider, StatusRecord
  <2> QED BY <2>1, <2>2, SameProv, GotoFields DEF ProviderEffect, ProviderPcs
<1>7. CASE ShutdownStop(c)
  <2>1. /\ ctl[c].pc = "streaming" /\ ctl' = ctl /\ status' = status /\ ProviderLive(c)
        /\ \E left \in {"gone", "helpers"} : prov' = [prov EXCEPT ![c] = left]
    BY <1>7 DEF ShutdownStop, records, ProviderLive
  <2>2. Recorded(c)'
    BY <2>1 DEF ProviderInv, BoundaryKnown, Recorded
  <2>3. \A d \in Controllers : ProviderLive(d)' => ProviderLive(d)
    BY <2>1, OwnProv
  <2> QED BY <2>1, <2>2, <2>3 DEF ProviderEffect, ProviderPcs
<1>8. CASE EndStream(c)
  <2>1. ctl'[c].pc = "ended" /\ prov' = prov
    BY <1>8 DEF EndStream, Goto, TypeOK, CtlRecord
  <2> QED BY <2>1, SameProv DEF ProviderEffect, ProviderPcs
<1>9. CASE WriteProviderExited(c)
  <2>1. Goto(c, "judge") /\ prov' = prov
    BY <1>9 DEF WriteProviderExited
  <2> QED BY <2>1, SameProv, GotoFields DEF ProviderEffect, ProviderPcs
<1>10. CASE CleanupProven(c)
  <2>1. Goto(c, "proven") /\ prov' = [prov EXCEPT ![c] = "gone"]
    BY <1>10 DEF CleanupProven
  <2>2. ctl'[c].pc = "proven"
    BY <2>1, GotoFields
  <2>3. ~ProviderLive(c)' /\ \A d \in Controllers : ProviderLive(d)' => ProviderLive(d)
    BY <2>1, GoneProv
  <2> QED BY <2>2, <2>3 DEF ProviderEffect
<1>11. CASE CleanupUnproven(c)
  <2>1. Goto(c, "exited") /\ prov' = KilledProvider(c)
    BY <1>11 DEF CleanupUnproven
  <2> QED BY <2>1, KilledProv, GotoFields DEF ProviderEffect
<1>12. CASE LaneResultInvalid(c)
  <2>1. Goto(c, "exited") /\ prov' = KilledProvider(c)
    BY <1>12 DEF LaneResultInvalid
  <2> QED BY <2>1, KilledProv, GotoFields DEF ProviderEffect
<1> QED BY <1>1, <1>2, <1>3, <1>4, <1>5, <1>6, <1>7, <1>8, <1>9, <1>10, <1>11, <1>12

\* The handler that judges cleanup by the boundary in the status file judges the
\* provider of the attempt: it goes on as after proven cleanup (failed, noResult)
\* only when that provider is gone.
LEMMA EffectOfRaised ==
    ASSUME TypeOK, ProviderInv, NEW c \in Controllers, AttemptRaised(c)
    PROVE  ProviderEffect(c)
<1> DEFINE b == status[ctl[c].lane].boundary
<1>1. ctl[c].pc = "raised"
    BY Zenon DEF AttemptRaised, At
<1>2. PICK proven \in BOOLEAN :
         /\ \/ UNCHANGED prov /\ (BoundaryGone(b) \/ ~proven)
            \/ /\ ~BoundaryGone(b)
               /\ prov' = [prov EXCEPT ![b.ctl] = IF proven THEN "gone" ELSE "helpers"]
         /\ Goto(c, IF ctl[c].attempt > 1
                    THEN (IF proven THEN "noResult" ELSE "relNoResult")
                    ELSE (IF proven THEN "failed" ELSE "quit"))
    BY Zenon DEF AttemptRaised
<1>3. ProviderLive(c) => b.ctl = c /\ ~BoundaryGone(b)
  <2> HAVE ProviderLive(c)
  <2>1. Recorded(c)
    BY <1>1 DEF ProviderInv, BoundaryKnown
  <2>2. b.ctl = c /\ b.attempt = ctl[c].attempt
    BY <2>1 DEF Recorded
  <2> HIDE DEF b
  <2> QED BY <2>2, NoneAssumption DEF BoundaryGone
<1>4. \A d \in Controllers : ProviderLive(d)' => ProviderLive(d)
    BY <1>2 DEF BoundaryGone, ProviderLive, TypeOK
<1>5. ProviderLive(c)' => ~proven
    BY <1>2, <1>3, <1>4 DEF ProviderLive, TypeOK
<1>6. ctl'[c].pc \in {"noResult", "failed", "relNoResult", "quit"}
    BY <1>2, GotoFields
<1>7. ~proven => ctl'[c].pc \in {"relNoResult", "quit"}
    BY <1>2, GotoFields
<1> QED BY <1>4, <1>5, <1>6, <1>7 DEF ProviderEffect, ProviderPcs

\* The steps of commands: whoever ends a controller or cleans a boundary leaves no
\* provider behind that was not there.
LEMMA ProviderByEnding ==
    ASSUME TypeOK, SupervisionInv, KillOnClose, ProviderAt, NEW k \in Commands,
           RecordFailed(k) \/ LaunchFailed(k) \/ KillController(k)
    PROVE  ProvidersKept /\ ControllersKept
<1>1. /\ cmd[k].snap.process \in Controllers \cup {None}
      /\ cmd[k].pc \in {"record", "handshake"} => cmd[k].child \in Controllers
    BY DEF TypeOK, CmdRecord, LaneRecord, SupervisionInv, Known
<1>2. CASE RecordFailed(k)
    BY <1>1, <1>2, KilledKept DEF RecordFailed, Step
<1>3. CASE LaunchFailed(k)
  <2>1. \/ ctl' = ctl /\ prov' = prov
        \/ /\ ctl' = [ctl EXCEPT ![cmd[k].child].pc = "exited"]
           /\ prov' = IF Live(cmd[k].child) THEN KilledProvider(cmd[k].child) ELSE prov
    BY <1>3 DEF LaunchFailed
  <2>2. cmd[k].child \in Controllers
    BY <1>1, <1>3 DEF LaunchFailed, Step
  <2> QED BY <2>1, <2>2, SameProviders, KilledKept
<1>4. CASE KillController(k)
  <2>1. \/ ctl' = ctl /\ prov' = prov
        \/ /\ Live(cmd[k].snap.process)
           /\ ctl' = [ctl EXCEPT ![cmd[k].snap.process].pc = "exited"]
           /\ prov' = KilledProvider(cmd[k].snap.process)
    BY <1>4 DEF KillController
  <2>2. Live(cmd[k].snap.process) => cmd[k].snap.process \in Controllers
    BY <1>1 DEF Live
  <2> QED BY <2>1, <2>2, SameProviders, KilledKept
<1> QED BY <1>2, <1>3, <1>4

LEMMA ProviderByCleaning ==
    ASSUME TypeOK, NEW k \in Commands, CleanBoundary(k)
    PROVE  ProvidersKept /\ ControllersKept
<1> DEFINE b == cmd[k].st.boundary
<1>1. ctl' = ctl
    BY DEF CleanBoundary
<1>2. \/ prov' = prov
      \/ /\ ~BoundaryGone(b)
         /\ prov' = [prov EXCEPT ![b.ctl] = "gone"] \/ prov' = [prov EXCEPT ![b.ctl] = "helpers"]
    BY DEF CleanBoundary
<1>3. ~BoundaryGone(b) => ProviderLive(b.ctl)
    BY DEF BoundaryGone
<1>4. ProvidersKept
    BY <1>1, <1>2, <1>3 DEF ProvidersKept, ProviderLive, TypeOK
<1> QED BY <1>1, <1>4, SameControllersKept

LEMMA ProviderBySpawn ==
    ASSUME TypeOK, SupervisionInv, ProviderInv, NEW k \in Commands, SpawnController(k), Taken
    PROVE  ProviderInv'
<1>1. PICK c \in Controllers : /\ ctl[c].pc = "absent" /\ ctl'[c].pc = "spawned"
                               /\ \A d \in Controllers : d # c => ctl'[d] = ctl[d]
    BY SpawnEffect
<1>2. status' = status /\ prov' = prov
    BY SpawnEffect
<1>3. ~ProviderLive(c)
    BY <1>1 DEF ProviderInv, ProviderAt, ProviderPcs
<1>4. \A d \in Controllers : ProviderLive(d)' => ProviderLive(d) /\ ctl'[d] = ctl[d]
    BY <1>1, <1>2, <1>3 DEF ProviderLive
<1>5. ProviderAt'
    BY <1>4 DEF ProviderInv, ProviderAt
<1>6. ProviderHolds'
    BY <1>1, <1>3, <1>4, HoldsKept DEF ProviderInv
<1>7. BoundaryKnown'
    BY <1>1, <1>2, <1>4 DEF ProviderInv, BoundaryKnown, Recorded
<1> QED BY <1>5, <1>6, <1>7 DEF ProviderInv

LEMMA ProviderByCommand ==
    ASSUME TypeOK, SupervisionInv, KillOnClose, ProviderInv, NEW k \in Commands, Taken,
           CommandStep(k) \/ ClearInterrupted(k) \/ CommandDies(k)
    PROVE  ProviderInv'
<1>1. Known /\ ProviderAt
    BY DEF SupervisionInv, ProviderInv
<1>2. ASSUME ProvidersKept, ControllersKept, status' = status
      PROVE  ProviderInv'
    BY <1>2, ProviderFrame
<1>3. ASSUME NEW l \in Lanes,
             \/ RunLaunch(k, l) \/ RunForceStop(k, l) \/ RunRetire(k, l) \/ RunResume(k, l)
             \/ ShutdownLane(k, l)
      PROVE  ProviderInv'
    BY <1>1, <1>2, <1>3, StartEffect, LookEffect, SameProviders
<1>4. CASE ForceStopRetire(k) \/ RetireLane(k) \/ ShutdownRetire(k)
    BY <1>1, <1>2, <1>4, RetireEffect, SameProviders
<1>5. CASE RecordFailed(k) \/ LaunchFailed(k) \/ KillController(k)
    BY <1>1, <1>2, <1>5, ProviderByEnding, PlainCommand
<1>6. CASE CleanBoundary(k)
    BY <1>1, <1>2, <1>6, ProviderByCleaning, PlainCommand
<1>7. CASE RecordController(k) \/ LaunchOk(k) \/ CommandDies(k)
    BY <1>2, <1>7, SameProviders DEF RecordController, LaunchOk, CommandDies, records
<1>8. CASE ForceStopRelease(k) \/ RetireRelease(k) \/ ShutdownRelease(k)
    BY <1>2, <1>8, SameProviders DEF ForceStopRelease, RetireRelease, ShutdownRelease, records
<1>9. CASE RetireCheck(k) \/ RetireRefused(k) \/ RunShutdown(k) \/ ShutdownClose(k)
    BY <1>2, <1>9, SameProviders DEF RetireCheck, RetireRefused, RunShutdown, ShutdownClose, records
<1>10. CASE MarkResuming(k) \/ ClearInterrupted(k) \/ WriteInvocation(k) \/ ReplaceRun(k)
    BY <1>2, <1>10, SameProviders DEF MarkResuming, ClearInterrupted, WriteInvocation, ReplaceRun
<1>11. CASE ClearPriorRun(k)
  <2>1. /\ ctl' = ctl /\ prov' = prov /\ cmd[k].pc = "clear"
        /\ (status' = status \/ status' = [status EXCEPT ![cmd[k].lane] = NoStatus])
    BY <1>11 DEF ClearPriorRun, StatusCleared, Step
  <2>2. OnlyLive(cmd[k].lane, None)
    BY <2>1 DEF SupervisionInv, CommandView, View
  <2>3. \A d \in Controllers : Live(d) => status'[ctl[d].lane] = status[ctl[d].lane]
    BY <1>1, <2>1, <2>2, NoneAssumption DEF OnlyLive, TypeOK, Known, Live
  <2> QED BY <2>1, <2>3, SameProviders, ProviderFrame
<1> QED BY <1>3, <1>4, <1>5, <1>6, <1>7, <1>8, <1>9, <1>10, <1>11, ProviderBySpawn DEF CommandStep

LEMMA ProviderByDeath ==
    ASSUME TypeOK, SupervisionInv, KillOnClose, ProviderInv, NEW c \in Controllers, Taken,
           DieWhileAcquiring(c) \/ Crash(c) \/ ProviderExits(c)
    PROVE  ProviderInv'
<1>1. ProviderAt
    BY DEF ProviderInv
<1>2. status' = status
    BY DEF DieWhileAcquiring, Crash, ProviderExits, records
<1>3. CASE DieWhileAcquiring(c)
  <2>1. ctl' = [ctl EXCEPT ![c].pc = "exited"] /\ prov' = prov /\ ctl[c].pc = "bound"
    BY <1>3 DEF DieWhileAcquiring, At, Goto
  <2>2. ControllersKept /\ \A d \in Controllers : d # c => ctl'[d] = ctl[d]
    BY <2>1, EndedKept DEF TypeOK
  <2>3. ProvidersKept
    BY <1>1, <2>1, <2>2 DEF ProviderAt, ProviderPcs, ProvidersKept, ProviderLive
  <2> QED BY <1>2, <2>2, <2>3, ProviderFrame
<1>4. CASE Crash(c)
    BY <1>1, <1>2, <1>4, KilledKept, ProviderFrame DEF Crash, Goto
<1>5. CASE ProviderExits(c)
  <2>1. ctl' = ctl /\ ProviderLive(c)
        /\ \E left \in {"gone", "helpers"} : prov' = [prov EXCEPT ![c] = left]
    BY <1>5 DEF ProviderExits
  <2>2. ProvidersKept
    BY <2>1, OwnProv DEF ProvidersKept
  <2> QED BY <1>2, <2>1, <2>2, SameControllersKept, ProviderFrame
<1> QED BY <1>3, <1>4, <1>5

LEMMA ProviderNext ==
    ASSUME TypeOK, SupervisionInv, KillOnClose, ProviderInv, [Next]_vars
    PROVE  ProviderInv'
<1>1. Known /\ ProviderAt /\ Taken
    BY TakenNext DEF SupervisionInv, ProviderInv
<1>2. ASSUME NEW c \in Controllers, ControllerStep(c)
      PROVE  ProviderInv'
  <2>1. OwnStep(c) /\ OwnEffect(c)
    BY <1>1, <1>2, ControllerFrame, ControllerEffect
  <2>2. Live(c)
    BY <2>1, NoneAssumption DEF OwnStep, Live
  <2>3. ProviderEffect(c)
    BY <1>1, <1>2, EffectWithoutProvider, EffectWithProvider, EffectOfRaised DEF ControllerStep
  <2> QED BY <1>1, <2>1, <2>2, <2>3, ProviderByController
<1>3. CASE \/ UNCHANGED vars
           \/ \E r \in Resources : ForceReleaseLease(r)
           \/ \E l \in Lanes : CompletionReview(l)
  <2>1. ctl' = ctl /\ prov' = prov /\ status' = status
    BY <1>3 DEF ForceReleaseLease, CompletionReview, records, vars
  <2> QED BY <1>1, <2>1, SameProviders, ProviderFrame
<1> QED BY <1>1, <1>2, <1>3, ProviderByDeath, ProviderByCommand DEF Next

----------------------------------------------------------------------------
(* The theorems.                                                           *)

LEMMA UseInit == Init => RunInv /\ RetiredInv /\ ProviderInv
<1> SUFFICES ASSUME Init
             PROVE  RunInv /\ RetiredInv /\ ProviderInv
    OBVIOUS
<1>1. \A c \in Controllers : ctl[c].pc = "absent" /\ ~Live(c) /\ ~ProviderLive(c)
    BY DEF Init, Live, ProviderLive
<1>2. \A k \in Commands : cmd[k].pc = "idle" /\ cmd[k].kind = "none"
    BY DEF Init, Idle
<1>3. \A l \in Lanes : ~status[l].present
    BY DEF Init, NoStatus, EmptyStatus
<1>4. RunInv
    BY <1>1, <1>2, <1>3 DEF RunInv, RunKnown, StatusOfCurrentRun
<1>5. RetiredInv
    BY <1>1, <1>2 DEF RetiredInv, Step
<1>6. ProviderInv
    BY <1>1 DEF ProviderInv, ProviderAt, BoundaryKnown, ProviderHolds
<1> QED BY <1>4, <1>5, <1>6

\* The status file never describes a superseded run (StatusOfCurrentRun): a resume
\* removes it before it changes the lane's run, and no controller of the prior run
\* is left to write it again.
THEOREM StatusIsCurrent ==
    ASSUME ~Relaunch, ~Overlap
    PROVE  Spec => []StatusOfCurrentRun
<1>1. Init => TypeOK /\ SupervisionInv /\ RunInv
    BY TypeInit, SupervisionInit, UseInit
<1>2. TypeOK /\ SupervisionInv /\ RunInv /\ [Next]_vars => (TypeOK /\ SupervisionInv /\ RunInv)'
    BY TypeNext, SupervisionNext, RunNext DEF SupervisionInv
<1>3. RunInv => StatusOfCurrentRun
    BY DEF RunInv
<1> QED BY <1>1, <1>2, <1>3, PTL DEF Spec

\* No step, of a controller that comes late or of another command, revives a
\* retired lane (RetiredIsFinal).
THEOREM RetiredStays ==
    ASSUME ~Relaunch, ~Overlap
    PROVE  Spec => RetiredIsFinal
<1>1. Init => TypeOK /\ SupervisionInv /\ RetiredInv
    BY TypeInit, SupervisionInit, UseInit
<1>2. TypeOK /\ SupervisionInv /\ RetiredInv /\ [Next]_vars
      => (TypeOK /\ SupervisionInv /\ RetiredInv)'
    BY TypeNext, SupervisionNext, RetiredNext DEF SupervisionInv
<1>3. TypeOK /\ SupervisionInv /\ RetiredInv /\ [Next]_vars
      => [\A l \in Lanes : lane[l].lifecycle = "retired" => lane'[l].lifecycle = "retired"]_vars
    BY RetiredNext DEF Final
<1> QED BY <1>1, <1>2, <1>3, PTL DEF Spec, RetiredIsFinal

LEMMA ProviderAlways ==
    ASSUME ~Relaunch, ~Overlap, KillOnClose
    PROVE  Spec => [](TypeOK /\ SupervisionInv /\ ProviderInv)
<1>1. Init => TypeOK /\ SupervisionInv /\ ProviderInv
    BY TypeInit, SupervisionInit, UseInit
<1>2. TypeOK /\ SupervisionInv /\ ProviderInv /\ [Next]_vars
      => (TypeOK /\ SupervisionInv /\ ProviderInv)'
    BY TypeNext, SupervisionNext, ProviderNext DEF SupervisionInv
<1> QED BY <1>1, <1>2, PTL DEF Spec

\* Where a provider dies with its controller, providers that share a declared
\* resource never run at the same time (ExclusiveUse).
THEOREM ResourcesExclusive ==
    ASSUME ~Relaunch, ~Overlap, KillOnClose
    PROVE  Spec => []ExclusiveUse
<1>1. ProviderInv => ExclusiveUse
    BY DEF ProviderInv, ProviderHolds, ExclusiveUse
<1> QED BY <1>1, ProviderAlways, PTL

\* Where a provider dies with its controller, no two provider trees work in one
\* worktree (OneWorkerPerLane).
THEOREM OneWorker ==
    ASSUME ~Relaunch, ~Overlap, KillOnClose
    PROVE  Spec => []OneWorkerPerLane
<1>1. SupervisionInv /\ ProviderInv => OneWorkerPerLane
    BY ProviderIsLive DEF ProviderInv, SupervisionInv, UniqueSupervisor, OneWorkerPerLane
<1> QED BY <1>1, ProviderAlways, PTL

\* Where a provider dies with its controller, no lease is given up, by whatever
\* path, while a process of its holder's provider tree is left (ReleasesWhenGone).
THEOREM ReleasedWhenGone ==
    ASSUME ~Relaunch, ~Overlap, KillOnClose
    PROVE  Spec => ReleasesWhenGone
<1>1. TypeOK /\ SupervisionInv /\ ProviderInv /\ [Next]_vars
      => [\A r \in Resources : ~LostUnderProvider(r)]_vars
  <2> SUFFICES ASSUME TypeOK, SupervisionInv, ProviderInv, [Next]_vars,
                      NEW r \in Resources, LostUnderProvider(r)
               PROVE  FALSE
    OBVIOUS
  <2>1. lease[r] \in Controllers /\ lease[r] # None /\ lease'[r] # lease[r]
        /\ prov'[lease[r]] \in {"running", "helpers"}
    BY DEF LostUnderProvider, TypeOK
  <2>2. /\ ~Live(lease[r]) \/ ctl[lease[r]].pc \in {"relValid", "noResult", "failed"}
        /\ prov' = prov
    BY <2>1, TakenNext DEF Taken
  <2>3. ProviderLive(lease[r])
    BY <2>1, <2>2 DEF ProviderLive
  <2> QED BY <2>1, <2>2, <2>3, ProviderIsLive DEF ProviderInv
<1> QED BY <1>1, ProviderAlways, PTL DEF Spec, ReleasesWhenGone
=============================================================================

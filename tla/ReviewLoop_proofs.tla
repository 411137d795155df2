-------------------------- MODULE ReviewLoop_proofs --------------------------
(***************************************************************************)
(* Proofs about module ReviewLoop, for every number of runs, every set of   *)
(* decisions and of events closed by hand.  What is proved about processes  *)
(* that overlap says under which of LateReview, LatePass and Failures.      *)
(***************************************************************************)
EXTENDS ReviewLoop, FiniteSetTheorems, TLAPS

(* The processes by the records they write.                                 *)
ControllerStep ==
    \/ Launch \/ ProviderExits \/ ValidResult \/ NoResult \/ Correct \/ LaneEnded
    \/ DecisionSeen \/ LaneAccepted \/ ControllerDies \/ Retire \/ ForceStop

MonitorActs == MonitorStep \/ RecoveryFailed \/ MonitorDies
RootActs    == \E e \in Ids : Acknowledge(e) \/ Close(e)
ReviewActs  == ReviewStep \/ PublishInterrupted \/ ReviewDies
ResumeActs  == ResumeStep \/ ResumeDies

LEMMA Steps == Next => ControllerStep \/ MonitorActs \/ RootActs \/ ReviewActs \/ ResumeActs
BY DEF Next, ControllerStep, MonitorActs, RootActs, ReviewActs, ResumeActs

-----------------------------------------------------------------------------
(* Type correctness.                                                        *)

QueueTyped == Ids \subseteq EventId /\ events \in [Ids -> EventStates] /\ IsFiniteSet(Ids)

MonPcs  == {"idle", "pair", "restore", "reread", "lost", "request", "requested",
            "reread2", "derive", "report", "mark"}
Passes  == [pc : MonPcs, snap : LaneRecord, status : Statuses \cup {"none"}, key : Keys]
RevPcs  == {"idle", "read", "publish", "close"}
Reviews == [pc : RevPcs, ev : EventId \cup {NoEvent}, run : Runs,
            decision : Decisions \cup {"accept"}]
ResPcs  == {"idle", "mark", "result", "review", "accept", "status", "replace", "signal"}
Resumes == [pc : ResPcs, run : Runs, lifecycle : Lifecycles]
CtlPcs  == {"none", "working", "exited", "valid", "failed", "waiting", "copied"}

LaneTyped ==
    /\ lane \in LaneRecord
    /\ ctl \in [pc : CtlPcs, run : Runs]
    /\ status \in {"absent", "none", "exited", "correction_pending", "review_pending",
                  "provider_exited_no_result"}
    /\ result \in Runs
PairTyped ==
    /\ review \in [run : Runs, finding : {"PASS", "FAIL"}]
    /\ accept \in [run : Runs, decision : Decisions \cup {"accept"}]
MonTyped == mon \in Passes /\ (mon.pc = "report" => mon.status \in Statuses)
RevTyped == rev \in Reviews
ResTyped == res \in Resumes /\ (res.pc # "idle" => res.run < MaxRun)

Typed == QueueTyped /\ LaneTyped /\ PairTyped /\ MonTyped /\ RevTyped /\ ResTyped

LEMMA TypedIsTypeOK == Typed => TypeOK
BY DEF Typed, TypeOK, QueueTyped, LaneTyped, PairTyped, MonTyped, RevTyped, ResTyped,
       MonPcs, Passes, RevPcs, Reviews, ResPcs, Resumes, CtlPcs

LEMMA RunFacts == MaxRun \in Nat /\ 0 \in Runs /\ 1 \in Runs /\ \A r \in Runs : r \in Nat /\ r <= MaxRun
BY MaxRunAssumption DEF Runs

LEMMA IdleProcesses ==
    /\ MonIdle \in Passes /\ MonIdle.pc = "idle"
    /\ RevIdle \in Reviews /\ RevIdle.pc = "idle"
    /\ ResIdle \in Resumes /\ ResIdle.pc = "idle"
<1>1. MonIdle \in Passes /\ MonIdle.pc = "idle"
    BY RunFacts DEF MonIdle, Passes, MonPcs, LaneRecord, Lifecycles, Keys
<1>2. RevIdle \in Reviews /\ RevIdle.pc = "idle"
    BY RunFacts DEF RevIdle, Reviews, RevPcs
<1>3. ResIdle \in Resumes /\ ResIdle.pc = "idle"
    BY RunFacts DEF ResIdle, Resumes, ResPcs, Lifecycles
<1> QED BY <1>1, <1>2, <1>3

(* What Scan and DeriveStatus make of the pass.                             *)
LEMMA ScanFacts ==
    ASSUME LaneTyped, Scan
    PROVE  mon' \in Passes /\ mon'.pc = "pair" /\ mon'.snap.run = lane.run
<1>1. PICK m \in Passes : mon' = [m EXCEPT !.pc = "pair", !.snap.run = lane.run]
    BY IdleProcesses DEF Scan
<1>2. lane.run \in Runs
    BY DEF LaneTyped, LaneRecord
<1> QED BY <1>1, <1>2 DEF Passes, MonPcs, LaneRecord

LEMMA StatusTyped == \A l : DerivedStatus(l) \in Statuses \cup {"none"}
BY DEF DerivedStatus, Statuses

LEMMA DeriveFacts ==
    ASSUME MonTyped, DeriveStatus
    PROVE  /\ mon' \in Passes
           /\ \/ mon' = MonIdle
              \/ /\ mon'.pc = "report" /\ mon'.status \in Statuses
                 /\ mon'.snap.run = mon.snap.run
                 /\ mon'.status = DerivedStatus(mon.snap)
                 /\ mon'.status # mon.snap.reported
<1> DEFINE s == DerivedStatus(mon.snap)
<1>1. s \in Statuses \cup {"none"} /\ mon.snap.run \in Runs
    BY StatusTyped DEF MonTyped, Passes, LaneRecord
<1>2. CASE s \in {"none", mon.snap.reported}
    BY <1>2, IdleProcesses DEF DeriveStatus
<1>3. CASE s \notin {"none", mon.snap.reported}
  <2>1. PICK m \in Passes : mon' = [m EXCEPT !.pc = "report", !.status = s,
                                             !.snap.run = mon.snap.run]
    BY <1>3, IdleProcesses DEF DeriveStatus
  <2> HIDE DEF s
  <2>2. mon' \in Passes /\ mon'.pc = "report" /\ mon'.status = s /\ mon'.snap.run = mon.snap.run
    BY <1>1, <2>1 DEF Passes, MonPcs, LaneRecord
  <2> QED BY <1>1, <1>3, <2>2 DEF s
<1> QED BY <1>2, <1>3

LEMMA MonGotoTyped ==
    ASSUME MonTyped, NEW pc \in MonPcs \ {"report"}, MonGoto(pc)
    PROVE  /\ MonTyped' /\ mon'.pc = pc
           /\ mon'.snap = mon.snap /\ mon'.status = mon.status /\ mon'.key = mon.key
BY DEF MonTyped, MonGoto, Passes

(* The queue: events are added or move on, never removed.                   *)
LEMMA PromoteFacts ==
    ASSUME QueueTyped, NEW s \in Statuses, NEW r \in Runs, NEW k \in Keys, promote_event(s, r, k)
    PROVE  /\ QueueTyped'
           /\ Ids \subseteq Ids'
           /\ \E e \in Ids' : /\ e.status = s /\ e.run = r
                              /\ \A x \in Ids' : x = e \/ x \in Ids
                              /\ \A x \in Ids : x # e => events'[x] = events[x]
<1>1. CASE Duplicate(s, r, k)
  <2>1. PICK e \in Ids : e.status = s /\ e.run = r
    BY <1>1 DEF Duplicate, Same
  <2>2. events' = events
    BY <1>1 DEF promote_event
  <2> QED BY <2>1, <2>2 DEF QueueTyped, Ids
<1>2. CASE ~Duplicate(s, r, k)
  <2> DEFINE n == Cardinality(Same(s, r, k))
             e == [status |-> s, run |-> r, key |-> k, nth |-> n]
  <2>1. IsFiniteSet(Same(s, r, k))
    BY FS_Subset DEF QueueTyped, Same
  <2>2. n \in Nat
    BY <2>1, FS_CardinalityType
  <2>3. e \in EventId /\ e.status = s /\ e.run = r
    BY <2>2 DEF EventId
  <2>4. events' = [x \in Ids \cup {e} |-> IF x = e THEN "PENDING" ELSE events[x]]
    BY <1>2 DEF promote_event
  <2> HIDE DEF n, e
  <2>5. Ids' = Ids \cup {e}
    BY <2>4 DEF Ids
  <2>6. IsFiniteSet(Ids')
    BY <2>5, FS_AddElement DEF QueueTyped
  <2>7. QueueTyped'
    BY <2>3, <2>4, <2>5, <2>6 DEF QueueTyped, EventStates
  <2>8. /\ \A x \in Ids' : x = e \/ x \in Ids
        /\ \A x \in Ids : x # e => events'[x] = events[x]
    BY <2>4, <2>5
  <2> QED BY <2>3, <2>5, <2>7, <2>8
<1> QED BY <1>1, <1>2

LEMMA EventMoves ==
    ASSUME QueueTyped, NEW e \in Ids, acknowledge_event(e) \/ close_event(e)
    PROVE  /\ QueueTyped' /\ Ids' = Ids
           /\ \A x \in Ids : Open(x)' => Open(x)
<1>1. PICK s \in EventStates : events' = [events EXCEPT ![e] = s]
    BY DEF acknowledge_event, close_event, EventStates
<1>2. Ids' = Ids
    BY <1>1 DEF Ids, QueueTyped
<1>3. events' \in [Ids -> EventStates]
    BY <1>1 DEF QueueTyped
<1>4. QueueTyped'
    BY <1>2, <1>3 DEF QueueTyped
<1>5. \A x \in Ids : Open(x)' => Open(x)
    BY DEF QueueTyped, Open, acknowledge_event, close_event
<1> QED BY <1>2, <1>4, <1>5

LEMMA InitTyped == Init => Typed
<1> SUFFICES ASSUME Init PROVE Typed
    OBVIOUS
<1>1. QueueTyped
    BY FS_EmptySet DEF Init, QueueTyped, Ids
<1>2. LaneTyped
    BY RunFacts DEF Init, LaneTyped, LaneRecord, Lifecycles, CtlPcs
<1>3. PairTyped
    BY RunFacts DEF Init, PairTyped, NoReview, NoAccept
<1>4. MonTyped /\ RevTyped /\ ResTyped
    BY IdleProcesses DEF Init, MonTyped, RevTyped, ResTyped
<1> QED BY <1>1, <1>2, <1>3, <1>4 DEF Typed

LEMMA ControllerTyped == Typed /\ ControllerStep => Typed'
<1> SUFFICES ASSUME Typed, ControllerStep PROVE Typed'
    OBVIOUS
<1>1. UNCHANGED <<events, review, accept, procs>>
    BY DEF ControllerStep, Launch, ProviderExits, ValidResult, NoResult, Correct, LaneEnded,
           DecisionSeen, LaneAccepted, ControllerDies, Retire, ForceStop, files
<1>2. LaneTyped'
  <2> USE DEF Typed, LaneTyped, LaneRecord
  <2>1. CASE Launch
    BY <2>1 DEF Launch, CtlPcs
  <2>2. CASE ProviderExits
    BY <2>2 DEF ProviderExits, CtlPcs
  <2>3. CASE ValidResult \/ NoResult \/ Correct
    BY <2>3 DEF ValidResult, NoResult, Correct, CtlPcs
  <2>4. CASE LaneEnded
    BY <2>4 DEF LaneEnded, files, CtlPcs, Lifecycles
  <2>5. CASE DecisionSeen \/ ControllerDies
    BY <2>5 DEF DecisionSeen, ControllerDies, files, CtlPcs
  <2>6. CASE LaneAccepted \/ ForceStop
    BY <2>6 DEF LaneAccepted, ForceStop, files, CtlPcs, Lifecycles
  <2>7. CASE Retire
    BY <2>7 DEF Retire, files, Lifecycles
  <2> QED BY <2>1, <2>2, <2>3, <2>4, <2>5, <2>6, <2>7 DEF ControllerStep
<1> QED
    BY <1>1, <1>2 DEF Typed, QueueTyped, PairTyped, MonTyped, RevTyped, ResTyped, procs, Ids

(* What each step of the monitor's pass does to the pass itself.            *)
LEMMA MonitorTyped == Typed /\ MonitorActs => Typed'
<1> SUFFICES ASSUME Typed, MonitorActs PROVE Typed'
    OBVIOUS
<1> USE DEF Typed
<1>1. UNCHANGED <<ctl, status, result, rev, res>>
    BY DEF MonitorActs, MonitorStep, RecoveryFailed, MonitorDies, Scan, RecoverBrokenPair,
           RestoreReview, Reread, RecoverLostEvent, RequestReview, MarkRequested, DeriveStatus,
           PromoteStatus, MarkReported, files
<1>2. CASE Scan
  <2>1. mon' \in Passes /\ mon'.pc = "pair"
    BY <1>2, ScanFacts
  <2> QED BY <1>1, <1>2, <2>1 DEF Scan, QueueTyped, Ids, LaneTyped, PairTyped, MonTyped, RevTyped, ResTyped, files
<1>3. CASE RecoverBrokenPair
  <2>1. MonTyped'
    BY <1>3, MonGotoTyped DEF RecoverBrokenPair, MonPcs
  <2> QED BY <1>1, <1>3, <2>1, RunFacts DEF RecoverBrokenPair, QueueTyped, Ids, LaneTyped, PairTyped,
              RevTyped, ResTyped, NoReview, NoAccept
<1>4. CASE RestoreReview \/ MarkRequested
  <2>1. MonTyped'
    BY <1>4, MonGotoTyped DEF RestoreReview, MarkRequested, MonPcs
  <2>2. LaneTyped'
    BY <1>1, <1>4 DEF RestoreReview, MarkRequested, LaneTyped, LaneRecord, Lifecycles, Statuses
  <2> QED BY <1>1, <1>4, <2>1, <2>2 DEF RestoreReview, MarkRequested, QueueTyped, Ids, PairTyped,
              RevTyped, ResTyped, files
<1>5. CASE Reread
  <2>1. MonTyped'
    BY <1>5 DEF Reread, MonTyped, Passes, MonPcs, LaneTyped
  <2> QED BY <1>1, <1>5, <2>1 DEF Reread, QueueTyped, Ids, LaneTyped, PairTyped, RevTyped, ResTyped, files
<1>6. CASE RecoverLostEvent
  <2>1. RequestKey(mon.snap.run) \in Keys
    BY DEF RequestKey, Keys
  <2>2. \A k \in Keys : mon' = [mon EXCEPT !.pc = "request", !.key = k] => MonTyped'
    BY DEF MonTyped, Passes, MonPcs
  <2>3. MonTyped'
    BY <1>6, <2>1, <2>2, MonGotoTyped DEF RecoverLostEvent, MonPcs
  <2> QED BY <1>1, <1>6, <2>3 DEF RecoverLostEvent, QueueTyped, Ids, LaneTyped, PairTyped, RevTyped,
              ResTyped, files
<1>7. CASE RequestReview
  <2>1. MonTyped'
    BY <1>7, MonGotoTyped DEF RequestReview, MonPcs
  <2>2. QueueTyped'
    BY <1>7, PromoteFacts DEF RequestReview, MonTyped, Passes, LaneRecord, Statuses
  <2> QED BY <1>1, <1>7, <2>1, <2>2 DEF RequestReview, LaneTyped, PairTyped, RevTyped, ResTyped, files
<1>8. CASE DeriveStatus
  <2>1. MonTyped'
    BY <1>8, DeriveFacts, IdleProcesses DEF MonTyped
  <2> QED BY <1>1, <1>8, <2>1 DEF DeriveStatus, QueueTyped, Ids, LaneTyped, PairTyped, RevTyped,
              ResTyped, files
<1>9. CASE PromoteStatus
  <2>1. MonTyped'
    BY <1>9, MonGotoTyped DEF PromoteStatus, MonPcs
  <2>2. QueueTyped'
    BY <1>9, PromoteFacts DEF PromoteStatus, MonTyped, Passes, LaneRecord, Keys
  <2> QED BY <1>1, <1>9, <2>1, <2>2 DEF PromoteStatus, LaneTyped, PairTyped, RevTyped, ResTyped, files
<1>10. CASE MarkReported
  <2>1. LaneTyped'
    BY <1>1, <1>10 DEF MarkReported, LaneTyped, LaneRecord, MonTyped, Passes
  <2> QED BY <1>1, <1>10, <2>1, IdleProcesses DEF MarkReported, MonTyped, QueueTyped, Ids, PairTyped,
              RevTyped, ResTyped, files
<1>11. CASE RecoveryFailed \/ MonitorDies
  <2>1. MonTyped'
    BY <1>11, MonGotoTyped, IdleProcesses DEF RecoveryFailed, MonitorDies, MonTyped, MonPcs
  <2> QED BY <1>1, <1>11, <2>1 DEF RecoveryFailed, MonitorDies, QueueTyped, Ids, LaneTyped, PairTyped,
              RevTyped, ResTyped, files
<1> QED BY <1>2, <1>3, <1>4, <1>5, <1>6, <1>7, <1>8, <1>9, <1>10, <1>11
        DEF MonitorActs, MonitorStep

LEMMA RootTyped == Typed /\ RootActs => Typed'
<1> SUFFICES ASSUME Typed, NEW e \in Ids, Acknowledge(e) \/ Close(e) PROVE Typed'
    BY DEF RootActs
<1>1. QueueTyped'
    BY EventMoves DEF Typed, Acknowledge, Close
<1> QED BY <1>1 DEF Acknowledge, Close, Typed, LaneTyped, PairTyped, MonTyped, RevTyped, ResTyped,
           files, procs

LEMMA ReviewTyped == Typed /\ ReviewActs => Typed'
<1> SUFFICES ASSUME Typed, ReviewActs PROVE Typed'
    OBVIOUS
<1> USE DEF Typed
<1>1. UNCHANGED <<lane, ctl, status, result, mon, res>>
    BY DEF ReviewActs, ReviewStep, PublishInterrupted, ReviewDies, ResolveReview, ReadSources,
           Publish, CloseReviewEvent, files
<1>2. ASSUME NEW pc \in RevPcs, ReviewGoto(pc) PROVE RevTyped'
    BY <1>2, IdleProcesses DEF ReviewGoto, RevTyped, Reviews
<1>3. ASSUME NEW ev \in Ids \cup {NoEvent}, NEW d \in Decisions, ResolveReview(ev, d) PROVE Typed'
  <2>1. RevTyped'
    BY <1>3 DEF ResolveReview, RevTyped, Reviews, RevPcs, QueueTyped, LaneTyped, LaneRecord
  <2> QED BY <1>1, <1>3, <2>1 DEF ResolveReview, QueueTyped, Ids, LaneTyped, PairTyped, MonTyped,
              ResTyped, files
<1>4. CASE ReadSources \/ ReviewDies
  <2>1. RevTyped'
    BY <1>2, <1>4, IdleProcesses DEF ReadSources, ReviewDies, RevTyped, RevPcs
  <2> QED BY <1>1, <1>4, <2>1 DEF ReadSources, ReviewDies, QueueTyped, Ids, LaneTyped, PairTyped,
              MonTyped, ResTyped, files
<1>5. CASE Publish \/ PublishInterrupted
  <2>1. RevTyped'
    BY <1>2, <1>5 DEF Publish, PublishInterrupted, RevPcs
  <2>2. PairTyped'
    BY <1>5 DEF Publish, PublishInterrupted, PairTyped, MyReview, MyAccept, Finding, RevTyped, Reviews
  <2> QED BY <1>1, <1>5, <2>1, <2>2 DEF Publish, PublishInterrupted, QueueTyped, Ids, LaneTyped,
              MonTyped, ResTyped
<1>6. CASE CloseReviewEvent
  <2>1. RevTyped'
    BY <1>2, <1>6 DEF CloseReviewEvent, RevPcs
  <2>2. QueueTyped'
    BY <1>6, EventMoves DEF CloseReviewEvent, close_event, QueueTyped, EventStates, Ids
  <2> QED BY <1>1, <1>6, <2>1, <2>2 DEF CloseReviewEvent, LaneTyped, PairTyped, MonTyped, ResTyped, files
<1> QED BY <1>3, <1>4, <1>5, <1>6 DEF ReviewActs, ReviewStep

LEMMA ResumeTyped == Typed /\ ResumeActs => Typed'
<1> SUFFICES ASSUME Typed, ResumeActs PROVE Typed'
    OBVIOUS
<1> USE DEF Typed
<1>1. UNCHANGED <<ctl, mon, rev>>
    BY DEF ResumeActs, ResumeStep, ResumeDies, RunResume, MarkResuming, ClearResult, ClearReview,
           ClearAccept, ClearStatus, ReplaceRun, AcknowledgeSignal, CloseSignal, NoSignal
<1>2. ASSUME NEW pc \in ResPcs \ {"idle"}, res.pc # "idle", ResumeGoto(pc) PROVE ResTyped'
    BY <1>2 DEF ResumeGoto, ResTyped, Resumes
<1>3. CASE RunResume
    BY <1>1, <1>3 DEF RunResume, QueueTyped, Ids, LaneTyped, LaneRecord, PairTyped, MonTyped, RevTyped,
       ResTyped, Resumes, ResPcs, files
<1>4. CASE MarkResuming
  <2>1. ResTyped'
    BY <1>4, IdleProcesses DEF MarkResuming, ResTyped, Resumes, ResPcs, Lifecycles
  <2>2. LaneTyped'
    BY <1>1, <1>4 DEF MarkResuming, LaneTyped, LaneRecord, Lifecycles, files
  <2> QED BY <1>1, <1>4, <2>1, <2>2 DEF MarkResuming, QueueTyped, Ids, PairTyped, MonTyped, RevTyped, files
<1>5. CASE ClearResult
  <2>1. ResTyped'
    BY <1>2, <1>5, IdleProcesses DEF ClearResult, ResTyped, ResPcs
  <2> QED BY <1>1, <1>5, <2>1, RunFacts DEF ClearResult, QueueTyped, Ids, LaneTyped, PairTyped, MonTyped,
              RevTyped
<1>6. CASE ClearReview \/ ClearAccept
  <2>1. ResTyped'
    BY <1>2, <1>6 DEF ClearReview, ClearAccept, ResPcs
  <2> QED BY <1>1, <1>6, <2>1, RunFacts DEF ClearReview, ClearAccept, QueueTyped, Ids, LaneTyped,
              PairTyped, MonTyped, RevTyped, NoReview, NoAccept
<1>7. CASE ClearStatus
  <2>1. ResTyped'
    BY <1>2, <1>7 DEF ClearStatus, ResPcs
  <2> QED BY <1>1, <1>7, <2>1 DEF ClearStatus, QueueTyped, Ids, LaneTyped, PairTyped, MonTyped, RevTyped
<1>8. CASE ReplaceRun
  <2>1. ResTyped'
    BY <1>2, <1>8, IdleProcesses DEF ReplaceRun, ResTyped, ResPcs
  <2>2. res.run + 1 \in Runs
    BY <1>8, RunFacts DEF ReplaceRun, ResTyped, Resumes, Runs
  <2>3. FreshRun(res.run + 1) \in LaneRecord
    BY <2>2 DEF FreshRun, LaneRecord, Lifecycles
  <2>4. LaneTyped'
    BY <1>1, <1>8, <2>3 DEF ReplaceRun, LaneTyped, files
  <2> QED BY <1>1, <1>8, <2>1, <2>4 DEF ReplaceRun, QueueTyped, Ids, PairTyped, MonTyped, RevTyped, files
<1>9. CASE AcknowledgeSignal \/ CloseSignal
  <2>1. ResTyped'
    BY <1>2, <1>9, IdleProcesses DEF AcknowledgeSignal, CloseSignal, ResTyped, ResPcs
  <2>2. QueueTyped'
    BY <1>9, EventMoves DEF AcknowledgeSignal, CloseSignal, ResumeSignals
  <2> QED BY <1>1, <1>9, <2>1, <2>2 DEF AcknowledgeSignal, CloseSignal, LaneTyped, PairTyped, MonTyped,
              RevTyped, files
<1>10. CASE NoSignal \/ ResumeDies
    BY <1>1, <1>10, IdleProcesses DEF NoSignal, ResumeDies, QueueTyped, Ids, LaneTyped, PairTyped, MonTyped,
       RevTyped, ResTyped, files
<1> QED BY <1>3, <1>4, <1>5, <1>6, <1>7, <1>8, <1>9, <1>10 DEF ResumeActs, ResumeStep

LEMMA TypedNext == Typed /\ [Next]_vars => Typed'
<1>1. Typed /\ UNCHANGED vars => Typed'
    BY DEF vars, files, procs, Typed, QueueTyped, Ids, LaneTyped, PairTyped, MonTyped, RevTyped, ResTyped
<1> QED BY <1>1, Steps, ControllerTyped, MonitorTyped, RootTyped, ReviewTyped, ResumeTyped

(* Every record of the loop keeps its shape, with any number of runs and    *)
(* any overlap of the processes.                                            *)
THEOREM ReviewTypeCorrect == Spec => []TypeOK
<1>1. Spec => []Typed
    BY InitTyped, TypedNext, PTL DEF Spec
<1> QED BY <1>1, TypedIsTypeOK, PTL

-----------------------------------------------------------------------------
(* One decision.  The two records are written and removed by five steps     *)
(* only, and each of them leaves either half a pair or a whole one.         *)

LEMMA PairSteps ==
    [Next]_vars => \/ UNCHANGED <<review, accept>>
                   \/ RecoverBrokenPair \/ Publish \/ PublishInterrupted
                   \/ ClearReview \/ ClearAccept
<1> SUFFICES ASSUME [Next]_vars
    PROVE  \/ UNCHANGED <<review, accept>> \/ RecoverBrokenPair \/ Publish
           \/ PublishInterrupted \/ ClearReview \/ ClearAccept
    OBVIOUS
<1> USE DEF files, procs
<1>1. CASE ControllerStep
    BY <1>1 DEF ControllerStep, Launch, ProviderExits, ValidResult, NoResult, Correct, LaneEnded,
           DecisionSeen, LaneAccepted, ControllerDies, Retire, ForceStop
<1>2. CASE MonitorActs
    BY <1>2 DEF MonitorActs, MonitorStep, RecoveryFailed, MonitorDies, Scan, RestoreReview, Reread,
           RecoverLostEvent, RequestReview, MarkRequested, DeriveStatus, PromoteStatus, MarkReported
<1>3. CASE RootActs
    BY <1>3 DEF RootActs, Acknowledge, Close
<1>4. CASE ReviewActs
    BY <1>4 DEF ReviewActs, ReviewStep, ReviewDies, ResolveReview, ReadSources, CloseReviewEvent
<1>5. CASE ResumeActs
    BY <1>5 DEF ResumeActs, ResumeStep, ResumeDies, RunResume, MarkResuming, ClearResult, ClearStatus,
           ReplaceRun, AcknowledgeSignal, CloseSignal, NoSignal
<1>6. CASE UNCHANGED vars
    BY <1>6 DEF vars
<1> QED BY <1>1, <1>2, <1>3, <1>4, <1>5, <1>6, Steps

(* A review and an acceptance on record about the same run tell of the same *)
(* decision, however reviews overlap, contradict each other, are            *)
(* interrupted between the two records, or are cleared by the monitor and   *)
(* by resume-lane (_write_pair, monitor.py, resume.py).                     *)
THEOREM DecisionsAgree == Spec => []OneDecision
<1>1. Init => OneDecision
    BY DEF Init, OneDecision, NoReview
<1>2. ASSUME OneDecision, [Next]_vars PROVE OneDecision'
  <2>1. CASE UNCHANGED <<review, accept>>
    BY <1>2, <2>1 DEF OneDecision, PairValid
  <2>2. CASE RecoverBrokenPair
    BY <1>2, <2>2 DEF RecoverBrokenPair, OneDecision, PairValid, NoReview
  <2>3. CASE Publish
    <3>1. CASE Compatible /\ review = NoReview /\ accept = NoAccept
      BY <2>3, <3>1 DEF Publish, OneDecision, PairValid, MyReview, MyAccept
    <3>2. CASE Compatible /\ review = NoReview /\ accept # NoAccept
      BY <2>3, <3>2 DEF Publish, OneDecision, PairValid, MyReview, MyAccept, Compatible
    <3>3. CASE Compatible /\ review # NoReview /\ accept = NoAccept
      BY <2>3, <3>3 DEF Publish, OneDecision, PairValid, MyReview, MyAccept, Compatible
    <3>4. CASE ~Compatible \/ (review # NoReview /\ accept # NoAccept)
      BY <1>2, <2>3, <3>4 DEF Publish, OneDecision, PairValid
    <3> QED BY <3>1, <3>2, <3>3, <3>4
  <2>4. CASE PublishInterrupted
    BY <2>4 DEF PublishInterrupted, PairAbsent, NoAccept, OneDecision, PairValid
  <2>5. CASE ClearReview \/ ClearAccept
    BY <2>5 DEF ClearReview, ClearAccept, NoReview, NoAccept, OneDecision, PairValid
  <2> QED BY <1>2, <2>1, <2>2, <2>3, <2>4, <2>5, PairSteps
<1> QED BY <1>1, <1>2, PTL DEF Spec

-----------------------------------------------------------------------------
(* What each process acts on is the lane's current run.  The copies of a    *)
(* monitor's pass are, unless a resume overtakes it: that is excluded here, *)
(* by LatePass or because there is one run only.                            *)

SolitaryPass == MaxRun = 1 \/ ~LatePass

Clearing == {"result", "review", "accept", "status", "replace"}
Gone == {"resuming", "retired"}

OwnCopies ==
    /\ lane.run > 0
    /\ res.pc # "idle" => mon.pc = "idle" /\ 0 < res.run
    /\ mon.pc # "idle" => mon.snap.run = lane.run
    /\ Live => ctl.run = lane.run
    /\ res.pc \in Clearing => ~Live /\ lane.run = res.run /\ lane.lifecycle \in Gone
    /\ rev.pc # "idle" => 0 < rev.run /\ rev.run <= lane.run
    /\ \A e \in Ids : e.run <= lane.run

LEMMA ControllerFrame ==
    ASSUME Typed, ControllerStep
    PROVE  /\ UNCHANGED <<events, review, accept, mon, rev, res>>
           /\ lane'.run = lane.run /\ lane'.reported = lane.reported
<1>1. UNCHANGED <<events, review, accept, mon, rev, res>>
    BY DEF ControllerStep, Launch, ProviderExits, ValidResult, NoResult, Correct, LaneEnded,
           DecisionSeen, LaneAccepted, ControllerDies, Retire, ForceStop, files, procs
<1>2. lane'.run = lane.run /\ lane'.reported = lane.reported
    BY DEF Typed, LaneTyped, LaneRecord, ControllerStep, Launch, ProviderExits, ValidResult, NoResult,
           Correct, LaneEnded, DecisionSeen, LaneAccepted, ControllerDies, Retire, ForceStop
<1> QED BY <1>1, <1>2

LEMMA MonitorFrame ==
    ASSUME Typed, MonitorActs
    PROVE  /\ UNCHANGED <<ctl, status, result, rev, res>>
           /\ lane'.run = lane.run /\ lane'.pending = lane.pending
           /\ lane'.lifecycle = lane.lifecycle \/ RestoreReview
<1>1. UNCHANGED <<ctl, status, result, rev, res>>
    BY DEF MonitorActs, MonitorStep, RecoveryFailed, MonitorDies, Scan, RecoverBrokenPair,
           RestoreReview, Reread, RecoverLostEvent, RequestReview, MarkRequested, DeriveStatus,
           PromoteStatus, MarkReported, files
<1>2. /\ lane'.run = lane.run /\ lane'.pending = lane.pending
      /\ lane'.lifecycle = lane.lifecycle \/ RestoreReview
    BY DEF Typed, LaneTyped, LaneRecord, MonitorActs, MonitorStep, RecoveryFailed, MonitorDies, Scan,
           RecoverBrokenPair, RestoreReview, Reread, RecoverLostEvent, RequestReview, MarkRequested,
           DeriveStatus, PromoteStatus, MarkReported
<1> QED BY <1>1, <1>2

LEMMA RootFrame ==
    ASSUME Typed, RootActs
    PROVE  /\ UNCHANGED <<lane, ctl, status, result, review, accept, mon, rev, res>>
           /\ Ids' = Ids /\ \A x \in Ids : Open(x)' => Open(x)
<1>1. PICK e \in Ids : Acknowledge(e) \/ Close(e)
    BY DEF RootActs
<1>2. Ids' = Ids /\ \A x \in Ids : Open(x)' => Open(x)
    BY <1>1, EventMoves DEF Acknowledge, Close, Typed
<1> QED BY <1>1, <1>2 DEF Acknowledge, Close, files, procs

LEMMA ReviewFrame ==
    ASSUME Typed, ReviewActs
    PROVE  /\ UNCHANGED <<lane, ctl, status, result, mon, res>>
           /\ Ids' = Ids /\ \A x \in Ids : Open(x)' => Open(x)
           /\ rev'.pc # "idle" => rev'.run = (IF rev.pc = "idle" THEN lane.run ELSE rev.run)
<1>1. UNCHANGED <<lane, ctl, status, result, mon, res>>
    BY DEF ReviewActs, ReviewStep, PublishInterrupted, ReviewDies, ResolveReview, ReadSources,
           Publish, CloseReviewEvent, files
<1>2. events' = events \/ events' = [events EXCEPT ![rev.ev] = "CLOSED"]
    BY DEF ReviewActs, ReviewStep, PublishInterrupted, ReviewDies, ResolveReview, ReadSources,
           Publish, CloseReviewEvent, files, close_event
<1>3. Ids' = Ids /\ \A x \in Ids : Open(x)' => Open(x)
    BY <1>2 DEF Typed, QueueTyped, Ids, Open
<1>4. ASSUME NEW pc \in RevPcs, ReviewGoto(pc), rev'.pc # "idle" PROVE rev'.run = rev.run
    BY <1>4, IdleProcesses DEF ReviewGoto, Typed, RevTyped, Reviews
<1>5. rev'.pc # "idle" => rev'.run = (IF rev.pc = "idle" THEN lane.run ELSE rev.run)
  <2>1. ASSUME NEW ev \in Ids \cup {NoEvent}, NEW d \in Decisions, ResolveReview(ev, d)
        PROVE  rev'.run = lane.run /\ rev.pc = "idle"
    BY <2>1 DEF ResolveReview
  <2>2. CASE ReadSources \/ Publish \/ PublishInterrupted \/ CloseReviewEvent
    <3>1. rev.pc # "idle" /\ \E pc \in RevPcs : ReviewGoto(pc)
      BY <2>2 DEF ReadSources, Publish, PublishInterrupted, CloseReviewEvent, RevPcs
    <3> QED BY <1>4, <3>1
  <2>3. CASE ReviewDies
    BY <2>3, IdleProcesses DEF ReviewDies
  <2> QED BY <2>1, <2>2, <2>3 DEF ReviewActs, ReviewStep
<1> QED BY <1>1, <1>3, <1>5

LEMMA ResumeFrame ==
    ASSUME Typed, ResumeActs
    PROVE  /\ UNCHANGED <<ctl, mon, rev>>
           /\ Ids' = Ids /\ \A x \in Ids : Open(x)' => Open(x)
           /\ \/ UNCHANGED lane
              \/ /\ MarkResuming /\ ~Live /\ lane'.lifecycle = "resuming"
                 /\ lane'.run = lane.run /\ lane'.reported = lane.reported
              \/ ReplaceRun /\ Unchanged("resuming") /\ lane' = FreshRun(res.run + 1)
<1>1. UNCHANGED <<ctl, mon, rev>>
    BY DEF ResumeActs, ResumeStep, ResumeDies, RunResume, MarkResuming, ClearResult, ClearReview,
           ClearAccept, ClearStatus, ReplaceRun, AcknowledgeSignal, CloseSignal, NoSignal
<1>2. events' = events \/ \E e \in Ids : acknowledge_event(e) \/ close_event(e)
    BY DEF ResumeActs, ResumeStep, ResumeDies, RunResume, MarkResuming, ClearResult, ClearReview,
           ClearAccept, ClearStatus, ReplaceRun, AcknowledgeSignal, CloseSignal, NoSignal, ResumeSignals
<1>3. Ids' = Ids /\ \A x \in Ids : Open(x)' => Open(x)
    BY <1>2, EventMoves DEF Typed, Ids, Open
<1>4. CASE MarkResuming
    BY <1>1, <1>3, <1>4 DEF MarkResuming, Typed, LaneTyped, LaneRecord
<1>5. CASE ReplaceRun
    BY <1>1, <1>3, <1>5 DEF ReplaceRun
<1>6. CASE ~MarkResuming /\ ~ReplaceRun
  <2>1. UNCHANGED lane
    BY <1>6 DEF ResumeActs, ResumeStep, ResumeDies, RunResume, ClearResult, ClearReview,
           ClearAccept, ClearStatus, AcknowledgeSignal, CloseSignal, NoSignal
  <2> QED BY <1>1, <1>3, <2>1
<1> QED BY <1>4, <1>5, <1>6

LEMMA PromoteOwn ==
    ASSUME QueueTyped, NEW s \in Statuses, NEW r \in Runs, NEW k \in Keys, promote_event(s, r, k),
           NEW m \in Nat, r <= m, \A e \in Ids : e.run <= m
    PROVE  \A e \in Ids' : e.run <= m
BY PromoteFacts

LEMMA OwnInit == Init => OwnCopies
BY DEF Init, OwnCopies, MonIdle, ResIdle, RevIdle, Live, Clearing, Ids

LEMMA OwnController == Typed /\ OwnCopies /\ ControllerStep => OwnCopies'
<1> SUFFICES ASSUME Typed, OwnCopies, ControllerStep PROVE OwnCopies'
    OBVIOUS
<1>1. /\ UNCHANGED <<events, review, accept, mon, rev, res>> /\ lane'.run = lane.run
    BY ControllerFrame
<1>2. Live' => ctl'.run = lane.run
    BY DEF OwnCopies, Live, Typed, LaneTyped, ControllerStep, Launch, ProviderExits, ValidResult,
           NoResult, Correct, LaneEnded, DecisionSeen, LaneAccepted, ControllerDies, Retire, ForceStop
<1>3. ASSUME ~Live, lane.lifecycle \in Gone PROVE ~Live' /\ lane'.lifecycle \in Gone
    BY <1>3 DEF Gone, Live, Typed, LaneTyped, LaneRecord, ControllerStep, Launch, ProviderExits,
           ValidResult, NoResult, Correct, LaneEnded, DecisionSeen, LaneAccepted, ControllerDies,
           Retire, ForceStop, Ids
<1> QED BY <1>1, <1>2, <1>3 DEF OwnCopies, Ids

LEMMA OwnMonitor == SolitaryPass /\ Typed /\ OwnCopies /\ MonitorActs => OwnCopies'
<1> SUFFICES ASSUME SolitaryPass, Typed, OwnCopies, MonitorActs PROVE OwnCopies'
    OBVIOUS
<1>1. UNCHANGED <<ctl, status, result, rev, res>> /\ lane'.run = lane.run
    BY MonitorFrame
<1>2. res.pc = "idle"
  <2>1. CASE Scan
    <3>1. CASE LatePass
      BY <3>1, RunFacts DEF SolitaryPass, OwnCopies, Typed, ResTyped, Resumes
    <3> QED BY <2>1, <3>1 DEF Scan
  <2>2. CASE ~Scan
    BY <2>2 DEF OwnCopies, MonitorActs, MonitorStep, RecoveryFailed, MonitorDies, RecoverBrokenPair,
           RestoreReview, Reread, RecoverLostEvent, RequestReview, MarkRequested, DeriveStatus,
           PromoteStatus, MarkReported
  <2> QED BY <2>1, <2>2
<1>3. mon'.pc # "idle" => mon'.snap.run = lane.run
  <2> USE DEF Typed
  <2>1. ASSUME NEW pc \in MonPcs \ {"report"}, MonGoto(pc), mon.pc # "idle"
        PROVE  mon'.snap.run = lane.run
    BY <2>1, MonGotoTyped DEF OwnCopies
  <2>2. CASE Scan
    BY <2>2, ScanFacts
  <2>3. CASE RecoverBrokenPair \/ RestoreReview \/ RequestReview \/ MarkRequested \/ PromoteStatus
             \/ RecoveryFailed
    BY <2>1, <2>3 DEF RecoverBrokenPair, RestoreReview, RequestReview, MarkRequested, PromoteStatus,
       RecoveryFailed, MonPcs
  <2>4. CASE Reread
    BY <2>4 DEF Reread, MonTyped, Passes
  <2>5. CASE RecoverLostEvent
    <3>1. \/ \E pc \in MonPcs \ {"report"} : MonGoto(pc)
          \/ \E k : mon' = [mon EXCEPT !.pc = "request", !.key = k]
      BY <2>5 DEF RecoverLostEvent, MonPcs
    <3> QED BY <2>1, <2>5, <3>1 DEF RecoverLostEvent, OwnCopies, MonTyped, Passes
  <2>6. CASE DeriveStatus
    BY <2>6, DeriveFacts, IdleProcesses DEF OwnCopies, DeriveStatus
  <2>7. CASE MarkReported \/ MonitorDies
    BY <2>7, IdleProcesses DEF MarkReported, MonitorDies
  <2> QED BY <2>2, <2>3, <2>4, <2>5, <2>6, <2>7 DEF MonitorActs, MonitorStep
<1>4. \A e \in Ids' : e.run <= lane.run
  <2>1. CASE RequestReview \/ PromoteStatus
    <3>1. /\ QueueTyped /\ mon.snap.run = lane.run /\ lane.run \in Runs /\ mon.key \in Keys
          /\ mon.pc = "report" => mon.status \in Statuses
      BY <2>1 DEF Typed, MonTyped, Passes, LaneTyped, LaneRecord, OwnCopies, RequestReview, PromoteStatus
    <3>2. \E s \in Statuses, k \in Keys : promote_event(s, lane.run, k)
      BY <2>1, <3>1 DEF RequestReview, PromoteStatus, Statuses, Keys
    <3> QED BY <3>1, <3>2, PromoteOwn, RunFacts DEF OwnCopies
  <2>2. CASE ~(RequestReview \/ PromoteStatus)
    <3>1. UNCHANGED events
      BY <2>2 DEF MonitorActs, MonitorStep, RecoveryFailed, MonitorDies, Scan, RecoverBrokenPair,
         RestoreReview, Reread, RecoverLostEvent, MarkRequested, DeriveStatus, MarkReported
    <3> QED BY <3>1 DEF OwnCopies, Ids
  <2> QED BY <2>1, <2>2
<1> QED BY <1>1, <1>2, <1>3, <1>4 DEF OwnCopies, Live, Clearing

LEMMA OwnReview == Typed /\ OwnCopies /\ ReviewActs => OwnCopies'
<1> SUFFICES ASSUME Typed, OwnCopies, ReviewActs PROVE OwnCopies'
    OBVIOUS
<1>1. lane.run \in Nat
    BY RunFacts DEF Typed, LaneTyped, LaneRecord
<1> QED BY <1>1, ReviewFrame DEF OwnCopies, Live

LEMMA OwnResume == SolitaryPass /\ Typed /\ OwnCopies /\ ResumeActs => OwnCopies'
<1> SUFFICES ASSUME SolitaryPass, Typed, OwnCopies, ResumeActs PROVE OwnCopies'
    OBVIOUS
<1>1. UNCHANGED <<ctl, mon, rev>> /\ Ids' = Ids
    BY ResumeFrame
<1>2. lane.run \in Nat /\ res.run \in Nat /\ lane.run > 0
    BY RunFacts DEF Typed, LaneTyped, LaneRecord, ResTyped, Resumes, OwnCopies
<1>3. ASSUME NEW pc \in ResPcs, ResumeGoto(pc) PROVE res'.pc = pc /\ res'.run = res.run
    BY <1>3 DEF ResumeGoto, Typed, ResTyped, Resumes
<1>4. CASE RunResume
  <2>1. mon.pc = "idle"
    BY <1>2, <1>4, RunFacts DEF RunResume, SolitaryPass
  <2> QED BY <1>1, <1>2, <1>4, <2>1 DEF RunResume, OwnCopies, Live, Clearing
<1>5. CASE MarkResuming
  <2>1. \/ res'.pc = "idle" /\ UNCHANGED lane
        \/ /\ ~Live /\ lane'.run = lane.run /\ lane.run = res.run /\ lane'.lifecycle = "resuming"
           /\ res'.pc = "result" /\ res'.run = res.run
    BY <1>5, IdleProcesses DEF MarkResuming, Unchanged, Typed, LaneTyped, LaneRecord, ResTyped, Resumes
  <2> QED BY <1>1, <1>2, <1>5, <2>1 DEF MarkResuming, OwnCopies, Live, Clearing, Gone
<1>6. CASE ClearResult \/ ClearReview \/ ClearAccept \/ ClearStatus
  <2>1. UNCHANGED lane /\ res.pc \in Clearing
    BY <1>6 DEF ClearResult, ClearReview, ClearAccept, ClearStatus, Clearing
  <2>2. res'.pc = "idle" \/ res'.run = res.run
    BY <1>3, <1>6, IdleProcesses DEF ClearResult, ClearReview, ClearAccept, ClearStatus, ResPcs
  <2>3. res.pc # "idle"
    BY <2>1 DEF Clearing
  <2> QED BY <1>1, <1>2, <2>1, <2>2, <2>3 DEF OwnCopies, Live, Clearing
<1>7. CASE ReplaceRun
  <2>1. CASE Unchanged("resuming")
    <3>1. res'.pc = "signal" /\ res'.run = res.run /\ lane'.run = res.run + 1 /\ ~Live
          /\ res.run = lane.run /\ res.pc = "replace"
      BY <1>3, <1>7, <2>1 DEF ReplaceRun, FreshRun, ResPcs, OwnCopies, Clearing
    <3>2. mon.pc = "idle" /\ 0 < res.run
      BY <3>1 DEF OwnCopies
    <3>3. \A e \in Ids : e.run \in Nat
      BY RunFacts DEF Typed, QueueTyped, EventId
    <3>4. rev.run \in Nat
      BY RunFacts DEF Typed, RevTyped, Reviews
    <3> QED BY <1>1, <1>2, <3>1, <3>2, <3>3, <3>4 DEF OwnCopies, Live, Clearing
  <2>2. CASE ~Unchanged("resuming")
    BY <1>1, <1>7, <2>2, IdleProcesses DEF ReplaceRun, OwnCopies, Live, Clearing
  <2> QED BY <2>1, <2>2
<1>8. CASE AcknowledgeSignal
  <2>1. UNCHANGED lane /\ res'.pc = "signal" /\ res'.run = res.run /\ res.pc = "signal"
    BY <1>3, <1>8 DEF AcknowledgeSignal, ResPcs
  <2> QED BY <1>1, <1>2, <2>1 DEF OwnCopies, Live, Clearing
<1>9. CASE CloseSignal \/ NoSignal \/ ResumeDies
  <2>1. UNCHANGED lane /\ res'.pc = "idle"
    BY <1>9, IdleProcesses DEF CloseSignal, NoSignal, ResumeDies
  <2> QED BY <1>1, <1>2, <2>1 DEF OwnCopies, Live, Clearing
<1> QED BY <1>4, <1>5, <1>6, <1>7, <1>8, <1>9 DEF ResumeActs, ResumeStep

LEMMA OwnNext == SolitaryPass /\ Typed /\ OwnCopies /\ [Next]_vars => OwnCopies'
<1>1. Typed /\ OwnCopies /\ RootActs => OwnCopies'
    BY RootFrame DEF OwnCopies, Live
<1>2. OwnCopies /\ UNCHANGED vars => OwnCopies'
    BY DEF vars, files, procs, OwnCopies, Live, Ids
<1> QED BY <1>1, <1>2, Steps, OwnController, OwnMonitor, OwnReview, OwnResume

-----------------------------------------------------------------------------
(* The result and the lifecycle: a lane waits for its review only with the  *)
(* result of its current run, and nothing of the run goes on once the lane  *)
(* is resuming, accepted or retired.                                        *)

Past == {"accepted", "resuming", "retired"}

ResultInv ==
    /\ lane.lifecycle = "review_pending" => result = lane.run
    /\ ctl.pc \in {"working", "failed"} => result # lane.run
    /\ ctl.pc \in {"valid", "waiting", "copied"} => result = lane.run
    /\ lane.lifecycle = "running" /\ lane.pending => result # lane.run /\ ~Live
    /\ lane.lifecycle \in Past => ~Live
    /\ mon.pc = "restore" => result = lane.run
    /\ res.pc \in Clearing \ {"result"} => result = 0

LEMMA ResultInit == Init => ResultInv
BY DEF Init, ResultInv, Past, Clearing, Live, MonIdle, ResIdle

LEMMA ResultController == Typed /\ OwnCopies /\ ResultInv /\ ControllerStep => ResultInv'
<1> SUFFICES ASSUME Typed, OwnCopies, ResultInv, ControllerStep PROVE ResultInv'
    OBVIOUS
<1>1. /\ UNCHANGED <<mon, res>> /\ lane'.run = lane.run
      /\ Live => ctl.run = lane.run
      /\ Live => res.pc \notin Clearing
    BY ControllerFrame DEF OwnCopies
<1> USE DEF ResultInv, Live, Past
<1>2. CASE Launch
    BY <1>1, <1>2 DEF Launch, Typed, LaneTyped, LaneRecord
<1>3. CASE ProviderExits
    BY <1>1, <1>3 DEF ProviderExits, Typed, LaneTyped
<1>4. CASE ValidResult \/ NoResult \/ Correct
    BY <1>1, <1>4 DEF ValidResult, NoResult, Correct, Typed, LaneTyped
<1>5. CASE LaneEnded
    BY <1>1, <1>5 DEF LaneEnded, files, Typed, LaneTyped, LaneRecord
<1>6. CASE DecisionSeen \/ LaneAccepted
    BY <1>1, <1>6 DEF DecisionSeen, LaneAccepted, files, Typed, LaneTyped, LaneRecord
<1>7. CASE ControllerDies
    BY <1>1, <1>7 DEF ControllerDies, files, Typed, LaneTyped
<1>8. CASE Retire \/ ForceStop
    BY <1>1, <1>8 DEF Retire, ForceStop, files, Typed, LaneTyped, LaneRecord
<1> QED BY <1>2, <1>3, <1>4, <1>5, <1>6, <1>7, <1>8 DEF ControllerStep

LEMMA ResultMonitor == Typed /\ OwnCopies /\ ResultInv /\ MonitorActs => ResultInv'
<1> SUFFICES ASSUME Typed, OwnCopies, ResultInv, MonitorActs PROVE ResultInv'
    OBVIOUS
<1>1. /\ UNCHANGED <<ctl, result, res>> /\ lane'.run = lane.run /\ lane'.pending = lane.pending
      /\ lane'.lifecycle = lane.lifecycle \/ RestoreReview
    BY MonitorFrame
<1>2. ASSUME RestoreReview PROVE result = lane.run /\ lane'.lifecycle = "review_pending"
    BY <1>2 DEF RestoreReview, ResultInv, Typed, LaneTyped, LaneRecord
<1>3. ASSUME mon'.pc = "restore" PROVE result = lane.run
  <2>1. ASSUME NEW pc \in MonPcs \ {"report"}, MonGoto(pc) PROVE mon'.pc = pc
    BY <2>1, MonGotoTyped DEF Typed
  <2>2. CASE RecoverBrokenPair
    BY <1>3, <2>1, <2>2 DEF RecoverBrokenPair, OwnCopies, MonPcs
  <2>3. CASE RestoreReview \/ RequestReview \/ MarkRequested \/ PromoteStatus \/ RecoveryFailed
    BY <1>3, <2>1, <2>3 DEF RestoreReview, RequestReview, MarkRequested, PromoteStatus, RecoveryFailed, MonPcs
  <2>4. CASE Scan \/ DeriveStatus \/ MarkReported \/ MonitorDies
    BY <1>3, <2>4, ScanFacts, DeriveFacts, IdleProcesses DEF MarkReported, MonitorDies, Typed
  <2>5. CASE Reread \/ RecoverLostEvent
    BY <1>3, <2>1, <2>5 DEF Reread, RecoverLostEvent, MonPcs, Typed, MonTyped, Passes
  <2> QED BY <2>2, <2>3, <2>4, <2>5 DEF MonitorActs, MonitorStep
<1> QED BY <1>1, <1>2, <1>3 DEF ResultInv, Live, Past

LEMMA ResultResume == Typed /\ OwnCopies /\ ResultInv /\ ResumeActs => ResultInv'
<1> SUFFICES ASSUME Typed, OwnCopies, ResultInv, ResumeActs PROVE ResultInv'
    OBVIOUS
<1>1. UNCHANGED <<ctl, mon>> /\ (UNCHANGED lane \/ MarkResuming \/ ReplaceRun)
    BY ResumeFrame
<1>2. res.pc # "idle" => mon.pc = "idle"
    BY DEF OwnCopies
<1>3. ASSUME NEW pc \in ResPcs, ResumeGoto(pc) PROVE res'.pc = pc
    BY <1>3 DEF ResumeGoto, Typed, ResTyped, Resumes
<1> USE DEF ResultInv, Live, Past, Clearing
<1>4. CASE MarkResuming
  <2>1. UNCHANGED result /\ res'.pc \in {"idle", "result"}
    BY <1>4, IdleProcesses DEF MarkResuming, files, Typed, ResTyped, Resumes
  <2>2. UNCHANGED lane \/ (~Live /\ lane'.lifecycle = "resuming" /\ lane'.run = lane.run)
    BY <1>4, ResumeFrame DEF MarkResuming, Typed, LaneTyped, LaneRecord
  <2> QED BY <1>1, <2>1, <2>2
<1>5. CASE ReplaceRun
  <2>1. UNCHANGED result /\ res'.pc \in {"idle", "signal"} /\ result = 0 /\ mon.pc = "idle"
    BY <1>2, <1>3, <1>5, IdleProcesses DEF ReplaceRun, files, ResPcs
  <2>2. UNCHANGED lane \/ (~Live /\ lane' = FreshRun(res.run + 1) /\ res.run > 0)
    BY <1>5 DEF ReplaceRun, OwnCopies
  <2>3. res.run \in Nat
    BY RunFacts DEF Typed, ResTyped, Resumes
  <2> QED BY <1>1, <2>1, <2>2, <2>3 DEF FreshRun
<1>6. CASE ClearResult
  <2>1. CASE Unchanged("resuming")
    <3>1. result' = 0 /\ res'.pc = "review" /\ ~Live /\ lane.run > 0 /\ UNCHANGED lane
          /\ mon.pc = "idle" /\ lane.lifecycle = "resuming"
      BY <1>2, <1>3, <1>6, <2>1 DEF ClearResult, Unchanged, OwnCopies, ResPcs
    <3> QED BY <1>1, <3>1 DEF Typed, LaneTyped
  <2>2. CASE ~Unchanged("resuming")
    BY <1>1, <1>6, <2>2, IdleProcesses DEF ClearResult
  <2> QED BY <2>1, <2>2
<1>7. CASE RunResume
    BY <1>1, <1>7 DEF RunResume, files
<1>8. CASE ClearReview \/ ClearAccept \/ ClearStatus
  <2>1. UNCHANGED <<lane, result>> /\ res.pc \in Clearing \ {"result"}
    BY <1>8 DEF ClearReview, ClearAccept, ClearStatus
  <2> QED BY <1>1, <2>1
<1>9. CASE AcknowledgeSignal \/ CloseSignal \/ NoSignal \/ ResumeDies
  <2>1. UNCHANGED <<lane, result>> /\ res'.pc \in {"idle", "signal"}
    BY <1>3, <1>9, IdleProcesses DEF AcknowledgeSignal, CloseSignal, NoSignal, ResumeDies, files, ResPcs
  <2> QED BY <1>1, <2>1
<1> QED BY <1>4, <1>5, <1>6, <1>7, <1>8, <1>9 DEF ResumeActs, ResumeStep

LEMMA ResultNext == Typed /\ OwnCopies /\ ResultInv /\ [Next]_vars => ResultInv'
<1>1. Typed /\ ResultInv /\ RootActs => ResultInv'
    BY RootFrame DEF ResultInv, Live
<1>2. Typed /\ ResultInv /\ ReviewActs => ResultInv'
    BY ReviewFrame DEF ResultInv, Live
<1>3. ResultInv /\ UNCHANGED vars => ResultInv'
    BY DEF vars, files, procs, ResultInv, Live
<1> QED BY <1>1, <1>2, <1>3, Steps, ResultController, ResultMonitor, ResultResume

(* A decision about the lane's current run leaves the record only through   *)
(* resume-lane.                                                             *)
LEMMA PairStays ==
    ASSUME Typed, OwnCopies, [Next]_vars, PairValid(lane.run)
    PROVE  UNCHANGED <<review, accept>> \/ ClearReview \/ ClearAccept
<1>1. lane.run > 0 /\ lane.run \in Nat
    BY RunFacts DEF OwnCopies, Typed, LaneTyped, LaneRecord
<1>2. review # NoReview /\ accept # NoAccept
    BY <1>1 DEF PairValid, NoReview, NoAccept
<1>3. RecoverBrokenPair => UNCHANGED <<review, accept>>
    BY DEF RecoverBrokenPair, PairBroken, OwnCopies
<1>4. Publish => UNCHANGED <<review, accept>>
    BY <1>2 DEF Publish
<1>5. ~PublishInterrupted
    BY <1>2 DEF PublishInterrupted, PairAbsent
<1> QED BY <1>3, <1>4, <1>5, PairSteps

-----------------------------------------------------------------------------
(* An acceptance is kept, when neither a review nor a monitor's pass        *)
(* overlaps a resume: resume-lane then clears only what is not accepted.    *)

SolitaryResume == MaxRun = 1 \/ ~(LateReview \/ LatePass)

ClearsUnaccepted ==
    /\ res.pc # "idle" => rev.pc = "idle"
    /\ res.pc \in Clearing \cup {"mark"} => ~AcceptedRun(lane.run)

LEMMA ClearsInit == Init => ClearsUnaccepted
BY DEF Init, ClearsUnaccepted, ResIdle, Clearing

LEMMA ClearsReview ==
    SolitaryResume /\ Typed /\ OwnCopies /\ ClearsUnaccepted /\ ReviewActs => ClearsUnaccepted'
<1> SUFFICES ASSUME SolitaryResume, Typed, OwnCopies, ClearsUnaccepted, ReviewActs
    PROVE  ClearsUnaccepted'
    OBVIOUS
<1>1. UNCHANGED res
    BY ReviewFrame
<1>2. res.pc = "idle"
  <2>1. MaxRun = 1 => res.pc = "idle"
    BY RunFacts DEF OwnCopies, Typed, ResTyped, Resumes
  <2>2. ASSUME NEW ev \in Ids \cup {NoEvent}, NEW d \in Decisions, ResolveReview(ev, d)
        PROVE  res.pc = "idle"
    BY <2>1, <2>2 DEF ResolveReview, SolitaryResume
  <2>3. CASE ReadSources \/ Publish \/ CloseReviewEvent \/ PublishInterrupted \/ ReviewDies
    BY <2>3 DEF ClearsUnaccepted, ReadSources, Publish, CloseReviewEvent, PublishInterrupted, ReviewDies
  <2> QED BY <2>2, <2>3 DEF ReviewActs, ReviewStep
<1> QED BY <1>1, <1>2 DEF ClearsUnaccepted, Clearing

LEMMA ClearsResume ==
    SolitaryResume /\ Typed /\ OwnCopies /\ ClearsUnaccepted /\ ResumeActs => ClearsUnaccepted'
<1> SUFFICES ASSUME SolitaryResume, Typed, OwnCopies, ClearsUnaccepted, ResumeActs
    PROVE  ClearsUnaccepted'
    OBVIOUS
<1>1. UNCHANGED rev
    BY ResumeFrame
<1>2. ASSUME NEW pc \in ResPcs, ResumeGoto(pc) PROVE res'.pc = pc
    BY <1>2 DEF ResumeGoto, Typed, ResTyped, Resumes
<1>3. CASE RunResume
  <2>1. MaxRun # 1
    BY <1>3, RunFacts DEF RunResume, OwnCopies, Typed, LaneTyped, LaneRecord
  <2>2. UNCHANGED <<lane, review, accept>> /\ rev.pc = "idle" /\ ~AcceptedRun(lane.run)
    BY <1>3, <2>1 DEF RunResume, files, SolitaryResume, AcceptedRun
  <2> QED BY <1>1, <2>2 DEF ClearsUnaccepted, AcceptedRun, PairValid
<1>4. CASE MarkResuming
  <2>1. UNCHANGED <<review, accept>> /\ lane'.run = lane.run /\ res.pc = "mark"
    BY <1>4 DEF MarkResuming, files, Typed, LaneTyped, LaneRecord
  <2> QED BY <1>1, <2>1 DEF ClearsUnaccepted, AcceptedRun, PairValid
<1>5. CASE ClearResult \/ ClearStatus
  <2>1. UNCHANGED <<lane, review, accept>> /\ res.pc \in Clearing
    BY <1>5 DEF ClearResult, ClearStatus, Clearing
  <2> QED BY <1>1, <2>1 DEF ClearsUnaccepted, AcceptedRun, PairValid, Clearing
<1>6. CASE ClearReview \/ ClearAccept
  <2>1. UNCHANGED lane /\ res.pc \in Clearing /\ (review'.run = 0 \/ accept'.run = 0)
    BY <1>6 DEF ClearReview, ClearAccept, Clearing, NoReview, NoAccept
  <2> QED BY <1>1, <2>1 DEF ClearsUnaccepted, AcceptedRun, PairValid, Clearing
<1>7. CASE ReplaceRun
  <2>1. res'.pc \in {"idle", "signal"}
    BY <1>2, <1>7, IdleProcesses DEF ReplaceRun, ResPcs
  <2> QED BY <1>1, <1>7, <2>1 DEF ReplaceRun, ClearsUnaccepted, Clearing
<1>8. CASE AcknowledgeSignal \/ CloseSignal \/ NoSignal \/ ResumeDies
  <2>1. res.pc # "idle" /\ res'.pc \in {"idle", "signal"}
    BY <1>2, <1>8, IdleProcesses DEF AcknowledgeSignal, CloseSignal, NoSignal, ResumeDies, ResPcs
  <2> QED BY <1>1, <2>1 DEF ClearsUnaccepted, Clearing
<1> QED BY <1>3, <1>4, <1>5, <1>6, <1>7, <1>8 DEF ResumeActs, ResumeStep

LEMMA ClearsNext ==
    SolitaryResume /\ Typed /\ OwnCopies /\ ClearsUnaccepted /\ [Next]_vars => ClearsUnaccepted'
<1> SUFFICES ASSUME SolitaryResume, Typed, OwnCopies, ClearsUnaccepted, [Next]_vars
    PROVE  ClearsUnaccepted'
    OBVIOUS
<1>1. ASSUME UNCHANGED <<review, accept, rev, res>>, lane'.run = lane.run PROVE ClearsUnaccepted'
    BY <1>1 DEF ClearsUnaccepted, AcceptedRun, PairValid
<1>2. CASE ControllerStep
    BY <1>1, <1>2, ControllerFrame
<1>3. CASE MonitorActs
  <2>1. UNCHANGED <<rev, res>> /\ lane'.run = lane.run
    BY <1>3, MonitorFrame
  <2>2. CASE res.pc = "idle"
    BY <2>1, <2>2 DEF ClearsUnaccepted, Clearing
  <2>3. CASE res.pc # "idle"
    <3>1. Scan
      BY <1>3, <2>3 DEF OwnCopies, MonitorActs, MonitorStep, RecoveryFailed, MonitorDies,
         RecoverBrokenPair, RestoreReview, Reread, RecoverLostEvent, RequestReview, MarkRequested,
         DeriveStatus, PromoteStatus, MarkReported
    <3> QED BY <1>1, <2>1, <3>1 DEF Scan, files
  <2> QED BY <2>2, <2>3
<1>4. CASE RootActs
    BY <1>1, <1>4, RootFrame
<1>5. CASE UNCHANGED vars
    BY <1>1, <1>5 DEF vars, files, procs
<1> QED BY <1>2, <1>3, <1>4, <1>5, Steps, ClearsReview, ClearsResume

(* Once ROOT has accepted a lane's current run the acceptance stays on      *)
(* record until a fresh run replaces it, when resume-lane does not overlap  *)
(* a review or a monitor's pass; with a single run any overlap is allowed   *)
(* (monitor.py, review.py, resume.py).                                      *)
THEOREM AcceptanceIsKept == ASSUME SolitaryResume PROVE Spec => AcceptanceKept
<1>1. SolitaryPass
    BY DEF SolitaryResume, SolitaryPass
<1> DEFINE Inv == Typed /\ OwnCopies /\ ClearsUnaccepted
<1>2. Init => Inv
    BY InitTyped, OwnInit, ClearsInit
<1>3. Inv /\ [Next]_vars => Inv'
    BY <1>1, TypedNext, OwnNext, ClearsNext
<1>4. ASSUME Inv, [Next]_vars, AcceptedRun(lane.run), lane'.run = lane.run PROVE AcceptedRun(lane.run)'
  <2>1. PairValid(lane.run)
    BY <1>4 DEF AcceptedRun
  <2>2. ~ClearReview /\ ~ClearAccept
    BY <1>4 DEF ClearsUnaccepted, ClearReview, ClearAccept, Clearing
  <2>3. UNCHANGED <<review, accept>>
    BY <1>4, <2>1, <2>2, PairStays
  <2> QED BY <1>4, <2>3 DEF AcceptedRun, PairValid
<1>5. Inv /\ [Next]_vars => [AcceptedRun(lane.run) => AcceptedRun(lane.run)' \/ lane'.run # lane.run]_vars
    BY <1>4
<1> HIDE DEF Inv
<1> QED BY <1>2, <1>3, <1>5, PTL DEF Spec, AcceptanceKept

-----------------------------------------------------------------------------
(* A review event is closed only for a decision on record.                  *)

CloseInv ==
    rev.pc = "close" /\ lane.run = rev.run
    => PairValid(rev.run) \/ (lane.lifecycle \in Gone /\ result # lane.run)

LEMMA CloseInit == Init => CloseInv
BY DEF Init, CloseInv, RevIdle

LEMMA CloseReview == Typed /\ OwnCopies /\ CloseInv /\ ReviewActs => CloseInv'
<1> SUFFICES ASSUME Typed, OwnCopies, CloseInv, ReviewActs PROVE CloseInv'
    OBVIOUS
<1>1. UNCHANGED <<lane, result>>
    BY ReviewFrame
<1>2. ASSUME NEW ev \in Ids \cup {NoEvent}, NEW d \in Decisions, ResolveReview(ev, d) PROVE CloseInv'
    BY <1>1, <1>2 DEF ResolveReview, CloseInv, files, PairValid
<1>3. CASE Publish
  <2>1. CASE rev'.pc = "close"
    <3>1. Compatible /\ rev.run > 0 /\ rev'.run = rev.run
      BY <1>3, <2>1, IdleProcesses DEF Publish, OwnCopies, ReviewGoto, Typed, RevTyped, Reviews
    <3>2. review' = MyReview /\ accept' = MyAccept
      BY <1>3, <3>1 DEF Publish, Compatible
    <3>3. rev.run # 0
      BY <3>1, RunFacts DEF Typed, RevTyped, Reviews
    <3> QED BY <3>1, <3>2, <3>3 DEF CloseInv, PairValid, MyReview, MyAccept
  <2> QED BY <2>1 DEF CloseInv
<1>4. CASE ReadSources \/ PublishInterrupted \/ CloseReviewEvent \/ ReviewDies
  <2>1. rev'.pc # "close"
    BY <1>4, IdleProcesses DEF ReadSources, PublishInterrupted, CloseReviewEvent, ReviewDies,
       ReviewGoto, Typed, RevTyped, Reviews
  <2> QED BY <2>1 DEF CloseInv
<1> QED BY <1>2, <1>3, <1>4 DEF ReviewActs, ReviewStep

LEMMA CloseNext == Typed /\ OwnCopies /\ ResultInv /\ CloseInv /\ [Next]_vars => CloseInv'
<1> SUFFICES ASSUME Typed, OwnCopies, ResultInv, CloseInv, [Next]_vars,
                    rev'.pc = "close", lane'.run = rev'.run
    PROVE  PairValid(rev.run)' \/ (lane'.lifecycle \in Gone /\ result' # lane'.run)
    BY DEF CloseInv
<1>1. CASE ReviewActs
    BY <1>1, CloseReview DEF CloseInv
<1>2. CASE ~ReviewActs
  <2>1. UNCHANGED rev
    BY <1>2, Steps, ControllerFrame, MonitorFrame, RootFrame, ResumeFrame DEF vars, procs
  <2>2. lane.run = rev.run
    <3>1. ASSUME lane'.run # lane.run PROVE FALSE
      <4>1. ReplaceRun /\ Unchanged("resuming") /\ lane'.run = res.run + 1
        BY <1>2, <3>1, Steps, ControllerFrame, MonitorFrame, RootFrame, ResumeFrame
           DEF vars, FreshRun
      <4>2. rev.run <= lane.run /\ lane.run = res.run
        BY <2>1, <4>1 DEF OwnCopies, Unchanged
      <4> QED BY <2>1, <4>1, <4>2, RunFacts DEF Typed, RevTyped, Reviews, ResTyped, Resumes
    <3> QED BY <2>1, <3>1
  <2>3. lane'.run = lane.run
    BY <2>1, <2>2
  <2>4. CASE PairValid(lane.run)
    <3>1. CASE UNCHANGED <<review, accept>>
      BY <2>1, <2>2, <2>4, <3>1 DEF PairValid
    <3>2. CASE ClearReview \/ ClearAccept
      <4>1. UNCHANGED <<lane, result>> /\ res.pc \in Clearing \ {"result"}
        BY <3>2 DEF ClearReview, ClearAccept, Clearing
      <4>2. lane.lifecycle \in Gone /\ result # lane.run
        BY <4>1, RunFacts DEF OwnCopies, ResultInv, Typed, LaneTyped, LaneRecord
      <4> QED BY <4>1, <4>2
    <3> QED BY <2>4, <3>1, <3>2, PairStays
  <2>5. CASE ~PairValid(lane.run)
    <3>1. lane.lifecycle \in Gone /\ result # lane.run /\ ~Live
      BY <2>1, <2>2, <2>5 DEF CloseInv, ResultInv, Past, Gone
    <3>2. CASE ControllerStep
      BY <2>3, <3>1, <3>2 DEF Gone, Live, Typed, LaneTyped, LaneRecord, ControllerStep, Launch, ProviderExits,
           ValidResult, NoResult, Correct, LaneEnded, DecisionSeen, LaneAccepted, ControllerDies,
           Retire, ForceStop, files
    <3>3. CASE MonitorActs
      <4>1. ~RestoreReview
        BY <3>1 DEF RestoreReview, ResultInv
      <4> QED BY <2>3, <3>1, <3>3, <4>1, MonitorFrame
    <3>4. CASE RootActs
      BY <3>1, <3>4, RootFrame
    <3>5. CASE ResumeActs
      <4>1. lane'.lifecycle \in Gone
        BY <2>3, <3>1, <3>5, ResumeFrame, RunFacts DEF Gone, FreshRun, Unchanged, Typed, ResTyped, Resumes
      <4>2. result' = result \/ result' = 0
        BY <3>5 DEF ResumeActs, ResumeStep, ResumeDies, RunResume, MarkResuming, ClearResult, ClearReview,
           ClearAccept, ClearStatus, ReplaceRun, AcknowledgeSignal, CloseSignal, NoSignal, files
      <4> QED BY <2>3, <3>1, <4>1, <4>2, RunFacts DEF OwnCopies, Typed, LaneTyped, LaneRecord
    <3>6. CASE UNCHANGED vars
      BY <3>1, <3>6 DEF vars, files
    <3> QED BY <1>2, <3>2, <3>3, <3>4, <3>5, <3>6, Steps
  <2> QED BY <2>4, <2>5
<1> QED BY <1>1, <1>2

(* completion-review closes its event only for a decision that is on        *)
(* record, or whose run a resume or a force-stop has given up meanwhile,    *)
(* although the event is closed after the lock of the pair is gone; a       *)
(* review and a resume may overlap, a monitor's pass and a resume not.      *)
THEOREM ClosedForDecision == ASSUME SolitaryPass PROVE Spec => ClosedWithPair
<1> DEFINE Inv == Typed /\ OwnCopies /\ ResultInv /\ CloseInv
<1>1. Init => Inv
    BY InitTyped, OwnInit, ResultInit, CloseInit
<1>2. Inv /\ [Next]_vars => Inv'
    BY TypedNext, OwnNext, ResultNext, CloseNext
<1>3. Inv => (rev.pc = "close" => \/ PairValid(rev.run) \/ lane.run # rev.run
                                  \/ lane.lifecycle \in {"resuming", "retired"})
    BY DEF CloseInv, Gone
<1>4. Inv /\ [Next]_vars
      => [rev.pc = "close" /\ events' # events /\ rev'.pc = "idle"
          => PairValid(rev.run) \/ lane.run # rev.run \/ lane.lifecycle \in {"resuming", "retired"}]_vars
    BY <1>3
<1> HIDE DEF Inv
<1> QED BY <1>1, <1>2, <1>4, PTL DEF Spec, ClosedWithPair

-----------------------------------------------------------------------------
(* What is marked as reported is in the queue.                              *)

LEMMA PromotedEvent ==
    ASSUME QueueTyped, NEW s \in Statuses, NEW r \in Runs, NEW k \in Keys, promote_event(s, r, k)
    PROVE  \/ events' = events /\ Duplicate(s, r, k)
           \/ \E e \in EventId :
                 /\ e.status = s /\ e.run = r /\ e.key = k
                 /\ Ids' = Ids \cup {e}
                 /\ \A x \in Ids : x # e => events'[x] = events[x]
                 /\ k # "none" => Same(s, r, k) = {}
<1>1. CASE Duplicate(s, r, k)
    BY <1>1 DEF promote_event
<1>2. CASE ~Duplicate(s, r, k)
  <2> DEFINE n == Cardinality(Same(s, r, k))
             e == [status |-> s, run |-> r, key |-> k, nth |-> n]
  <2>1. n \in Nat
    BY FS_Subset, FS_CardinalityType DEF QueueTyped, Same
  <2>2. e \in EventId /\ e.status = s /\ e.run = r /\ e.key = k
    BY <2>1 DEF EventId
  <2>3. events' = [x \in Ids \cup {e} |-> IF x = e THEN "PENDING" ELSE events[x]]
    BY <1>2 DEF promote_event
  <2> HIDE DEF n, e
  <2>4. Ids' = Ids \cup {e} /\ \A x \in Ids : x # e => events'[x] = events[x]
    BY <2>3 DEF Ids
  <2> QED BY <1>2, <2>2, <2>4 DEF Duplicate
<1> QED BY <1>1, <1>2

(* What the monitor promotes, it promotes about the run it has read.        *)
LEMMA MonitorPromotes ==
    ASSUME Typed, OwnCopies
    PROVE  /\ RequestReview => /\ mon.key \in Keys /\ lane.run \in Runs
                               /\ promote_event("review_pending", lane.run, mon.key)
           /\ PromoteStatus => /\ mon.status \in Statuses /\ lane.run \in Runs
                               /\ promote_event(mon.status, lane.run, "lane-status")
BY DEF Typed, MonTyped, Passes, LaneTyped, LaneRecord, OwnCopies, RequestReview, PromoteStatus

LEMMA QuietSteps ==
    ASSUME MonitorActs, ~RequestReview, ~PromoteStatus PROVE UNCHANGED events
BY DEF MonitorActs, MonitorStep, RecoveryFailed, MonitorDies, Scan, RecoverBrokenPair, RestoreReview,
       Reread, RecoverLostEvent, MarkRequested, DeriveStatus, MarkReported

LEMMA LostFacts ==
    ASSUME Typed, OwnCopies, RecoverLostEvent
    PROVE  \/ /\ mon'.pc = "reread2"
              /\ mon.snap.lifecycle # "review_pending" \/ result # lane.run \/ PairValid(lane.run)
           \/ mon'.pc = "requested" /\ OpenRequest(lane.run)
           \/ /\ mon'.pc = "request" /\ ~OpenRequest(lane.run)
              /\ mon.snap.lifecycle = "review_pending"
<1>1. mon.snap.run = lane.run
    BY DEF RecoverLostEvent, OwnCopies
<1>2. ASSUME NEW pc \in {"reread2", "requested"}, MonGoto(pc) PROVE mon'.pc = pc
    BY <1>2, MonGotoTyped DEF Typed, MonPcs
<1>3. CASE mon.snap.lifecycle # "review_pending" \/ result # lane.run \/ PairValid(lane.run)
    BY <1>1, <1>2, <1>3 DEF RecoverLostEvent
<1>4. CASE /\ ~(mon.snap.lifecycle # "review_pending" \/ result # lane.run \/ PairValid(lane.run))
           /\ OpenRequest(lane.run)
    BY <1>1, <1>2, <1>4 DEF RecoverLostEvent
<1>5. CASE /\ ~(mon.snap.lifecycle # "review_pending" \/ result # lane.run \/ PairValid(lane.run))
           /\ ~OpenRequest(lane.run)
  <2>1. mon' = [mon EXCEPT !.pc = "request", !.key = RequestKey(lane.run)]
    BY <1>1, <1>5 DEF RecoverLostEvent
  <2>2. mon'.pc = "request"
    BY <2>1 DEF Typed, MonTyped, Passes
  <2> QED BY <1>5, <2>2
<1> QED BY <1>3, <1>4, <1>5

Queued(S) == \E e \in Ids : e.run = lane.run /\ e.status \in S

ReportInv ==
    /\ ReportedIsQueued
    /\ mon.pc = "requested" => Queued({"review_pending", "provider_exited_no_result"})
    /\ mon.pc = "mark" => Queued({mon.status})

LEMMA ReportInit == Init => ReportInv
BY DEF Init, ReportInv, ReportedIsQueued, MonIdle

LEMMA ReportOther ==
    Typed /\ OwnCopies /\ ReportInv /\ [Next]_vars /\ ~MonitorActs => ReportInv'
<1> SUFFICES ASSUME Typed, OwnCopies, ReportInv, [Next]_vars, ~MonitorActs PROVE ReportInv'
    OBVIOUS
<1>1. UNCHANGED mon /\ Ids' = Ids
    BY Steps, ControllerFrame, RootFrame, ReviewFrame, ResumeFrame DEF vars, procs, Ids
<1>2. CASE lane'.run = lane.run /\ lane'.reported = lane.reported
    BY <1>1, <1>2 DEF ReportInv, ReportedIsQueued, Queued
<1>3. CASE ~(lane'.run = lane.run /\ lane'.reported = lane.reported)
  <2>1. ReplaceRun /\ lane' = FreshRun(res.run + 1)
    BY <1>3, Steps, ControllerFrame, RootFrame, ReviewFrame, ResumeFrame DEF vars
  <2>2. mon'.pc = "idle" /\ lane'.reported = "none"
    BY <1>1, <2>1 DEF ReplaceRun, OwnCopies, FreshRun
  <2> QED BY <2>2 DEF ReportInv, ReportedIsQueued
<1> QED BY <1>2, <1>3

LEMMA ReportMonitor == Typed /\ OwnCopies /\ ReportInv /\ MonitorActs => ReportInv'
<1> SUFFICES ASSUME Typed, OwnCopies, ReportInv, MonitorActs PROVE ReportInv'
    OBVIOUS
<1>1. lane'.run = lane.run
    BY MonitorFrame
<1>2. Ids \subseteq Ids'
  <2>1. CASE RequestReview
    BY <2>1, MonitorPromotes, PromoteFacts DEF Typed, Statuses
  <2>2. CASE PromoteStatus
    BY <2>2, MonitorPromotes, PromoteFacts DEF Typed, Keys
  <2>3. CASE ~RequestReview /\ ~PromoteStatus
    BY <2>3, QuietSteps DEF Ids
  <2> QED BY <2>1, <2>2, <2>3
<1>3. \A S : Queued(S) => Queued(S)'
    BY <1>1, <1>2 DEF Queued
<1>4. ASSUME lane'.reported = lane.reported, mon'.pc \notin {"requested", "mark"} PROVE ReportInv'
    BY <1>1, <1>2, <1>4 DEF ReportInv, ReportedIsQueued
<1>5. ASSUME NEW pc \in MonPcs \ {"report"}, MonGoto(pc)
      PROVE  mon'.pc = pc /\ mon'.status = mon.status
    BY <1>5, MonGotoTyped DEF Typed
<1>6. CASE Scan \/ DeriveStatus \/ MonitorDies
    BY <1>4, <1>6, ScanFacts, DeriveFacts, IdleProcesses DEF Typed, Scan, DeriveStatus, MonitorDies
<1>7. CASE RecoverBrokenPair \/ RecoveryFailed
    BY <1>4, <1>5, <1>7 DEF RecoverBrokenPair, RecoveryFailed, MonPcs, files
<1>8. CASE RestoreReview
  <2>1. lane'.reported = "none" /\ mon'.pc = "reread"
    BY <1>5, <1>8 DEF RestoreReview, MonPcs, Typed, LaneTyped, LaneRecord
  <2> QED BY <2>1 DEF ReportInv, ReportedIsQueued
<1>9. CASE Reread
    BY <1>4, <1>9 DEF Reread, Typed, MonTyped, Passes
<1>10. CASE RecoverLostEvent
  <2>1. UNCHANGED <<lane, events>> /\ mon.snap.run = lane.run
    BY <1>10 DEF RecoverLostEvent, OwnCopies
  <2>2. CASE mon'.pc = "requested"
    <3>1. OpenRequest(lane.run)
      BY <1>10, <2>2, LostFacts
    <3>2. Queued({"review_pending", "provider_exited_no_result"})
      BY <3>1 DEF OpenRequest, Queued
    <3> QED BY <2>1, <2>2, <3>2 DEF ReportInv, ReportedIsQueued, Queued, Ids
  <2>3. CASE mon'.pc # "requested"
    <3>1. mon'.pc # "mark"
      BY <1>10, LostFacts
    <3> QED BY <1>4, <2>1, <2>3, <3>1
  <2> QED BY <2>2, <2>3
<1>11. CASE RequestReview
  <2>1. mon'.pc = "requested" /\ UNCHANGED lane
    BY <1>5, <1>11 DEF RequestReview, MonPcs
  <2>2. Queued({"review_pending", "provider_exited_no_result"})'
    BY <1>1, <1>11, MonitorPromotes, PromoteFacts DEF Queued, Statuses, Typed
  <2> QED BY <1>2, <2>1, <2>2 DEF ReportInv, ReportedIsQueued
<1>12. CASE MarkRequested
  <2>1. mon'.pc = "reread2" /\ lane'.reported = "review_pending"
    BY <1>5, <1>12 DEF MarkRequested, MonPcs, Typed, LaneTyped, LaneRecord
  <2>2. Queued({"review_pending", "provider_exited_no_result"})
    BY <1>12 DEF MarkRequested, ReportInv
  <2> QED BY <1>1, <1>2, <2>1, <2>2 DEF ReportInv, ReportedIsQueued, Queued
<1>13. CASE PromoteStatus
  <2>1. mon'.pc = "mark" /\ mon'.status = mon.status /\ UNCHANGED lane
    BY <1>5, <1>13 DEF PromoteStatus, MonPcs
  <2>2. (\E e \in Ids : e.run = lane.run /\ e.status = mon.status)'
    BY <1>1, <1>13, <2>1, MonitorPromotes, PromoteFacts DEF Typed, Keys
  <2> QED BY <1>2, <2>1, <2>2 DEF ReportInv, ReportedIsQueued, Queued
<1>14. CASE MarkReported
  <2>1. mon'.pc = "idle" /\ lane'.reported = mon.status
    BY <1>14, IdleProcesses DEF MarkReported, Typed, LaneTyped, LaneRecord
  <2>2. \E e \in Ids : e.run = lane.run /\ e.status = mon.status
    BY <1>14 DEF MarkReported, ReportInv, Queued
  <2> QED BY <1>1, <1>2, <2>1, <2>2 DEF ReportInv, ReportedIsQueued
<1> QED BY <1>6, <1>7, <1>8, <1>9, <1>10, <1>11, <1>12, <1>13, <1>14 DEF MonitorActs, MonitorStep

(* What the lane record says was reported, and therefore is not reported    *)
(* again, is in the queue for the lane's current run, although the mark and *)
(* the event are two writes and a resume replaces the record (monitor.py,   *)
(* resume.py); a resume does not overtake a monitor's pass.                 *)
THEOREM MarksAreQueued == ASSUME SolitaryPass PROVE Spec => []ReportedIsQueued
<1> DEFINE Inv == Typed /\ OwnCopies /\ ReportInv
<1>1. Init => Inv
    BY InitTyped, OwnInit, ReportInit
<1>2. Inv /\ [Next]_vars => Inv'
    BY TypedNext, OwnNext, ReportOther, ReportMonitor
<1>3. Inv => ReportedIsQueued
    BY DEF ReportInv
<1> HIDE DEF Inv
<1> QED BY <1>1, <1>2, <1>3, PTL DEF Spec

-----------------------------------------------------------------------------
(* One open request.  The monitor admits requests at two places, when it    *)
(* finds a review lost and when it derives the status; the mark on the lane *)
(* record keeps them apart.  A request of the first place whose mark is     *)
(* missing (Unmarked) is found again by the first place of the next pass,   *)
(* so that the second is never reached with it.                             *)

Requests == {e \in Ids : IsReviewEvent(e) /\ e.run = lane.run /\ Open(e)}
Asked    == \E e \in Requests : e.key # "lane-status"
Unmarked == Asked /\ lane.reported # "review_pending"
InReview == {"review_pending"} \cup Past

RequestInv ==
    /\ \A e, f \in Requests : e = f
    /\ Asked => lane.lifecycle \in InReview
    /\ mon.pc = "lost" =>
         /\ mon.snap.lifecycle = "review_pending" => lane.lifecycle \in InReview
         /\ Unmarked /\ mon.snap.lifecycle # "review_pending" => lane.lifecycle \in Past
    /\ mon.pc = "request" => Requests = {} /\ lane.lifecycle \in InReview
    /\ mon.pc = "reread2" /\ Unmarked => PairValid(lane.run) \/ lane.lifecycle \in Past
    /\ mon.pc = "derive" =>
         /\ mon.snap.reported = lane.reported
         /\ Unmarked => PairValid(lane.run) \/ mon.snap.lifecycle \in Past
    /\ mon.pc = "report" /\ mon.status = "review_pending" => ~Asked

LEMMA RequestInit == Init => RequestInv
BY DEF Init, RequestInv, Requests, Asked, MonIdle, Ids

LEMMA LifecycleStays ==
    ASSUME Typed, OwnCopies, ResultInv, [Next]_vars, ~MonitorActs, lane'.run = lane.run
    PROVE  /\ lane.lifecycle \in Past => lane'.lifecycle \in Past
           /\ lane.lifecycle \in InReview => lane'.lifecycle \in InReview
<1> USE DEF Past, InReview
<1>1. CASE ControllerStep
  <2>1. lane.lifecycle \in Past => ~Live
    BY DEF ResultInv
  <2>2. lane.lifecycle = "review_pending" => ctl.pc # "failed"
    BY DEF ResultInv
  <2> QED BY <1>1, <2>1, <2>2 DEF Live, Typed, LaneTyped, LaneRecord, ControllerStep, Launch, ProviderExits,
             ValidResult, NoResult, Correct, LaneEnded, DecisionSeen, LaneAccepted, ControllerDies,
             Retire, ForceStop, files
<1>2. CASE RootActs \/ ReviewActs
    BY <1>2, RootFrame, ReviewFrame
<1>3. CASE ResumeActs
  <2>1. ~(ReplaceRun /\ Unchanged("resuming") /\ lane' = FreshRun(res.run + 1))
    BY RunFacts DEF Unchanged, FreshRun, Typed, ResTyped, Resumes
  <2> QED BY <1>3, <2>1, ResumeFrame
<1>4. CASE UNCHANGED vars
    BY <1>4 DEF vars
<1> QED BY <1>1, <1>2, <1>3, <1>4, Steps

LEMMA RequestOther ==
    Typed /\ OwnCopies /\ ResultInv /\ RequestInv /\ [Next]_vars /\ ~MonitorActs => RequestInv'
<1> SUFFICES ASSUME Typed, OwnCopies, ResultInv, RequestInv, [Next]_vars, ~MonitorActs
    PROVE  RequestInv'
    OBVIOUS
<1>1. UNCHANGED mon /\ Ids' = Ids /\ \A x \in Ids : Open(x)' => Open(x)
  <2>1. CASE ControllerStep \/ UNCHANGED vars
    <3>1. UNCHANGED <<mon, events>>
      BY <2>1, ControllerFrame DEF vars, procs
    <3> QED BY <3>1 DEF Ids, Open
  <2>2. CASE RootActs \/ ReviewActs \/ ResumeActs
    BY <2>2, RootFrame, ReviewFrame, ResumeFrame
  <2> QED BY <2>1, <2>2, Steps
<1>2. CASE lane'.run # lane.run
  <2>1. ReplaceRun /\ Unchanged("resuming") /\ lane' = FreshRun(res.run + 1)
    BY <1>2, Steps, ControllerFrame, RootFrame, ReviewFrame, ResumeFrame DEF vars
  <2>2. lane'.run = lane.run + 1 /\ mon'.pc = "idle"
    BY <1>1, <2>1 DEF ReplaceRun, Unchanged, FreshRun, OwnCopies
  <2>3. \A e \in Ids : e.run <= lane.run /\ e.run \in Nat /\ lane.run \in Nat
    BY RunFacts DEF OwnCopies, Typed, QueueTyped, EventId, LaneTyped, LaneRecord
  <2>4. Requests' = {}
    BY <1>1, <2>2, <2>3 DEF Requests
  <2> QED BY <2>2, <2>4 DEF RequestInv, Asked
<1>3. CASE lane'.run = lane.run
  <2>1. lane'.reported = lane.reported
    <3>1. ~(ReplaceRun /\ Unchanged("resuming") /\ lane' = FreshRun(res.run + 1))
      BY <1>3, RunFacts DEF Unchanged, FreshRun, Typed, ResTyped, Resumes
    <3> QED BY <3>1, Steps, ControllerFrame, RootFrame, ReviewFrame, ResumeFrame DEF vars
  <2>2. Requests' \subseteq Requests
    BY <1>1, <1>3 DEF Requests, IsReviewEvent
  <2>3. (Asked' => Asked) /\ (Unmarked' => Unmarked)
    BY <2>1, <2>2 DEF Asked, Unmarked
  <2>4. mon.pc # "idle" /\ PairValid(lane.run) => PairValid(lane.run)'
    <3>1. ASSUME mon.pc # "idle" PROVE ~ClearReview /\ ~ClearAccept
      BY <3>1 DEF OwnCopies, ClearReview, ClearAccept
    <3> QED BY <1>3, <3>1, PairStays DEF PairValid
  <2>5. /\ lane.lifecycle \in Past => lane'.lifecycle \in Past
        /\ lane.lifecycle \in InReview => lane'.lifecycle \in InReview
    BY <1>3, LifecycleStays
  <2> QED BY <1>1, <2>1, <2>2, <2>3, <2>4, <2>5 DEF RequestInv
<1> QED BY <1>2, <1>3

(* The two places where the monitor admits a request.                       *)
LEMMA RequestAdmits ==
    ASSUME Typed, OwnCopies, RequestInv, RequestReview
    PROVE  RequestInv'
<1>1. mon'.pc = "requested" /\ UNCHANGED lane /\ Requests = {} /\ lane.lifecycle \in InReview
    BY MonGotoTyped DEF RequestReview, RequestInv, Typed, MonPcs
<1>2. \A e, f \in Requests' : e = f
  <2>1. CASE events' = events
    BY <1>1, <2>1 DEF Requests, Ids, Open
  <2>2. CASE events' # events
    <3>1. PICK e \in EventId : /\ Ids' = Ids \cup {e}
                              /\ \A x \in Ids : x # e => events'[x] = events[x]
      BY <2>2, MonitorPromotes, PromotedEvent DEF Typed, Statuses
    <3>2. Requests' \subseteq Requests \cup {e}
      BY <1>1, <3>1 DEF Requests, IsReviewEvent, Open
    <3> QED BY <1>1, <3>2
  <2> QED BY <2>1, <2>2
<1> QED BY <1>1, <1>2 DEF RequestInv

LEMMA StatusAdmits ==
    ASSUME Typed, OwnCopies, RequestInv, PromoteStatus
    PROVE  RequestInv'
<1>1. mon'.pc = "mark" /\ UNCHANGED lane
    BY MonGotoTyped DEF PromoteStatus, Typed, MonPcs
<1>2. (\A e, f \in Requests' : e = f) /\ (Asked' => Asked)
  <2>1. CASE events' = events
    BY <1>1, <2>1 DEF RequestInv, Requests, Asked, Ids, Open
  <2>2. CASE events' # events
    <3>1. PICK e \in EventId :
             /\ e.status = mon.status /\ e.key = "lane-status"
             /\ Ids' = Ids \cup {e}
             /\ \A x \in Ids : x # e => events'[x] = events[x]
             /\ Same(mon.status, lane.run, "lane-status") = {}
      BY <2>2, MonitorPromotes, PromotedEvent DEF Typed, Keys
    <3>2. \A x \in Requests' : x \in Requests \/ x = e
      BY <1>1, <3>1 DEF Requests, IsReviewEvent, Open
    <3>3. CASE mon.status = "review_pending"
      <4>1. \A x \in Requests : x.key = "lane-status"
        BY <3>3 DEF RequestInv, Asked, PromoteStatus
      <4>2. Requests = {}
        BY <3>1, <3>3, <4>1 DEF Requests, IsReviewEvent, Same
      <4> QED BY <3>1, <3>2, <4>2 DEF Asked
    <3>4. CASE mon.status # "review_pending"
      <4>1. e \notin Requests'
        BY <3>1, <3>4 DEF Requests, IsReviewEvent
      <4> QED BY <3>2, <4>1 DEF RequestInv, Asked
    <3> QED BY <3>3, <3>4
  <2> QED BY <2>1, <2>2
<1> QED BY <1>1, <1>2 DEF RequestInv

LEMMA RequestMonitor ==
    ~Failures /\ Typed /\ OwnCopies /\ ResultInv /\ RequestInv /\ MonitorActs => RequestInv'
<1> SUFFICES ASSUME ~Failures, Typed, OwnCopies, ResultInv, RequestInv, MonitorActs PROVE RequestInv'
    OBVIOUS
<1>1. lane'.run = lane.run
    BY MonitorFrame
<1>2. CASE RequestReview \/ PromoteStatus
    BY <1>2, RequestAdmits, StatusAdmits
<1>3. CASE ~RequestReview /\ ~PromoteStatus
  <2>1. Requests' = Requests /\ Asked' = Asked
    BY <1>1, <1>3, QuietSteps DEF Requests, Asked, Ids, Open
  <2>2. ASSUME mon'.pc \notin {"lost", "request", "reread2", "derive", "report"},
               lane'.lifecycle = lane.lifecycle \/ lane'.lifecycle \in InReview
        PROVE  RequestInv'
    BY <2>1, <2>2 DEF RequestInv
  <2>3. ASSUME NEW pc \in MonPcs \ {"report"}, MonGoto(pc) PROVE mon'.pc = pc
    BY <2>3, MonGotoTyped DEF Typed
  <2>4. CASE Scan \/ MonitorDies \/ MarkReported
    <3>1. mon'.pc \in {"idle", "pair"} /\ lane'.lifecycle = lane.lifecycle
      BY <2>4, ScanFacts, IdleProcesses, MonitorFrame
         DEF Scan, MonitorDies, MarkReported, RestoreReview, Typed, LaneTyped, LaneRecord
    <3> QED BY <2>2, <3>1
  <2>5. CASE RecoverBrokenPair
    <3>1. mon'.pc \in {"restore", "reread"} /\ UNCHANGED lane
      BY <2>3, <2>5 DEF RecoverBrokenPair, MonPcs
    <3> QED BY <2>2, <3>1
  <2>6. CASE RestoreReview
    <3>1. mon'.pc = "reread" /\ lane'.lifecycle = "review_pending"
      BY <2>3, <2>6 DEF RestoreReview, MonPcs, Typed, LaneTyped, LaneRecord
    <3> QED BY <2>2, <3>1 DEF InReview
  <2>7. CASE Reread /\ mon.pc = "reread"
    <3>1. mon'.pc = "lost" /\ mon'.snap = lane /\ UNCHANGED lane
      BY <2>7 DEF Reread, Typed, MonTyped, Passes
    <3>2. Unmarked' => Asked
      BY <2>1 DEF Unmarked
    <3> QED BY <2>1, <3>1, <3>2 DEF RequestInv, InReview
  <2>8. CASE Reread /\ mon.pc = "reread2"
    <3>1. mon'.pc = "derive" /\ mon'.snap = lane /\ UNCHANGED <<lane, review, accept>>
      BY <2>8 DEF Reread, Typed, MonTyped, Passes, files
    <3>2. Unmarked' => Unmarked
      BY <2>1, <3>1 DEF Unmarked
    <3>3. PairValid(lane.run) => PairValid(lane.run)'
      BY <3>1 DEF PairValid
    <3> QED BY <2>1, <2>8, <3>1, <3>2, <3>3 DEF RequestInv
  <2>9. CASE RecoverLostEvent
    <3>1. UNCHANGED <<lane, review, accept>> /\ mon.pc = "lost"
      BY <2>9 DEF RecoverLostEvent, files
    <3>2. Unmarked' = Unmarked /\ PairValid(lane.run)' = PairValid(lane.run)
      BY <2>1, <3>1 DEF Unmarked, PairValid
    <3>3. CASE /\ mon'.pc = "reread2"
               /\ mon.snap.lifecycle # "review_pending" \/ result # lane.run \/ PairValid(lane.run)
      <4>1. Unmarked => PairValid(lane.run) \/ lane.lifecycle \in Past
        BY <3>1, <3>3 DEF RequestInv, ResultInv, InReview
      <4> QED BY <2>1, <3>1, <3>2, <3>3, <4>1 DEF RequestInv
    <3>4. CASE mon'.pc = "requested"
      BY <2>2, <3>1, <3>4
    <3>5. CASE /\ mon'.pc = "request" /\ ~OpenRequest(lane.run)
               /\ mon.snap.lifecycle = "review_pending"
      <4>1. Requests = {}
        BY <3>5 DEF Requests, OpenRequest, IsReviewEvent
      <4> QED BY <2>1, <3>1, <3>5, <4>1 DEF RequestInv
    <3> QED BY <2>9, <3>3, <3>4, <3>5, LostFacts
  <2>10. CASE MarkRequested
    <3>1. /\ mon'.pc = "reread2" /\ lane'.reported = "review_pending"
          /\ lane'.lifecycle = lane.lifecycle
      BY <2>3, <2>10 DEF MarkRequested, MonPcs, Typed, LaneTyped, LaneRecord
    <3> QED BY <2>1, <3>1 DEF RequestInv, Unmarked
  <2>11. CASE DeriveStatus
    <3>1. UNCHANGED lane /\ mon.pc = "derive" /\ mon.snap.run = lane.run
      BY <2>11 DEF DeriveStatus, OwnCopies
    <3>2. CASE mon' = MonIdle
      BY <2>2, <3>1, <3>2, IdleProcesses
    <3>3. CASE /\ mon'.pc = "report" /\ mon'.status = DerivedStatus(mon.snap)
               /\ mon'.status # mon.snap.reported
      <4>1. ASSUME mon'.status = "review_pending" PROVE ~Asked
        <5>1. lane.reported # "review_pending"
          BY <3>1, <3>3, <4>1 DEF RequestInv
        <5>2. mon.snap.lifecycle \notin Past /\ ~PairValid(lane.run)
          BY <3>1, <3>3, <4>1 DEF DerivedStatus, Past
        <5> QED BY <3>1, <5>1, <5>2 DEF RequestInv, Unmarked
      <4> QED BY <2>1, <3>1, <3>3, <4>1 DEF RequestInv
    <3> QED BY <2>11, <3>2, <3>3, DeriveFacts DEF Typed
  <2> QED BY <1>3, <2>4, <2>5, <2>6, <2>7, <2>8, <2>9, <2>10, <2>11
          DEF MonitorActs, MonitorStep, RecoveryFailed, Reread
<1> QED BY <1>2, <1>3

(* ROOT is asked once: while a lane waits for its review at most one        *)
(* request for it is open, through any number of runs, passes, reviews and  *)
(* requests closed by hand, and deaths anywhere, as long as the recovery of *)
(* a review does not fail half-way and no resume overtakes a monitor's pass *)
(* (monitor.py:322 and 621).                                                *)
THEOREM AskedOnce == ASSUME SolitaryPass, ~Failures PROVE Spec => []OneOpenReview
<1> DEFINE Inv == Typed /\ OwnCopies /\ ResultInv /\ RequestInv
<1>1. Init => Inv
    BY InitTyped, OwnInit, ResultInit, RequestInit
<1>2. Inv /\ [Next]_vars => Inv'
    BY TypedNext, OwnNext, ResultNext, RequestOther, RequestMonitor
<1>3. ASSUME RequestInv PROVE OneOpenReview
  <2>1. Cardinality(Requests) <= 1
    <3>1. CASE Requests = {}
      BY <3>1, FS_EmptySet
    <3>2. ASSUME NEW e \in Requests PROVE Cardinality(Requests) = 1
      <4>1. Requests = {e}
        BY <1>3, <3>2 DEF RequestInv
      <4> QED BY <4>1, FS_Singleton
    <3> QED BY <3>1, <3>2
  <2> QED BY <2>1 DEF OneOpenReview, Requests
<1> HIDE DEF Inv
<1>4. Inv => OneOpenReview
    BY <1>3 DEF Inv
<1> QED BY <1>1, <1>2, <1>4, PTL DEF Spec
=============================================================================

----------------------------- MODULE ReviewLoop -----------------------------
(***************************************************************************)
(* How the end of a lane's run reaches ROOT and ROOT's decision reaches    *)
(* the lane: the monitor's pass (monitor.py), completion-review            *)
(* (review.py), ROOT's manager commands, and resume-lane (resume.py), over *)
(* one managed lane.  Each of them reads the lane record first and acts on *)
(* that copy later; the controller, launch, retire and force-stop, which   *)
(* module LaneRun details, appear with their effect on the shared records. *)
(***************************************************************************)
EXTENDS ManagerQueue

CONSTANTS
    Decisions,     \* the decisions ROOT may take
    Handled,       \* the kinds of events ROOT acknowledges and closes by hand
    MaxLost,       \* bound: requests ROOT closes by hand that are asked again
    Failures,      \* TRUE: a record may be unreadable or its lock not granted
    LateReview,    \* TRUE: completion-review and resume-lane may overlap
    LatePass       \* TRUE: resume-lane, retire and force-stop may overtake a monitor's pass

\* ROOT's finding and approval: a pass is accepted, a failure is rejected or,
\* with --force-accept, accepted all the same.
ASSUME DecisionsAssumption == Decisions \subseteq {"accept", "reject", "force-accept"}
ASSUME HandledAssumption == Handled \subseteq Statuses /\ MaxLost \in Nat
ASSUME LateAssumption == {Failures, LateReview, LatePass} \subseteq BOOLEAN

VARIABLES
    lane,      \* lane.json: run, lifecycle, last_reported_actionable_status, launch_pending
    ctl,       \* the lane's controller: position and the run it supervises
    status,    \* recorded_status of controller.status.json; "absent" without the file,
               \* "exited" when only the provider's exit has been written
    result,    \* the run whose valid RESULT.json lies in the worktree, 0 if none
    review,    \* COMPLETION_REVIEW.json: run (0: no file) and finding
    accept,    \* ORCHESTRATOR_ACCEPTANCE.json: run (0: no file) and decision
    mon,       \* the monitor's pass over the lane
    rev,       \* the completion-review command
    res        \* the resume-lane command

files == <<status, result, review, accept>>
procs == <<mon, rev, res>>
vars  == <<events, lane, ctl, files, procs>>

Lifecycles == {"running", "review_pending", "result_invalid", "resuming", "accepted", "retired"}

LaneRecord == [run : Runs, lifecycle : Lifecycles, reported : Statuses \cup {"none"},
               pending : BOOLEAN]

Finding(d)  == IF d = "accept" THEN "PASS" ELSE "FAIL"
Approval(d) == IF d = "reject" THEN "REJECTED" ELSE "ACCEPTED"

NoReview == [run |-> 0, finding |-> "PASS"]
NoEvent == [status |-> "review_pending", run |-> 0, key |-> "none", nth |-> 0]
NoAccept == [run |-> 0, decision |-> "accept"]

\* validate_acceptance_chain for run r: both records exist, are about r, and the
\* acceptance refers to this very review.
PairValid(r) ==
    /\ r # 0 /\ review.run = r /\ accept.run = r
    /\ review.finding = Finding(accept.decision)

PairAbsent == review = NoReview /\ accept = NoAccept
PairExists == review # NoReview /\ accept # NoAccept

Live == ctl.pc # "none"

MonIdle == [pc |-> "idle", snap |-> [run |-> 0, lifecycle |-> "running", reported |-> "none",
                                     pending |-> FALSE],
            status |-> "none", key |-> "none"]
RevIdle == [pc |-> "idle", ev |-> NoEvent, run |-> 0, decision |-> "accept"]
ResIdle == [pc |-> "idle", run |-> 0, lifecycle |-> "running"]

Init ==
    /\ events = [e \in {} |-> "PENDING"]
    /\ lane = [run |-> 1, lifecycle |-> "running", reported |-> "none", pending |-> FALSE]
    /\ ctl = [pc |-> "working", run |-> 1]
    /\ status = "none"
    /\ result = 0
    /\ review = NoReview
    /\ accept = NoAccept
    /\ mon = MonIdle
    /\ rev = RevIdle
    /\ res = ResIdle

----------------------------------------------------------------------------
(* The controller, launch, retire and force-stop.                          *)

\* lane launch of the run that resume-lane has prepared.
Launch ==
    /\ lane.lifecycle = "running" /\ lane.pending /\ ~Live
    /\ lane' = [lane EXCEPT !.pending = FALSE]
    /\ ctl' = [pc |-> "working", run |-> lane.run]
    /\ status' = IF status = "absent" THEN "none" ELSE status
    /\ UNCHANGED <<events, result, review, accept, procs>>

\* The provider ends, with or without a valid RESULT.json; its exit goes into the
\* status before the controller has looked at the result.
ProviderExits ==
    /\ ctl.pc = "working"
    /\ result' \in {result, ctl.run}
    /\ status' = IF status = "none" THEN "exited" ELSE status
    /\ ctl' = [ctl EXCEPT !.pc = "exited"]
    /\ UNCHANGED <<events, lane, review, accept, procs>>

\* The status tells the outcome first, the lane record follows.
ValidResult ==
    /\ ctl.pc = "exited" /\ result = ctl.run
    /\ status' = "review_pending"
    /\ ctl' = [ctl EXCEPT !.pc = "valid"]
    /\ UNCHANGED <<events, lane, result, review, accept, procs>>

NoResult ==
    /\ ctl.pc = "exited" /\ result # ctl.run
    /\ status' = "provider_exited_no_result"
    /\ ctl' = [ctl EXCEPT !.pc = "failed"]
    /\ UNCHANGED <<events, lane, result, review, accept, procs>>

Correct ==
    /\ ctl.pc = "exited" /\ result # ctl.run
    /\ status' = "correction_pending"
    /\ ctl' = [ctl EXCEPT !.pc = "working"]
    /\ UNCHANGED <<events, lane, result, review, accept, procs>>

LaneEnded ==
    /\ ctl.pc \in {"valid", "failed"}
    /\ lane' = [lane EXCEPT !.lifecycle = IF ctl.pc = "valid" THEN "review_pending"
                                          ELSE "result_invalid"]
    /\ ctl' = [ctl EXCEPT !.pc = IF ctl.pc = "valid" THEN "waiting" ELSE "none"]
    /\ UNCHANGED <<events, files, procs>>

\* The controller sees the decision about its own run.
DecisionSeen ==
    /\ ctl.pc = "waiting"
    /\ PairValid(ctl.run)
    /\ ctl' = [ctl EXCEPT !.pc = IF Approval(accept.decision) = "ACCEPTED" THEN "copied"
                                 ELSE "none"]
    /\ UNCHANGED <<events, lane, files, procs>>

LaneAccepted ==
    /\ ctl.pc = "copied"
    /\ lane' = [lane EXCEPT !.lifecycle = "accepted"]
    /\ ctl' = [ctl EXCEPT !.pc = "none"]
    /\ UNCHANGED <<events, files, procs>>

ControllerDies ==
    /\ Live
    /\ ctl' = [ctl EXCEPT !.pc = "none"]
    /\ UNCHANGED <<events, lane, files, procs>>

Retire ==
    /\ LatePass \/ mon.pc = "idle"
    /\ ~Live /\ status # "absent" /\ lane.lifecycle # "retired"
    /\ PairValid(accept.run) /\ Approval(accept.decision) = "ACCEPTED"
    /\ lane' = [lane EXCEPT !.lifecycle = "retired"]
    /\ UNCHANGED <<events, ctl, files, procs>>

ForceStop ==
    /\ LatePass \/ mon.pc = "idle"
    /\ lane.lifecycle # "retired"
    /\ status # "absent"
    /\ lane' = [lane EXCEPT !.lifecycle = "retired"]
    /\ ctl' = [ctl EXCEPT !.pc = "none"]
    /\ UNCHANGED <<events, files, procs>>

----------------------------------------------------------------------------
(* monitor.py: one pass over the lane.                                     *)

\* The lane is read; the recovery of its pair uses the run only.
Scan ==
    /\ mon.pc = "idle"
    /\ LatePass \/ res.pc = "idle"
    /\ lane.lifecycle # "retired"
    /\ mon' = [MonIdle EXCEPT !.pc = "pair", !.snap.run = lane.run]
    /\ UNCHANGED <<events, lane, ctl, files, rev, res>>

MonGoto(pc) == mon' = [mon EXCEPT !.pc = pc]

\* Mutant: an acceptance of work that failed its review counts as broken.
ForcedIsBroken(r) == ~PairAbsent /\ ~(PairValid(r) /\ accept.decision # "force-accept")

PairBroken(r) == ~PairAbsent /\ ~PairValid(r)

\* _recover_broken_review_pair removes a pair that is not valid for the run it
\* read, under the lock of the review file ...
RecoverBrokenPair ==
    /\ mon.pc = "pair"
    /\ IF PairBroken(mon.snap.run)
       THEN /\ review' = NoReview /\ accept' = NoAccept
            /\ MonGoto(IF result = mon.snap.run THEN "restore" ELSE "reread")
       ELSE MonGoto("reread") /\ UNCHANGED <<review, accept>>
    /\ UNCHANGED <<events, lane, ctl, status, result, rev, res>>

\* ... and, outside that lock, sends the lane back to its review.
RestoreReview ==
    /\ mon.pc = "restore"
    /\ lane' = [lane EXCEPT !.lifecycle = "review_pending", !.reported = "none"]
    /\ MonGoto("reread")
    /\ UNCHANGED <<events, ctl, files, rev, res>>

Reread ==
    /\ mon.pc \in {"reread", "reread2"}
    /\ mon' = [mon EXCEPT !.snap = lane, !.pc = IF mon.pc = "reread" THEN "lost" ELSE "derive"]
    /\ UNCHANGED <<events, lane, ctl, files, rev, res>>

\* Mutant: the monitor does not look for an open request.
NoOpenRequest(r) == FALSE

\* _has_open_review_event
OpenRequest(r) ==
    \E e \in Ids :
        /\ Open(e) /\ e.run = r
        /\ e.status \in {"review_pending", "provider_exited_no_result"}

\* Mutant: a request that was closed without a review suppresses the next one.
KeyKept(r) == "review"

\* A terminal request without its pair is a lost review: the new one is admitted
\* without a key.
RequestKey(r) ==
    IF \E e \in Ids : e.key = "review" /\ e.run = r /\ ~Open(e)
    THEN "none" ELSE "review"

RecoverLostEvent ==
    /\ mon.pc = "lost"
    /\ LET r == mon.snap.run IN
       IF mon.snap.lifecycle # "review_pending" \/ result # r \/ PairValid(r)
       THEN MonGoto("reread2")
       ELSE IF OpenRequest(r)
            THEN MonGoto("requested")
            ELSE mon' = [mon EXCEPT !.pc = "request", !.key = RequestKey(r)]
    /\ UNCHANGED <<events, lane, ctl, files, rev, res>>

RequestReview ==
    /\ mon.pc = "request"
    /\ promote_event("review_pending", mon.snap.run, mon.key)
    /\ MonGoto("requested")
    /\ UNCHANGED <<lane, ctl, files, rev, res>>

MarkRequested ==
    /\ mon.pc = "requested"
    /\ lane' = [lane EXCEPT !.reported = "review_pending"]
    /\ MonGoto("reread2")
    /\ UNCHANGED <<events, ctl, files, rev, res>>

\* derive_lane_status, of the lane record l and the files as they are now: the first
\* of these that applies.
DerivedStatus(l) ==
    IF l.lifecycle \in {"accepted", "retired", "resuming"} THEN "none"
    ELSE IF PairValid(l.run)
         THEN IF Approval(accept.decision) = "REJECTED" THEN "resume_required" ELSE "none"
    ELSE IF l.pending THEN "none"
    ELSE IF status \in {"provider_exited_no_result", "review_pending"} THEN status
    ELSE IF ~(Live /\ ctl.run = l.run) THEN "controller_exited"
    ELSE IF status = "exited" THEN "provider_exited_no_result"
    ELSE "none"

DeriveStatus ==
    /\ mon.pc = "derive"
    /\ LET s == DerivedStatus(mon.snap) IN
       mon' = IF s \in {"none", mon.snap.reported} THEN MonIdle
              ELSE [MonIdle EXCEPT !.pc = "report", !.status = s, !.snap.run = mon.snap.run]
    /\ UNCHANGED <<events, lane, ctl, files, rev, res>>

PromoteStatus ==
    /\ mon.pc = "report"
    /\ promote_event(mon.status, mon.snap.run, "lane-status")
    /\ MonGoto("mark")
    /\ UNCHANGED <<lane, ctl, files, rev, res>>

MarkReported ==
    /\ mon.pc = "mark"
    /\ lane' = [lane EXCEPT !.reported = mon.status]
    /\ mon' = MonIdle
    /\ UNCHANGED <<events, ctl, files, rev, res>>

MonitorStep ==
    \/ Scan \/ RecoverBrokenPair \/ RestoreReview \/ Reread \/ RecoverLostEvent
    \/ RequestReview \/ MarkRequested \/ DeriveStatus \/ PromoteStatus \/ MarkReported

\* An error in the recovery of the review (an unreadable record, a lock that is
\* not granted) is a diagnostic: the pass goes on with the lane as last read.
RecoveryFailed ==
    /\ Failures
    /\ mon.pc \in {"pair", "restore", "reread", "lost", "request", "requested", "reread2"}
    /\ MonGoto("derive")
    /\ UNCHANGED <<events, lane, ctl, files, rev, res>>

\* The monitor dies, or an error ends the rest of the pass over this lane.
MonitorDies ==
    /\ mon.pc # "idle"
    /\ mon' = MonIdle
    /\ UNCHANGED <<events, lane, ctl, files, rev, res>>

----------------------------------------------------------------------------
(* ROOT's manager commands.                                                *)

Acknowledge(e) ==
    /\ e.status \in Handled /\ e.run = lane.run
    /\ acknowledge_event(e)
    /\ UNCHANGED <<lane, ctl, files, procs>>

Close(e) ==
    /\ e.status \in Handled /\ e.run = lane.run /\ (e.key = "none" => e.nth + 1 < MaxLost)
    /\ close_event(e)
    /\ UNCHANGED <<lane, ctl, files, procs>>

----------------------------------------------------------------------------
(* completion-review, with --event-id or (ev = NoEvent) with --lane-id.     *)


ReviewGoto(pc) == rev' = IF pc = "idle" THEN RevIdle ELSE [rev EXCEPT !.pc = pc]

\* The lane, its event and what has been published are looked up.  A complete pair
\* is only verified again, so that the event can still be closed; with an event
\* that is COMPLETE already the command changes nothing.
ResolveReview(ev, d) ==
    /\ rev.pc = "idle"
    /\ LateReview \/ res.pc = "idle"
    /\ ev # NoEvent => IsReviewEvent(ev) /\ ev.run = lane.run /\ events[ev] = "ACKNOWLEDGED"
    /\ IF PairExists
       THEN /\ lane.lifecycle \in {"review_pending", "result_invalid", "accepted"}
                                  \cup (IF ev # NoEvent THEN {"retired"} ELSE {})
            /\ ev # NoEvent => PairValid(lane.run) /\ accept.decision = d
       ELSE lane.lifecycle \in {"review_pending", "result_invalid"}
    /\ rev' = [pc |-> IF PairExists /\ ev # NoEvent THEN "close" ELSE "read", ev |-> ev,
               run |-> lane.run, decision |-> d]
    /\ UNCHANGED <<events, lane, ctl, files, mon, res>>

\* Mutant: the event is closed without publishing the pair.
CloseFirst ==
    /\ rev.pc = "read"
    /\ ReviewGoto(IF result = rev.run /\ rev.ev # NoEvent THEN "close" ELSE "idle")
    /\ UNCHANGED <<events, lane, ctl, files, mon, res>>

\* The result must be the one of the run that was looked up.
ReadSources ==
    /\ rev.pc = "read"
    /\ ReviewGoto(IF result = rev.run THEN "publish" ELSE "idle")
    /\ UNCHANGED <<events, lane, ctl, files, mon, res>>

MyReview == [run |-> rev.run, finding |-> Finding(rev.decision)]
MyAccept == [run |-> rev.run, decision |-> rev.decision]

\* Mutant: an existing half of a pair is not compared with this review.
HalfIgnored == TRUE

\* What exists already is exactly what this review would write.
Compatible == review \in {NoReview, MyReview} /\ accept \in {NoAccept, MyAccept}

\* _write_pair, under the lock of the review file: the missing records are
\* written; anything else on record is a conflict and is preserved.
Publish ==
    /\ rev.pc = "publish"
    /\ IF Compatible
       THEN /\ review' = IF review = NoReview THEN MyReview ELSE review
            /\ accept' = IF accept = NoAccept THEN MyAccept ELSE accept
            /\ ReviewGoto(IF rev.ev # NoEvent THEN "close" ELSE "idle")
       ELSE ReviewGoto("idle") /\ UNCHANGED <<review, accept>>
    /\ UNCHANGED <<events, lane, ctl, status, result, mon, res>>

\* The command dies after the first of the two records.
PublishInterrupted ==
    /\ rev.pc = "publish"
    /\ PairAbsent
    /\ review' = MyReview
    /\ ReviewGoto("idle")
    /\ UNCHANGED <<events, lane, ctl, status, result, accept, mon, res>>

CloseReviewEvent ==
    /\ rev.pc = "close"
    /\ IF events[rev.ev] = "ACKNOWLEDGED" THEN close_event(rev.ev)
       ELSE UNCHANGED events
    /\ ReviewGoto("idle")
    /\ UNCHANGED <<lane, ctl, files, mon, res>>

ReviewDies ==
    /\ rev.pc # "idle"
    /\ rev' = RevIdle
    /\ UNCHANGED <<events, lane, ctl, files, mon, res>>

ReviewStep ==
    \/ \E ev \in Ids \cup {NoEvent}, d \in Decisions : ResolveReview(ev, d)
    \/ ReadSources \/ Publish \/ CloseReviewEvent

----------------------------------------------------------------------------
(* resume-lane.                                                            *)

ResumeGoto(pc) == res' = [res EXCEPT !.pc = pc]

\* The lane is stopped and not accepted.
RunResume ==
    /\ res.pc = "idle"
    /\ LateReview \/ rev.pc = "idle"
    /\ LatePass \/ mon.pc = "idle"
    /\ ~ (PairValid(lane.run) /\ Approval(accept.decision) = "ACCEPTED")
    /\ lane.lifecycle \in {"review_pending", "result_invalid", "resuming", "running"}
    /\ ~Live
    /\ lane.run < MaxRun
    /\ res' = [pc |-> "mark", run |-> lane.run, lifecycle |-> lane.lifecycle]
    /\ UNCHANGED <<events, lane, ctl, files, mon, rev>>

\* The lane record is still the one of the run that was read, in this lifecycle.
Unchanged(lifecycle) == lane.run = res.run /\ lane.lifecycle = lifecycle

\* Under the lane's lock: still the lane that was read, still no controller.
MarkResuming ==
    /\ res.pc = "mark"
    /\ IF Unchanged(res.lifecycle) /\ ~Live
       THEN /\ lane' = [lane EXCEPT !.lifecycle = "resuming"]
            /\ res' = [res EXCEPT !.pc = "result", !.lifecycle = "resuming"]
       ELSE res' = ResIdle /\ UNCHANGED lane
    /\ UNCHANGED <<events, ctl, files, mon, rev>>

\* _clear_prior_run: the lane is compared once more, then the files go one by one.
ClearResult ==
    /\ res.pc = "result"
    /\ IF Unchanged("resuming")
       THEN result' = 0 /\ ResumeGoto("review")
       ELSE res' = ResIdle /\ UNCHANGED result
    /\ UNCHANGED <<events, lane, ctl, status, review, accept, mon, rev>>

ClearReview ==
    /\ res.pc = "review"
    /\ review' = NoReview
    /\ ResumeGoto("accept")
    /\ UNCHANGED <<events, lane, ctl, status, result, accept, mon, rev>>

ClearAccept ==
    /\ res.pc = "accept"
    /\ accept' = NoAccept
    /\ ResumeGoto("status")
    /\ UNCHANGED <<events, lane, ctl, status, result, review, mon, rev>>

ClearStatus ==
    /\ res.pc = "status"
    /\ status' = "absent"
    /\ ResumeGoto("replace")
    /\ UNCHANGED <<events, lane, ctl, result, review, accept, mon, rev>>

\* Mutant: what was reported of the prior run is kept.
ReportKept(r) == [run |-> r, lifecycle |-> "running", reported |-> lane.reported, pending |-> TRUE]

\* The lane record of a fresh run: nothing has been reported of it.
FreshRun(r) == [run |-> r, lifecycle |-> "running", reported |-> "none", pending |-> TRUE]

\* The fresh run takes the lane over.
ReplaceRun ==
    /\ res.pc = "replace"
    /\ IF Unchanged("resuming")
       THEN /\ lane' = FreshRun(res.run + 1)
            /\ ResumeGoto("signal")
       ELSE res' = ResIdle /\ UNCHANGED lane
    /\ UNCHANGED <<events, ctl, files, mon, rev>>

\* The open signal of the prior run's rejection.
ResumeSignals == {e \in Ids : e.status = "resume_required" /\ e.run = res.run /\ Open(e)}

\* _consume_resume_signal acknowledges it, if nobody has, and closes it.
AcknowledgeSignal ==
    /\ res.pc = "signal"
    /\ \E e \in ResumeSignals : acknowledge_event(e) /\ ResumeGoto("signal")
    /\ UNCHANGED <<lane, ctl, files, mon, rev>>

CloseSignal ==
    /\ res.pc = "signal"
    /\ \E e \in ResumeSignals : close_event(e)
    /\ res' = ResIdle
    /\ UNCHANGED <<lane, ctl, files, mon, rev>>

NoSignal ==
    /\ res.pc = "signal"
    /\ ResumeSignals = {}
    /\ res' = ResIdle
    /\ UNCHANGED <<events, lane, ctl, files, mon, rev>>

ResumeDies ==
    /\ res.pc # "idle"
    /\ res' = ResIdle
    /\ UNCHANGED <<events, lane, ctl, files, mon, rev>>

ResumeStep ==
    \/ RunResume \/ MarkResuming \/ ClearResult \/ ClearReview \/ ClearAccept \/ ClearStatus
    \/ ReplaceRun \/ AcknowledgeSignal \/ CloseSignal \/ NoSignal

----------------------------------------------------------------------------
Next ==
    \/ Launch \/ ProviderExits \/ ValidResult \/ NoResult \/ Correct \/ LaneEnded \/ DecisionSeen \/ LaneAccepted
    \/ ControllerDies \/ Retire \/ ForceStop
    \/ MonitorStep \/ RecoveryFailed \/ MonitorDies
    \/ \E e \in Ids : Acknowledge(e) \/ Close(e)
    \/ ReviewStep \/ PublishInterrupted \/ ReviewDies
    \/ ResumeStep \/ ResumeDies

Spec == Init /\ [][Next]_vars

\* A step that only a failing pass takes: the end of a pass looks like its death.
PassFails == (MonitorDies \/ RecoveryFailed) /\ ~MonitorStep

\* The monitor's passes go on, and from some time on none of them fails.
FairSpec == Spec /\ WF_vars(MonitorStep) /\ <>[][~PassFails]_vars

----------------------------------------------------------------------------
TypeOK ==
    /\ Ids \subseteq EventId /\ events \in [Ids -> EventStates]
    /\ lane \in LaneRecord
    /\ ctl \in [pc : {"none", "working", "exited", "valid", "failed", "waiting", "copied"}, run : Runs]
    /\ status \in {"absent", "none", "exited", "correction_pending", "review_pending",
                  "provider_exited_no_result"}
    /\ result \in Runs
    /\ review \in [run : Runs, finding : {"PASS", "FAIL"}]
    /\ accept \in [run : Runs, decision : Decisions \cup {"accept"}]
    /\ mon \in [pc : {"idle", "pair", "restore", "reread", "lost", "request", "requested",
                      "reread2", "derive", "report", "mark"},
                snap : LaneRecord, status : Statuses \cup {"none"}, key : Keys]
    /\ rev \in [pc : {"idle", "read", "publish", "close"}, ev : EventId \cup {NoEvent}, run : Runs,
                decision : Decisions \cup {"accept"}]
    /\ res \in [pc : {"idle", "mark", "result", "review", "accept", "status", "replace", "signal"},
                run : Runs, lifecycle : Lifecycles]

\* ROOT is asked once: while a lane waits for its review, at most one request for
\* it is open, although two places of the monitor's pass admit requests, under
\* different keys (monitor.py:322 and 621), and a request closed by hand is renewed.
OneOpenReview ==
    lane.lifecycle = "review_pending" =>
    Cardinality({e \in Ids : IsReviewEvent(e) /\ e.run = lane.run /\ Open(e)}) <= 1

\* The two records never tell of different decisions about one run, through
\* interrupted, repeated and contradicting completion-reviews (_write_pair).
OneDecision ==
    review.run # 0 /\ review.run = accept.run => PairValid(review.run)

AcceptedRun(r) == PairValid(r) /\ Approval(accept.decision) = "ACCEPTED"

\* Once ROOT has accepted a lane's current run the decision stays on record: the
\* monitor removes only broken pairs, a later review changes nothing, and
\* resume-lane clears only a run that is not accepted.
AcceptanceKept ==
    [][AcceptedRun(lane.run) => AcceptedRun(lane.run)' \/ lane'.run # lane.run]_vars

\* completion-review closes its event only for a decision that is on record, or
\* whose run a resume or a force-stop has given up meanwhile.
ClosedWithPair ==
    [][rev.pc = "close" /\ events' # events /\ rev'.pc = "idle"
         => PairValid(rev.run) \/ lane.run # rev.run \/ lane.lifecycle \in {"resuming", "retired"}]_vars

\* What the lane record says was reported, and therefore is not reported again,
\* is in the queue for the lane's current run.
ReportedIsQueued ==
    lane.reported # "none"
    => \E e \in Ids :
          /\ e.run = lane.run
          /\ \/ e.status = lane.reported
             \/ e.status = "provider_exited_no_result" /\ lane.reported = "review_pending"

\* Valid work that waits for its review has an open request, is decided, or
\* leaves that state (_recover_lost_review_event).
Waiting == lane.lifecycle = "review_pending" /\ result = lane.run /\ ~PairValid(lane.run)
ReviewRequested == [](Waiting => <>(OpenRequest(lane.run) \/ ~Waiting))
=============================================================================

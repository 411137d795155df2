----------------------------- MODULE Controller -----------------------------
(***************************************************************************)
(* controller.py: the supervisor process of one lane.  One action per      *)
(* durable write, lease operation or process effect, in program order;     *)
(* ctl[c].pc is the position in run_controller.                            *)
(***************************************************************************)
EXTENDS LaneState

Goto(c, pc) == ctl' = [ctl EXCEPT ![c].pc = pc]

At(c, pc) == ctl[c].pc = pc

\* One _write_status call replaces the lane's status by `new', which is the
\* merged record with some fields changed.
Merged(c) == MergedStatus(ctl[c].lane, ctl[c].run)
WriteStatus(c, new) == status' = [status EXCEPT ![ctl[c].lane] = new]

SetLifecycle(c, value) == lane' = [lane EXCEPT ![ctl[c].lane].lifecycle = value]

----------------------------------------------------------------------------
(* Start-up: find the lane, take its record over, acquire the leases.      *)

FindActiveLane(c) ==
    /\ At(c, "spawned")
    /\ LET l == ctl[c].lane IN
       ctl' = IF epochOpen /\ invocation[l] = lane[l].run
              THEN [ctl EXCEPT ![c].pc = "read", ![c].run = lane[l].run,
                               ![c].session = lane[l].session]
              ELSE [ctl EXCEPT ![c].pc = "exited"]
    /\ UNCHANGED <<records, lease, prov, cmd>>

WriteStarting(c) ==
    /\ At(c, "read")
    /\ WriteStatus(c, [Merged(c) EXCEPT !.cstate = "starting"])
    /\ Goto(c, "starting")
    /\ UNCHANGED <<runtime, epochOpen, issued, lane, invocation, result, chain,
                   failEvent, lease, prov, cmd>>

\* update_lane is unconditional, and the controller continues with the record
\* it returns, whatever run that record now names.
OwnLane(c) ==
    /\ At(c, "starting")
    /\ LET l == ctl[c].lane IN
       /\ lane' = [lane EXCEPT ![l].lifecycle = "running", ![l].process = c]
       /\ ctl' = [ctl EXCEPT ![c].pc = "owned", ![c].run = lane[l].run,
                             ![c].session = lane[l].session]
    /\ UNCHANGED <<runtime, epochOpen, issued, invocation, status, result, chain,
                   failEvent, lease, prov, cmd>>

WriteIdentity(c) ==
    /\ At(c, "owned")
    /\ WriteStatus(c, [Merged(c) EXCEPT !.identity = c])
    /\ Goto(c, "bound")
    /\ UNCHANGED <<runtime, epochOpen, issued, lane, invocation, result, chain,
                   failEvent, lease, prov, cmd>>

\* The exit path shared by a binding that cannot be loaded and leases that
\* cannot be taken: nothing was started, so cleanup counts as proven.
Refuse(c, why) ==
    /\ WriteStatus(c, [Merged(c) EXCEPT !.cstate = "exited", !.pstate = "not_started",
                                           !.proven = TRUE, !.recorded = why])
    /\ failEvent' = [failEvent EXCEPT ![ctl[c].lane] = why]
    /\ Goto(c, "busy")
    /\ UNCHANGED <<runtime, epochOpen, issued, lane, invocation, result, chain,
                   lease, prov, cmd>>

BindingFailed(c) == At(c, "bound") /\ Refuse(c, "binding_failed")

LeaseBusy(c) ==
    /\ At(c, "bound")
    /\ ~LeasesFree(c)
    /\ Refuse(c, "lease_busy")

\* A lease file that cannot be written: the files written so far are unlinked
\* again before the leases lock is released.
LeaseWriteFailed(c) ==
    /\ At(c, "bound")
    /\ Declared[ctl[c].lane] # {}
    /\ Refuse(c, "lease_busy")

Unprepare(c) ==
    /\ At(c, "busy")
    /\ lane' = [lane EXCEPT ![ctl[c].lane].lifecycle = "prepared",
                            ![ctl[c].lane].process = None]
    /\ Goto(c, "exited")
    /\ UNCHANGED <<runtime, epochOpen, issued, invocation, status, result, chain,
                   failEvent, lease, prov, cmd>>

Acquire(c) ==
    /\ At(c, "bound")
    /\ LeasesFree(c)
    /\ AcquireLeases(c, Declared[ctl[c].lane])
    /\ Goto(c, "leased")
    /\ UNCHANGED <<records, prov, cmd>>

\* The lease files are written one by one: a controller that dies in between
\* leaves some of them behind (the operating system drops its lock).
DieWhileAcquiring(c) ==
    /\ At(c, "bound")
    /\ LeasesFree(c)
    /\ \E S \in SUBSET Declared[ctl[c].lane] \ {{}} : AcquireLeases(c, S)
    /\ Goto(c, "exited")
    /\ UNCHANGED <<records, prov, cmd>>

WriteRunning(c) ==
    /\ At(c, "leased")
    /\ WriteStatus(c, [Merged(c) EXCEPT !.cstate = "running"])
    /\ ctl' = [ctl EXCEPT ![c].pc = "attempt", ![c].attempt = 1]
    /\ UNCHANGED <<runtime, epochOpen, issued, lane, invocation, result, chain,
                   failEvent, lease, prov, cmd>>

----------------------------------------------------------------------------
(* One provider attempt (_run_provider).                                   *)

SpawnProvider(c) ==
    /\ At(c, "attempt")
    /\ prov' = [prov EXCEPT ![c] = "running"]
    /\ Goto(c, "created")
    /\ UNCHANGED <<records, lease, cmd>>

\* The process was never created (no_provider_started).
ProviderNotCreated(c) ==
    /\ At(c, "attempt")
    /\ WriteStatus(c, [Merged(c) EXCEPT !.cstate = "exited", !.pstate = "not_started",
                                           !.proven = TRUE,
                                           !.recorded = "provider_start_failed"])
    /\ failEvent' = [failEvent EXCEPT ![ctl[c].lane] = "provider_start_failed"]
    /\ Goto(c, "failed")
    /\ UNCHANGED <<runtime, epochOpen, issued, lane, invocation, result, chain,
                   lease, prov, cmd>>

\* The adapter cannot build the argument vector.
BuildArgvFailed(c) ==
    /\ At(c, "attempt")
    /\ Goto(c, "raised")
    /\ UNCHANGED <<records, lease, prov, cmd>>

\* Windows only: the boundary is durable before the suspended child runs.
RecordBoundary(c) ==
    /\ KillOnClose
    /\ At(c, "created")
    /\ WriteStatus(c, [Merged(c) EXCEPT !.pstate = "starting",
                        !.boundary = [ctl |-> c, attempt |-> ctl[c].attempt]])
    /\ Goto(c, "recorded")
    /\ UNCHANGED <<runtime, epochOpen, issued, lane, invocation, result, chain,
                   failEvent, lease, prov, cmd>>

\* The child exists but its identity or boundary cannot be recorded: it is
\* cleaned up; where no job object contains it, a helper may survive.
BoundaryFailed(c) ==
    /\ ctl[c].pc \in {"created", "recorded"}
    /\ \E left \in {"gone", "helpers"} :
          /\ left = "helpers" => prov[c] # "gone" /\ ~KillOnClose
          /\ prov' = [prov EXCEPT ![c] = left]
    /\ Goto(c, "raised")
    /\ UNCHANGED <<records, lease, cmd>>

\* An error while the provider is recorded or its transcript is read: nothing
\* cleans the provider up on the way to the handler.
ProviderRaised(c) ==
    /\ At(c, "streaming") \/ At(c, IF KillOnClose THEN "recorded" ELSE "created")
    /\ Goto(c, "raised")
    /\ UNCHANGED <<records, lease, prov, cmd>>

\* run_controller's handler for an exception out of _run_provider.  Cleanup is
\* judged by the boundary the status file holds, which need not be the boundary
\* of this attempt.
AttemptRaised(c) ==
    /\ At(c, "raised")
    /\ LET l == ctl[c].lane
           b == status[l].boundary
       IN \E proven \in BOOLEAN :
          /\ proven => status[l].present /\ b.ctl # None
          /\ ~proven => ~status[l].present \/ b.ctl = None \/ ~BoundaryGone(b)
          /\ \/ UNCHANGED prov /\ (BoundaryGone(b) \/ ~proven)
             \/ /\ ~BoundaryGone(b)
                /\ prov' = [prov EXCEPT ![b.ctl] = IF proven THEN "gone" ELSE "helpers"]
          /\ WriteStatus(c, [Merged(c) EXCEPT !.cstate = "exited", !.pstate = "exited", !.proven = proven,
                          !.recorded = IF ctl[c].attempt > 1
                                       THEN "provider_exited_no_result"
                                       ELSE "provider_start_failed"])
          /\ failEvent' = IF ctl[c].attempt > 1 THEN failEvent
                          ELSE [failEvent EXCEPT ![l] = "provider_start_failed"]
          /\ Goto(c, IF ctl[c].attempt > 1
                     THEN (IF proven THEN "noResult" ELSE "relNoResult")
                     ELSE (IF proven THEN "failed" ELSE "quit"))
    /\ UNCHANGED <<runtime, epochOpen, issued, lane, invocation, result, chain, lease, cmd>>

\* The process ends without cleanup proof; a job object takes the rest along.
Exit(c) ==
    /\ At(c, "quit")
    /\ prov' = KilledProvider(c)
    /\ Goto(c, "exited")
    /\ UNCHANGED <<records, lease, cmd>>

RecordProvider(c) ==
    /\ At(c, IF KillOnClose THEN "recorded" ELSE "created")
    /\ WriteStatus(c, [Merged(c) EXCEPT !.pstate = "running",
                        !.boundary = [ctl |-> c, attempt |-> ctl[c].attempt]])
    /\ Goto(c, "streaming")
    /\ UNCHANGED <<runtime, epochOpen, issued, lane, invocation, result, chain,
                   failEvent, lease, prov, cmd>>

\* The runtime is shutting down: the controller stops its own provider.
ShutdownStop(c) ==
    /\ At(c, "streaming")
    /\ runtime = "SHUTTING_DOWN"
    /\ prov[c] = "running"
    /\ \E left \in {"gone", "helpers"} : prov' = [prov EXCEPT ![c] = left]
    /\ UNCHANGED <<records, lease, ctl, cmd>>

\* child.poll() has returned; the transcript may have named a session.
EndStream(c) ==
    /\ At(c, "streaming")
    /\ prov[c] # "running"
    /\ \/ /\ lane' = [lane EXCEPT ![ctl[c].lane].session = "saved"]
          /\ ctl' = [ctl EXCEPT ![c].pc = "ended", ![c].session = "saved"]
       \/ Goto(c, "ended") /\ UNCHANGED lane
    /\ UNCHANGED <<runtime, epochOpen, issued, invocation, status, result, chain,
                   failEvent, lease, prov, cmd>>

WriteProviderExited(c) ==
    /\ At(c, "ended")
    /\ WriteStatus(c, [Merged(c) EXCEPT !.pstate = "exited", !.proven = FALSE,
                        !.boundary = [ctl |-> c, attempt |-> ctl[c].attempt]])
    /\ Goto(c, "judge")
    /\ UNCHANGED <<runtime, epochOpen, issued, lane, invocation, result, chain,
                   failEvent, lease, prov, cmd>>

\* Mutant: cleanup is believed without having removed the helpers.
CleanupAssumed(c) ==
    /\ At(c, "judge")
    /\ Goto(c, "proven")
    /\ UNCHANGED <<records, lease, prov, cmd>>

\* boundary.cleanup(force=True) proves the whole provider tree gone ...
CleanupProven(c) ==
    /\ At(c, "judge")
    /\ prov' = [prov EXCEPT ![c] = "gone"]
    /\ Goto(c, "proven")
    /\ UNCHANGED <<records, lease, cmd>>

\* ... or cannot: the controller exits and keeps the leases.
CleanupUnproven(c) ==
    /\ At(c, "judge")
    /\ WriteStatus(c, [Merged(c) EXCEPT !.pstate = "exited", !.proven = FALSE,
                        !.boundary = [ctl |-> c, attempt |-> ctl[c].attempt]])
    /\ prov' = KilledProvider(c)
    /\ Goto(c, "exited")
    /\ UNCHANGED <<runtime, epochOpen, issued, lane, invocation, result, chain,
                   failEvent, lease, cmd>>

----------------------------------------------------------------------------
(* Judging the result.                                                     *)

ResultValid(c) == result[ctl[c].lane] = ctl[c].run

ValidResult(c) ==
    /\ At(c, "proven")
    /\ ResultValid(c)
    /\ WriteStatus(c, [Merged(c) EXCEPT !.proven = TRUE, !.recorded = "review_pending"])
    /\ Goto(c, "relValid")
    /\ UNCHANGED <<runtime, epochOpen, issued, lane, invocation, result, chain,
                   failEvent, lease, prov, cmd>>

\* Mutant: one correction too many.
MayCorrectOnceMore(c) == ctl[c].corrections <= MaxCorrections /\ ctl[c].session = "saved"

\* Another correction in the same native session is possible.
MayCorrect(c) == ctl[c].corrections < MaxCorrections /\ ctl[c].session = "saved"

\* Mutant: the correction is not counted.
CorrectionUncounted(c) == ctl[c].corrections

CorrectionCount(c) == ctl[c].corrections + 1

\* An invalid result with no correction left: the limit is reached, there is no
\* native session, or the provider failed in a way a retry cannot repair.
NoResult(c) ==
    /\ At(c, "proven")
    /\ ~ResultValid(c)
    /\ \E nonRetryable \in BOOLEAN : ~MayCorrect(c) \/ nonRetryable
    /\ lane' = IF ctl[c].session = "saved"
               THEN [lane EXCEPT ![ctl[c].lane].session = "saved"] ELSE lane
    /\ WriteStatus(c, [Merged(c) EXCEPT !.cstate = "exited", !.pstate = "exited",
                        !.proven = TRUE, !.recorded = "provider_exited_no_result"])
    /\ Goto(c, "noResult")
    /\ UNCHANGED <<runtime, epochOpen, issued, invocation, result, chain,
                   failEvent, lease, prov, cmd>>

Correct(c) ==
    /\ At(c, "proven")
    /\ ~ResultValid(c)
    /\ MayCorrect(c)
    /\ lane' = [lane EXCEPT ![ctl[c].lane].session = "saved"]
    /\ WriteStatus(c, [Merged(c) EXCEPT !.proven = TRUE,
                                           !.recorded = "correction_pending"])
    /\ ctl' = [ctl EXCEPT ![c].pc = "attempt", ![c].attempt = CorrectionCount(c) + 1,
                          ![c].corrections = CorrectionCount(c)]
    /\ UNCHANGED <<runtime, epochOpen, issued, invocation, result, chain,
                   failEvent, lease, prov, cmd>>

\* release_leases, by lane and run, on each of the three paths that reach it.
ControllerRelease(c) ==
    /\ ctl[c].pc \in {"relValid", "noResult", "failed"}
    /\ ReleaseLeases(ctl[c].lane, ctl[c].run)
    /\ Goto(c, CASE ctl[c].pc = "relValid" -> "review"
                 [] ctl[c].pc = "noResult" -> "relNoResult"
                 [] OTHER -> "exited")
    /\ UNCHANGED <<records, prov, cmd>>

LaneReviewPending(c) ==
    /\ At(c, "review")
    /\ SetLifecycle(c, "review_pending")
    /\ Goto(c, "waiting")
    /\ UNCHANGED <<runtime, epochOpen, issued, invocation, status, result, chain,
                   failEvent, lease, prov, cmd>>

LaneResultInvalid(c) ==
    /\ At(c, "relNoResult")
    /\ SetLifecycle(c, "result_invalid")
    /\ prov' = KilledProvider(c)
    /\ Goto(c, "exited")
    /\ UNCHANGED <<runtime, epochOpen, issued, invocation, status, result, chain,
                   failEvent, lease, cmd>>

----------------------------------------------------------------------------
(* Waiting for ROOT's decision.                                            *)

Approval(c) ==
    IF chain[ctl[c].lane].run = ctl[c].run THEN chain[ctl[c].lane].approval ELSE "none"

StopWaiting(c) ==
    /\ At(c, "waiting")
    /\ Approval(c) # "none" \/ runtime = "SHUTTING_DOWN"
    /\ WriteStatus(c, [Merged(c) EXCEPT !.cstate = "exited", !.recorded = "review_pending"])
    /\ Goto(c, IF Approval(c) = "ACCEPTED" THEN "copied" ELSE "exited")
    /\ UNCHANGED <<runtime, epochOpen, issued, lane, invocation, result, chain,
                   failEvent, lease, prov, cmd>>

LaneAccepted(c) ==
    /\ At(c, "copied")
    /\ SetLifecycle(c, "accepted")
    /\ Goto(c, "exited")
    /\ UNCHANGED <<runtime, epochOpen, issued, invocation, status, result, chain,
                   failEvent, lease, prov, cmd>>

----------------------------------------------------------------------------
ControllerStep(c) ==
    \/ FindActiveLane(c) \/ WriteStarting(c) \/ OwnLane(c) \/ WriteIdentity(c)
    \/ BindingFailed(c) \/ LeaseBusy(c) \/ LeaseWriteFailed(c) \/ Unprepare(c)
    \/ Acquire(c) \/ WriteRunning(c)
    \/ SpawnProvider(c) \/ ProviderNotCreated(c) \/ BuildArgvFailed(c)
    \/ RecordBoundary(c) \/ BoundaryFailed(c) \/ ProviderRaised(c) \/ AttemptRaised(c)
    \/ Exit(c) \/ RecordProvider(c)
    \/ ShutdownStop(c) \/ EndStream(c) \/ WriteProviderExited(c)
    \/ CleanupProven(c) \/ CleanupUnproven(c)
    \/ ValidResult(c) \/ NoResult(c) \/ Correct(c) \/ ControllerRelease(c)
    \/ LaneReviewPending(c) \/ LaneResultInvalid(c)
    \/ StopWaiting(c) \/ LaneAccepted(c)

\* The controller process dies (killed, host failure) at any point.
Crash(c) ==
    /\ Live(c)
    /\ prov' = KilledProvider(c)
    /\ Goto(c, "exited")
    /\ UNCHANGED <<records, lease, cmd>>

\* The provider's root process ends, possibly leaving helpers and possibly after
\* writing a valid RESULT.json for its run; helpers end by themselves.
ProviderExits(c) ==
    /\ ProviderLive(c)
    /\ \E left \in {"gone", "helpers"} :
          /\ left = "helpers" => prov[c] = "running"
          /\ prov' = [prov EXCEPT ![c] = left]
    /\ \E wrote \in BOOLEAN :
          result' = IF wrote /\ prov[c] = "running"
                    THEN [result EXCEPT ![ctl[c].lane] = ctl[c].run] ELSE result
    /\ UNCHANGED <<runtime, epochOpen, issued, lane, invocation, status, chain,
                   failEvent, lease, ctl, cmd>>
=============================================================================

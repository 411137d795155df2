---------------------------- MODULE LaneCommands ----------------------------
(***************************************************************************)
(* The operator's commands on a lane: launch.py (launch, force-stop,       *)
(* retire), resume.py, shutdown.py, `lease force-release' and the effect   *)
(* of completion-review.  Each command is a short-lived process; it works  *)
(* on the lane record it read first (cmd[k].snap) and commits its effects  *)
(* one durable write at a time.                                            *)
(***************************************************************************)
EXTENDS LaneState

\* A command starts on lane l.  Unless commands may overlap, no other command
\* is at work on that lane (a shutdown is at work on every lane).
Begin(k, l) ==
    /\ cmd[k].pc = "idle"
    /\ epochOpen
    /\ Overlap \/ \A j \in Commands : cmd[j].lane # l /\ cmd[j].kind # "shutdown"

Step(k, kind, pc) == cmd[k].kind = kind /\ cmd[k].pc = pc

Continue(k, pc) == cmd' = [cmd EXCEPT ![k].pc = pc]

Finish(k) == cmd' = [cmd EXCEPT ![k] = Idle]

Start(k, kind, pc, l) ==
    cmd' = [cmd EXCEPT ![k] = [Idle EXCEPT !.kind = kind, !.pc = pc, !.lane = l,
                                           !.snap = lane[l]]]

\* The exact controller a lane record names, or the one its status attests.
LiveController(rec, l) ==
    \/ Live(rec.process)
    \/ status[l].present /\ status[l].run = rec.run /\ Live(status[l].identity)

----------------------------------------------------------------------------
(* lane launch                                                             *)

RunLaunch(k, l) ==
    /\ Begin(k, l)
    /\ runtime = "OPEN"
    /\ lane[l].lifecycle \in {"prepared", "running"}
    /\ invocation[l] = lane[l].run
    /\ Relaunch \/ ControllersOf(l) = {}
    /\ Start(k, "launch", "spawn", l)
    /\ UNCHANGED <<records, lease, ctl, prov>>

SpawnController(k) ==
    /\ Step(k, "launch", "spawn")
    /\ \E c \in Controllers :
          /\ ctl[c].pc = "absent"
          /\ ctl' = [ctl EXCEPT ![c].pc = "spawned", ![c].lane = cmd[k].lane]
          /\ cmd' = [cmd EXCEPT ![k].pc = "record", ![k].child = c]
    /\ UNCHANGED <<records, lease, prov>>

RecordController(k) ==
    /\ Step(k, "launch", "record")
    /\ LET l == cmd[k].lane IN
       /\ lane' = [lane EXCEPT ![l].lifecycle = "running", ![l].process = cmd[k].child]
       /\ cmd' = [cmd EXCEPT ![k].pc = "handshake", ![k].run = lane[l].run]
    /\ UNCHANGED <<runtime, epochOpen, issued, invocation, status, result, chain,
                   failEvent, lease, ctl, prov>>

\* The child's identity cannot be read or recorded: the child is terminated.
RecordFailed(k) ==
    /\ Step(k, "launch", "record")
    /\ LET c == cmd[k].child IN
       /\ ctl' = [ctl EXCEPT ![c].pc = "exited"]
       /\ prov' = IF Live(c) THEN KilledProvider(c) ELSE prov
    /\ Finish(k)
    /\ UNCHANGED <<records, lease>>

\* The handshake: the provider runs, or its result is already up for review.
LaunchOk(k) ==
    /\ Step(k, "launch", "handshake")
    /\ LET s == StatusOf(cmd[k].lane, cmd[k].run) IN
       /\ s.present
       /\ \/ s.cstate = "running" /\ s.pstate = "running"
          \/ s.pstate = "exited" /\ s.proven /\ s.recorded = "review_pending"
    /\ Finish(k)
    /\ UNCHANGED <<records, lease, ctl, prov>>

\* The child exited first, or the handshake timed out.  After a proven start
\* failure the child is reaped (killed if it lingers) and its identity cleared,
\* provided the lane still names that very child; if it cannot be reaped, or the
\* failure is another one, nothing changes.
LaunchFailed(k) ==
    /\ Step(k, "launch", "handshake")
    /\ LET l == cmd[k].lane
           s == StatusOf(l, cmd[k].run)
           c == cmd[k].child
       IN \/ /\ failEvent[l] = "provider_start_failed"
             /\ s.present /\ s.cstate = "exited" /\ s.proven
             /\ ctl' = [ctl EXCEPT ![c].pc = "exited"]
             /\ prov' = IF Live(c) THEN KilledProvider(c) ELSE prov
             /\ lane' = IF lane[l].process = c
                        THEN [lane EXCEPT ![l].process = None] ELSE lane
          \/ UNCHANGED <<ctl, prov, lane>>
    /\ Finish(k)
    /\ UNCHANGED <<runtime, epochOpen, issued, invocation, status, result, chain,
                   failEvent, lease>>

----------------------------------------------------------------------------
(* lane force-stop                                                         *)

RunForceStop(k, l) ==
    /\ Begin(k, l)
    /\ LET s == StatusOf(l, lane[l].run) IN
       IF lane[l].process = None /\ ~s.present
       THEN /\ lane[l].lifecycle = "prepared"     \* anything else is refused
            /\ Start(k, "force-stop", "release", l)
       ELSE cmd' = [cmd EXCEPT ![k] = [Idle EXCEPT !.kind = "force-stop", !.pc = "kill",
                                          !.lane = l, !.snap = lane[l], !.st = s]]
    /\ UNCHANGED <<records, lease, ctl, prov>>

\* terminate_process of the recorded controller, which may outlive even that.
KillController(k) ==
    /\ Step(k, "force-stop", "kill")
    /\ LET c == cmd[k].snap.process IN
       \/ /\ Live(c)
          /\ ctl' = [ctl EXCEPT ![c].pc = "exited"]
          /\ prov' = KilledProvider(c)
          /\ Continue(k, "clean")
       \/ Live(c) /\ Continue(k, "survived") /\ UNCHANGED <<ctl, prov>>
       \/ ~Live(c) /\ Continue(k, "clean") /\ UNCHANGED <<ctl, prov>>
    /\ UNCHANGED <<records, lease>>

\* The boundary is clean: go on, unless the controller itself survived.
BoundaryCleaned(k) == IF cmd[k].pc = "clean" THEN Continue(k, "release") ELSE Finish(k)

\* Clean the boundary the status recorded when the command read it.  Without a
\* boundary only a provider that never started counts as clean; otherwise the
\* command ends with FORCE_STOP_PROCESS_SURVIVED.
CleanBoundary(k) ==
    /\ cmd[k].kind = "force-stop" /\ cmd[k].pc \in {"clean", "survived"}
    /\ LET s == cmd[k].st
           b == s.boundary
       IN \/ /\ s.present /\ b.ctl # None
             /\ prov' = IF BoundaryGone(b) THEN prov ELSE [prov EXCEPT ![b.ctl] = "gone"]
             /\ BoundaryCleaned(k)
          \/ /\ s.present /\ b.ctl # None /\ ~BoundaryGone(b)
             /\ prov' \in {prov, [prov EXCEPT ![b.ctl] = "helpers"]}
             /\ Finish(k)
          \/ /\ s.present /\ b.ctl = None /\ s.proven /\ s.pstate = "not_started"
             /\ BoundaryCleaned(k)
             /\ UNCHANGED prov
          \/ /\ ~s.present \/ (b.ctl = None /\ ~(s.proven /\ s.pstate = "not_started"))
             /\ Finish(k)
             /\ UNCHANGED prov
    /\ UNCHANGED <<records, lease, ctl>>

ForceStopRelease(k) ==
    /\ Step(k, "force-stop", "release")
    /\ ForceReleaseLeases(cmd[k].lane)
    /\ Continue(k, "retire")
    /\ UNCHANGED <<records, ctl, prov>>

\* Mutant: the lane is not marked retired.
ForceStopForgets(k) == Step(k, "force-stop", "retire") /\ Finish(k)
                       /\ UNCHANGED <<records, lease, ctl, prov>>

ForceStopRetire(k) ==
    /\ Step(k, "force-stop", "retire")
    /\ lane' = [lane EXCEPT ![cmd[k].lane].lifecycle = "retired"]
    /\ Finish(k)
    /\ UNCHANGED <<runtime, epochOpen, issued, invocation, status, result, chain,
                   failEvent, lease, ctl, prov>>

----------------------------------------------------------------------------
(* lane retire                                                             *)

RunRetire(k, l) ==
    /\ Begin(k, l)
    /\ chain[l].approval = "ACCEPTED"
    /\ Start(k, "retire", "check", l)
    /\ UNCHANGED <<records, lease, ctl, prov>>

\* Mutant: a live controller is overlooked.
EvidenceWithoutController(process, s) ==
    s.present /\ s.proven /\ s.boundary.ctl # None /\ BoundaryGone(s.boundary)

\* What a release by retire or shutdown rests on: the recorded controller is
\* gone, and the status proves the provider boundary it names is gone too.
CleanupEvidence(process, s) ==
    /\ ~Live(process)
    /\ s.present /\ s.proven
    /\ s.boundary.ctl # None /\ BoundaryGone(s.boundary)

RetireCheck(k) ==
    /\ Step(k, "retire", "check")
    /\ CleanupEvidence(cmd[k].snap.process, StatusOf(cmd[k].lane, cmd[k].snap.run))
    /\ Continue(k, "release")
    /\ UNCHANGED <<records, lease, ctl, prov>>

RetireRefused(k) ==
    /\ Step(k, "retire", "check")
    /\ ~CleanupEvidence(cmd[k].snap.process, StatusOf(cmd[k].lane, cmd[k].snap.run))
    /\ Finish(k)
    /\ UNCHANGED <<records, lease, ctl, prov>>

RetireRelease(k) ==
    /\ Step(k, "retire", "release")
    /\ ReleaseLeases(cmd[k].lane, cmd[k].snap.run)
    /\ Continue(k, "retire")
    /\ UNCHANGED <<records, ctl, prov>>

\* The last active lane also closes the epoch, unless the manager queue (not
\* part of this model) still holds an unresolved event.
RetireLane(k) ==
    /\ Step(k, "retire", "retire")
    /\ lane' = [lane EXCEPT ![cmd[k].lane].lifecycle = "retired"]
    /\ epochOpen' \in IF \A l \in Lanes \ {cmd[k].lane} : lane[l].lifecycle = "retired"
                      THEN BOOLEAN ELSE {epochOpen}
    /\ Finish(k)
    /\ UNCHANGED <<runtime, issued, invocation, status, result, chain, failEvent,
                   lease, ctl, prov>>

----------------------------------------------------------------------------
(* resume-lane                                                             *)

Resumable == {"review_pending", "result_invalid", "resuming", "running"}

RunResume(k, l) ==
    /\ Begin(k, l)
    /\ ~ (chain[l].run = lane[l].run /\ chain[l].approval = "ACCEPTED")
    /\ lane[l].lifecycle \in Resumable
    /\ lane[l].session = "saved"
    /\ ~LiveController(lane[l], l)
    /\ issued[l] < MaxRun
    /\ issued' = [issued EXCEPT ![l] = @ + 1]
    /\ cmd' = [cmd EXCEPT ![k] = [Idle EXCEPT !.kind = "resume", !.pc = "mark", !.lane = l,
                                     !.snap = lane[l], !.run = issued[l] + 1]]
    /\ UNCHANGED <<runtime, epochOpen, lane, invocation, status, result, chain,
                   failEvent, lease, ctl, prov>>

\* The lane is still the one the command read (under the lane's lock).
SameRun(k) == lane[cmd[k].lane].run = cmd[k].snap.run

MarkResuming(k) ==
    /\ Step(k, "resume", "mark")
    /\ LET l == cmd[k].lane IN
       IF SameRun(k) /\ lane[l].lifecycle = cmd[k].snap.lifecycle /\ ~LiveController(lane[l], l)
       THEN /\ lane' = [lane EXCEPT ![l].lifecycle = "resuming"]
            /\ Continue(k, "clear")
       ELSE Finish(k) /\ UNCHANGED lane
    /\ UNCHANGED <<runtime, epochOpen, issued, invocation, status, result, chain,
                   failEvent, lease, ctl, prov>>

\* Mutant: the prior run's status file is left behind.
StatusKept(l) == status

StatusCleared(l) == [status EXCEPT ![l] = NoStatus]

ClearPriorRun(k) ==
    /\ Step(k, "resume", "clear")
    /\ LET l == cmd[k].lane IN
       IF SameRun(k) /\ lane[l].lifecycle = "resuming"
       THEN /\ result' = [result EXCEPT ![l] = 0]
            /\ chain' = [chain EXCEPT ![l] = [run |-> 0, approval |-> "none"]]
            /\ status' = StatusCleared(l)
            /\ Continue(k, "invocation")
       ELSE Finish(k) /\ UNCHANGED <<result, chain, status>>
    /\ UNCHANGED <<runtime, epochOpen, issued, lane, invocation, failEvent, lease, ctl, prov>>

\* The files are removed one after the other; a command that dies in between
\* leaves the later ones (the status file is the last).
ClearInterrupted(k) ==
    /\ Step(k, "resume", "clear")
    /\ LET l == cmd[k].lane IN
       /\ SameRun(k) /\ lane[l].lifecycle = "resuming"
       /\ result' = [result EXCEPT ![l] = 0]
       /\ chain' \in {chain, [chain EXCEPT ![l] = [run |-> 0, approval |-> "none"]]}
    /\ Finish(k)
    /\ UNCHANGED <<runtime, epochOpen, issued, lane, invocation, status, failEvent,
                   lease, ctl, prov>>

WriteInvocation(k) ==
    /\ Step(k, "resume", "invocation")
    /\ invocation' = [invocation EXCEPT ![cmd[k].lane] = cmd[k].run]
    /\ Continue(k, "replace")
    /\ UNCHANGED <<runtime, epochOpen, issued, lane, status, result, chain, failEvent,
                   lease, ctl, prov>>

ReplaceRun(k) ==
    /\ Step(k, "resume", "replace")
    /\ LET l == cmd[k].lane IN
       lane' = IF SameRun(k) /\ lane[l].lifecycle = "resuming"
               THEN [lane EXCEPT ![l].run = cmd[k].run, ![l].lifecycle = "running",
                                 ![l].process = None]
               ELSE lane
    /\ Finish(k)
    /\ UNCHANGED <<runtime, epochOpen, issued, invocation, status, result, chain,
                   failEvent, lease, ctl, prov>>

----------------------------------------------------------------------------
(* harness shutdown                                                        *)

RunShutdown(k) ==
    /\ cmd[k].pc = "idle"
    /\ runtime \in {"OPEN", "SHUTTING_DOWN"}
    /\ Overlap \/ \A j \in Commands : cmd[j].pc = "idle"
    /\ runtime' = "SHUTTING_DOWN"
    /\ cmd' = [cmd EXCEPT ![k] = [Idle EXCEPT !.kind = "shutdown", !.pc = "lane",
                                     !.todo = IF epochOpen THEN Lanes ELSE {}]]
    /\ UNCHANGED <<epochOpen, issued, lane, invocation, status, result, chain,
                   failEvent, lease, ctl, prov>>

\* The next active lane: already retired, proven clean, or the shutdown fails.
\* shutdown.py reads the status file without comparing its run.
ShutdownLane(k, l) ==
    /\ Step(k, "shutdown", "lane")
    /\ l \in cmd[k].todo
    /\ \/ /\ lane[l].lifecycle = "retired"
          /\ cmd' = [cmd EXCEPT ![k].todo = @ \ {l}]
       \/ /\ lane[l].lifecycle # "retired"
          /\ CleanupEvidence(lane[l].process, status[l])
          /\ cmd' = [cmd EXCEPT ![k].pc = "release", ![k].lane = l, ![k].snap = lane[l]]
       \/ /\ lane[l].lifecycle # "retired"
          /\ ~CleanupEvidence(lane[l].process, status[l])
          /\ Finish(k)
    /\ UNCHANGED <<records, lease, ctl, prov>>

ShutdownRelease(k) ==
    /\ Step(k, "shutdown", "release")
    /\ ReleaseLeases(cmd[k].lane, cmd[k].snap.run)
    /\ Continue(k, "retire")
    /\ UNCHANGED <<records, ctl, prov>>

ShutdownRetire(k) ==
    /\ Step(k, "shutdown", "retire")
    /\ lane' = [lane EXCEPT ![cmd[k].lane].lifecycle = "retired"]
    /\ cmd' = [cmd EXCEPT ![k].pc = "lane", ![k].todo = @ \ {cmd[k].lane}, ![k].lane = None]
    /\ UNCHANGED <<runtime, epochOpen, issued, invocation, status, result, chain,
                   failEvent, lease, ctl, prov>>

ShutdownClose(k) ==
    /\ Step(k, "shutdown", "lane")
    /\ cmd[k].todo = {}
    /\ epochOpen' = FALSE
    /\ runtime' = "CLOSED"
    /\ Finish(k)
    /\ UNCHANGED <<issued, lane, invocation, status, result, chain, failEvent,
                   lease, ctl, prov>>

----------------------------------------------------------------------------
(* lease force-release, completion-review, and the death of a command      *)

HolderGone(r) == ~Live(lease[r])

\* force_release_lease: never while the exact recorded holder is live.
ForceReleaseLease(r) ==
    /\ lease[r] # None /\ HolderGone(r)
    /\ lease' = [lease EXCEPT ![r] = None]
    /\ UNCHANGED <<records, ctl, prov, cmd>>

\* The pair that run_completion_review publishes for the lane's current run.
CompletionReview(l) ==
    /\ epochOpen
    /\ lane[l].lifecycle \in {"review_pending", "result_invalid"}
    /\ chain[l].approval = "none"
    /\ result[l] = lane[l].run
    /\ \E approval \in {"ACCEPTED", "REJECTED"} :
          chain' = [chain EXCEPT ![l] = [run |-> lane[l].run, approval |-> approval]]
    /\ UNCHANGED <<runtime, epochOpen, issued, lane, invocation, status, result,
                   failEvent, lease, ctl, prov, cmd>>

\* A command process dies between two of its writes.  A launch that dies
\* between creating its child and recording it leaves a controller no record
\* names yet: the next command then overlaps that controller's start.
CommandDies(k) ==
    /\ cmd[k].pc # "idle"
    /\ Overlap \/ ~Step(k, "launch", "record")
    /\ Finish(k)
    /\ UNCHANGED <<records, lease, ctl, prov>>

CommandStep(k) ==
    \/ \E l \in Lanes : \/ RunLaunch(k, l) \/ RunForceStop(k, l) \/ RunRetire(k, l)
                        \/ RunResume(k, l) \/ ShutdownLane(k, l)
    \/ SpawnController(k) \/ RecordController(k) \/ RecordFailed(k)
    \/ LaunchOk(k) \/ LaunchFailed(k)
    \/ KillController(k) \/ CleanBoundary(k) \/ ForceStopRelease(k) \/ ForceStopRetire(k)
    \/ RetireCheck(k) \/ RetireRefused(k) \/ RetireRelease(k) \/ RetireLane(k)
    \/ MarkResuming(k) \/ ClearPriorRun(k) \/ WriteInvocation(k) \/ ReplaceRun(k)
    \/ RunShutdown(k) \/ ShutdownRelease(k) \/ ShutdownRetire(k) \/ ShutdownClose(k)
=============================================================================

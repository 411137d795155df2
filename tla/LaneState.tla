----------------------------- MODULE LaneState -----------------------------
(***************************************************************************)
(* The durable records one lane shares between its controller process and  *)
(* the operator's commands, and the processes themselves.                  *)
(*                                                                         *)
(* Every record is one JSON file that is replaced atomically under its     *)
(* RecordLock, so one write of one record is one step of the model.  A     *)
(* process incarnation (PID plus creation time) is one element of          *)
(* Controllers and is never reused.                                        *)
(***************************************************************************)
EXTENDS Naturals, FiniteSets

CONSTANTS
    Lanes,           \* lane ids of the epoch
    Resources,       \* opaque exclusive-resource names
    Controllers,     \* controller process incarnations a launch may create
    Commands,        \* operator command processes that may run at once
    Declared,        \* the exclusive_resources of each lane's invocation
    MaxRun,          \* bound: fresh run ids per lane
    MaxCorrections,  \* correction prompts per run (5 in the controller)
    KillOnClose,     \* TRUE: a provider dies with its controller (Windows job object)
    Relaunch,        \* TRUE: a lane may be launched while its controller is live
    Overlap,         \* TRUE: two commands on one lane may overlap
    None             \* "no process"

ASSUME DeclaredAssumption == Declared \in [Lanes -> SUBSET Resources]
ASSUME BoundsAssumption   == MaxRun \in Nat \ {0} /\ MaxCorrections \in Nat
ASSUME FlagsAssumption    == {KillOnClose, Relaunch, Overlap} \subseteq BOOLEAN
ASSUME NoneAssumption     == None \notin Controllers \cup Lanes

VARIABLES
    runtime,     \* runtime-state.json: OPEN, SHUTTING_DOWN or CLOSED
    epochOpen,   \* CURRENT_EPOCH marker present
    issued,      \* run ids handed out per lane (new_id is fresh by construction)
    lane,        \* lane.json
    invocation,  \* invocation.json: the run it was written for
    status,      \* controller.status.json
    lease,       \* the lease file of each resource: the holder, or None
    result,      \* the run whose valid RESULT.json lies in the worktree, 0 if none
    chain,       \* the review/acceptance pair: its run and approval
    failEvent,   \* the newest launch-failure line of the controller events log
    ctl,         \* the controller processes
    prov,        \* the provider process tree of each controller
    cmd          \* the operator's command processes

records == <<runtime, epochOpen, issued, lane, invocation, status, result, chain, failEvent>>
vars == <<records, lease, ctl, prov, cmd>>

Lifecycles == {"prepared", "running", "resuming", "review_pending",
               "result_invalid", "accepted", "retired"}
Sessions == {"none", "saved"}     \* the provider's native session id
Runs     == 0 .. MaxRun
Attempts == 0 .. MaxCorrections + 1

LaneRecord == [run : Runs, lifecycle : Lifecycles,
               process : Controllers \cup {None}, session : Sessions]

Boundary   == [ctl : Controllers \cup {None}, attempt : Attempts]
NoBoundary == [ctl |-> None, attempt |-> 0]

StatusRecord ==
    [present : BOOLEAN, run : Runs,
     cstate : {"starting", "running", "exited"},
     pstate : {"starting", "running", "exited", "not_started"},
     proven : BOOLEAN,
     recorded : {"none", "binding_failed", "lease_busy", "provider_start_failed",
                 "provider_exited_no_result", "correction_pending", "review_pending"},
     boundary : Boundary,
     identity : Controllers \cup {None}]

\* What _write_status starts from when the file is absent or of another run.
EmptyStatus(present, r) ==
    [present |-> present, run |-> r, cstate |-> "running", pstate |-> "starting",
     proven |-> FALSE, recorded |-> "none", boundary |-> NoBoundary,
     identity |-> None]
FreshStatus(r) == EmptyStatus(TRUE, r)
NoStatus == EmptyStatus(FALSE, 0)

\* _write_status merges into the existing record of the same run.
MergedStatus(l, r) ==
    IF status[l].present /\ status[l].run = r THEN status[l] ELSE FreshStatus(r)

\* _read_controller_status of launch.py: a record of another run reads as absent.
StatusOf(l, r) ==
    IF status[l].present /\ status[l].run = r THEN status[l] ELSE NoStatus

Idle == [kind |-> "none", pc |-> "idle", lane |-> None,
         snap |-> [run |-> 0, lifecycle |-> "prepared", process |-> None, session |-> "none"],
         st |-> NoStatus, child |-> None, run |-> 0, todo |-> {}]

CtlPcs == {"absent", "spawned", "read", "starting", "owned", "bound", "busy",
           "leased", "attempt", "created", "recorded", "raised", "streaming",
           "ended", "judge", "proven", "relValid", "review", "waiting", "copied",
           "failed", "noResult", "relNoResult", "quit", "exited"}

CtlRecord ==
    [pc : CtlPcs, lane : Lanes \cup {None}, run : Runs, attempt : Attempts,
     corrections : 0 .. MaxCorrections, session : Sessions]

CmdKinds == {"none", "launch", "force-stop", "retire", "resume", "shutdown"}

CmdPcs == {"idle", "spawn", "record", "handshake", "kill", "clean", "survived",
           "release", "retire", "check", "mark", "clear", "invocation", "replace", "lane"}

CmdRecord ==
    [kind : CmdKinds, pc : CmdPcs, lane : Lanes \cup {None}, snap : LaneRecord, st : StatusRecord,
     child : Controllers \cup {None}, run : Runs, todo : SUBSET Lanes]

ChainRecord == [run : Runs, approval : {"none", "ACCEPTED", "REJECTED"}]

FailEvents == {"none", "binding_failed", "lease_busy", "provider_start_failed"}

ProvStates == {"none", "running", "helpers", "gone"}

Live(c) == c # None /\ ctl[c].pc \notin {"absent", "exited"}

\* The provider tree of controller c still has a process.
ProviderLive(c) == prov[c] \in {"running", "helpers"}

\* process_boundary_is_gone of a recorded boundary.
BoundaryGone(b) ==
    ~ (b.ctl # None /\ ctl[b.ctl].attempt = b.attempt /\ ProviderLive(b.ctl))

\* Live controllers that supervise lane l.
ControllersOf(l) == {c \in Controllers : Live(c) /\ ctl[c].lane = l}

\* A controller that was killed or died: its flock and job handles are closed.
KilledProvider(c) ==
    IF KillOnClose /\ ProviderLive(c) THEN [prov EXCEPT ![c] = "gone"] ELSE prov

(***************************************************************************)
(* leases.py.  All operations run under the one leases lock.               *)
(***************************************************************************)
\* Mutant: acquire_leases does not look at the existing lease files.
LeasesUnchecked(c) == TRUE

\* acquire_leases: no declared resource has a lease file.
LeasesFree(c) == \A r \in Declared[ctl[c].lane] : lease[r] = None

AcquireLeases(c, S) == lease' = [r \in Resources |-> IF r \in S THEN c ELSE lease[r]]

\* release_leases: every lease recorded for this lane and this run.
ReleaseLeases(l, r) ==
    lease' = [x \in Resources |->
                IF lease[x] # None /\ ctl[lease[x]].lane = l /\ ctl[lease[x]].run = r
                THEN None ELSE lease[x]]

\* Mutant: the lane comparison is forgotten.
ForceReleaseEveryLane(l) == lease' = [x \in Resources |-> None]

\* force_release_leases: every lease recorded for this lane, whatever the run.
ForceReleaseLeases(l) ==
    lease' = [x \in Resources |->
                IF lease[x] # None /\ ctl[lease[x]].lane = l THEN None ELSE lease[x]]

Init ==
    /\ runtime = "OPEN"
    /\ epochOpen = TRUE
    /\ issued = [l \in Lanes |-> 1]
    /\ lane = [l \in Lanes |-> [run |-> 1, lifecycle |-> "prepared",
                                process |-> None, session |-> "none"]]
    /\ invocation = [l \in Lanes |-> 1]
    /\ status = [l \in Lanes |-> NoStatus]
    /\ lease = [r \in Resources |-> None]
    /\ result = [l \in Lanes |-> 0]
    /\ chain = [l \in Lanes |-> [run |-> 0, approval |-> "none"]]
    /\ failEvent = [l \in Lanes |-> "none"]
    /\ ctl = [c \in Controllers |-> [pc |-> "absent", lane |-> None, run |-> 0,
                                     attempt |-> 0, corrections |-> 0, session |-> "none"]]
    /\ prov = [c \in Controllers |-> "none"]
    /\ cmd = [k \in Commands |-> Idle]
=============================================================================

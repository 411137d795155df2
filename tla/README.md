# A TLA+ model of the orchestrator harness

The repository is a file-based harness in which one manager agent (ROOT) runs
several coding workers.  Each worker lives in a *lane*: a branch with its own
worktree, a detached *controller* process that starts the provider program
(Claude Code, Codex, Qwen Code), watches it, judges the `RESULT.json` it leaves
and asks for corrections.  ROOT and the human operator act through short-lived
commands (`harness setup`, `lane bootstrap`, `lane launch`, `lane force-stop`, `lane retire`,
`resume-lane`, `completion-review`, `lease force-release`, `harness shutdown`).  There is no
server: everybody reads and writes JSON files below `.agentic/`, and any process may
die between two writes.  That is what is hard about this code, and what the model
is about.

## 1. Inventory

| Component | State it keeps | Operations | What is hard | What makes it correct |
|---|---|---|---|---|
| Lane controller (`controller.py`) | `controller.status.json`, events log, `lane.json` (lifecycle, process, session), one provider tree | start, take the lane over, acquire leases, spawn and record the provider, stream, clean up, correct, release, wait for the decision | a crash between any two writes; evidence left by an earlier attempt; corrections must end | leases are kept while a provider may run; status is about the lane's own run; supervision ends |
| Leases (`leases.py`) | one file per resource below one lock | acquire all or none, release by lane and run, release by lane, force-release | files are written one at a time; a holder that is dead is not a resource that is free | one user per resource; no release under a running provider |
| `lane launch`, `force-stop`, `retire` (`launch.py`) | `lane.json`, active-lanes, the processes | spawn and record the controller, handshake; kill, clean, release, retire | the command works on a record it read earlier; two commands, or a command and a starting controller, interleave | retired is final; one controller per lane |
| `resume-lane` (`resume.py`) | the new run id, `invocation.json`, a new inbox, removal of the prior run's files | check, mark, clear, write, replace | check, unlock, act; death half-way | nothing of the prior run is read as the new run's |
| `harness shutdown` (`shutdown.py`) | `RUNTIME_STATE.json`, the epoch marker | lane loop, release, retire, close, stop the monitor | ends at the first lane it cannot judge; reads the obligations before it stops launches | closes only when everything is proven; closes eventually |
| Process identity and containment (`processes.py`, `process_identity.py`) | the retained identities of a provider tree | observe, kill, prove absence, again from the record | PID reuse; descendants that leave the session or are forked late; containment differs by platform | nobody else is killed; a proof of absence means what it says |
| `completion-review` (`review.py`) | review record, acceptance record, the lane | publish the pair, recover a half-published pair, close the event | two files, one decision | never half a decision |
| Epochs, `lane bootstrap` (`epochs.py`, `bootstrap.py`) | epoch state, `CURRENT_EPOCH`, active-lanes, worktrees and branches | open, publish a lane, close, roll back | crash while opening; two bootstraps; a rollback beside another attempt | a published lane has its worktree; rollback is reported honestly; a marker has its queue |
| Manager queue (`manager_queue.py`, `events.py`) | event queue, delivery receipts | promote, acknowledge, close, record a delivery, replace with the epoch | repeats, processes of one session that race | no obligation is lost, admitted or reported twice |
| Record store (`records.py`, `stable_io.py`) | locks, temporary files | locked read-modify-write, atomic replace, append under a path-keyed lock | a lock object that is dropped and made again | appends exclude each other |
| Identity-bound mutation (`mutation.py`) | handles | replace, delete, rename, remove a tree, append | other programs change the directory between proof and use | only what was authorized is changed |
| Monitor, scan, watch (`monitor.py`, `scan_watch.py`) | reported-condition fingerprints, heartbeat | pass over the lanes, outbox, reports, repair of active-lanes | conditions that go and come back between two passes; two monitors; none | a condition that lasts, and a worker's notice, is reported |
| Setup (`setup.py`) | active cache with its transaction record, ROOT's payloads, the monitor's record | preflight, install, recover, bind, start the monitor | crash in the middle, also of the recovery; files shared with the user | install or nothing; user content stays; a re-run repairs |
| Hooks and worker inbox (`root_hook_*.py`, `lane-queue.py`, `manager-notify.py`) | inbox, outbox | send, advance, refuse to stop, notify, alarm | a run that changes under the sender | an assignment stays with its run |
| Watcher (`harness_watcher_implementation/`) | `service.json`, claim, cursor | start, stop, serve, poll, evaluate | restarts between cursor and evaluation; recovery that meets maturity | one service; nothing evaluated twice; no recovered state is released |
| Attention sprint (`attention.py`) | cursor, timeline, error file | ingest | torn appends, replay, rotation, truncation | no record is lost without a trace or taken twice |
| Command line, adapters, configuration, task cards, release checks, activity log | – | parsing and formatting | – | pure input/output: not modelled |

How they interact: commands create controllers and monitors (child processes) and stop them by
recorded identity; everything else goes through files.  The lane record is written
by `launch`, the controller, `force-stop`, `retire`, `resume-lane` and
`shutdown`; the status by the controller only, but read by all of them (most compare
the run id, `shutdown.py:84` does not); leases by the controller and by every command
that ends a lane; the review pair by `completion-review` and removed by
`resume-lane` and the monitor; active-lanes by `bootstrap`, `launch`, `shutdown` and the monitor; the inbox by
ROOT's sender, the worker and `resume-lane`; the manager queue by the monitor, ROOT's commands and
whoever opens an epoch.

## 2. Modules

| Module | Models |
|---|---|
| `LaneState` | the records of a lane, the processes, the lease operations, `Init` |
| `Controller` | `run_controller` and `_run_provider`: one action per durable write, lease operation or process effect, in program order |
| `LaneCommands` | `launch`, `force-stop`, `retire`, `resume-lane`, `shutdown`, `lease force-release`, the published effect of `completion-review`, the death of a command |
| `LaneRun`, `MCLaneRun` | their composition, crashes, fairness, the properties and the inductive invariant; the instances |
| `LaneRun_proofs` | type correctness, and all safety properties of the lanes |
| `ManagerQueue` | the manager queue of one epoch: `promote_event` with its deduplication key, `acknowledge_event`, `close_event` |
| `ReviewLoop`, `ReviewLoop_proofs` | the monitor's pass over a lane, `completion-review`, ROOT's manager commands and `resume-lane`, over the queue, the review pair and the lane record |
| `AtomicCache` | what the installation of the active cache promises: one whole tree is replaced by another, or nothing happens |
| `CacheInstall` | `_install_active_cache` and its recovery, one action per effect on the disk |
| `RootPayloads` | preflight, copying, merging and binding of the files in ROOT's workspace |
| `Setup`, `MCSetup`, `Setup_proofs` | `run_setup`: the composition of the two, with deaths, power loss, user edits and a change of release; the refinement of `AtomicCache` |
| `Runtime`, `MCRuntime`, `Runtime_proofs` | epochs, `lane bootstrap` with rollback, active-lanes, the monitor's repair of it, `shutdown` and the reopening by `setup` |
| `Inbox` | the worker's inbox: `send-lane-notification`, `lane-queue.py`, the Stop hook and `resume-lane` |
| `Escalation`, `Escalation_proofs` | the outbox, the monitor's promotion, `watch` and the hook, and the start, recovery, hanging and stop of monitors; the proofs module also has the theorem about `Inbox` |
| `AttentionIngest`, `MCAttentionIngest` | `ingest_attention` with its source, cursor, timeline and error file |
| `Watcher`, `Watcher_proofs` | start, stop and serve of the watcher, and its poll with cursor, quarantine and evaluation; the proofs module also has the theorems about `AttentionIngest` |
| `AppendLock` | `PathKeyedAppendLock` and its registry; mutual exclusion (proved in `Mutation_proofs`) |
| `Mutation`, `MCMutation`, `Mutation_proofs` | the operations of `mutation.py` as `PreparedOutputTransaction` calls them, composed with `AppendLock`, beside other programs |
| `ProcessBoundary`, `ProcessBoundary_proofs` | observation, retention, cleanup and the proof of absence of a provider tree |

`Inbox` and `AttentionIngest` name their initial states, steps and specification apart
(`InboxSpec`, `IngestSpec`): `Escalation_proofs` and `Watcher_proofs` each extend two components.

**State of the lane model.**  `lane`, `status`, `invocation`, `lease`, `result`, `chain` (the
review/acceptance pair), `failEvent` (what `launch` looks up in the events log),
`runtime` and `epochOpen` are files.  `ctl` and `prov` are controller processes and
the provider tree each one started; `cmd` is a command process with the records it
read when it started.  Run ids are numbers in the order they are issued
(`issued`); `new_id` never repeats one.  A process identity (PID plus creation time)
is one element of `Controllers` and is used once, which is what
`process_identity.py` establishes.

**Granularity.**  A record is replaced atomically under its lock, so one write of one
record is one step, in every module.  A read-modify-write that the code performs under one lock
(`update_lane`, `_write_status`, the lease operations) is one step as well.
Everything else interleaves: a check and the write it justifies are separate steps
when the code drops the lock in between (`resume.py`, `retire`, `shutdown`, active-lanes in `bootstrap`
and `launch`).  Files that the code writes in place (`copy2` in `setup.py`, appends of
`attention.py`, `mutation.py`) have a state in between.

**A provider tree** in the lane model is `running`, `helpers` (the root process ended, descendants are
left) or `gone`.  `KillOnClose` is the platform: on Windows a job object kills the
tree with its controller, on POSIX the tree is a process group that survives.  Cleanup
either proves the tree gone or fails.  `ProcessBoundary` shows how good that
abstraction is: exact for jobs; on POSIX a descendant forked after the last snapshot, or
one that left the session and lost its parent, can survive a proof (see section 4).

**Operator discipline.**  The code does not serialise commands: nothing stops an
operator from launching a lane twice or from running two commands on a lane at once.
Two constants say whether that happens.  `Relaunch = FALSE` means that a lane
is not launched while one of its controllers is live, `Overlap = FALSE` that two
commands do not work on one lane at the same time (which includes the case of a launch that dies between
creating its child and recording it, because the child then goes on where the command stopped).
The runs and the theorems about lanes, other than type correctness, assume both.  `Runtime` has `Overlapping` for the same purpose: when it is `FALSE` bootstraps overlap
the monitor, and each other for different lanes of an open epoch, but not a bootstrap of the same lane, one that opens an epoch, or a shutdown.

**The review loop.**  `ReviewLoop` looks at the other side of a lane's end: how it
reaches ROOT and how ROOT's decision comes back.  The monitor's pass (`mon`), one
`completion-review` (`rev`) and one `resume-lane` (`res`) are processes with a
position and the copy of the records they read; `events` is the queue, `review` and
`accept` the two records of the pair, `lane`, `status` and `result` the files of
`LaneRun` cut down to what these parts read.  An event is identified by what it is about,
its key and, without a key, its number; `COMPLETE` and `BLOCKED` are one state,
because nothing here tells them apart.  A record of the pair is its run and the
finding or decision in it: a retry with the same text is the same record, any other a conflict.
The controller is reduced to its writes of status and lane record, one per
run; a second launch of one run, leases and the outbox are not in this module.
`Failures = TRUE` lets the monitor's recovery raise at any point (a lock not granted, an unreadable
record), which the code turns into a diagnostic before it goes on.  Two more constants limit
which processes overlap: `LateReview` (a review with a resume) and
`LatePass` (a monitor's pass with a resume or a force-stop).  The code excludes neither.

**Setup.**  A cache tree is a function from paths to the version of the bytes; `Torn` and
`Edited` are bytes of no release.  `rmtree` and `copy2` take a step per file, and
any effect may raise `OSError`, after which control goes to the `except` clause around it
(`AfterError`).  `PowerLoss` is the machine stopping after the rename of the stage reached the disk and the bytes of a
file, which `copy2` does not flush, did not.  A ROOT payload is reduced to whether it is
whole, whether the harness's part is in it, and whether there is anything of the user's.

**Runtime.**  A bootstrap, the monitor and a shutdown are processes with a position and what they
read; worktree and branch carry the bootstrap that made them, and `made` what an attempt has made and
not removed.  A lane is `prepared` until its processes are proven gone: what
happens in between is `LaneRun`'s subject.

**Inbox and Escalation.**  The record locks are held from read to write, so that only the writer
that takes no lock (`resume.py:149`) interleaves.  In `Escalation` a monitor
process is a position and the notice it is archiving; the heartbeat is `fresh` or not; a hung
monitor is one that takes no step.

**AttentionIngest and Watcher.**  A source line is two cells, so that a read or an append can end inside it.
In `Watcher` a record is its place and what the poll looks at (the watcher's own, a stale
state, a recovery, other work); all stale and recovery records are about one identity.
The evaluator is external: it gives a verdict, or fails, which ends the service.  `Patient = TRUE` is about the operator of
the service commands, who runs one at a time and starts a service again only when the one that was asked to stop has ended.
`Readable = TRUE` says that no source raises an `OSError` at a poll.

**Mutation.**  A place is a directory and a name; an entry has a kind, an identity and
bytes.  Other programs may do to a place whatever the sharing mode of the open handles
allows (`Pinned`).  Everything here is the Windows branch: elsewhere the
operations raise `MutationUnsupported`.

**ProcessBoundary.**  A snapshot is one step and each query of a live identity another, made later.
Reading the creation time of a PID and signalling it is one step, and so are the queries of a child and its parent.
A session and a process group with the root's number are one thing.  Every answer the system may refuse is one
outcome, an observation with errors.  The identities known after an unproven cleanup are recorded by a step of their own (`SaveUnproven`), before which the controller may die.  Force-stop works from the recorded identities after the controller died.

## 3. Runs

All of them pass; the state counts are TLC's distinct states.

| Run | Instance | What it shows |
|---|---|---|
| `lanes` | two lanes that declare one resource, two controllers, one command, two runs, no correction, job objects (2.4 million states) | `SupervisedLeasesHeld`, `ExclusiveUse`, `OneWorkerPerLane`: through crashes, partial acquisition, force-stop, retire, resume, force-release and shutdown no lease is lost under a supervising controller and two providers never use the resource, or a lane, together; `ReleasesWhenGone`; `RetiredIsFinal`; `StatusOfCurrentRun`, so that the read in `shutdown.py` that does not compare run ids is harmless |
| `lane_liveness` | one lane, one controller, two runs, one correction, process groups, `FairSpec` (24 thousand) | `TypeOK`, which is also a theorem; `SupervisionEnds`; `ShutdownSettles`: a shutdown retried with force-stop closes the runtime unless a lane is left that no command can judge |
| `review_once` | one run of a lane, all three decisions, any overlap, failures and deaths, `FairSpec` | `OneDecision`, through interrupted and contradicting reviews; `AcceptanceKept`; `ReviewRequested`: valid work gets its request again when that was lost or closed by hand |
| `review_resume` | two runs, rejection, a review that overlaps a resume | `OneOpenReview`; `ReportedIsQueued`: the mark that suppresses a report always has its event; `ClosedWithPair` |
| `setup` | two releases, the second with one more file; one payload of each kind; four caches to begin with (517 thousand) | `CrashSafe`: after any effect, the prior or the target cache is whole and the next run will recover; `InstallsAtomically`: installation implements `AtomicCache`; `ResultHonest`; `UserContentKept`; `RerunRepairs` |
| `runtime` | two bootstrap callers of one lane one after the other, two epochs, deaths anywhere (86 thousand) | `EffectsHonest`: a rollback reported as proven left nothing; `PublishedHasTree`; `QueueOfMarkedEpoch`; `Reconciled`: a lane lost from active-lanes by an unlocked rewrite comes back |
| `inbox` | two assignments, three runs (2,577) | `OwnAssignments`, although the sender decided by an earlier read and resume takes no lock |
| `escalation` | one notice, two monitors, two watch processes of a session (366 thousand) | `NoticesOnce`: archived only with its event, admitted once, reported once per session; `NoticeHandled` |
| `attention_ingest` | three records, two of them with one id; sources of four cells, two faults (328 thousand) | `OnceInTimeline`, `NoSilentLoss`, `TakenUp` |
| `watcher` | one source of two records over two files, two services (209 thousand) | `OneService`, `EvaluatedOnce`, `ClearedNotReleased`, `MaturesAlone` |
| `mutation` | two threads of one process, of which one mutates; two roots, one subdirectory; three operations, two steps of others (1.8 million) | `AuthorizedOnly`, `NothingOrphaned`, `AppendsKept`, `MutualExclusion` |
| `boundary` | three PIDs, four processes ever, both kinds of boundary (5.5 million) | `KillsOnlyOurs`, `ProvenMeansGone` |

The other modules have a type invariant too (`TypeOK`, `InboxTypeOK`, `IngestTypeOK`).  It holds on the instances above, and is left out of the routine
runs, which spend their time on the properties that relate several records.

**The refinement.**  `Setup` implements `AtomicCache` under the mapping of `CacheInstall!Atomic`: while a
transaction record is there the abstract cache is the recorded previous tree and the target is pending; without one it is
the live tree.  So a reader who respects the transaction record never sees a mixture,
whatever combination of deaths, errors, recoveries and releases came before.

**Bounds.**  `MaxRun`: run ids per lane; two give one resume, hence one superseded run whose
records can be mistaken; three in `Inbox`, so that a sender can be two runs late.  `MaxCorrections`: 5 in the code; one gives a second attempt
whose predecessor left a boundary behind, none or one is all the control flow tells apart.
`Controllers`: the processes that may ever be created; two let a controller meet the
remains of a dead one, or a rival.  One command is enough when commands on one lane do
not overlap, since each may die and be followed by any other.  Lanes
and controllers are interchangeable, which is the symmetry `lanes` uses; the
liveness runs use none.  In the review loop `MaxLost` limits how
often ROOT closes a renewed request by hand, each time in the same state of everything
else; `Handled` is what ROOT closes by hand (review requests; other events have no
reader whose behaviour depends on their state, except `provider_exited_no_result`, which counts
as an open request and is left open).  `Setup` needs none: runs, faults and changes of release
repeat without limit.  `MaxEpochs` two: one epoch to be closed, or abandoned while it opens, and its successor; the instance with two lanes
and one epoch (196 thousand states) was checked as well.  `Notices` one: notices meet only in the loop over the outbox;
two monitors and two watchers are needed for a race.  `MaxCells`, `Chunk` and `MaxCarry` of `AttentionIngest` are
two lines, one and a half lines, and one line: a read ends inside a line, a line can be too long, and a file can
be exchanged for one as long.  `MaxWrites`, `MaxFiles`, `Limit` and `MaxStarts` of `Watcher` are two each: a rotation, a
read that does not reach the end, a service after another.  One source is enough for `EvaluatedOnce`, whose records and offsets
are each of one source, and necessary for `ClearedNotReleased` (section 4); the same run with `Sources = {1, 2}` and one file (20 million states) was checked
for the first two properties and their invariants.  `MaxOps` and `MaxOthers` of `Mutation` let an operation be followed by
one on what it left, with a program that exchanges a file and puts another back in between.  `MaxBirths` four with three
PIDs: a root, a child, a grandchild and a stranger that gets a freed PID.

`CHECK_DEADLOCK FALSE` in the runs where everything may come to rest: a closed runtime, a retired lane, all
operations done, a worker that has nothing to do.  `setup`, `runtime` and `boundary` are checked for deadlock.

**Fairness.**  `ControllerFairness`: a controller process is scheduled, and a provider
eventually ends (a worker that hangs for ever is the operator's to force-stop; a
controller does not time it out).  `OperatorFairness`: a command that runs gets on;
shutdown and force-stop are retried whenever they can be started, which is what the
error text of `shutdown.py:309` asks the operator to do; and from some time on no
command is killed half-way.  `ReviewLoop!FairSpec`: the monitor runs pass after pass (`main` loops until it is told to stop
and a dead monitor is restarted, `setup.py:1430`), and from some time on no pass fails; nothing is
assumed of ROOT.  `Setup`: a run gets on and the operator runs setup with `--overwrite` again and again.
`Runtime`: a monitor goes on with its passes, one that is down is started again by setup, a command
that has begun goes on.  `Escalation`: a pass goes through the whole outbox (strong
fairness of `Promote` for each notice stands for the loop over all files), a heartbeat nobody renews grows old, ROOT uses its tools (which runs the hook) and does
what the hook says.  `AttentionIngest`: the service goes on polling.  `Watcher`: a service sleeps and polls until it is stopped.
Crashes are never fair; where a property needs them to end, it says so itself
(`<>[][~Fault]_vars => ...`).

## 4. What the restrictions leave out

The code has the following weaknesses, each found by TLC with a constant set free, or while modelling; the properties
above are stated so that they do not claim the contrary.

Lanes:
* POSIX: the provider exists before its boundary is durable (`controller.py:457`).  After a crash, or an exception, in between,
  cleanup judges by an absent or an earlier boundary and releases the lease under the running provider (`ReleasesWhenGone` with
  `KillOnClose = FALSE`), although `final_v2-harness_overview.md:18-19` promises otherwise.  For the same reason `ExclusiveUse` holds on POSIX only for
  single attempts; with job objects and one correction it holds (5.9 million states).
* POSIX: `lease force-release` accepts a dead controller as proof (`leases.py:201`); its provider may live on.
* POSIX: after a controller died the lane is still `running`, so it can be launched again beside the old provider (`launch.py:221`, `OneWorkerPerLane`).
* `Relaunch = TRUE`, `SupervisedLeasesHeld`: a second launch of a running lane writes over the first controller's records, after which force-stop
  releases leases the live controller holds; `QUICK_RULES.md:7` and `:43-44` leave it to ROOT not to do that.
* `Overlap = TRUE`, `RetiredIsFinal`: a launch that overlaps a force-stop writes the
  retired lane back to `running` (`launch.py:266`, `controller.py:675`).
* `ShutdownSettles` exempts a lane whose controller died before a boundary was in the status: neither shutdown
  nor force-stop can ever judge it, although the error text says force-stop and retry (`shutdown.py:288`, `309`).
* The audit of a force-release whose terminal record cannot be written (`leases.py:270`) is not modelled.

Review:
* Between the write of the provider's exit and the judgement of its result the monitor reports a run without a result
  (`monitor.py:457`); that open event then takes the place of the review request.
* `LatePass = TRUE`, `MaxRun = 2`, `AcceptanceKept`: a monitor's pass that read the lane before a resume
  judges the next run's accepted pair by the old run id and removes it (`monitor.py:249`); `ReportedIsQueued`: the mark of a report
  about the old run lands on the resumed lane (`monitor.py:723`); and the repair of a broken pair writes `review_pending`
  over a lane that force-stop retired meanwhile (`monitor.py:257`).
* `LateReview = TRUE`, `MaxRun = 2`, with acceptance, `AcceptanceKept`: `resume-lane` looks for an acceptance once; a
  review under way publishes one afterwards and resume clears it (`resume.py:199`, `293`).
* `Failures = TRUE`, `OneOpenReview`: when the lane record cannot be updated after a request was
  restored, the pass goes on with its stale copy and admits a second request (`monitor.py:683`).

Runtime:
* `Overlapping = TRUE`, `QueueOfMarkedEpoch`: two bootstraps that both open an epoch stage their queues in either order (`epochs.py:97`), so
  that the marker of one meets the queue of the other; `PublishedHasTree`: a bootstrap whose `git worktree add`
  is refused because a second one of the same lane has just succeeded rolls back the second one's worktree and branch (`bootstrap.py:779`).
* The obligations are looked up before the runtime leaves OPEN (`shutdown.py:248`, `273`): an event promoted in between is discarded with the queue.

Setup:
* Two setups at once are not excluded by a lock (`setup.py:765`), and a shared hook file that the user saves between the read and the
  write of the merge (`setup.py:1230`) is overwritten; setups and edits do not overlap in the model.
* Power loss after the backup was removed, with staged bytes never flushed, leaves a cache of which no whole copy exists; `PowerLoss` is
  limited to the time before.
* A ROOT payload collision ends a run in its preflight, so that it also blocks the recovery of an open cache transaction; `RerunRepairs` exempts it (`Blocked`).
* Bootstrap validates the cache and copies it afterwards (`bootstrap.py:751`, `868`).

Attention and watcher:
* Two polls at once are not excluded (`attention.py:2321`); a source that was cut and has grown again past the cursor is not recognised (`intact`).
* A start that dies between claim and spawn leaves a claim that blocks every later start (`__main__.py:225`); a stop may
  write its copy over a newer `service.json` (`__main__.py:206-213`), and a start is accepted while the service that was asked to stop has not
  ended: with `Patient = FALSE` two services run side by side and evaluate the same text (`OneService`, `EvaluatedOnce`); a second stale episode of the same
  identity is hidden while the first is on record (`poller.py:279-314`).
* `Readable = FALSE`, `EvaluatedOnce`: a source that could not be read at a poll loses its place in the cursor (`poller.py:111`, `521`), and the next poll
  shows its tail again as new.
* `Sources = {1, 2}`, `ClearedNotReleased`: a source that has not changed is judged once more by its last text (`poller.py:64-112`, `279-314`).  When that text holds the stale
  record and the recovery was read in another source, the identity is quarantined again after the recovery and, an interval later, released to the
  evaluator as an unresolved state, against the rule in `evaluator.py:29-32`.

Files and processes:
* `rename` passes `_MOVEFILE_FAIL_IF_EXISTS = 0x1` (`mutation.py:523`, `1143`), which is the value of `MOVEFILE_REPLACE_EXISTING`: a file that
  appears at the target after it was proven absent is replaced, although the error text speaks of a "no-replace rename" (`mutation.py:1147`).
  `AuthorizedOnly` therefore binds replace, delete and remove_tree to the authorized state, and rename only to the anchored directory.
* A replacement in place is torn when the process dies in it (`mutation.py:847`).
* POSIX: `ProvenMeansGone` exempts a descendant that was forked after the last snapshot, or left the session and has no identified parent.
* Jobs: the members are listed first and queried afterwards (`processes.py:1203`), so that the stranger that got a PID in between is retained, and
  force-stop would kill it; `KillsOnlyOurs` is about process groups.
* The creation time is compared and the signal sent afterwards (`processes.py:131`): a window that the model closes.
* The heartbeat of a monitor is renewed without a look at whose record it is (`monitor.py:762`).

## 5. Proofs

Every theorem holds for all values of the constants that satisfy the named assumptions of the modules; none uses fairness.
A theorem that needs a restriction on how operators or processes overlap states it as a hypothesis, and section 4 lists the behaviour of the code
that makes it necessary.

| Module | Theorems | Hypotheses |
|---|---|---|
| `LaneRun_proofs` | `TypeCorrect` | – |
| | `LeasesHeld` (`SupervisedLeasesHeld`), `StatusIsCurrent` (`StatusOfCurrentRun`), `RetiredStays` (`RetiredIsFinal`) | `~Relaunch`, `~Overlap` |
| | `ResourcesExclusive` (`ExclusiveUse`), `OneWorker` (`OneWorkerPerLane`), `ReleasedWhenGone` (`ReleasesWhenGone`) | these and `KillOnClose` |
| `ProcessBoundary_proofs` | `BoundaryTypeCorrect`, `OnlyOursAreKilled` (`KillsOnlyOurs`), `ProofsMeanGone` (`ProvenMeansGone`) | – |
| `ReviewLoop_proofs` | `ReviewTypeCorrect`, `DecisionsAgree` (`OneDecision`) | – |
| | `ClosedForDecision` (`ClosedWithPair`), `MarksAreQueued` (`ReportedIsQueued`) | `MaxRun = 1` or `~LatePass` |
| | `AskedOnce` (`OneOpenReview`) | the same and `~Failures` |
| | `AcceptanceIsKept` (`AcceptanceKept`) | `MaxRun = 1` or neither `LateReview` nor `LatePass` |
| `Setup_proofs` | `SetupTypeCorrect`, `AlwaysRecoverable` (`CrashSafe`), `HonestResult`, `UsersContentKept`, `SetupImplementsAtomic` (`InstallsAtomically`) | – |
| `Runtime_proofs` | `RuntimeTypeCorrect`, `FailuresReportTruly` (`EffectsHonest`) | – |
| | `QueueOfCurrentEpoch` (`QueueOfMarkedEpoch`), `PublishedLanesHaveTrees` (`PublishedHasTree`) | `~Overlapping` |
| `Escalation_proofs` | `EscalationTypeCorrect`, `NoticesAreOnce`, `OwnAssignmentsOnly` (of `Inbox`) | – |
| `Watcher_proofs` | `WatcherTypeCorrect` | – |
| | `OneServiceHolds` (`OneService`) | `Patient` |
| | `EvaluatedOnceHolds` (`EvaluatedOnce`) | `Patient` and `Readable` |
| | `ClearedNotReleasedHolds` (`ClearedNotReleased`) | `Sources = {1}` |
| | `OnceInTimelineHolds` (`OnceInTimeline`, with `IngestTypeOK`), `NoSilentLossHolds` (`NoSilentLoss`), both of `AttentionIngest` | – |
| `Mutation_proofs` | `AppendsExclude`, `RegistryStaysBounded`, `UsesLock`, `LockedAppends`, `MutationTypeCorrect`, `NothingIsOrphaned`, `AppendsAreKept`, `ChangesAreAuthorized` (`AuthorizedOnly`) | – |

**Lanes.**  Type correctness has one lemma per action.  `SupervisedLeasesHeld` is not inductive: a lease
can be taken from a supervising controller by a release on behalf of *another*
controller or command of the same lane, since leases are released by lane (and run).
`SupervisionInv` adds what excludes that:

* `Known`: controllers and commands at work name a lane;
* `UniqueSupervisor`: a lane has at most one live controller;
* `RecordedProcess`: the lane record names the live controller, except
  between its creation and the write of the launch that created it;
* `SerialCommands`: commands at work are on different lanes, and a shutdown is alone;
* `CommandView`: what a command has established about the controllers of its lane, by
  position.  A command that is about to release, retire or replace has excluded every
  live controller; a launch before its write knows its own child only.

The actions of commands on the lane rely on
`CommandView` to see that no live controller is touched; the controller's own release
relies on `UniqueSupervisor` and on the lane of the lease holder; `OwnLane` and
`RecordController` re-establish `RecordedProcess`.  Three more invariants rest on it.  `RunInv`: a live controller is of the lane's run, and the
status file is gone before a resume writes the next run.  `RetiredInv`: nothing that could write its lifecycle is at work in a
retired lane.  `ProviderInv`: a provider that may still be there has its controller at one of
the positions where it is still to be cleaned up (`ProviderAt`), the status names it where an exception would judge by the status (`BoundaryKnown`), and all its
resources are leased to that controller (`ProviderHolds`), also where the controller has given up and no longer supervises.

**Boundaries.**  A PID comes back, an identity does not (`NoReturn`): from this one fact about the system follows what a snapshot is worth when the live
identities are queried later.  `TreeOk` says of the processes that a child of one that may be killed may be killed too; `SnapOk` carries it over to the
snapshot, `CapOk` and `OwnedOk` to what is captured, retained and recorded, hence `KillsOnlyOurs`.  For `ProvenMeansGone`, `SeenOk` follows an attributable
process that still runs through the observation: it is yet to be examined, captured, or at the end retained, so that `_remaining` finds it;
`KnownOk` is what makes a retained PID in a new snapshot the same process, and `JobOk` and `HandleOk` are the case of the job.

**Review.**  `OneDecision` is inductive.  The others start from `OwnCopies` (what each process has read is about the lane's current run) and
`ResultInv` (a lane waits for a review only with the result of its current run).  `RequestInv` is the longest: where each position of the monitor's pass leaves
the two places that may admit a request, and which mark keeps the second one from doing so.

**Setup.**  `CacheInv` describes the disk by the transaction record: without one, a whole tree and no remains; with one, the places in which the prior and
the new tree can be at each position of the installation, the undo and the recovery.  The refinement follows step by step: only the write
and the removal of the record change the abstract cache.  `PayloadInv` keeps what preflight accepted acceptable until its turn, and says in what form each
payload is that a run has done.  `BeforeAssumption`: a cache to begin with is not torn.

**Runtime.**  `EffectsKnown` follows what an attempt has made and not removed; it needs no restriction on overlap.  `QueueInv`: an attempt that opens an epoch is
alone and puts the queue in place before it marks it.  `TreeInv`: worktree and branch of a published lane are those of the attempt that
published it, and an attempt that undoes works on its own.

**Inbox and Escalation.**  `CopiesOwn`: the copy of the inbox that a sender or a worker has read and is about to write back holds assignments of its own run only, and the sender's is of the
run it sends to.  `NoticeInv`: a monitor that is about to archive has found or made the event, and an event not delivered has not been reported.

**Watcher.**  `ServiceInv`: a service that lives is the one that `service.json` names, and has written itself into it or the claim of its start is still there; one that
writes its terminal record has a copy with its own token; a start and a stop do not run together.  `ShownInv` relates what was shown to the cursor: neither the cursor on disk nor one
that a poll is about to save lies before anything that was shown, and what a poll is about to show lies beyond it; since the cursor is saved first, a
death between the two loses a verdict and repeats none.  `HeldInv`: while the identity is newly quarantined, or the saved text has a stale record and no recovery after it, no
recovery was the last thing read, so that judging the old text again does not bring back what was lifted.

**Attention.**  `Once`: the timeline, and during the append the timeline with what is about to follow, holds each record_id once; an append that breaks off or joins a torn line
leaves records of these two only, each at a place of its own (`Rewritten`).  `Accounted` says the same thing of three places, the cursor on disk, the stat of a poll
that is about to read and the cursor it is about to write: as long as the source only grew, the place is in it, the carry is the partial line before it (`Rest`), and of every record
before it the files tell, or the poll still has it in hand (`Pending`).  A carry that was too long and is dropped leaves `Rest` true, because what follows cannot be read as a record.

**Recursion over data.**  What `Judged` and `Eaten` compute is defined by recursion on the length of a sequence.  The induction theorems of the library cannot be
used, but a set of naturals that is not empty has a least element (`Least`, from the well-foundedness of `<`): the least number of cells or records after which a
statement fails cannot be 0 and cannot follow one after which it holds (`UpToN`).

**Files.**  `AppendLock`: the kernel lock keeps processes apart; inside a process the argument is about the *entry*: it is dropped with its last user and made again, so
`MutualExclusion` alone says nothing of two threads with different entries.  `LockInv` adds `Entered` (a thread that has registered
has the entry that is in its process's registry), `OwnEntries` (no two processes share an entry), `CountExact` (`users` is the
number of threads that have registered and not unregistered, so that an entry in use is never
dropped) and `Owning` (who is past the local lock owns it, who is inside has the kernel lock).  Every step of `Mutation` is a step of `AppendLock` or leaves
the lock alone (`UsesLock`), so that the composed system has the lock's properties (`LockedAppends`).  Of the operations, `OpInv` relates position and
arguments, `HandleInv` says what an open handle pins, and that two threads do not hold one place, `TempInv` that a temporary has
an identity of its own, `TreeInv` that identities are unique and nothing lies in a directory that is gone, `LogInv` that a thread that has sought is still at the end.
`StartsAssumption` and `DirsAssumption` are about the trees to begin with: unique identities, subdirectories with files only.

All safety properties that a run checks are theorems.  Only model-checked are the liveness properties, which the proof system does not handle: `ShutdownSettles`,
`SupervisionEnds`, `ReviewRequested`, `RerunRepairs`, `Reconciled`, `NoticeHandled`, `TakenUp`, `MaturesAlone`.

## 6. Not modelled, and the plan

Left out on purpose: prompts, transcripts, wording of events, argument vectors, provider adapters,
configuration and task-card parsing, the activity log, the rendering of `scan`, alert storage, the statistics computed from
the attention timeline, release checks: formatting, parsing, or pure functions of files.
The life of `attempt` records and transcripts is diagnostic: no decision reads them.  Of the file layer,
`make_temporary_directory`, `safe_relative_path`, the stable readers and the internals of `RecordLock` (one atomic step everywhere) are not modelled.

Next, in this order:

1. `Watcher` with `AttentionIngest` (one poll runs both), and `ClearedNotReleased` for several sources once old text is not judged again.
2. `completion-review` and the monitor against `LaneRun`: `ReviewLoop` shown to implement the
   single step `CompletionReview` of the lane model.
3. `Setup` with `Runtime` (a bootstrap that copies the cache while setup replaces it), and `Runtime` with `LaneRun`.
4. `RecordLock` with temporary file and replace, as the refinement of an atomic register.

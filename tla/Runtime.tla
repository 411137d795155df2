------------------------------ MODULE Runtime ------------------------------
(***************************************************************************)
(* The runtime root as the operator's commands and the monitor share it:    *)
(* RUNTIME_STATE.json (rstate), CURRENT_EPOCH.json (marker), the epochs'    *)
(* states, lane records and active-lanes lists, the manager queue, and the  *)
(* git worktrees and branches of the lanes.  `lane bootstrap` opens an      *)
(* epoch and publishes a lane in it, `harness shutdown` retires lanes and   *)
(* closes the epoch, `harness setup` opens the runtime again, and the       *)
(* monitor rebuilds active-lanes and promotes the workers' notices, all in  *)
(* processes of their own.  Each record is replaced atomically and most are *)
(* read and written without a lock over both: those are separate steps.     *)
(* What a launched lane does is LaneRun's subject; here a lane record is    *)
(* "prepared" until its processes are proven gone ("clean").                *)
(***************************************************************************)
EXTENDS Naturals, FiniteSets

CONSTANTS Boots,      \* callers of lane bootstrap
          Lanes,
          LaneOf,     \* the lane id each caller asks for
          MaxEpochs,  \* bound: epochs that are opened
          Overlapping \* may operator commands run at the same time as others

ASSUME BootsAssumption == LaneOf \in [Boots -> Lanes] /\ Overlapping \in BOOLEAN
ASSUME BoundsAssumption == MaxEpochs \in Nat \ {0}

Epochs == 1 .. MaxEpochs
None == "none"

ASSUME NoneAssumption == None \notin Boots

VARIABLES rstate,
          marker,     \* the epoch CURRENT_EPOCH.json names, 0 when there is no file
          estate,     \* epoch-state.json
          queue,      \* manager/QUEUE.json: the epoch in its header and its events
          lane,       \* lane.json of each epoch and lane
          active,     \* active-lanes.json
          tree, branch,   \* who made the worktree, the branch
          notice,     \* a lane's notification: in its outbox or not
          boot, mon, sd   \* bootstrap callers, the monitor, the shutdown

records == <<rstate, marker, estate, queue, lane, active, tree, branch, notice>>
vars == <<records, boot, mon, sd>>

BootPcs == {"idle", "open", "stage", "opening", "mark", "activate", "list", "check", "exists",
            "add", "undo", "material", "publish", "read_active", "write_active"}
\* fresh: the branch was absent before the attempt; made: what the attempt made and
\* has not removed, which an attempt that failed keeps if it reported rollback_proven.
BootRecord == [pc : BootPcs, ep : 0 .. MaxEpochs, fresh : BOOLEAN,
               made : SUBSET {"tree", "branch", "lane"}, seen : SUBSET Lanes]
NewBoot == [pc |-> "idle", ep |-> 0, fresh |-> FALSE, made |-> {}, seen |-> {}]

MonRecord == [pc : {"off", "idle", "listed", "promote"}, ep : 0 .. MaxEpochs, list : SUBSET Lanes]
MonIdle == [pc |-> "idle", ep |-> 0, list |-> {}]

SdRecord == [pc : {"idle", "declare", "lanes", "each", "unlist", "close", "monitor", "finish"},
             ep : 0 .. MaxEpochs, todo : SUBSET Lanes, seen : SUBSET Lanes]
SdIdle == [pc |-> "idle", ep |-> 0, todo |-> {}, seen |-> {}]

\* UNRESOLVED stands for PENDING and ACKNOWLEDGED (ManagerQueue has both).
EventStates == {"none", "UNRESOLVED", "CLOSED"}
NoEvents == [l \in Lanes |-> "none"]
LaneRecord == [st : {"none", "prepared", "clean", "retired"}, by : Boots \cup {None}]
NoLane == [st |-> "none", by |-> None]

Init == /\ rstate = "OPEN" /\ marker = 0
        /\ estate = [e \in Epochs |-> "absent"]
        /\ queue = [epoch |-> 0, events |-> NoEvents]
        /\ lane = [e \in Epochs |-> [l \in Lanes |-> NoLane]]
        /\ active = [e \in Epochs |-> {}]
        /\ tree = [e \in Epochs |-> [l \in Lanes |-> None]]
        /\ branch = [l \in Lanes |-> None]
        /\ notice = [l \in Lanes |-> FALSE]
        /\ boot = [b \in Boots |-> NewBoot]
        /\ mon = MonIdle /\ sd = SdIdle

Running(b) == boot[b].pc # "idle"
Unresolved == \E l \in Lanes : queue.events[l] = "UNRESOLVED"
HeaderMatches == marker # 0 /\ queue.epoch = marker

-----------------------------------------------------------------------------
(* lane bootstrap.  At(b, p): b is at p; Go, Fail: it moves on, it gives up. *)

At(b, p) == boot[b].pc = p
Set(b, r) == boot' = [boot EXCEPT ![b] = r]
Go(b, p) == Set(b, [boot[b] EXCEPT !.pc = p])
Report(b, made, proven) ==
    Set(b, IF proven THEN [NewBoot EXCEPT !.made = made] ELSE NewBoot)
Fail(b, proven) == Report(b, boot[b].made, proven)
Mine(b) == LaneOf[b]

(* Commands that do not overlap: another bootstrap only for another lane of *)
(* an epoch that is open, and none beside a shutdown.                       *)
MayEnter(b) == Overlapping \/ /\ sd.pc = "idle"
                              /\ \A c \in Boots \ {b} : Running(c) =>
                                    /\ Mine(c) # Mine(b)
                                    /\ marker # 0 /\ boot[c].ep = marker

Enter(b) == /\ At(b, "idle") /\ MayEnter(b)
            /\ Set(b, [NewBoot EXCEPT !.pc = "open"])
            /\ UNCHANGED <<records, mon, sd>>

(* open_epoch: reuse the marked epoch if it is active, else open the next one. *)
OpenEpoch(b) ==
    /\ At(b, "open") /\ UNCHANGED <<records, mon, sd>>
    /\ \/ marker # 0 /\ estate[marker] = "active"
          /\ Set(b, [boot[b] EXCEPT !.pc = "check", !.ep = marker])
       \/ marker # 0 /\ estate[marker] # "active" /\ Fail(b, TRUE)
       \/ /\ marker = 0
          /\ \E e \in Epochs :
                /\ estate[e] = "absent" /\ \A c \in Boots : boot[c].ep # e
                /\ \A d \in 1 .. e - 1 : estate[d] # "absent" \/ \E c \in Boots : boot[c].ep = d
                /\ Set(b, [boot[b] EXCEPT !.pc = "stage", !.ep = e])

(* Mutant: a queue that is there already is kept for the new epoch. *)
KeepQueue(b) == /\ At(b, "stage")
                /\ Go(b, "opening")
                /\ UNCHANGED <<records, mon, sd>>

StageQueue(b) == /\ At(b, "stage")
                 /\ queue' = [epoch |-> boot[b].ep, events |-> NoEvents]
                 /\ Go(b, "opening")
                 /\ UNCHANGED <<rstate, marker, estate, lane, active, tree, branch, notice, mon, sd>>

SetEpoch(b, from, state, to) ==
    /\ At(b, from)
    /\ estate' = [estate EXCEPT ![boot[b].ep] = state]
    /\ Go(b, to)
    /\ UNCHANGED <<rstate, marker, queue, lane, active, tree, branch, notice, mon, sd>>

WriteOpening(b) == SetEpoch(b, "opening", "opening", "mark")
WriteMarker(b) == /\ At(b, "mark")
                  /\ marker' = boot[b].ep
                  /\ Go(b, "activate")
                  /\ UNCHANGED <<rstate, estate, queue, lane, active, tree, branch, notice, mon, sd>>
WriteActive(b) == SetEpoch(b, "activate", "active", "list")

WriteLanes(b, from, lanes, r) ==
    /\ At(b, from)
    /\ active' = [active EXCEPT ![boot[b].ep] = lanes]
    /\ Set(b, r)
    /\ UNCHANGED <<rstate, marker, estate, queue, lane, tree, branch, notice, mon, sd>>

EmptyList(b) == WriteLanes(b, "list", {}, [boot[b] EXCEPT !.pc = "check"])

(* The lane id is in use, the allowance is spent, the worktree exists, or not; *)
(* whether the branch exists is remembered for the rollback.                   *)
CheckLane(b) == /\ At(b, "check") /\ UNCHANGED <<records, mon, sd>>
                /\ \/ Mine(b) \in active[boot[b].ep] /\ Fail(b, TRUE)
                   \/ Mine(b) \notin active[boot[b].ep] /\ (Fail(b, TRUE) \/ Go(b, "exists"))

CheckTree(b) == /\ At(b, "exists") /\ UNCHANGED <<records, mon, sd>>
                /\ \/ tree[boot[b].ep][Mine(b)] # None /\ Fail(b, TRUE)
                   \/ tree[boot[b].ep][Mine(b)] = None
                      /\ Set(b, [boot[b] EXCEPT !.pc = "add", !.fresh = branch[Mine(b)] = None])

(* git worktree add -b: refuses an existing branch or path; may fail after it *)
(* made the branch, with or without a partial worktree.                       *)
Made(b, p, m) == Set(b, [boot[b] EXCEPT !.pc = p, !.made = m])
AddTree(b) ==
    LET e == boot[b].ep  l == Mine(b)
        free == branch[l] = None /\ tree[e][l] = None IN
    /\ At(b, "add")
    /\ \/ /\ free
          /\ branch' = [branch EXCEPT ![l] = b]
          /\ \/ tree' = [tree EXCEPT ![e][l] = b]
                /\ \E p \in {"material", "undo"} : Made(b, p, {"tree", "branch"})
             \/ UNCHANGED tree /\ Made(b, "undo", {"branch"})
       \/ /\ ~free /\ UNCHANGED <<tree, branch>>
          /\ IF boot[b].fresh THEN Made(b, "undo", {}) ELSE Fail(b, tree[e][l] = None)
    /\ UNCHANGED <<rstate, marker, estate, queue, lane, active, notice, mon, sd>>

(* Mutant: the removals are trusted, not looked at again. *)
TrustRemoval(b) ==
    LET e == boot[b].ep  l == Mine(b) IN
    /\ At(b, "undo")
    /\ tree' \in {tree, [tree EXCEPT ![e][l] = None]}
    /\ branch' \in {branch, [branch EXCEPT ![l] = None]}
    /\ Report(b, {m \in boot[b].made : IF m = "tree" THEN tree'[e][l] # None
                                       ELSE branch'[l] # None}, TRUE)
    /\ UNCHANGED <<rstate, marker, estate, queue, lane, active, notice, mon, sd>>

(* _rollback_bootstrap_worktree: each of the two removals works or does not, *)
(* and what is still there is looked at again.                               *)
RollBack(b) ==
    LET e == boot[b].ep  l == Mine(b) IN
    /\ At(b, "undo")
    /\ tree' \in {tree, [tree EXCEPT ![e][l] = None]}
    /\ branch' \in {branch, [branch EXCEPT ![l] = None]}
    /\ Report(b, {m \in boot[b].made : IF m = "tree" THEN tree'[e][l] # None
                                       ELSE branch'[l] # None},
              tree'[e][l] = None /\ branch'[l] = None)
    /\ UNCHANGED <<rstate, marker, estate, queue, lane, active, notice, mon, sd>>

(* Overlay, binding, prompt and the other files of the worktree. *)
Material(b) == /\ At(b, "material") /\ (Go(b, "publish") \/ Go(b, "undo"))
               /\ UNCHANGED <<records, mon, sd>>

PublishFails(b) == /\ At(b, "publish") /\ Go(b, "undo")
                   /\ UNCHANGED <<records, mon, sd>>

Publish(b) == /\ At(b, "publish")
              /\ lane' = [lane EXCEPT ![boot[b].ep][Mine(b)] = [st |-> "prepared", by |-> b]]
              /\ Set(b, [boot[b] EXCEPT !.pc = "read_active", !.made = @ \cup {"lane"}])
              /\ UNCHANGED <<rstate, marker, estate, queue, active, tree, branch, notice, mon, sd>>

(* Mutant: a lane that is published already is rolled back. *)
RollBackPublished(b) ==
    /\ At(b, "read_active")
    /\ \/ Set(b, [boot[b] EXCEPT !.pc = "write_active", !.seen = active[boot[b].ep]])
       \/ Go(b, "undo")
    /\ UNCHANGED <<records, mon, sd>>

ReadActive(b) == /\ At(b, "read_active")
                 /\ \/ Set(b, [boot[b] EXCEPT !.pc = "write_active", !.seen = active[boot[b].ep]])
                    \/ Fail(b, FALSE)
                 /\ UNCHANGED <<records, mon, sd>>

AppendActive(b) == WriteLanes(b, "write_active", boot[b].seen \cup {Mine(b)}, NewBoot)

BootDies(b) == /\ Running(b)
               /\ Set(b, NewBoot)
               /\ UNCHANGED <<records, mon, sd>>

Bootstrap(b) == \/ OpenEpoch(b) \/ StageQueue(b) \/ WriteOpening(b) \/ WriteMarker(b)
                \/ WriteActive(b) \/ EmptyList(b) \/ CheckLane(b) \/ CheckTree(b) \/ AddTree(b)
                \/ RollBack(b) \/ Material(b) \/ PublishFails(b) \/ Publish(b)
                \/ ReadActive(b) \/ AppendActive(b)

-----------------------------------------------------------------------------
(* A pass of the monitor. *)

(* Mutant: only lanes whose processes have ended are listed. *)
ListedClean(e) == {l \in Lanes : lane[e][l].st = "clean"}

Listed(e) == {l \in Lanes : lane[e][l].st \in {"prepared", "clean"}}

MonRead == /\ mon.pc = "idle" /\ marker # 0 /\ estate[marker] = "active"
           /\ mon' = [pc |-> "listed", ep |-> marker, list |-> Listed(marker)]
           /\ UNCHANGED <<records, boot, sd>>

MonReconcile == /\ mon.pc = "listed"
                /\ active' = [active EXCEPT ![mon.ep] = mon.list]
                /\ mon' = [mon EXCEPT !.pc = "promote"]
                /\ UNCHANGED <<rstate, marker, estate, queue, lane, tree, branch, notice, boot, sd>>

(* promote_event under the queue lock, then the outbox file is archived; on *)
(* QUEUE_REPLACED or without an epoch the file stays.                       *)
MonPromote == /\ mon.pc = "promote"
              /\ \E l \in mon.list :
                    /\ notice[l] /\ HeaderMatches
                    /\ queue' = IF queue.events[l] = "none"
                                THEN [queue EXCEPT !.events[l] = "UNRESOLVED"] ELSE queue
                    /\ notice' = [notice EXCEPT ![l] = FALSE]
              /\ UNCHANGED <<rstate, marker, estate, lane, active, tree, branch, boot, mon, sd>>

MonPassEnds == /\ mon.pc = "promote" /\ mon' = MonIdle
               /\ UNCHANGED <<records, boot, sd>>

MonDies == /\ mon.pc # "off" /\ mon' = [MonIdle EXCEPT !.pc = "off"]
           /\ UNCHANGED <<records, boot, sd>>

MonitorPass == MonRead \/ MonReconcile \/ MonPassEnds

-----------------------------------------------------------------------------
(* harness shutdown *)

SdSet(r) == sd' = r /\ UNCHANGED <<boot, mon>>

(* The check of the manager's obligations. *)
SdBegin == /\ sd.pc = "idle" /\ (Overlapping \/ \A b \in Boots : ~Running(b))
           /\ \/ rstate = "OPEN" /\ (marker = 0 \/ (HeaderMatches /\ ~Unresolved))
                 /\ SdSet([SdIdle EXCEPT !.pc = "declare"])
              \/ rstate = "SHUTTING_DOWN" /\ SdSet([SdIdle EXCEPT !.pc = "lanes"])
           /\ UNCHANGED records

SetState(s) == rstate' = s
               /\ UNCHANGED <<marker, estate, queue, lane, active, tree, branch, notice>>

SdDeclare == sd.pc = "declare" /\ SetState("SHUTTING_DOWN") /\ SdSet([sd EXCEPT !.pc = "lanes"])

SdLanes == /\ sd.pc = "lanes" /\ UNCHANGED records
           /\ SdSet(IF marker # 0 /\ estate[marker] = "active"
                    THEN [sd EXCEPT !.pc = "each", !.ep = marker, !.todo = active[marker]]
                    ELSE [sd EXCEPT !.pc = "monitor"])

SdSkip(l) == /\ sd.pc = "each" /\ l \in sd.todo /\ lane[sd.ep][l].st \in {"none", "retired"}
             /\ SdSet([sd EXCEPT !.todo = @ \ {l}]) /\ UNCHANGED records

(* SHUTDOWN_LANE_CLEANUP_UNPROVEN *)
SdRefuses(l) == /\ sd.pc = "each" /\ l \in sd.todo /\ lane[sd.ep][l].st = "prepared"
                /\ SdSet(SdIdle) /\ UNCHANGED records

SdRetire(l) == /\ sd.pc = "each" /\ l \in sd.todo /\ lane[sd.ep][l].st = "clean"
               /\ lane' = [lane EXCEPT ![sd.ep][l].st = "retired"]
               /\ SdSet([sd EXCEPT !.pc = "unlist", !.todo = @ \ {l}, !.seen = active[sd.ep] \ {l}])
               /\ UNCHANGED <<rstate, marker, estate, queue, active, tree, branch, notice>>

SdUnlist == /\ sd.pc = "unlist"
            /\ active' = [active EXCEPT ![sd.ep] = sd.seen]
            /\ SdSet([sd EXCEPT !.pc = "each", !.seen = {}])
            /\ UNCHANGED <<rstate, marker, estate, queue, lane, tree, branch, notice>>

(* close_epoch: the marker first. *)
SdUnmark == /\ sd.pc = "each" /\ sd.todo = {}
            /\ marker' = 0 /\ SdSet([sd EXCEPT !.pc = "close"])
            /\ UNCHANGED <<rstate, estate, queue, lane, active, tree, branch, notice>>

SdClose == /\ sd.pc = "close"
           /\ estate' = [estate EXCEPT ![sd.ep] = "closed"]
           /\ SdSet([sd EXCEPT !.pc = "monitor"])
           /\ UNCHANGED <<rstate, marker, queue, lane, active, tree, branch, notice>>

(* stop_requested is seen at the end of a pass; a pass that takes too long is *)
(* SHUTDOWN_MONITOR_UNPROVEN.                                                 *)
SdStopMonitor == /\ sd.pc = "monitor" /\ mon.pc \in {"off", "idle"}
                 /\ mon' = [MonIdle EXCEPT !.pc = "off"]
                 /\ sd' = [sd EXCEPT !.pc = "finish"] /\ UNCHANGED <<records, boot>>

SdMonitorUnproven == /\ sd.pc = "monitor" /\ mon.pc \notin {"off", "idle"}
                     /\ SdSet(SdIdle) /\ UNCHANGED records

SdFinish == sd.pc = "finish" /\ SetState("CLOSED") /\ SdSet(SdIdle)

SdDies == sd.pc # "idle" /\ SdSet(SdIdle) /\ UNCHANGED records

Shutdown == \/ SdDeclare \/ SdLanes \/ SdUnlist \/ SdUnmark \/ SdClose \/ SdStopMonitor
            \/ SdMonitorUnproven \/ SdFinish
            \/ \E l \in Lanes : SdSkip(l) \/ SdRefuses(l) \/ SdRetire(l)

-----------------------------------------------------------------------------
(* The rest of the world: setup, ROOT, and the lanes themselves. *)

Setup == /\ Overlapping \/ sd.pc = "idle"
         /\ rstate' = IF rstate = "CLOSED" THEN "OPEN" ELSE rstate
         /\ mon' = IF mon.pc = "off" THEN MonIdle ELSE mon
         /\ <<rstate', mon'>> # <<rstate, mon>>
         /\ UNCHANGED <<marker, estate, queue, lane, active, tree, branch, notice, boot, sd>>

Resolve(l) == /\ HeaderMatches /\ queue.events[l] = "UNRESOLVED"
              /\ queue' = [queue EXCEPT !.events[l] = "CLOSED"]
              /\ UNCHANGED <<rstate, marker, estate, lane, active, tree, branch, notice, boot, mon, sd>>

(* A lane is launched, or force-stopped, and its processes are gone; it has *)
(* written a notice to its outbox or not.                                   *)
LaneRuns(l) == /\ marker # 0 /\ lane[marker][l].st = "prepared"
               /\ lane' = [lane EXCEPT ![marker][l].st = "clean"]
               /\ notice' \in {notice, [notice EXCEPT ![l] = TRUE]}
               /\ UNCHANGED <<rstate, marker, estate, queue, active, tree, branch, boot, mon, sd>>

Crashes == MonDies \/ SdDies \/ \E b \in Boots : BootDies(b)

Next == \/ \E b \in Boots : Enter(b) \/ Bootstrap(b)
        \/ MonitorPass \/ MonPromote
        \/ SdBegin \/ Shutdown
        \/ Setup
        \/ \E l \in Lanes : Resolve(l) \/ LaneRuns(l)
        \/ Crashes

(* A monitor that is up goes on with its passes, and one that is not is started *)
(* again; a command that has begun goes on.                                     *)
Fairness == /\ WF_vars(MonitorPass) /\ WF_vars(Setup) /\ WF_vars(Shutdown)
            /\ \A b \in Boots : WF_vars(Bootstrap(b))

Spec == Init /\ [][Next]_vars /\ Fairness
-----------------------------------------------------------------------------
TypeOK == /\ rstate \in {"OPEN", "SHUTTING_DOWN", "CLOSED"}
          /\ marker \in 0 .. MaxEpochs
          /\ estate \in [Epochs -> {"absent", "opening", "active", "closed"}]
          /\ queue \in [epoch : 0 .. MaxEpochs, events : [Lanes -> EventStates]]
          /\ lane \in [Epochs -> [Lanes -> LaneRecord]]
          /\ active \in [Epochs -> SUBSET Lanes]
          /\ tree \in [Epochs -> [Lanes -> Boots \cup {None}]]
          /\ branch \in [Lanes -> Boots \cup {None}]
          /\ notice \in [Lanes -> BOOLEAN]
          /\ boot \in [Boots -> BootRecord]
          /\ mon \in MonRecord /\ sd \in SdRecord

(* attempt_effects: a failed bootstrap that reports its rollback as proven *)
(* has left neither a worktree nor a branch nor a lane record of its own.  *)
EffectsHonest ==
    \A b \in Boots : ~Running(b) => boot[b].made = {}

(* A lane that was published has the worktree its bootstrap made.  *)
PublishedHasTree ==
    \A e \in Epochs, l \in Lanes :
        lane[e][l].st # "none" => tree[e][l] = lane[e][l].by /\ branch[l] = lane[e][l].by

(* While an epoch is the current one, the queue is its queue: promotions,   *)
(* acknowledgements and the shutdown check never meet a replaced one.       *)
QueueOfMarkedEpoch == marker # 0 => queue.epoch = marker

(* active-lanes is rewritten by unlocked read-modify-write from several     *)
(* processes; a published lane of the current epoch that was lost from it   *)
(* is put back by a later pass of the monitor.                              *)
Reconciled ==
    \A e \in Epochs, l \in Lanes :
        <>[][~Crashes]_vars =>
            []<>(lane[e][l].st \in {"prepared", "clean"} /\ marker = e => l \in active[e])
=============================================================================

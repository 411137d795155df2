--------------------------- MODULE Runtime_proofs ---------------------------
(***************************************************************************)
(* Proofs about module Runtime, for every set of lanes and of bootstrap     *)
(* callers and every number of epochs.  What a failed bootstrap reports is  *)
(* true however the operator's commands interleave; that the queue is the   *)
(* current epoch's and that a published lane keeps its worktree holds where *)
(* they do not overlap (~Overlapping).                                      *)
(***************************************************************************)
EXTENDS Runtime, TLAPS

LEMMA LaneIdsKnown == \A b \in Boots : Mine(b) \in Lanes
BY BootsAssumption DEF Mine

\* Who works in an epoch knows which.
EpochKnown ==
    /\ \A b \in Boots : boot[b].pc \notin {"idle", "open"} => boot[b].ep \in Epochs
    /\ mon.pc \in {"listed", "promote"} => mon.ep \in Epochs
    /\ sd.pc \in {"each", "unlist", "close"} => sd.ep \in Epochs

Typed == TypeOK /\ EpochKnown

-----------------------------------------------------------------------------
(* Type correctness *)

LEMMA SetTyped ==
    ASSUME Typed, NEW b \in Boots, NEW r \in BootRecord, Set(b, r),
           r.pc \notin {"idle", "open"} => r.ep \in Epochs
    PROVE  /\ boot' \in [Boots -> BootRecord]
           /\ \A c \in Boots : boot'[c].pc \notin {"idle", "open"} => boot'[c].ep \in Epochs
BY DEF Set, Typed, TypeOK, EpochKnown

LEMMA NewBootTyped ==
    /\ NewBoot \in BootRecord /\ NewBoot.pc = "idle" /\ NewBoot.made = {}
    /\ \A made \in SUBSET {"tree", "branch", "lane"} :
          [NewBoot EXCEPT !.made = made] \in BootRecord
<1>1. 0 \in 0 .. MaxEpochs /\ "idle" \in BootPcs
    BY BoundsAssumption DEF BootPcs
<1> QED BY <1>1 DEF NewBoot, BootRecord

LEMMA GoTyped ==
    ASSUME Typed, NEW b \in Boots, NEW p \in BootPcs, Go(b, p), boot[b].ep \in Epochs
    PROVE  /\ boot' \in [Boots -> BootRecord]
           /\ \A c \in Boots : boot'[c].pc \notin {"idle", "open"} => boot'[c].ep \in Epochs
<1> DEFINE r == [boot[b] EXCEPT !.pc = p]
<1>1. r \in BootRecord /\ r.ep \in Epochs
    BY DEF Typed, TypeOK, BootRecord
<1>2. Set(b, r)
    BY DEF Go
<1> HIDE DEF r
<1> QED BY <1>1, <1>2, SetTyped

LEMMA ReportTyped ==
    ASSUME Typed, NEW b \in Boots, NEW made \in SUBSET {"tree", "branch", "lane"}, NEW proven,
           Report(b, made, proven)
    PROVE  /\ boot' \in [Boots -> BootRecord]
           /\ \A c \in Boots : boot'[c].pc \notin {"idle", "open"} => boot'[c].ep \in Epochs
<1>1. CASE proven
  <2> DEFINE r == [NewBoot EXCEPT !.made = made]
  <2>1. r \in BootRecord /\ r.pc = "idle" /\ Set(b, r)
    BY <1>1, NewBootTyped DEF Report, NewBoot
  <2> HIDE DEF r
  <2> QED BY <2>1, SetTyped
<1>2. CASE ~proven
  <2>1. Set(b, NewBoot)
    BY <1>2 DEF Report
  <2> QED BY <2>1, NewBootTyped, SetTyped
<1> QED BY <1>1, <1>2

LEMMA FailTyped ==
    ASSUME Typed, NEW b \in Boots, NEW proven, Fail(b, proven)
    PROVE  /\ boot' \in [Boots -> BootRecord]
           /\ \A c \in Boots : boot'[c].pc \notin {"idle", "open"} => boot'[c].ep \in Epochs
<1>1. boot[b].made \in SUBSET {"tree", "branch", "lane"}
    BY DEF Typed, TypeOK, BootRecord
<1> QED BY <1>1, ReportTyped DEF Fail

\* A step of one caller leaves the types of the rest alone when it leaves or
\* rewrites the records in type.
BootTyped ==
    /\ boot' \in [Boots -> BootRecord]
    /\ \A c \in Boots : boot'[c].pc \notin {"idle", "open"} => boot'[c].ep \in Epochs

LEMMA OnlyBoots ==
    ASSUME Typed, BootTyped, UNCHANGED <<records, mon, sd>>
    PROVE  Typed'
BY DEF Typed, TypeOK, EpochKnown, BootTyped, records

LEMMA EpochAt ==
    ASSUME Typed, NEW b \in Boots, NEW p, At(b, p), p \notin {"idle", "open"}
    PROVE  boot[b].ep \in Epochs /\ boot[b] \in BootRecord
BY DEF Typed, TypeOK, EpochKnown, At

LEMMA TreeTyped ==
    ASSUME Typed, NEW e \in Epochs, NEW l \in Lanes, NEW who \in Boots \cup {None},
           tree' = tree \/ tree' = [tree EXCEPT ![e][l] = who],
           branch' = branch \/ branch' = [branch EXCEPT ![l] = who]
    PROVE  /\ tree' \in [Epochs -> [Lanes -> Boots \cup {None}]]
           /\ branch' \in [Lanes -> Boots \cup {None}]
<1>1. tree \in [Epochs -> [Lanes -> Boots \cup {None}]] /\ branch \in [Lanes -> Boots \cup {None}]
    BY DEF Typed, TypeOK
<1>2. [tree[e] EXCEPT ![l] = who] \in [Lanes -> Boots \cup {None}]
    BY <1>1
<1> QED BY <1>1, <1>2

LEMMA BootTypes ==
    ASSUME Typed, NEW b \in Boots, Enter(b) \/ Bootstrap(b) \/ BootDies(b)
    PROVE  Typed'
<1>1. CASE Enter(b) \/ BootDies(b)
  <2> DEFINE r == [NewBoot EXCEPT !.pc = "open"]
  <2>1. r \in BootRecord /\ r.pc = "open" /\ NewBoot \in BootRecord /\ NewBoot.pc = "idle"
    BY NewBootTyped DEF NewBoot, BootRecord, BootPcs
  <2>2. Set(b, r) \/ Set(b, NewBoot)
    BY <1>1 DEF Enter, BootDies
  <2>3. UNCHANGED <<records, mon, sd>>
    BY <1>1 DEF Enter, BootDies
  <2> HIDE DEF r
  <2>4. BootTyped
    BY <2>1, <2>2, SetTyped DEF BootTyped
  <2> QED BY <2>3, <2>4, OnlyBoots
<1>2. CASE OpenEpoch(b)
  <2>1. CASE Fail(b, TRUE)
    BY <1>2, <2>1, FailTyped, OnlyBoots DEF BootTyped, OpenEpoch
  <2>2. ASSUME NEW p \in {"stage", "check"}, NEW e \in Epochs,
               Set(b, [boot[b] EXCEPT !.pc = p, !.ep = e])
        PROVE  Typed'
    <3> DEFINE r == [boot[b] EXCEPT !.pc = p, !.ep = e]
    <3>1. p \in BootPcs /\ e \in 0 .. MaxEpochs /\ boot[b] \in BootRecord
      BY BoundsAssumption DEF Typed, TypeOK, BootPcs, Epochs
    <3>2. r \in BootRecord /\ r.ep \in Epochs
      BY <3>1 DEF BootRecord
    <3>3. Set(b, r)
      BY <2>2
    <3> HIDE DEF r
    <3>4. BootTyped
      BY <3>2, <3>3, SetTyped DEF BootTyped
    <3> QED BY <1>2, <3>4, OnlyBoots DEF OpenEpoch
  <2>3. marker # 0 => marker \in Epochs
    BY BoundsAssumption DEF Typed, TypeOK, Epochs
  <2> QED BY <1>2, <2>1, <2>2, <2>3 DEF OpenEpoch
<1>3. CASE StageQueue(b)
  <2>1. boot[b].ep \in Epochs /\ Go(b, "opening")
    BY <1>3, EpochAt DEF StageQueue
  <2>2. BootTyped
    BY <2>1, GoTyped DEF BootTyped, BootPcs
  <2>3. queue' \in [epoch : 0 .. MaxEpochs, events : [Lanes -> EventStates]]
    BY <1>3, <2>1 DEF StageQueue, NoEvents, EventStates, Epochs
  <2> QED BY <1>3, <2>2, <2>3 DEF StageQueue, Typed, TypeOK, EpochKnown, BootTyped
<1>4. CASE WriteOpening(b) \/ WriteActive(b)
  <2>1. boot[b].ep \in Epochs /\ (Go(b, "mark") \/ Go(b, "list"))
    BY <1>4, EpochAt DEF WriteOpening, WriteActive, SetEpoch
  <2>2. BootTyped
    BY <2>1, GoTyped DEF BootTyped, BootPcs
  <2>3. estate' \in [Epochs -> {"absent", "opening", "active", "closed"}]
    BY <1>4 DEF WriteOpening, WriteActive, SetEpoch, Typed, TypeOK
  <2> QED BY <1>4, <2>2, <2>3
      DEF WriteOpening, WriteActive, SetEpoch, Typed, TypeOK, EpochKnown, BootTyped
<1>5. CASE WriteMarker(b)
  <2>1. boot[b].ep \in Epochs /\ Go(b, "activate")
    BY <1>5, EpochAt DEF WriteMarker
  <2>2. BootTyped
    BY <2>1, GoTyped DEF BootTyped, BootPcs
  <2>3. marker' \in 0 .. MaxEpochs
    BY <1>5, <2>1 DEF WriteMarker, Epochs
  <2> QED BY <1>5, <2>2, <2>3 DEF WriteMarker, Typed, TypeOK, EpochKnown, BootTyped
<1>6. CASE EmptyList(b) \/ AppendActive(b)
  <2>1. boot[b] \in BootRecord /\ boot[b].ep \in Epochs
    BY <1>6, EpochAt DEF EmptyList, AppendActive, WriteLanes
  <2>2. BootTyped
    <3>1. CASE EmptyList(b)
      BY <2>1, <3>1, GoTyped DEF EmptyList, WriteLanes, Go, BootTyped, BootPcs
    <3>2. CASE AppendActive(b)
      BY <3>2, NewBootTyped, SetTyped DEF AppendActive, WriteLanes, BootTyped
    <3> QED BY <1>6, <3>1, <3>2
  <2>3. active' \in [Epochs -> SUBSET Lanes]
    BY <1>6, <2>1, LaneIdsKnown
    DEF EmptyList, AppendActive, WriteLanes, Typed, TypeOK, BootRecord
  <2> QED BY <1>6, <2>2, <2>3
      DEF EmptyList, AppendActive, WriteLanes, Typed, TypeOK, EpochKnown, BootTyped
<1>7. CASE CheckLane(b) \/ CheckTree(b) \/ Material(b) \/ PublishFails(b) \/ ReadActive(b)
  <2>1. boot[b] \in BootRecord /\ boot[b].ep \in Epochs
    BY <1>7, EpochAt DEF CheckLane, CheckTree, Material, PublishFails, ReadActive
  <2>2. BootTyped
    <3>1. CASE \/ \E proven \in BOOLEAN : Fail(b, proven)
               \/ \E p \in BootPcs : Go(b, p)
      BY <2>1, <3>1, FailTyped, GoTyped DEF BootTyped
    <3>2. CASE Set(b, [boot[b] EXCEPT !.pc = "add", !.fresh = branch[Mine(b)] = None])
      <4> DEFINE r == [boot[b] EXCEPT !.pc = "add", !.fresh = branch[Mine(b)] = None]
      <4>1. r \in BootRecord /\ r.ep \in Epochs /\ Set(b, r)
        BY <2>1, <3>2 DEF BootRecord, BootPcs
      <4> HIDE DEF r
      <4> QED BY <4>1, SetTyped DEF BootTyped
    <3>3. CASE Set(b, [boot[b] EXCEPT !.pc = "write_active", !.seen = active[boot[b].ep]])
      <4> DEFINE r == [boot[b] EXCEPT !.pc = "write_active", !.seen = active[boot[b].ep]]
      <4>1. r \in BootRecord /\ r.ep \in Epochs /\ Set(b, r)
        BY <2>1, <3>3 DEF BootRecord, BootPcs, Typed, TypeOK
      <4> HIDE DEF r
      <4> QED BY <4>1, SetTyped DEF BootTyped
    <3>4. {"exists", "publish", "undo"} \subseteq BootPcs
      BY DEF BootPcs
    <3> QED BY <1>7, <3>1, <3>2, <3>3, <3>4
        DEF CheckLane, CheckTree, Material, PublishFails, ReadActive
  <2> QED BY <1>7, <2>2, OnlyBoots DEF CheckLane, CheckTree, Material, PublishFails, ReadActive
<1>8. CASE AddTree(b)
  <2>1. boot[b] \in BootRecord /\ boot[b].ep \in Epochs /\ Mine(b) \in Lanes
    BY <1>8, EpochAt, LaneIdsKnown DEF AddTree
  <2>2. ASSUME NEW p \in {"material", "undo"}, NEW m \in SUBSET {"tree", "branch"}, Made(b, p, m)
        PROVE  BootTyped
    <3> DEFINE r == [boot[b] EXCEPT !.pc = p, !.made = m]
    <3>1. r \in BootRecord /\ r.ep \in Epochs /\ Set(b, r)
      BY <2>1, <2>2 DEF BootRecord, BootPcs, Made
    <3> HIDE DEF r
    <3> QED BY <3>1, SetTyped DEF BootTyped
  <2>3. BootTyped
    <3>1. ASSUME NEW proven, Fail(b, proven) PROVE BootTyped
      BY <3>1, FailTyped DEF BootTyped
    <3> QED BY <1>8, <2>2, <3>1 DEF AddTree
  <2>4. /\ tree' \in [Epochs -> [Lanes -> Boots \cup {None}]]
        /\ branch' \in [Lanes -> Boots \cup {None}]
    <3>1. tree' = tree \/ tree' = [tree EXCEPT ![boot[b].ep][Mine(b)] = b]
      BY <1>8 DEF AddTree
    <3>2. branch' = branch \/ branch' = [branch EXCEPT ![Mine(b)] = b]
      BY <1>8 DEF AddTree
    <3> QED BY <2>1, <3>1, <3>2, TreeTyped
  <2> QED BY <1>8, <2>3, <2>4 DEF AddTree, Typed, TypeOK, EpochKnown, BootTyped
<1>9. CASE RollBack(b)
  <2>1. boot[b] \in BootRecord /\ boot[b].ep \in Epochs /\ Mine(b) \in Lanes
    BY <1>9, EpochAt, LaneIdsKnown DEF RollBack
  <2>2. BootTyped
    <3>1. PICK made \in SUBSET boot[b].made :
              \E proven \in BOOLEAN : Report(b, made, proven)
      BY <1>9 DEF RollBack
    <3>2. made \in SUBSET {"tree", "branch", "lane"}
      BY <2>1 DEF BootRecord
    <3> QED BY <3>1, <3>2, ReportTyped DEF BootTyped
  <2>3. /\ tree' \in [Epochs -> [Lanes -> Boots \cup {None}]]
        /\ branch' \in [Lanes -> Boots \cup {None}]
    <3>1. tree' = tree \/ tree' = [tree EXCEPT ![boot[b].ep][Mine(b)] = None]
      BY <1>9 DEF RollBack
    <3>2. branch' = branch \/ branch' = [branch EXCEPT ![Mine(b)] = None]
      BY <1>9 DEF RollBack
    <3> QED BY <2>1, <3>1, <3>2, TreeTyped
  <2> QED BY <1>9, <2>2, <2>3 DEF RollBack, Typed, TypeOK, EpochKnown, BootTyped
<1>10. CASE Publish(b)
  <2>1. boot[b] \in BootRecord /\ boot[b].ep \in Epochs
    BY <1>10, EpochAt DEF Publish
  <2> DEFINE r == [boot[b] EXCEPT !.pc = "read_active", !.made = @ \cup {"lane"}]
  <2>2. r \in BootRecord /\ r.ep \in Epochs /\ Set(b, r)
    BY <1>10, <2>1 DEF BootRecord, BootPcs, Publish
  <2> HIDE DEF r
  <2>3. BootTyped
    BY <2>2, SetTyped DEF BootTyped
  <2>4. lane' \in [Epochs -> [Lanes -> LaneRecord]]
    BY <1>10 DEF Publish, Typed, TypeOK, LaneRecord
  <2> QED BY <1>10, <2>3, <2>4 DEF Publish, Typed, TypeOK, EpochKnown, BootTyped
<1> QED BY <1>1, <1>2, <1>3, <1>4, <1>5, <1>6, <1>7, <1>8, <1>9, <1>10 DEF Bootstrap

LEMMA LaneTyped ==
    ASSUME Typed, NEW e \in Epochs, NEW l \in Lanes, NEW st \in {"clean", "retired"},
           lane' = [lane EXCEPT ![e][l].st = st]
    PROVE  lane' \in [Epochs -> [Lanes -> LaneRecord]]
<1>1. lane \in [Epochs -> [Lanes -> LaneRecord]]
    BY DEF Typed, TypeOK
<1>2. [lane[e][l] EXCEPT !.st = st] \in LaneRecord
    BY <1>1 DEF LaneRecord
<1>3. [lane[e] EXCEPT ![l] = [lane[e][l] EXCEPT !.st = st]] \in [Lanes -> LaneRecord]
    BY <1>1, <1>2
<1> QED BY <1>1, <1>3

LEMMA WorldTypes ==
    ASSUME Typed, MonitorPass \/ MonPromote \/ MonDies \/ Setup
                  \/ \E l \in Lanes : Resolve(l) \/ LaneRuns(l)
    PROVE  Typed'
<1>1. CASE MonRead \/ MonPassEnds \/ MonDies \/ Setup
  <2>1. marker # 0 => marker \in Epochs /\ Listed(marker) \in SUBSET Lanes
    BY BoundsAssumption DEF Typed, TypeOK, Epochs, Listed
  <2>2. mon' \in MonRecord /\ (mon'.pc \in {"listed", "promote"} => mon'.ep \in Epochs)
    <3>1. MonIdle \in MonRecord /\ MonIdle.pc = "idle"
          /\ [MonIdle EXCEPT !.pc = "off"] \in MonRecord /\ [MonIdle EXCEPT !.pc = "off"].pc = "off"
      BY BoundsAssumption DEF MonIdle, MonRecord
    <3>2. CASE MonRead
      BY <2>1, <3>2, BoundsAssumption DEF MonRead, MonRecord, Epochs
    <3>3. CASE MonPassEnds \/ MonDies
      BY <3>1, <3>3 DEF MonPassEnds, MonDies
    <3>4. CASE Setup
      BY <3>1, <3>4 DEF Setup, Typed, TypeOK, EpochKnown
    <3> QED BY <1>1, <3>2, <3>3, <3>4
  <2>3. UNCHANGED <<marker, estate, queue, lane, active, tree, branch, notice, boot, sd>>
        /\ rstate' \in {"OPEN", "SHUTTING_DOWN", "CLOSED"}
    BY <1>1 DEF MonRead, MonPassEnds, MonDies, Setup, records, Typed, TypeOK
  <2> QED BY <2>2, <2>3 DEF Typed, TypeOK, EpochKnown
<1>2. CASE MonReconcile
  <2>1. mon' \in MonRecord /\ mon'.ep \in Epochs /\ mon.list \in SUBSET Lanes
    BY <1>2 DEF MonReconcile, MonRecord, Typed, TypeOK, EpochKnown
  <2>2. active' \in [Epochs -> SUBSET Lanes]
    BY <1>2, <2>1 DEF MonReconcile, Typed, TypeOK
  <2> QED BY <1>2, <2>1, <2>2 DEF MonReconcile, Typed, TypeOK, EpochKnown
<1>3. CASE MonPromote
  <2>1. PICK l \in mon.list :
            /\ queue' = IF queue.events[l] = "none"
                        THEN [queue EXCEPT !.events[l] = "UNRESOLVED"] ELSE queue
            /\ notice' = [notice EXCEPT ![l] = FALSE]
    BY <1>3 DEF MonPromote
  <2>2. queue' \in [epoch : 0 .. MaxEpochs, events : [Lanes -> EventStates]]
    BY <2>1 DEF Typed, TypeOK, EventStates
  <2>3. notice' \in [Lanes -> BOOLEAN]
    BY <2>1 DEF Typed, TypeOK
  <2> QED BY <1>3, <2>2, <2>3 DEF MonPromote, Typed, TypeOK, EpochKnown
<1>4. ASSUME NEW l \in Lanes, Resolve(l) PROVE Typed'
  <2>1. queue' \in [epoch : 0 .. MaxEpochs, events : [Lanes -> EventStates]]
    BY <1>4 DEF Resolve, Typed, TypeOK, EventStates
  <2> QED BY <1>4, <2>1 DEF Resolve, Typed, TypeOK, EpochKnown
<1>5. ASSUME NEW l \in Lanes, LaneRuns(l) PROVE Typed'
  <2>1. lane' \in [Epochs -> [Lanes -> LaneRecord]]
    <3>1. marker \in Epochs
      BY <1>5, BoundsAssumption DEF LaneRuns, Typed, TypeOK, Epochs
    <3> QED BY <1>5, <3>1, LaneTyped DEF LaneRuns
  <2>2. notice' \in [Lanes -> BOOLEAN]
    BY <1>5 DEF LaneRuns, Typed, TypeOK
  <2> QED BY <1>5, <2>1, <2>2 DEF LaneRuns, Typed, TypeOK, EpochKnown
<1> QED BY <1>1, <1>2, <1>3, <1>4, <1>5 DEF MonitorPass

LEMMA ShutdownTypes ==
    ASSUME Typed, SdBegin \/ Shutdown \/ SdDies
    PROVE  Typed'
<1> DEFINE SdTyped == sd' \in SdRecord /\ (sd'.pc \in {"each", "unlist", "close"} => sd'.ep \in Epochs)
<1>1. SdIdle \in SdRecord /\ SdIdle.pc = "idle"
    BY BoundsAssumption DEF SdIdle, SdRecord
<1>2. CASE SdBegin \/ SdDies \/ SdMonitorUnproven
  <2>1. SdTyped
    BY <1>1, <1>2 DEF SdBegin, SdDies, SdMonitorUnproven, SdSet, SdIdle, SdRecord
  <2> QED BY <1>2, <2>1
      DEF SdBegin, SdDies, SdMonitorUnproven, SdSet, records, Typed, TypeOK, EpochKnown
<1>3. CASE SdDeclare \/ SdFinish
  <2>1. SdTyped
    BY <1>1, <1>3 DEF SdDeclare, SdFinish, SdSet, SdRecord, Typed, TypeOK
  <2> QED BY <1>3, <2>1 DEF SdDeclare, SdFinish, SdSet, SetState, Typed, TypeOK, EpochKnown
<1>4. CASE SdLanes
  <2>1. marker # 0 => marker \in Epochs /\ active[marker] \in SUBSET Lanes
    BY BoundsAssumption DEF Typed, TypeOK, Epochs
  <2>2. SdTyped
    BY <1>4, <2>1, BoundsAssumption DEF SdLanes, SdSet, SdRecord, Typed, TypeOK
  <2> QED BY <1>4, <2>2 DEF SdLanes, SdSet, records, Typed, TypeOK, EpochKnown
<1>5. ASSUME NEW l \in Lanes, SdSkip(l) \/ SdRefuses(l) PROVE Typed'
  <2>1. SdTyped
    <3>1. CASE SdSkip(l)
      BY <3>1 DEF SdSkip, SdSet, SdRecord, Typed, TypeOK, EpochKnown
    <3>2. CASE SdRefuses(l)
      BY <1>1, <3>2 DEF SdRefuses, SdSet
    <3> QED BY <1>5, <3>1, <3>2
  <2> QED BY <1>5, <2>1 DEF SdSkip, SdRefuses, SdSet, records, Typed, TypeOK, EpochKnown
<1>6. ASSUME NEW l \in Lanes, SdRetire(l) PROVE Typed'
  <2>1. sd.ep \in Epochs /\ active[sd.ep] \in SUBSET Lanes
    BY <1>6 DEF SdRetire, Typed, TypeOK, EpochKnown
  <2>2. SdTyped
    BY <1>6, <2>1 DEF SdRetire, SdSet, SdRecord, Typed, TypeOK
  <2>3. lane' \in [Epochs -> [Lanes -> LaneRecord]]
    BY <1>6, <2>1, LaneTyped DEF SdRetire
  <2> QED BY <1>6, <2>2, <2>3 DEF SdRetire, SdSet, Typed, TypeOK, EpochKnown
<1>7. CASE SdUnlist
  <2>1. sd.ep \in Epochs /\ sd.seen \in SUBSET Lanes
    BY <1>7 DEF SdUnlist, Typed, TypeOK, EpochKnown, SdRecord
  <2>2. SdTyped
    BY <1>7, <2>1 DEF SdUnlist, SdSet, SdRecord, Typed, TypeOK
  <2>3. active' \in [Epochs -> SUBSET Lanes]
    BY <1>7, <2>1 DEF SdUnlist, Typed, TypeOK
  <2> QED BY <1>7, <2>2, <2>3 DEF SdUnlist, SdSet, Typed, TypeOK, EpochKnown
<1>8. CASE SdUnmark \/ SdClose
  <2>1. SdTyped
    BY <1>8 DEF SdUnmark, SdClose, SdSet, SdRecord, Typed, TypeOK, EpochKnown
  <2>2. marker' \in 0 .. MaxEpochs /\ estate' \in [Epochs -> {"absent", "opening", "active", "closed"}]
    BY <1>8, BoundsAssumption DEF SdUnmark, SdClose, Typed, TypeOK
  <2> QED BY <1>8, <2>1, <2>2 DEF SdUnmark, SdClose, SdSet, Typed, TypeOK, EpochKnown
<1>9. CASE SdStopMonitor
  <2>1. SdTyped
    BY <1>9 DEF SdStopMonitor, SdRecord, Typed, TypeOK
  <2>2. mon' \in MonRecord /\ mon'.pc = "off"
    BY <1>9, BoundsAssumption DEF SdStopMonitor, MonIdle, MonRecord
  <2> QED BY <1>9, <2>1, <2>2 DEF SdStopMonitor, records, Typed, TypeOK, EpochKnown
<1> QED BY <1>2, <1>3, <1>4, <1>5, <1>6, <1>7, <1>8, <1>9 DEF Shutdown

\* The steps of the others leave every caller of lane bootstrap where it is.
LEMMA OthersKeepBoots ==
    ASSUME \/ MonitorPass \/ MonPromote \/ MonDies \/ Setup \/ SdBegin \/ Shutdown \/ SdDies
           \/ UNCHANGED vars \/ \E l \in Lanes : Resolve(l) \/ LaneRuns(l)
    PROVE  boot' = boot
<1>1. CASE MonitorPass \/ MonPromote \/ MonDies \/ Setup \/ UNCHANGED vars
    BY <1>1 DEF MonitorPass, MonRead, MonReconcile, MonPassEnds, MonPromote, MonDies, Setup, vars
<1>2. CASE SdBegin \/ Shutdown \/ SdDies
    BY <1>2 DEF SdBegin, Shutdown, SdDies, SdDeclare, SdLanes, SdUnlist, SdUnmark, SdClose,
                SdStopMonitor, SdMonitorUnproven, SdFinish, SdSkip, SdRefuses, SdRetire, SdSet
<1>3. CASE \E l \in Lanes : Resolve(l) \/ LaneRuns(l)
    BY <1>3 DEF Resolve, LaneRuns
<1> QED BY <1>1, <1>2, <1>3

LEMMA TypeInit == Init => Typed
<1> SUFFICES ASSUME Init PROVE Typed
    OBVIOUS
<1>1. /\ boot \in [Boots -> BootRecord]
      /\ \A b \in Boots : boot[b].pc = "idle"
    BY NewBootTyped DEF Init
<1>2. mon \in MonRecord /\ sd \in SdRecord /\ mon.pc = "idle" /\ sd.pc = "idle"
    BY BoundsAssumption DEF Init, MonIdle, SdIdle, MonRecord, SdRecord
<1>3. lane \in [Epochs -> [Lanes -> LaneRecord]]
    BY DEF Init, NoLane, LaneRecord
<1>4. queue \in [epoch : 0 .. MaxEpochs, events : [Lanes -> EventStates]]
    BY BoundsAssumption DEF Init, NoEvents, EventStates
<1> QED BY <1>1, <1>2, <1>3, <1>4, BoundsAssumption DEF Init, Typed, TypeOK, EpochKnown, None

LEMMA TypeNext == Typed /\ [Next]_vars => Typed'
<1> SUFFICES ASSUME Typed, [Next]_vars PROVE Typed'
    OBVIOUS
<1>1. CASE UNCHANGED vars
    BY <1>1 DEF vars, records, Typed, TypeOK, EpochKnown
<1> QED BY <1>1, BootTypes, WorldTypes, ShutdownTypes DEF Next, Crashes

THEOREM RuntimeTypeCorrect == Spec => []TypeOK
<1>1. Typed => TypeOK
    BY DEF Typed
<1> QED BY <1>1, TypeInit, TypeNext, PTL DEF Spec

-----------------------------------------------------------------------------
(* What a failed bootstrap reports *)

\* What an attempt has made, where it stands.
EffectsKnown ==
    \A b \in Boots :
       /\ boot[b].pc \notin {"undo", "material", "publish", "read_active", "write_active"}
             => boot[b].made = {}
       /\ boot[b].pc \in {"undo", "material", "publish"} => boot[b].made \subseteq {"tree", "branch"}


ToldOf(r) ==
    /\ r.pc \notin {"undo", "material", "publish", "read_active", "write_active"} => r.made = {}
    /\ r.pc \in {"undo", "material", "publish"} => r.made \subseteq {"tree", "branch"}

LEMMA SetEffects ==
    ASSUME Typed, EffectsKnown, NEW b \in Boots, NEW r, Set(b, r), ToldOf(r)
    PROVE  EffectsKnown'
BY DEF Typed, TypeOK, EffectsKnown, ToldOf, Set

\* A caller that goes on without making or removing anything.
LEMMA GoEffects ==
    ASSUME Typed, EffectsKnown, NEW b \in Boots, NEW p, Go(b, p),
           \/ boot[b].made = {}
           \/ p \in {"undo", "publish"} /\ boot[b].pc \in {"undo", "material", "publish"}
    PROVE  EffectsKnown'
<1> DEFINE r == [boot[b] EXCEPT !.pc = p]
<1>1. Set(b, r)
    BY DEF Go
<1>2. r.pc = p /\ r.made = boot[b].made
    BY DEF Typed, TypeOK, BootRecord
<1>3. boot[b].pc \in {"undo", "material", "publish"} => boot[b].made \subseteq {"tree", "branch"}
    BY DEF EffectsKnown
<1> HIDE DEF r
<1>4. ToldOf(r)
    BY <1>2, <1>3 DEF ToldOf
<1> QED BY <1>1, <1>4, SetEffects

LEMMA ReportEffects ==
    ASSUME Typed, EffectsKnown, NEW b \in Boots, NEW made, NEW proven, Report(b, made, proven),
           proven => made = {}
    PROVE  EffectsKnown'
<1>1. ToldOf(NewBoot) /\ ToldOf([NewBoot EXCEPT !.made = {}])
    BY DEF ToldOf, NewBoot
<1>2. Set(b, NewBoot) \/ Set(b, [NewBoot EXCEPT !.made = {}])
    BY DEF Report
<1> QED BY <1>1, <1>2, SetEffects

LEMMA EffectsNext == Typed /\ EffectsKnown /\ [Next]_vars => EffectsKnown'
<1> SUFFICES ASSUME Typed, EffectsKnown, [Next]_vars PROVE EffectsKnown'
    OBVIOUS
<1>1. ASSUME NEW b \in Boots, Enter(b) \/ BootDies(b) PROVE EffectsKnown'
  <2>1. ToldOf(NewBoot) /\ ToldOf([NewBoot EXCEPT !.pc = "open"])
    BY DEF ToldOf, NewBoot
  <2> QED BY <1>1, <2>1, SetEffects DEF Enter, BootDies
<1>2. ASSUME NEW b \in Boots, Bootstrap(b) PROVE EffectsKnown'
  <2> DEFINE early == boot[b].pc \in {"open", "stage", "opening", "mark", "activate", "list",
                                      "check", "exists", "add"}
  <2>1. early => boot[b].made = {}
    BY DEF EffectsKnown
  <2>2. early /\ (Fail(b, TRUE) \/ Fail(b, FALSE)) => EffectsKnown'
    BY <2>1, ReportEffects DEF Fail
  <2>3. \A p \in BootPcs : early /\ Go(b, p) => EffectsKnown'
    BY <2>1, GoEffects
  <2>4. CASE OpenEpoch(b)
    <3> early
      BY <2>4 DEF OpenEpoch, At
    <3>1. ASSUME NEW p \in {"stage", "check"}, NEW e, Set(b, [boot[b] EXCEPT !.pc = p, !.ep = e])
          PROVE  EffectsKnown'
      <4> DEFINE r == [boot[b] EXCEPT !.pc = p, !.ep = e]
      <4>1. r.pc = p /\ r.made = boot[b].made
        BY DEF Typed, TypeOK, BootRecord
      <4>2. Set(b, r)
        BY <3>1
      <4> HIDE DEF r
      <4>3. ToldOf(r)
        BY <2>1, <4>1 DEF ToldOf
      <4> QED BY <4>2, <4>3, SetEffects
    <3> HIDE DEF early
    <3> QED BY <2>2, <2>4, <3>1 DEF OpenEpoch
  <2>5. CASE \/ StageQueue(b) \/ WriteOpening(b) \/ WriteMarker(b) \/ WriteActive(b)
    BY <2>3, <2>5 DEF StageQueue, WriteOpening, WriteMarker, WriteActive, SetEpoch, At, BootPcs
  <2>6. CASE EmptyList(b)
    BY <2>3, <2>6 DEF EmptyList, WriteLanes, Go, At, BootPcs
  <2>7. CASE CheckLane(b)
    <3>1. early /\ "exists" \in BootPcs
      BY <2>7 DEF CheckLane, At, BootPcs
    <3>2. Fail(b, TRUE) \/ Go(b, "exists")
      BY <2>7 DEF CheckLane
    <3> HIDE DEF early
    <3> QED BY <2>2, <2>3, <3>1, <3>2
  <2>8. CASE CheckTree(b)
    <3> DEFINE r == [boot[b] EXCEPT !.pc = "add", !.fresh = branch[Mine(b)] = None]
    <3>1. r.pc = "add" /\ r.made = {}
      BY <2>1, <2>8 DEF CheckTree, At, Typed, TypeOK, BootRecord
    <3>2. Fail(b, TRUE) \/ Set(b, r)
      BY <2>8 DEF CheckTree
    <3> HIDE DEF r
    <3>3. early
      BY <2>8 DEF CheckTree, At
    <3>4. ToldOf(r)
      BY <3>1 DEF ToldOf
    <3> HIDE DEF early
    <3> QED BY <2>2, <3>2, <3>3, <3>4, SetEffects
  <2>9. CASE AddTree(b)
    <3>1. ASSUME NEW p \in {"material", "undo"}, NEW m \in SUBSET {"tree", "branch"}, Made(b, p, m)
          PROVE  EffectsKnown'
      <4> DEFINE r == [boot[b] EXCEPT !.pc = p, !.made = m]
      <4>1. r.pc = p /\ r.made = m /\ Set(b, r)
        BY <3>1 DEF Typed, TypeOK, BootRecord, Made
      <4> HIDE DEF r
      <4> QED BY <4>1, SetEffects DEF ToldOf
    <3>2. ASSUME NEW proven, Fail(b, proven) PROVE EffectsKnown'
      BY <2>1, <2>9, <3>2, ReportEffects DEF AddTree, At, Fail
    <3> QED BY <2>9, <3>1, <3>2 DEF AddTree
  <2>10. CASE RollBack(b)
    <3>1. boot[b].made \subseteq {"tree", "branch"}
      BY <2>10 DEF RollBack, At, EffectsKnown
    <3> DEFINE left == {m \in boot[b].made : IF m = "tree" THEN tree'[boot[b].ep][Mine(b)] # None
                                             ELSE branch'[Mine(b)] # None}
               proven == tree'[boot[b].ep][Mine(b)] = None /\ branch'[Mine(b)] = None
    <3>2. proven => left = {}
      BY <3>1
    <3>3. Report(b, left, proven)
      BY <2>10 DEF RollBack
    <3> HIDE DEF left, proven
    <3> QED BY <3>2, <3>3, ReportEffects
  <2>11. CASE Material(b) \/ PublishFails(b)
    BY <2>11, GoEffects DEF Material, PublishFails, At
  <2>12. CASE Publish(b)
    <3> DEFINE r == [boot[b] EXCEPT !.pc = "read_active", !.made = @ \cup {"lane"}]
    <3>1. r.pc = "read_active" /\ Set(b, r)
      BY <2>12 DEF Publish, Typed, TypeOK, BootRecord
    <3> HIDE DEF r
    <3> QED BY <3>1, SetEffects DEF ToldOf
  <2>13. CASE ReadActive(b)
    <3> DEFINE r == [boot[b] EXCEPT !.pc = "write_active", !.seen = active[boot[b].ep]]
    <3>1. r.pc = "write_active"
      BY DEF Typed, TypeOK, BootRecord
    <3>2. Set(b, r) \/ Fail(b, FALSE)
      BY <2>13 DEF ReadActive
    <3> HIDE DEF r
    <3>3. CASE Set(b, r)
      BY <3>1, <3>3, SetEffects DEF ToldOf
    <3>4. CASE Fail(b, FALSE)
      BY <3>4, ReportEffects DEF Fail
    <3> QED BY <3>2, <3>3, <3>4
  <2>14. CASE AppendActive(b)
    <3>1. ToldOf(NewBoot)
      BY DEF ToldOf, NewBoot
    <3> QED BY <2>14, <3>1, SetEffects DEF AppendActive, WriteLanes
  <2> QED BY <1>2, <2>4, <2>5, <2>6, <2>7, <2>8, <2>9, <2>10, <2>11, <2>12, <2>13, <2>14
          DEF Bootstrap
<1>3. CASE \/ MonitorPass \/ MonPromote \/ MonDies \/ Setup \/ SdBegin \/ Shutdown \/ SdDies
           \/ UNCHANGED vars \/ \E l \in Lanes : Resolve(l) \/ LaneRuns(l)
  <2>1. boot' = boot
    BY <1>3, OthersKeepBoots
  <2> QED BY <2>1 DEF EffectsKnown
<1> QED BY <1>1, <1>2, <1>3 DEF Next, Crashes

(* A failed bootstrap that reports its rollback as proven has left nothing it *)
(* made, however the commands, the monitor and their crashes interleave       *)
(* (EffectsHonest).                                                           *)
THEOREM FailuresReportTruly == Spec => []EffectsHonest
<1>1. Init => Typed /\ EffectsKnown
    BY TypeInit, NewBootTyped DEF Init, EffectsKnown
<1>2. (Typed /\ EffectsKnown) /\ [Next]_vars => (Typed /\ EffectsKnown)'
    BY TypeNext, EffectsNext
<1>3. EffectsKnown => EffectsHonest
    BY DEF EffectsKnown, EffectsHonest, Running
<1> QED BY <1>1, <1>2, <1>3, PTL DEF Spec

-----------------------------------------------------------------------------
(* Operator commands that do not overlap *)

\* A caller that may open an epoch.
Opening(b) == boot[b].pc \in {"stage", "opening", "mark"} \/ (boot[b].pc = "open" /\ marker = 0)

Serial ==
    /\ \A b, c \in Boots : b # c /\ Running(b) /\ Running(c) => Mine(b) # Mine(c)
    /\ sd.pc # "idle" => \A b \in Boots : ~Running(b)
    /\ \A b, c \in Boots : b # c /\ Opening(b) => ~Running(c)

\* The caller that opens an epoch has put the epoch's queue there before it
\* marks it, and nothing is marked until then.
QueueOf(b) == /\ boot[b].pc \in {"stage", "opening", "mark"} => marker = 0
              /\ boot[b].pc \in {"opening", "mark"} => queue.epoch = boot[b].ep

QueueInv == Serial /\ QueueOfMarkedEpoch /\ \A b \in Boots : QueueOf(b)

\* One caller has moved, and only forward.
Moved(b) ==
    /\ Running(b) /\ sd' = sd
    /\ \A c \in Boots : c # b => boot'[c] = boot[c]
    /\ Opening(b)' => Opening(b)
    /\ marker' = marker \/ marker' # 0
    /\ QueueOf(b)' /\ QueueOfMarkedEpoch'

LEMMA MovedOn ==
    ASSUME QueueInv, NEW b \in Boots, Moved(b)
    PROVE  QueueInv'
<1>1. \A c \in Boots : Running(c)' => Running(c)
    BY DEF Moved, Running
<1>2. \A c \in Boots : Opening(c)' => Opening(c)
    BY DEF Moved, Opening
<1>3. Serial'
    BY <1>1, <1>2 DEF QueueInv, Serial, Moved
<1>4. ASSUME NEW c \in Boots, c # b PROVE QueueOf(c)'
  <2>1. ~Opening(c) /\ boot'[c] = boot[c]
    BY <1>4 DEF QueueInv, Serial, Moved
  <2> QED BY <2>1 DEF QueueOf, Opening
<1> QED BY <1>3, <1>4 DEF QueueInv, Moved

LEMMA GoFields ==
    ASSUME Typed, NEW b \in Boots, NEW p, Go(b, p)
    PROVE  /\ boot'[b].pc = p /\ boot'[b].ep = boot[b].ep /\ boot'[b].fresh = boot[b].fresh
           /\ \A c \in Boots : c # b => boot'[c] = boot[c]
BY DEF Typed, TypeOK, BootRecord, Go, Set

LEMMA SetFields ==
    ASSUME Typed, NEW b \in Boots, NEW r, Set(b, r)
    PROVE  boot'[b] = r /\ \A c \in Boots : c # b => boot'[c] = boot[c]
BY DEF Typed, TypeOK, Set

LEMMA FailFields ==
    ASSUME Typed, NEW b \in Boots, NEW made, NEW proven, Report(b, made, proven)
    PROVE  boot'[b].pc = "idle" /\ \A c \in Boots : c # b => boot'[c] = boot[c]
BY DEF Typed, TypeOK, Report, Set, NewBoot

\* The positions of bootstrap from which no epoch is opened.
Opened == {"idle", "activate", "list", "check", "exists", "add", "undo", "material", "publish",
           "read_active", "write_active"}

LEMMA MovedPastOpening ==
    ASSUME QueueInv, NEW b \in Boots, Running(b), sd' = sd, marker' = marker, queue' = queue,
           \A c \in Boots : c # b => boot'[c] = boot[c], boot'[b].pc \in Opened
    PROVE  QueueInv'
<1>1. ~Opening(b)' /\ QueueOf(b)'
    BY DEF Opening, QueueOf, Opened
<1>2. QueueOfMarkedEpoch'
    BY DEF QueueInv, QueueOfMarkedEpoch
<1> QED BY <1>1, <1>2, MovedOn DEF Moved

LEMMA PastOpening ==
    ASSUME Typed, NEW b \in Boots,
           \/ WriteActive(b) \/ EmptyList(b) \/ CheckLane(b) \/ CheckTree(b) \/ AddTree(b)
           \/ RollBack(b) \/ Material(b) \/ PublishFails(b) \/ Publish(b) \/ ReadActive(b)
           \/ AppendActive(b)
    PROVE  boot'[b].pc \in Opened /\ \A c \in Boots : c # b => boot'[c] = boot[c]
<1> DEFINE Past == boot'[b].pc \in Opened /\ \A c \in Boots : c # b => boot'[c] = boot[c]
<1>1. \A p \in Opened : Go(b, p) => Past
    BY GoFields
<1>2. \A made, proven : Report(b, made, proven) => Past
    BY FailFields DEF Opened
<1>3. \A proven : Fail(b, proven) => Past
    BY <1>2 DEF Fail
<1>4. \A r : Set(b, r) /\ r.pc \in Opened => Past
    BY SetFields
<1>5. boot[b] \in BootRecord
    BY DEF Typed, TypeOK
<1> SUFFICES Past
    OBVIOUS
<1> HIDE DEF Past
<1>6. CASE WriteActive(b) \/ Material(b) \/ PublishFails(b)
    BY <1>1, <1>6 DEF WriteActive, SetEpoch, Material, PublishFails, Opened
<1>7. CASE CheckLane(b)
    BY <1>1, <1>3, <1>7 DEF CheckLane, Opened
<1>8. CASE EmptyList(b)
    BY <1>1, <1>8 DEF EmptyList, WriteLanes, Go, Opened
<1>9. CASE CheckTree(b)
  <2>1. [boot[b] EXCEPT !.pc = "add", !.fresh = branch[Mine(b)] = None].pc \in Opened
    BY <1>5 DEF BootRecord, Opened
  <2> QED BY <1>3, <1>4, <1>9, <2>1 DEF CheckTree
<1>10. CASE AddTree(b)
  <2>1. ASSUME NEW p \in {"material", "undo"}, NEW m, Made(b, p, m) PROVE Past
    <3>1. [boot[b] EXCEPT !.pc = p, !.made = m].pc \in Opened
      BY <1>5 DEF BootRecord, Opened
    <3> QED BY <1>4, <2>1, <3>1 DEF Made
  <2> QED BY <1>3, <1>10, <2>1 DEF AddTree
<1>11. CASE RollBack(b)
    BY <1>2, <1>11 DEF RollBack
<1>12. CASE Publish(b)
  <2>1. [boot[b] EXCEPT !.pc = "read_active", !.made = @ \cup {"lane"}].pc \in Opened
    BY <1>5 DEF BootRecord, Opened
  <2> QED BY <1>4, <1>12, <2>1 DEF Publish
<1>13. CASE ReadActive(b)
  <2>1. [boot[b] EXCEPT !.pc = "write_active", !.seen = active[boot[b].ep]].pc \in Opened
    BY <1>5 DEF BootRecord, Opened
  <2> QED BY <1>3, <1>4, <1>13, <2>1 DEF ReadActive
<1>14. CASE AppendActive(b)
    BY <1>4, <1>14, NewBootTyped DEF AppendActive, WriteLanes, Opened
<1> QED BY <1>6, <1>7, <1>8, <1>9, <1>10, <1>11, <1>12, <1>13, <1>14

LEMMA QueueByBoot ==
    ASSUME Typed, QueueInv, NEW b \in Boots, Bootstrap(b) \/ BootDies(b)
    PROVE  QueueInv'
<1>1. CASE BootDies(b)
    BY <1>1, SetFields, MovedPastOpening, NewBootTyped DEF BootDies, records, Opened
<1>2. CASE OpenEpoch(b)
  <2>1. boot[b].pc = "open" /\ UNCHANGED <<sd, marker, queue>> /\ Running(b)
    BY <1>2 DEF OpenEpoch, At, records, Running
  <2>2. ASSUME Fail(b, TRUE) PROVE QueueInv'
    BY <2>1, <2>2, FailFields, MovedPastOpening DEF Fail, Opened
  <2>3. ASSUME NEW p \in {"stage", "check"}, NEW e, Set(b, [boot[b] EXCEPT !.pc = p, !.ep = e]),
               p = "stage" => marker = 0
        PROVE  QueueInv'
    <3>1. boot'[b].pc = p /\ \A c \in Boots : c # b => boot'[c] = boot[c]
      BY <2>3 DEF Typed, TypeOK, BootRecord, Set
    <3>2. CASE p = "check"
      BY <2>1, <3>1, <3>2, MovedPastOpening DEF Opened
    <3>3. CASE p = "stage"
      <4>1. Opening(b) /\ QueueOf(b)' /\ QueueOfMarkedEpoch'
        BY <2>1, <2>3, <3>1, <3>3 DEF Opening, QueueOf, QueueInv, QueueOfMarkedEpoch
      <4> QED BY <2>1, <3>1, <4>1, MovedOn DEF Moved
    <3> QED BY <3>2, <3>3
  <2>4. \/ Fail(b, TRUE)
        \/ Set(b, [boot[b] EXCEPT !.pc = "check", !.ep = marker])
        \/ marker = 0 /\ \E e \in Epochs : Set(b, [boot[b] EXCEPT !.pc = "stage", !.ep = e])
    BY <1>2 DEF OpenEpoch
  <2>5. CASE Set(b, [boot[b] EXCEPT !.pc = "check", !.ep = marker])
    BY <2>3, <2>5
  <2>6. ASSUME marker = 0, NEW e \in Epochs, Set(b, [boot[b] EXCEPT !.pc = "stage", !.ep = e])
        PROVE  QueueInv'
    BY <2>3, <2>6
  <2> QED BY <2>2, <2>4, <2>5, <2>6
<1>3. CASE StageQueue(b)
  <2>1. /\ boot[b].pc = "stage" /\ Go(b, "opening") /\ UNCHANGED <<sd, marker>>
        /\ queue'.epoch = boot[b].ep
    BY <1>3 DEF StageQueue, At
  <2>2. marker = 0
    BY <2>1 DEF QueueInv, QueueOf
  <2>3. Running(b) /\ Opening(b) /\ QueueOf(b)' /\ QueueOfMarkedEpoch'
    BY <2>1, <2>2, GoFields DEF Running, Opening, QueueOf, QueueOfMarkedEpoch
  <2> QED BY <2>1, <2>3, GoFields, MovedOn DEF Moved
<1>4. CASE WriteOpening(b)
  <2>1. /\ boot[b].pc = "opening" /\ Go(b, "mark") /\ UNCHANGED <<sd, marker, queue>>
    BY <1>4 DEF WriteOpening, SetEpoch, At
  <2>2. Running(b) /\ Opening(b) /\ QueueOf(b)' /\ QueueOfMarkedEpoch'
    BY <2>1, GoFields DEF Running, Opening, QueueInv, QueueOf, QueueOfMarkedEpoch
  <2> QED BY <2>1, <2>2, GoFields, MovedOn DEF Moved
<1>5. CASE WriteMarker(b)
  <2>1. /\ boot[b].pc = "mark" /\ Go(b, "activate") /\ UNCHANGED <<sd, queue>>
        /\ marker' = boot[b].ep
    BY <1>5 DEF WriteMarker, At
  <2>2. marker' # 0 /\ queue.epoch = boot[b].ep
    BY <1>5, <2>1, EpochAt, BoundsAssumption DEF QueueInv, QueueOf, WriteMarker, Epochs
  <2>3. Running(b) /\ Opening(b) /\ QueueOf(b)' /\ QueueOfMarkedEpoch'
    BY <2>1, <2>2, GoFields DEF Running, Opening, QueueOf, QueueOfMarkedEpoch
  <2> QED BY <2>1, <2>2, <2>3, GoFields, MovedOn DEF Moved
<1>6. CASE \/ WriteActive(b) \/ EmptyList(b) \/ CheckLane(b) \/ CheckTree(b) \/ AddTree(b)
           \/ RollBack(b) \/ Material(b) \/ PublishFails(b) \/ Publish(b) \/ ReadActive(b)
           \/ AppendActive(b)
  <2>1. Running(b) /\ UNCHANGED <<sd, marker, queue>>
    BY <1>6 DEF WriteActive, SetEpoch, EmptyList, CheckLane, CheckTree, AddTree, RollBack, Material,
                PublishFails, Publish, ReadActive, AppendActive, WriteLanes, records, Running, At
  <2>2. boot'[b].pc \in Opened /\ \A c \in Boots : c # b => boot'[c] = boot[c]
    BY <1>6, PastOpening
  <2> QED BY <2>1, <2>2, MovedPastOpening
<1> QED BY <1>1, <1>2, <1>3, <1>4, <1>5, <1>6 DEF Bootstrap

LEMMA QueueByEnter ==
    ASSUME ~Overlapping, Typed, QueueInv, NEW b \in Boots, Enter(b)
    PROVE  QueueInv'
<1>1. /\ ~Running(b) /\ sd.pc = "idle" /\ UNCHANGED <<sd, marker, queue>>
      /\ \A c \in Boots : c # b /\ Running(c) => Mine(c) # Mine(b) /\ marker # 0
    BY DEF Enter, MayEnter, At, Running, records
<1>2. boot'[b].pc = "open" /\ \A c \in Boots : c # b => boot'[c] = boot[c]
  <2> DEFINE r == [NewBoot EXCEPT !.pc = "open"]
  <2>1. r.pc = "open" /\ Set(b, r)
    BY DEF Enter, NewBoot
  <2> HIDE DEF r
  <2> QED BY <2>1, SetFields
<1>3. \A c \in Boots : c # b => (Running(c)' => Running(c)) /\ (Opening(c)' => Opening(c))
    BY <1>1, <1>2 DEF Running, Opening
<1>4. \A c \in Boots : c # b => ~Opening(c)
    BY <1>1 DEF Opening, QueueInv, QueueOf, Running
<1>5. Opening(b)' => \A c \in Boots : c # b => ~Running(c)
    BY <1>1, <1>2 DEF Opening
<1>6. Serial'
  <2>1. ASSUME NEW c \in Boots, NEW d \in Boots, c # d, Running(c)', Running(d)'
        PROVE  Mine(c) # Mine(d)
    <3>1. CASE c # b /\ d # b
      BY <1>3, <2>1, <3>1 DEF QueueInv, Serial
    <3>2. CASE c = b \/ d = b
      BY <1>1, <1>3, <2>1, <3>2
    <3> QED BY <3>1, <3>2
  <2>2. ASSUME NEW c \in Boots, NEW d \in Boots, c # d, Opening(c)'
        PROVE  ~Running(d)'
    <3>1. c = b
      BY <1>3, <1>4, <2>2
    <3> QED BY <1>3, <1>5, <2>2, <3>1
  <2> QED BY <1>1, <2>1, <2>2 DEF Serial, Mine
<1>7. \A c \in Boots : QueueOf(c)'
    BY <1>1, <1>2 DEF QueueInv, QueueOf
<1> QED BY <1>1, <1>6, <1>7 DEF QueueInv, QueueOfMarkedEpoch

LEMMA QueueByOthers ==
    ASSUME ~Overlapping, Typed, QueueInv,
           \/ MonitorPass \/ MonPromote \/ MonDies \/ Setup \/ SdBegin \/ Shutdown \/ SdDies
           \/ UNCHANGED vars \/ \E l \in Lanes : Resolve(l) \/ LaneRuns(l)
    PROVE  QueueInv'
<1>1. boot' = boot
    BY OthersKeepBoots
<1>2. sd'.pc # "idle" => \A b \in Boots : ~Running(b)
  <2>1. CASE SdBegin
    BY <2>1 DEF SdBegin
  <2>2. CASE SdDies \/ Shutdown
    <3>1. sd.pc # "idle"
      BY <2>2 DEF SdDies, Shutdown, SdDeclare, SdLanes, SdUnlist, SdUnmark, SdClose,
                  SdStopMonitor, SdMonitorUnproven, SdFinish, SdSkip, SdRefuses, SdRetire
    <3> QED BY <3>1 DEF QueueInv, Serial
  <2>3. CASE MonitorPass \/ MonPromote \/ MonDies \/ Setup \/ UNCHANGED vars
    BY <2>3 DEF MonitorPass, MonRead, MonReconcile, MonPassEnds, MonPromote, MonDies, Setup,
                vars, QueueInv, Serial
  <2>4. CASE \E l \in Lanes : Resolve(l) \/ LaneRuns(l)
    BY <2>4 DEF Resolve, LaneRuns, QueueInv, Serial
  <2> QED BY <2>1, <2>2, <2>3, <2>4
<1>3. queue'.epoch = queue.epoch
  <2>1. CASE MonPromote \/ \E l \in Lanes : Resolve(l)
    BY <2>1 DEF MonPromote, Resolve, Typed, TypeOK
  <2>2. CASE MonitorPass \/ MonDies \/ Setup \/ UNCHANGED vars \/ \E l \in Lanes : LaneRuns(l)
    BY <2>2 DEF MonitorPass, MonRead, MonReconcile, MonPassEnds, MonDies, Setup, LaneRuns,
                vars, records
  <2>3. CASE SdBegin \/ Shutdown \/ SdDies
    BY <2>3 DEF SdBegin, Shutdown, SdDies, SdDeclare, SdLanes, SdUnlist, SdUnmark, SdClose,
                SdStopMonitor, SdMonitorUnproven, SdFinish, SdSkip, SdRefuses, SdRetire,
                SetState, records
  <2> QED BY <2>1, <2>2, <2>3
<1>4. marker' = marker \/ (marker' = 0 /\ \A b \in Boots : ~Running(b))
  <2>1. CASE SdUnmark
    BY <2>1 DEF SdUnmark, QueueInv, Serial
  <2>2. CASE MonitorPass \/ MonPromote \/ MonDies \/ Setup \/ UNCHANGED vars
             \/ \E l \in Lanes : Resolve(l) \/ LaneRuns(l)
    BY <2>2 DEF MonitorPass, MonRead, MonReconcile, MonPassEnds, MonPromote, MonDies, Setup,
                Resolve, LaneRuns, vars, records
  <2>3. CASE SdBegin \/ (Shutdown /\ ~SdUnmark) \/ SdDies
    BY <2>3 DEF SdBegin, Shutdown, SdDies, SdDeclare, SdLanes, SdUnlist, SdClose,
                SdStopMonitor, SdMonitorUnproven, SdFinish, SdSkip, SdRefuses, SdRetire,
                SetState, records
  <2> QED BY <2>1, <2>2, <2>3
<1>5. CASE marker' = marker
  <2>1. Serial'
    BY <1>1, <1>2, <1>5 DEF QueueInv, Serial, Running, Opening, Mine
  <2> QED BY <1>1, <1>3, <1>5, <2>1 DEF QueueInv, QueueOf, QueueOfMarkedEpoch
<1>6. CASE marker' = 0 /\ \A b \in Boots : ~Running(b)
    BY <1>1, <1>6 DEF QueueInv, Serial, Running, Opening, QueueOf, QueueOfMarkedEpoch
<1> QED BY <1>4, <1>5, <1>6

LEMMA QueueNext == ASSUME ~Overlapping PROVE Typed /\ QueueInv /\ [Next]_vars => QueueInv'
BY QueueByBoot, QueueByEnter, QueueByOthers DEF Next, Crashes

LEMMA QueueInit == Init => QueueInv
<1> SUFFICES ASSUME Init PROVE QueueInv
    OBVIOUS
<1>1. marker = 0 /\ sd.pc = "idle" /\ \A b \in Boots : boot[b].pc = "idle"
    BY NewBootTyped DEF Init, SdIdle
<1> QED BY <1>1 DEF QueueInv, Serial, Running, Opening, QueueOf, QueueOfMarkedEpoch

(* Where operator commands do not overlap, the queue is the current epoch's:  *)
(* whatever died while an epoch was opened or closed, no promotion, no        *)
(* acknowledgement and no shutdown check meets another epoch's queue          *)
(* (QueueOfMarkedEpoch).                                                      *)
THEOREM QueueOfCurrentEpoch == ASSUME ~Overlapping PROVE Spec => []QueueOfMarkedEpoch
<1>1. Init => Typed /\ QueueInv
    BY TypeInit, QueueInit
<1>2. (Typed /\ QueueInv) /\ [Next]_vars => (Typed /\ QueueInv)'
    BY TypeNext, QueueNext
<1>3. QueueInv => QueueOfMarkedEpoch
    BY DEF QueueInv
<1> QED BY <1>1, <1>2, <1>3, PTL DEF Spec

-----------------------------------------------------------------------------
(* A published lane keeps its worktree *)

\* What a caller found, or made, is still so at its next step.
NotPublished(l) == \A e \in Epochs : lane[e][l].st = "none"
TreeOf(b) ==
    /\ boot[b].pc = "add" => /\ tree[boot[b].ep][Mine(b)] = None
                             /\ boot[b].fresh => branch[Mine(b)] = None
    /\ boot[b].pc \in {"undo", "material", "publish"} => NotPublished(Mine(b))
    /\ boot[b].pc \in {"material", "publish"} => /\ tree[boot[b].ep][Mine(b)] = b
                                                 /\ branch[Mine(b)] = b

HasTree(l) == \A e \in Epochs : lane[e][l].st # "none" =>
                  /\ lane[e][l].by \in Boots
                  /\ tree[e][l] = lane[e][l].by /\ branch[l] = lane[e][l].by

TreeInv == (\A b \in Boots : TreeOf(b)) /\ (\A l \in Lanes : HasTree(l))

\* A caller works on its own lane's worktree, branch and record.
LEMMA OwnLaneOnly ==
    ASSUME Typed, Serial, TreeInv, NEW b \in Boots, Running(b),
           \A c \in Boots : c # b => boot'[c] = boot[c],
           \A l \in Lanes : l # Mine(b) =>
              /\ branch'[l] = branch[l]
              /\ \A e \in Epochs : tree'[e][l] = tree[e][l] /\ lane'[e][l] = lane[e][l],
           TreeOf(b)', HasTree(Mine(b))'
    PROVE  TreeInv'
<1>1. ASSUME NEW l \in Lanes PROVE HasTree(l)'
    BY DEF TreeInv, HasTree, Mine
<1>2. ASSUME NEW c \in Boots, c # b PROVE TreeOf(c)'
  <2>1. CASE Running(c)
    <3>1. Mine(c) # Mine(b) /\ Mine(c) \in Lanes /\ boot'[c] = boot[c]
      BY <1>2, <2>1, LaneIdsKnown DEF Serial
    <3>2. boot[c].pc \notin {"idle", "open"} => boot[c].ep \in Epochs
      BY DEF Typed, EpochKnown
    <3>3. NotPublished(Mine(c)) => NotPublished(Mine(c))'
      BY <3>1 DEF NotPublished, Mine
    <3> QED BY <3>1, <3>2, <3>3 DEF TreeInv, TreeOf, Mine
  <2>2. CASE ~Running(c)
    BY <1>2, <2>2 DEF TreeOf, Running
  <2> QED BY <2>1, <2>2
<1> QED BY <1>1, <1>2 DEF TreeInv

LEMMA UntouchedTrees ==
    ASSUME Typed, Serial, TreeInv, NEW b \in Boots, Running(b),
           \A c \in Boots : c # b => boot'[c] = boot[c],
           UNCHANGED <<lane, tree, branch>>, TreeOf(b)'
    PROVE  TreeInv'
<1>1. HasTree(Mine(b))'
    BY LaneIdsKnown DEF TreeInv, HasTree, Mine
<1> QED BY <1>1, OwnLaneOnly

\* What one worktree and one branch leave of the others.
LEMMA OtherTrees ==
    ASSUME Typed, NEW e \in Epochs, NEW l \in Lanes, NEW who,
           tree' = tree \/ tree' = [tree EXCEPT ![e][l] = who],
           branch' = branch \/ branch' = [branch EXCEPT ![l] = who],
           lane' = lane
    PROVE  \A m \in Lanes : m # l =>
              /\ branch'[m] = branch[m]
              /\ \A d \in Epochs : tree'[d][m] = tree[d][m] /\ lane'[d][m] = lane[d][m]
BY DEF Typed, TypeOK

\* The steps of bootstrap that neither look at nor touch a worktree.
LEMMA QuietSteps ==
    ASSUME Typed, NEW b \in Boots,
           \/ BootDies(b) \/ OpenEpoch(b) \/ StageQueue(b) \/ WriteOpening(b) \/ WriteMarker(b)
           \/ WriteActive(b) \/ EmptyList(b) \/ CheckLane(b) \/ ReadActive(b) \/ AppendActive(b)
    PROVE  /\ boot'[b].pc \notin {"add", "undo", "material", "publish"}
           /\ \A c \in Boots : c # b => boot'[c] = boot[c]
<1> DEFINE Quiet == /\ boot'[b].pc \notin {"add", "undo", "material", "publish"}
                    /\ \A c \in Boots : c # b => boot'[c] = boot[c]
<1>1. \A p \in {"opening", "mark", "activate", "list", "check", "exists"} : Go(b, p) => Quiet
    BY GoFields
<1>2. \A proven : Fail(b, proven) => Quiet
    BY FailFields DEF Fail
<1>3. \A r : Set(b, r) /\ r.pc \in {"idle", "stage", "check", "write_active"} => Quiet
    BY SetFields
<1>4. boot[b] \in BootRecord
    BY DEF Typed, TypeOK
<1> SUFFICES Quiet
    OBVIOUS
<1> HIDE DEF Quiet
<1>5. CASE BootDies(b) \/ AppendActive(b)
    BY <1>3, <1>5, NewBootTyped DEF BootDies, AppendActive, WriteLanes
<1>6. CASE OpenEpoch(b)
  <2>1. ASSUME NEW p \in {"stage", "check"}, NEW e, Set(b, [boot[b] EXCEPT !.pc = p, !.ep = e])
        PROVE  Quiet
    <3>1. [boot[b] EXCEPT !.pc = p, !.ep = e].pc = p
      BY <1>4 DEF BootRecord
    <3> QED BY <1>3, <2>1, <3>1
  <2> QED BY <1>2, <1>6, <2>1 DEF OpenEpoch
<1>7. CASE StageQueue(b) \/ WriteOpening(b) \/ WriteMarker(b) \/ WriteActive(b)
    BY <1>1, <1>7 DEF StageQueue, WriteOpening, WriteMarker, WriteActive, SetEpoch
<1>8. CASE EmptyList(b)
    BY <1>1, <1>8 DEF EmptyList, WriteLanes, Go
<1>9. CASE CheckLane(b)
    BY <1>1, <1>2, <1>9 DEF CheckLane
<1>10. CASE ReadActive(b)
  <2>1. [boot[b] EXCEPT !.pc = "write_active", !.seen = active[boot[b].ep]].pc = "write_active"
    BY <1>4 DEF BootRecord
  <2> QED BY <1>2, <1>3, <1>10, <2>1 DEF ReadActive
<1> QED BY <1>5, <1>6, <1>7, <1>8, <1>9, <1>10

\* git worktree add -b succeeds only where the branch is absent: no lane of this
\* id was ever published, for its branch would be there.
LEMMA TreeByAdd ==
    ASSUME Typed, Serial, TreeInv, NEW b \in Boots, AddTree(b)
    PROVE  TreeInv'
<1> DEFINE e == boot[b].ep
           l == Mine(b)
           free == branch[l] = None /\ tree[e][l] = None
<1>1. boot[b].pc = "add" /\ Running(b) /\ lane' = lane /\ e \in Epochs /\ l \in Lanes
    BY EpochAt, LaneIdsKnown DEF AddTree, At, Running
<1>2. tree[e][l] = None /\ (boot[b].fresh => branch[l] = None)
    BY <1>1 DEF TreeInv, TreeOf
<1>3. CASE free
  <2>1. NotPublished(l)
    BY <1>1, <1>3, NoneAssumption DEF TreeInv, HasTree, NotPublished
  <2>2. /\ branch' = [branch EXCEPT ![l] = b]
        /\ \/ /\ tree' = [tree EXCEPT ![e][l] = b]
              /\ \E p \in {"material", "undo"} : Made(b, p, {"tree", "branch"})
           \/ tree' = tree /\ Made(b, "undo", {"branch"})
    BY <1>3 DEF AddTree
  <2>3. /\ \A c \in Boots : c # b => boot'[c] = boot[c]
        /\ boot'[b].ep = e /\ boot'[b].pc \in {"material", "undo"}
        /\ boot'[b].pc = "material" => tree' = [tree EXCEPT ![e][l] = b]
    <3>1. \A p, m : Made(b, p, m) => /\ boot'[b].pc = p /\ boot'[b].ep = e
                                     /\ \A c \in Boots : c # b => boot'[c] = boot[c]
      BY DEF Made, Set, Typed, TypeOK, BootRecord
    <3> QED BY <2>2, <3>1
  <2>4. branch'[l] = b /\ (boot'[b].pc = "material" => tree'[e][l] = b)
    BY <1>1, <2>2, <2>3 DEF Typed, TypeOK
  <2>5. TreeOf(b)' /\ HasTree(l)'
    BY <1>1, <2>1, <2>3, <2>4 DEF TreeOf, HasTree, NotPublished, Mine
  <2>6. tree' = tree \/ tree' = [tree EXCEPT ![e][l] = b]
    BY <2>2
  <2>7. \A m \in Lanes : m # l =>
           /\ branch'[m] = branch[m]
           /\ \A d \in Epochs : tree'[d][m] = tree[d][m] /\ lane'[d][m] = lane[d][m]
    BY <1>1, <2>2, <2>6, OtherTrees
  <2> HIDE DEF e, free
  <2> QED BY <1>1, <2>3, <2>5, <2>7, OwnLaneOnly
<1>4. CASE ~free
  <2>1. UNCHANGED <<tree, branch>> /\ \E proven : Fail(b, proven)
    BY <1>2, <1>4 DEF AddTree
  <2>2. boot'[b].pc = "idle" /\ \A c \in Boots : c # b => boot'[c] = boot[c]
    BY <2>1, FailFields DEF Fail
  <2> QED BY <1>1, <2>1, <2>2, UntouchedTrees DEF TreeOf
<1> QED BY <1>3, <1>4

LEMMA TreeByBoot ==
    ASSUME Typed, Serial, TreeInv, NEW b \in Boots, Bootstrap(b) \/ BootDies(b)
    PROVE  TreeInv'
<1>1. CASE \/ BootDies(b) \/ OpenEpoch(b) \/ StageQueue(b) \/ WriteOpening(b) \/ WriteMarker(b)
           \/ WriteActive(b) \/ EmptyList(b) \/ CheckLane(b) \/ ReadActive(b) \/ AppendActive(b)
  <2>1. Running(b) /\ UNCHANGED <<lane, tree, branch>>
    BY <1>1 DEF BootDies, OpenEpoch, StageQueue, WriteOpening, WriteMarker, WriteActive, SetEpoch,
                EmptyList, CheckLane, ReadActive, AppendActive, WriteLanes, records, Running, At
  <2>2. /\ boot'[b].pc \notin {"add", "undo", "material", "publish"}
        /\ \A c \in Boots : c # b => boot'[c] = boot[c]
    BY <1>1, QuietSteps
  <2>3. TreeOf(b)'
    BY <2>2 DEF TreeOf
  <2> QED BY <2>1, <2>2, <2>3, UntouchedTrees
<1>2. CASE CheckTree(b)
  <2>1. boot[b].pc = "exists" /\ Running(b) /\ UNCHANGED <<lane, tree, branch>>
    BY <1>2 DEF CheckTree, At, Running, records
  <2>2. CASE Fail(b, TRUE)
    <3>1. boot'[b].pc = "idle" /\ \A c \in Boots : c # b => boot'[c] = boot[c]
      BY <2>2, FailFields DEF Fail
    <3> QED BY <2>1, <3>1, UntouchedTrees DEF TreeOf
  <2>3. CASE /\ tree[boot[b].ep][Mine(b)] = None
             /\ Set(b, [boot[b] EXCEPT !.pc = "add", !.fresh = branch[Mine(b)] = None])
    <3>1. /\ boot'[b].pc = "add" /\ boot'[b].ep = boot[b].ep
          /\ boot'[b].fresh = (branch[Mine(b)] = None)
          /\ \A c \in Boots : c # b => boot'[c] = boot[c]
      BY <2>3 DEF Set, Typed, TypeOK, BootRecord
    <3>2. TreeOf(b)'
      BY <2>1, <2>3, <3>1 DEF TreeOf, Mine
    <3> QED BY <2>1, <3>1, <3>2, UntouchedTrees
  <2> QED BY <1>2, <2>2, <2>3 DEF CheckTree
<1>3. CASE Material(b) \/ PublishFails(b)
  <2>1. /\ boot[b].pc \in {"material", "publish"} /\ Running(b) /\ UNCHANGED <<lane, tree, branch>>
        /\ (Go(b, "publish") /\ boot[b].pc = "material") \/ Go(b, "undo")
    BY <1>3 DEF Material, PublishFails, At, Running, records
  <2>2. /\ boot'[b].pc \in {"publish", "undo"} /\ boot'[b].ep = boot[b].ep
        /\ \A c \in Boots : c # b => boot'[c] = boot[c]
    BY <2>1, GoFields
  <2>3. TreeOf(b)'
    BY <2>1, <2>2 DEF TreeInv, TreeOf, NotPublished, Mine
  <2> QED BY <2>1, <2>2, <2>3, UntouchedTrees
<1>4. CASE AddTree(b)
    BY <1>4, TreeByAdd
<1>5. CASE RollBack(b)
  <2> DEFINE e == boot[b].ep
             l == Mine(b)
  <2>1. /\ boot[b].pc = "undo" /\ Running(b) /\ lane' = lane
        /\ tree' = tree \/ tree' = [tree EXCEPT ![e][l] = None]
        /\ branch' = branch \/ branch' = [branch EXCEPT ![l] = None]
    BY <1>5 DEF RollBack, At, Running
  <2>2. boot'[b].pc = "idle" /\ \A c \in Boots : c # b => boot'[c] = boot[c]
    BY <1>5, FailFields DEF RollBack
  <2>3. NotPublished(l)
    BY <2>1 DEF TreeInv, TreeOf
  <2>4. HasTree(l)' /\ TreeOf(b)'
    BY <2>1, <2>2, <2>3 DEF NotPublished, HasTree, TreeOf, Mine
  <2>5. e \in Epochs /\ l \in Lanes
    BY <1>5, EpochAt, LaneIdsKnown DEF RollBack
  <2>6. \A m \in Lanes : m # l =>
           /\ branch'[m] = branch[m]
           /\ \A d \in Epochs : tree'[d][m] = tree[d][m] /\ lane'[d][m] = lane[d][m]
    BY <2>1, <2>5, OtherTrees
  <2> HIDE DEF e
  <2> QED BY <2>1, <2>2, <2>4, <2>6, OwnLaneOnly
<1>6. CASE Publish(b)
  <2> DEFINE e == boot[b].ep
             l == Mine(b)
             record == [st |-> "prepared", by |-> b]
  <2>1. /\ boot[b].pc = "publish" /\ Running(b) /\ UNCHANGED <<tree, branch>>
        /\ lane' = [lane EXCEPT ![e][l] = record]
    BY <1>6 DEF Publish, At, Running
  <2>2. boot'[b].pc = "read_active" /\ \A c \in Boots : c # b => boot'[c] = boot[c]
    BY <1>6 DEF Publish, Set, Typed, TypeOK, BootRecord
  <2>3. NotPublished(l) /\ tree[e][l] = b /\ branch[l] = b
    BY <2>1 DEF TreeInv, TreeOf
  <2>4. e \in Epochs /\ l \in Lanes
    BY <1>6, EpochAt, LaneIdsKnown DEF Publish
  <2>5. /\ lane'[e][l] = record
        /\ \A d \in Epochs, m \in Lanes : d # e \/ m # l => lane'[d][m] = lane[d][m]
    BY <2>1, <2>4 DEF Typed, TypeOK
  <2>6. HasTree(l)'
    BY <2>1, <2>3, <2>4, <2>5 DEF NotPublished, HasTree, Mine
  <2>7. TreeOf(b)'
    BY <2>2 DEF TreeOf
  <2> HIDE DEF e, record
  <2> QED BY <2>1, <2>2, <2>5, <2>6, <2>7, OwnLaneOnly
<1> QED BY <1>1, <1>2, <1>3, <1>4, <1>5, <1>6 DEF Bootstrap

\* A lane record that changes its state and stays that of its bootstrap.
LEMMA TreesOfMovedLanes ==
    ASSUME Typed, TreeInv, UNCHANGED <<boot, tree, branch>>,
           \A e \in Epochs, l \in Lanes : /\ lane'[e][l].st = "none" <=> lane[e][l].st = "none"
                                         /\ lane'[e][l].by = lane[e][l].by
    PROVE  TreeInv'
<1>1. \A l \in Lanes : HasTree(l)'
    BY DEF TreeInv, HasTree
<1>2. \A b \in Boots : TreeOf(b)'
    BY LaneIdsKnown DEF TreeInv, TreeOf, NotPublished, Mine
<1> QED BY <1>1, <1>2 DEF TreeInv

LEMMA LaneMoves ==
    ASSUME Typed, NEW e \in Epochs, NEW l \in Lanes, NEW st, st # "none",
           lane[e][l].st # "none", lane' = [lane EXCEPT ![e][l].st = st]
    PROVE  \A d \in Epochs, m \in Lanes : /\ lane'[d][m].st = "none" <=> lane[d][m].st = "none"
                                         /\ lane'[d][m].by = lane[d][m].by
BY DEF Typed, TypeOK, LaneRecord

LEMMA TreeByOthers ==
    ASSUME Typed, TreeInv,
           \/ MonitorPass \/ MonPromote \/ MonDies \/ Setup \/ SdBegin \/ Shutdown \/ SdDies
           \/ UNCHANGED vars \/ \E l \in Lanes : Resolve(l) \/ LaneRuns(l)
    PROVE  TreeInv'
<1>1. boot' = boot
    BY OthersKeepBoots
<1>2. ASSUME NEW l \in Lanes, LaneRuns(l) PROVE TreeInv'
  <2>1. marker \in Epochs
    BY <1>2, BoundsAssumption DEF LaneRuns, Typed, TypeOK, Epochs
  <2>2. /\ lane[marker][l].st # "none" /\ lane' = [lane EXCEPT ![marker][l].st = "clean"]
        /\ UNCHANGED <<tree, branch>>
    BY <1>2 DEF LaneRuns
  <2> QED BY <1>1, <2>1, <2>2, LaneMoves, TreesOfMovedLanes
<1>3. ASSUME NEW l \in Lanes, SdRetire(l) PROVE TreeInv'
  <2>1. sd.ep \in Epochs
    BY <1>3 DEF SdRetire, Typed, EpochKnown
  <2>2. /\ lane[sd.ep][l].st # "none" /\ lane' = [lane EXCEPT ![sd.ep][l].st = "retired"]
        /\ UNCHANGED <<tree, branch>>
    BY <1>3 DEF SdRetire
  <2> QED BY <1>1, <2>1, <2>2, LaneMoves, TreesOfMovedLanes
<1>4. CASE UNCHANGED <<lane, tree, branch>>
    BY <1>1, <1>4, TreesOfMovedLanes
<1>5. \/ UNCHANGED <<lane, tree, branch>>
      \/ \E l \in Lanes : LaneRuns(l) \/ SdRetire(l)
  <2>1. CASE MonitorPass \/ MonPromote \/ MonDies \/ Setup \/ UNCHANGED vars
             \/ \E l \in Lanes : Resolve(l)
    BY <2>1 DEF MonitorPass, MonRead, MonReconcile, MonPassEnds, MonPromote, MonDies, Setup,
                Resolve, vars, records
  <2>2. CASE SdBegin \/ (Shutdown /\ ~\E l \in Lanes : SdRetire(l)) \/ SdDies
    BY <2>2 DEF SdBegin, Shutdown, SdDies, SdDeclare, SdLanes, SdUnlist, SdUnmark, SdClose,
                SdStopMonitor, SdMonitorUnproven, SdFinish, SdSkip, SdRefuses, SetState, records
  <2> QED BY <2>1, <2>2
<1> QED BY <1>2, <1>3, <1>4, <1>5

LEMMA TreeByEnter ==
    ASSUME Typed, TreeInv, NEW b \in Boots, Enter(b)
    PROVE  TreeInv'
<1>1. UNCHANGED <<lane, tree, branch>>
    BY DEF Enter, records
<1>2. boot'[b].pc = "open" /\ \A c \in Boots : c # b => boot'[c] = boot[c]
  <2> DEFINE r == [NewBoot EXCEPT !.pc = "open"]
  <2>1. r.pc = "open" /\ Set(b, r)
    BY DEF Enter, NewBoot
  <2> HIDE DEF r
  <2> QED BY <2>1, SetFields
<1>3. \A l \in Lanes : HasTree(l)'
    BY <1>1 DEF TreeInv, HasTree
<1>4. \A c \in Boots : TreeOf(c)'
    BY <1>1, <1>2 DEF TreeInv, TreeOf, NotPublished, Mine
<1> QED BY <1>3, <1>4 DEF TreeInv

LEMMA TreeNext == Typed /\ Serial /\ TreeInv /\ [Next]_vars => TreeInv'
BY TreeByBoot, TreeByOthers, TreeByEnter DEF Next, Crashes

LEMMA TreeInit == Init => TreeInv
<1> SUFFICES ASSUME Init PROVE TreeInv
    OBVIOUS
<1>1. \A e \in Epochs, l \in Lanes : lane[e][l].st = "none"
    BY DEF Init, NoLane
<1>2. \A b \in Boots : boot[b].pc = "idle"
    BY NewBootTyped DEF Init
<1> QED BY <1>1, <1>2 DEF TreeInv, TreeOf, HasTree

(* Where operator commands do not overlap, a lane that was published has the   *)
(* worktree and the branch its own bootstrap made: no rollback of a later      *)
(* bootstrap of the same lane id, in this epoch or another, removes them       *)
(* (PublishedHasTree).                                                         *)
THEOREM PublishedLanesHaveTrees == ASSUME ~Overlapping PROVE Spec => []PublishedHasTree
<1>1. Init => Typed /\ QueueInv /\ TreeInv
    BY TypeInit, QueueInit, TreeInit
<1>2. (Typed /\ QueueInv /\ TreeInv) /\ [Next]_vars => (Typed /\ QueueInv /\ TreeInv)'
    BY TypeNext, QueueNext, TreeNext DEF QueueInv
<1>3. TreeInv => PublishedHasTree
    BY DEF TreeInv, HasTree, PublishedHasTree
<1> QED BY <1>1, <1>2, <1>3, PTL DEF Spec
=============================================================================

---------------------------- MODULE Setup_proofs ----------------------------
(***************************************************************************)
(* Proofs about `harness setup` (Setup), for every set of files, releases   *)
(* and payloads and every cache that may be there before: an interrupted    *)
(* setup is always recoverable and never without a whole cache, installing  *)
(* is atomic, what a run reports is so, and nothing of the user's is lost.  *)
(*                                                                          *)
(* CacheInv says, for every point where the process may stop, what is on    *)
(* the disk; PayloadInv what a run has found out and done about the         *)
(* payloads.  Fairness plays no part: all theorems are about safety.        *)
(***************************************************************************)
EXTENDS Setup, TLAPS

(* A tree none of whose bytes are those of an unfinished copy. *)
Sound(t) == t # Absent => \A f \in DOMAIN t : t[f] # Torn

(* The new tree after the machine stopped: its names, some bytes lost. *)
LostBytes(t) == /\ t \in Trees /\ OwnedNames(t, tx.target)
                /\ \E f \in DOMAIN t : t[f] = Torn

PriorKept == tx.previous # Absent /\ backup = tx.previous

(* What an open transaction may find on the disk. *)
OpenDisk ==
    /\ tx.previous # tx.target /\ Sound(tx.previous) /\ Sound(tx.target)
    /\ stage # Absent => OwnedNames(stage, tx.target)
    /\ \/ backup = Absent /\ live \in {tx.target, tx.previous}
       \/ PriorKept /\ (live \in {Absent, tx.target} \/ LostBytes(live))
       \/ /\ tx.previous # Absent /\ backup # Absent
          /\ OwnedBytes(backup, tx.previous) /\ live = tx.target

ClosedDisk == backup = Absent /\ stage = Absent /\ Sound(live)

(* The three stages of an installation that has not reached validation. *)
Staged == stage = Plan /\ live = tx.previous /\ backup = Absent /\ live # Absent
Retired == stage = Plan /\ live = Absent /\ backup = tx.previous
Promoted == stage = Absent /\ live = tx.target /\ backup = tx.previous

AtPc ==
    /\ pc = "begin" => ~Open /\ live # Plan
    /\ pc \in RecoveryPcs \cup InstallPcs => Open
    /\ pc \in InstallPcs => tx.target = Plan
    /\ pc = "isolate" => stage = Absent /\ PriorKept /\ LostBytes(live)
    /\ pc = "rm_isolated" => PriorKept /\ live = Absent
    /\ pc = "restore" => stage = Absent /\ PriorKept /\ live = Absent
    /\ pc = "rm_backup" => stage = Absent /\ backup # Absent /\ live = tx.target
    /\ pc = "finish" => stage = Absent /\ backup = Absent
    /\ pc = "mkdir" => live = tx.previous /\ backup = Absent /\ stage = Absent
    /\ pc = "copy" => live = tx.previous /\ backup = Absent /\ stage # Absent
    /\ pc = "retire" => Staged
    /\ pc = "promote" => Retired
    /\ pc = "validate" => Promoted
    /\ pc = "drop_backup" => stage = Absent /\ live = tx.target /\ backup # Absent
    /\ pc = "commit" => stage = Absent /\ live = tx.target /\ backup = Absent
    /\ pc = "undo_promote" => Staged \/ Retired \/ Promoted
    /\ pc = "undo_retire" => PriorKept /\ live = Absent

CacheInv == /\ CacheTypeOK
            /\ IF Open THEN OpenDisk ELSE ClosedDisk
            /\ AtPc


(* The form in which a run leaves a destination it is done with. *)
Done(p) == /\ p \in Plain => at[p] = P!Owned("shipped")
           /\ p \in Bindings => at[p].text \in {"shipped", "bound"}
           /\ p \in P!Shared => at[p].harness = "whole"

(* What preflight has accepted stays acceptable until it is that path's turn. *)
Accepted == phase \in {"inspect", "cache", "install"} =>
                \A p \in todo \ filling : ~P!Collides(p)

Written == phase \in {"install", "bind"} =>
               /\ ~Open /\ live = Plan
               /\ \A p \in P!Paths : (p \in todo /\ phase = "install") \/ Done(p)

Bound == phase = "bind" => \A p \in Bindings \ todo : at[p] = P!Owned("bound")

AtPhase == /\ pc # "idle" => phase = "cache"
           /\ phase \in {"idle", "preflight"} => todo = {}
           /\ phase \in {"inspect", "cache"} => todo = P!Paths
           /\ phase # "install" => filling = {}
           /\ \A p, q \in filling : p = q
           /\ phase = "bind" => todo \subseteq Bindings

PayloadInv == /\ P!PayloadTypeOK
              /\ AtPhase
              /\ Accepted
              /\ Written
              /\ Bound
              /\ \A p \in filling : at[p] = P!TornText(FALSE)
              /\ result # "late_collision"

SetupInv == CacheInv /\ PayloadInv
-----------------------------------------------------------------------------
(* Trees. *)

LEMMA TreeFacts ==
    ASSUME NEW t \in Trees
    PROVE  /\ DOMAIN t \subseteq Files
           /\ \A f \in DOMAIN t : t[f] \in Bytes
           /\ t = [f \in DOMAIN t |-> t[f]]
<1> PICK S \in SUBSET Files : t \in [S -> Bytes]
    BY DEF Trees
<1> QED OBVIOUS

LEMMA TreeOf ==
    ASSUME NEW S \in SUBSET Files, NEW t, t \in [S -> Bytes]
    PROVE  t \in Trees /\ DOMAIN t = S
BY DEF Trees

LEMMA PlanIsSound ==
    ASSUME NEW v \in Versions
    PROVE  PlanOf(v) \in Trees /\ Sound(PlanOf(v)) /\ PlanOf(v) # Absent
<1>1. FilesOf[v] \in SUBSET Files
    BY FilesOfAssumption
<1>2. PlanOf(v) \in [FilesOf[v] -> Bytes]
    BY DEF PlanOf, Bytes
<1>3. PlanOf(v) \in Trees
    BY <1>1, <1>2, TreeOf
<1>4. Sound(PlanOf(v))
    BY BytesAssumption DEF PlanOf, Sound
<1> QED BY <1>3, <1>4, AbsentAssumption

LEMMA EmptyTree == [f \in {} |-> Torn] \in Trees
<1> DEFINE t == [f \in {} |-> Torn]
<1>1. t \in [{} -> Bytes]
    OBVIOUS
<1>2. {} \in SUBSET Files
    OBVIOUS
<1> QED BY <1>1, <1>2, TreeOf

(* A step of rmtree leaves nothing, or a part of what was there. *)
LEMMA ShrinkTree ==
    ASSUME NEW t \in Trees, NEW s \in Shrinks(t)
    PROVE  \/ s = Absent
           \/ /\ s \in Trees /\ s # Absent
              /\ DOMAIN s \subseteq DOMAIN t
              /\ \A f \in DOMAIN s : s[f] = t[f]
<1>1. CASE DOMAIN t = {}
    BY <1>1 DEF Shrinks
<1>2. CASE DOMAIN t # {}
  <2>1. PICK f \in DOMAIN t : s = [g \in DOMAIN t \ {f} |-> t[g]]
      BY <1>2 DEF Shrinks, Without
  <2>2. s \in [DOMAIN t \ {f} -> Bytes]
      BY <2>1, TreeFacts
  <2>3. DOMAIN t \ {f} \in SUBSET Files
      BY TreeFacts
  <2>4. s \in Trees
      BY <2>2, <2>3, TreeOf
  <2> QED BY <2>1, <2>4, AbsentAssumption
<1> QED BY <1>1, <1>2

LEMMA PutTree ==
    ASSUME NEW t \in Trees, NEW f \in Files, NEW b \in Bytes
    PROVE  /\ Put(t, f, b) \in Trees
           /\ DOMAIN Put(t, f, b) = DOMAIN t \cup {f}
           /\ Put(t, f, b)[f] = b
           /\ Put(t, f, b) # Absent
<1>1. Put(t, f, b) \in [DOMAIN t \cup {f} -> Bytes]
    BY TreeFacts DEF Put
<1>2. DOMAIN t \cup {f} \in SUBSET Files
    BY TreeFacts
<1>3. Put(t, f, b) \in Trees
    BY <1>1, <1>2, TreeOf
<1>4. Put(t, f, b)[f] = b
    BY DEF Put
<1>5. DOMAIN Put(t, f, b) = DOMAIN t \cup {f}
    BY DEF Put
<1> QED BY <1>3, <1>4, <1>5, AbsentAssumption

(* A transaction is open exactly when there is a record of one. *)
LEMMA OpenRecord ==
    ASSUME NEW r \in Transactions
    PROVE  /\ r # NoTx
           /\ r.previous \in Trees \cup {Absent}
           /\ r.target \in Trees /\ r.target # Absent
BY AbsentAssumption DEF Transactions, NoTx

LEMMA OpenFacts ==
    ASSUME CacheTypeOK, Open
    PROVE  /\ tx \in Transactions
           /\ tx.previous \in Trees \cup {Absent}
           /\ tx.target \in Trees /\ tx.target # Absent
<1>1. tx \in Transactions
    BY DEF CacheTypeOK, Open
<1> QED BY <1>1, OpenRecord

(* The new tree with lost bytes is neither of the two trees on record. *)
LEMMA LostDiffers ==
    ASSUME LostBytes(live), OpenDisk
    PROVE  live # tx.target /\ live # tx.previous /\ live # Absent
BY AbsentAssumption DEF LostBytes, OpenDisk, Sound
-----------------------------------------------------------------------------
(* The cache: every effect of an installation, and every fault. *)

LEMMA InspectKeeps ==
    ASSUME CacheInv, Inspect
    PROVE  CacheInv'
<1>1. /\ pc' \in {"idle", "rm_stage", "begin"}
      /\ pc' = "rm_stage" => Open
      /\ pc' = "begin" => ~Open /\ live # Plan
      /\ UNCHANGED <<ver, live, backup, stage, tx, overwrite>>
    BY DEF Inspect, Goto, disk
<1>2. CacheTypeOK'
    BY <1>1 DEF CacheInv, CacheTypeOK, Pcs, RecoveryPcs
<1>3. (IF Open THEN OpenDisk ELSE ClosedDisk)'
    BY <1>1 DEF CacheInv, Open, OpenDisk, ClosedDisk, PriorKept, LostBytes
<1>4. AtPc'
    BY <1>1 DEF AtPc, Open, RecoveryPcs, InstallPcs, Plan
<1> QED BY <1>2, <1>3, <1>4 DEF CacheInv

(* Where recovery goes once the stage is gone. *)
LEMMA BranchFacts ==
    ASSUME CacheInv, Open
    PROVE  /\ RecoverBranch = "finish" => backup = Absent
           /\ RecoverBranch = "rm_backup" => backup # Absent /\ live = tx.target
           /\ RecoverBranch = "restore" => PriorKept /\ live = Absent
           /\ RecoverBranch = "isolate" => PriorKept /\ LostBytes(live)
           /\ RecoverBranch \in {"finish", "rm_backup", "restore", "isolate"}
<1>1. OpenDisk
    BY DEF CacheInv
<1>2. CASE backup = Absent
    BY <1>2 DEF RecoverBranch
<1>3. CASE backup # Absent /\ live = tx.target
    BY <1>3 DEF RecoverBranch
<1>4. CASE backup # Absent /\ live # tx.target
  <2>1. PriorKept /\ (live = Absent \/ LostBytes(live))
      BY <1>1, <1>4 DEF OpenDisk
  <2>2. CASE live = Absent
      BY <1>4, <2>1, <2>2, OpenFacts DEF RecoverBranch, CacheInv, PriorKept
  <2>3. CASE LostBytes(live)
      BY <1>1, <1>4, <2>1, <2>3, LostDiffers DEF RecoverBranch
  <2> QED BY <2>1, <2>2, <2>3
<1> QED BY <1>2, <1>3, <1>4

(* Nothing but the stage shrinks, and what is left of it is still setup's. *)
LEMMA StageShrinks ==
    ASSUME CacheInv, Open, NEW from \in Pcs, NEW to \in Pcs, RemoveStage(from, to)
    PROVE  /\ CacheTypeOK' /\ OpenDisk' /\ Open'
           /\ UNCHANGED <<ver, live, backup, tx, overwrite>>
           /\ pc' = IF stage' = Absent THEN to ELSE from
<1>1. /\ UNCHANGED <<ver, live, backup, tx, overwrite>>
      /\ pc' = IF stage' = Absent THEN to ELSE from
      /\ stage # Absent /\ stage' \in Shrinks(stage)
    BY DEF RemoveStage, Goto
<1>2. stage \in Trees /\ OwnedNames(stage, tx.target)
    BY <1>1 DEF CacheInv, CacheTypeOK, OpenDisk
<1>3. \/ stage' = Absent
      \/ stage' \in Trees /\ OwnedNames(stage', tx.target)
    BY <1>1, <1>2, ShrinkTree DEF OwnedNames
<1>4. CacheTypeOK'
    BY <1>1, <1>3 DEF CacheInv, CacheTypeOK
<1>5. OpenDisk'
    BY <1>1, <1>3 DEF CacheInv, OpenDisk, PriorKept, LostBytes
<1> QED BY <1>1, <1>4, <1>5 DEF Open

LEMMA RecoverStageKeeps ==
    ASSUME CacheInv, RecoverRemovesStage \/ RecoverNoStage
    PROVE  CacheInv'
<1>1. Open /\ pc = "rm_stage"
    BY DEF CacheInv, AtPc, RecoverRemovesStage, RecoverNoStage, RemoveStage, RecoveryPcs
<1>2. RecoverBranch \in Pcs
    BY <1>1, BranchFacts DEF Pcs, RecoveryPcs
<1>3. CASE RecoverRemovesStage
  <2>1. /\ CacheTypeOK' /\ OpenDisk' /\ Open'
        /\ UNCHANGED <<ver, live, backup, tx, overwrite>>
        /\ pc' = IF stage' = Absent THEN RecoverBranch ELSE "rm_stage"
      BY <1>1, <1>2, <1>3, StageShrinks DEF RecoverRemovesStage, Pcs, RecoveryPcs
  <2>2. AtPc'
      BY <1>1, <2>1, BranchFacts DEF AtPc, PriorKept, LostBytes, InstallPcs
  <2> QED BY <2>1, <2>2 DEF CacheInv
<1>4. CASE RecoverNoStage
  <2>1. /\ UNCHANGED <<ver, live, backup, stage, tx, overwrite>>
        /\ stage = Absent /\ pc' = RecoverBranch
      BY <1>4 DEF RecoverNoStage, Goto, disk
  <2>2. CacheTypeOK'
      BY <1>2, <2>1 DEF CacheInv, CacheTypeOK
  <2>3. OpenDisk' /\ Open'
      BY <1>1, <2>1 DEF CacheInv, Open, OpenDisk, PriorKept, LostBytes
  <2>4. AtPc'
      BY <1>1, <2>1, <2>3, BranchFacts DEF AtPc, PriorKept, LostBytes, InstallPcs
  <2> QED BY <2>2, <2>3, <2>4 DEF CacheInv
<1> QED BY <1>3, <1>4

LEMMA RecoverMovesKeep ==
    ASSUME CacheInv, Isolate \/ Restore
    PROVE  CacheInv'
<1>1. Open /\ PriorKept /\ stage = Absent /\ OpenDisk
    BY DEF CacheInv, AtPc, Isolate, Restore, RecoveryPcs
<1>2. backup \in Trees /\ backup # Absent
    BY <1>1, OpenFacts DEF CacheInv, PriorKept
<1>3. CASE Isolate
  <2>1. /\ stage' = live /\ live' = Absent /\ pc' = "rm_isolated"
        /\ UNCHANGED <<ver, backup, tx, overwrite>>
        /\ LostBytes(live)
      BY <1>3 DEF Isolate, Goto, CacheInv, AtPc
  <2>2. CacheTypeOK'
      BY <2>1 DEF CacheInv, CacheTypeOK, Pcs, RecoveryPcs
  <2>3. OpenDisk' /\ Open'
      BY <1>1, <2>1 DEF Open, OpenDisk, PriorKept, LostBytes
  <2>4. AtPc'
      BY <1>1, <2>1, <2>3 DEF AtPc, PriorKept, InstallPcs
  <2> QED BY <2>2, <2>3, <2>4 DEF CacheInv
<1>4. CASE Restore
  <2>1. /\ live' = backup /\ backup' = Absent /\ pc' = "finish"
        /\ UNCHANGED <<ver, stage, tx, overwrite>>
      BY <1>4 DEF Restore, Goto
  <2>2. CacheTypeOK'
      BY <2>1 DEF CacheInv, CacheTypeOK, Pcs, RecoveryPcs
  <2>3. OpenDisk' /\ Open'
      BY <1>1, <2>1 DEF Open, OpenDisk, PriorKept
  <2>4. AtPc'
      BY <1>1, <2>1, <2>3 DEF AtPc, InstallPcs
  <2> QED BY <2>2, <2>3, <2>4 DEF CacheInv
<1> QED BY <1>3, <1>4

LEMMA RemoveIsolatedKeeps ==
    ASSUME CacheInv, RemoveIsolated
    PROVE  CacheInv'
<1>1. Open /\ pc = "rm_isolated" /\ PriorKept /\ live = Absent
    BY DEF CacheInv, AtPc, RemoveIsolated, RemoveStage, RecoveryPcs
<1>2. /\ CacheTypeOK' /\ OpenDisk' /\ Open'
      /\ UNCHANGED <<ver, live, backup, tx, overwrite>>
      /\ pc' = IF stage' = Absent THEN "restore" ELSE "rm_isolated"
    BY <1>1, StageShrinks DEF RemoveIsolated, Pcs, RecoveryPcs
<1>3. AtPc'
    BY <1>1, <1>2 DEF AtPc, PriorKept, InstallPcs
<1> QED BY <1>2, <1>3 DEF CacheInv

(* rmtree of the backup, in a recovery and at the end of an installation:    *)
(* the new tree is whole in its place.                                       *)
LEMMA BackupShrinks ==
    ASSUME CacheInv, Open, live = tx.target, stage = Absent, backup # Absent,
           backup' \in Shrinks(backup), UNCHANGED <<ver, overwrite, live, stage, tx>>,
           pc' \in Pcs
    PROVE  CacheTypeOK' /\ OpenDisk' /\ Open'
<1>1. backup \in Trees /\ tx.previous # Absent /\ OwnedBytes(backup, tx.previous)
    BY OpenFacts DEF CacheInv, CacheTypeOK, OpenDisk, PriorKept, OwnedBytes, OwnedNames
<1>2. \/ backup' = Absent
      \/ backup' \in Trees /\ backup' # Absent /\ OwnedBytes(backup', tx.previous)
    BY <1>1, ShrinkTree DEF OwnedBytes, OwnedNames
<1>3. CacheTypeOK'
    BY <1>2 DEF CacheInv, CacheTypeOK
<1>4. OpenDisk'
  <2>1. CASE backup' = Absent
      BY <1>1, <2>1 DEF CacheInv, OpenDisk
  <2>2. CASE backup' # Absent
      BY <1>1, <1>2, <2>2 DEF CacheInv, OpenDisk
  <2> QED BY <2>1, <2>2
<1> QED BY <1>3, <1>4 DEF Open

LEMMA RemoveBackupKeeps ==
    ASSUME CacheInv, RemoveBackup \/ DropBackup
    PROVE  CacheInv'
<1>1. /\ Open /\ stage = Absent /\ live = tx.target /\ backup # Absent
      /\ pc = "drop_backup" => tx.target = Plan
    BY DEF CacheInv, AtPc, RemoveBackup, DropBackup, RecoveryPcs, InstallPcs
<1>2. /\ UNCHANGED <<ver, overwrite, live, stage, tx>> /\ backup' \in Shrinks(backup)
      /\ \/ pc' = IF backup' = Absent THEN "finish" ELSE "rm_backup"
         \/ pc = "drop_backup" /\ pc' = IF backup' = Absent THEN "commit" ELSE "drop_backup"
    BY DEF RemoveBackup, DropBackup, Goto
<1>3. pc' \in Pcs
    BY <1>2 DEF Pcs, RecoveryPcs, InstallPcs
<1>4. CacheTypeOK' /\ OpenDisk' /\ Open'
    BY <1>1, <1>2, <1>3, BackupShrinks
<1>5. AtPc'
    BY <1>1, <1>2, <1>4 DEF AtPc, Plan, InstallPcs
<1> QED BY <1>4, <1>5 DEF CacheInv

(* The transaction is only closed over a whole tree. *)
LEMMA ClosingKeeps ==
    ASSUME CacheInv, Open, stage = Absent, backup = Absent, tx' = NoTx,
           UNCHANGED <<ver, overwrite, live, backup, stage>>,
           pc' \in {"idle", "reinspect"}
    PROVE  CacheInv'
<1>1. ~Open' /\ ClosedDisk'
    BY DEF CacheInv, Open, OpenDisk, ClosedDisk, PriorKept, Sound
<1>2. CacheTypeOK'
    BY DEF CacheInv, CacheTypeOK, Pcs
<1>3. AtPc'
    BY DEF AtPc, RecoveryPcs, InstallPcs
<1> QED BY <1>1, <1>2, <1>3 DEF CacheInv

LEMMA FinishKeeps ==
    ASSUME CacheInv, Finish
    PROVE  CacheInv' /\ ~Open'
<1>1. Open /\ stage = Absent /\ backup = Absent /\ live \in {tx.target, tx.previous}
    BY OpenFacts DEF CacheInv, AtPc, Finish, RecoveryPcs, OpenDisk, PriorKept
<1>2. tx' = NoTx /\ pc' = "reinspect" /\ UNCHANGED <<ver, overwrite, live, backup, stage>>
    BY <1>1 DEF Finish, Goto
<1> QED BY <1>1, <1>2, ClosingKeeps DEF Open

LEMMA CommitKeeps ==
    ASSUME CacheInv, Commit
    PROVE  CacheInv' /\ ~Open'
<1>1. Open /\ stage = Absent /\ backup = Absent
    BY DEF CacheInv, AtPc, Commit, InstallPcs
<1>2. tx' = NoTx /\ pc' = "idle" /\ UNCHANGED <<ver, overwrite, live, backup, stage>>
    BY DEF Commit, Goto
<1> QED BY <1>1, <1>2, ClosingKeeps DEF Open

(* A step that only gives up what it was doing. *)
LEMMA StandingStill ==
    ASSUME CacheInv, UNCHANGED <<ver, overwrite, disk>>, pc' \in Pcs
    PROVE  /\ CacheTypeOK' /\ (IF Open THEN OpenDisk ELSE ClosedDisk)'
           /\ Open' = Open /\ Plan' = Plan
BY DEF CacheInv, CacheTypeOK, Open, OpenDisk, ClosedDisk, PriorKept, LostBytes, disk, Plan

LEMMA AbandonKeeps ==
    ASSUME CacheInv, Abandon
    PROVE  CacheInv'
<1>1. Open
    BY DEF CacheInv, AtPc, Abandon, InstallPcs
<1>2. CASE backup = Absent /\ live = tx.previous /\ stage = Absent
    BY <1>1, <1>2, ClosingKeeps DEF Abandon, Goto
<1>3. CASE ~(backup = Absent /\ live = tx.previous /\ stage = Absent)
  <2>1. UNCHANGED <<ver, overwrite, disk>> /\ pc' = "idle"
      BY <1>3 DEF Abandon, Goto, disk
  <2>2. CacheTypeOK' /\ (IF Open THEN OpenDisk ELSE ClosedDisk)'
      BY <2>1, StandingStill DEF Pcs
  <2>3. AtPc'
      BY <2>1 DEF AtPc, RecoveryPcs, InstallPcs
  <2> QED BY <2>2, <2>3 DEF CacheInv
<1> QED BY <1>2, <1>3

LEMMA BeginKeeps ==
    ASSUME CacheInv, Begin
    PROVE  CacheInv'
<1>1. ~Open /\ live # Plan /\ ClosedDisk
    BY DEF CacheInv, AtPc, Begin
<1>2. /\ tx' = [previous |-> live, target |-> Plan] /\ pc' = "mkdir"
      /\ UNCHANGED <<ver, overwrite, live, backup, stage>>
    BY DEF Begin, Goto
<1>3. Plan \in Trees /\ Sound(Plan) /\ Plan # Absent
    BY PlanIsSound DEF Plan, CacheInv, CacheTypeOK
<1>4. tx' \in Transactions
    BY <1>2, <1>3 DEF CacheInv, CacheTypeOK, Transactions
<1>5. CacheTypeOK' /\ Open'
    BY <1>2, <1>4, OpenRecord DEF CacheInv, CacheTypeOK, Open, Pcs, InstallPcs
<1>6. OpenDisk'
    BY <1>1, <1>2, <1>3 DEF OpenDisk, ClosedDisk, Sound
<1>7. AtPc'
    BY <1>1, <1>2, <1>5 DEF AtPc, ClosedDisk, Plan, RecoveryPcs
<1> QED BY <1>5, <1>6, <1>7 DEF CacheInv

(* While the new tree is staged the cache and its record stand still. *)
LEMMA StagingKeeps ==
    ASSUME CacheInv, Open, live = tx.previous, backup = Absent,
           tx.target = Plan, UNCHANGED <<ver, overwrite, live, backup, tx>>, pc' = "copy",
           stage' \in Trees, OwnedNames(stage', Plan)
    PROVE  CacheInv'
<1>1. CacheTypeOK'
    BY DEF CacheInv, CacheTypeOK, Pcs, InstallPcs
<1>2. OpenDisk' /\ Open'
    BY DEF CacheInv, Open, OpenDisk, PriorKept
<1>3. stage' # Absent
    BY AbsentAssumption
<1>4. AtPc'
    BY <1>2, <1>3 DEF AtPc, Plan, RecoveryPcs
<1> QED BY <1>1, <1>2, <1>4 DEF CacheInv

LEMMA StageKeeps ==
    ASSUME CacheInv, MakeStage \/ CopyFile
    PROVE  CacheInv'
<1>1. /\ Open /\ live = tx.previous /\ backup = Absent /\ tx.target = Plan
      /\ UNCHANGED <<ver, overwrite, live, backup, tx>> /\ pc' = "copy"
    BY DEF CacheInv, AtPc, MakeStage, CopyFile, Goto, InstallPcs
<1>2. CASE MakeStage
  <2>1. stage' \in Trees /\ OwnedNames(stage', Plan)
      BY <1>2, EmptyTree DEF MakeStage, OwnedNames
  <2> QED BY <1>1, <2>1, StagingKeeps
<1>3. CASE CopyFile
  <2>1. PICK f \in DOMAIN Plan, b \in {Torn, ver} : stage' = Put(stage, f, b)
      BY <1>3 DEF CopyFile
  <2>2. stage \in Trees /\ OwnedNames(stage, Plan)
      BY <1>1, <1>3 DEF CopyFile, CacheInv, CacheTypeOK, AtPc, OpenDisk
  <2>3. f \in Files /\ b \in Bytes
      BY PlanIsSound, TreeFacts DEF Plan, CacheInv, CacheTypeOK, Bytes
  <2>4. stage' \in Trees /\ DOMAIN stage' = DOMAIN stage \cup {f}
      BY <2>1, <2>2, <2>3, PutTree
  <2>5. OwnedNames(stage', Plan)
      BY <2>2, <2>4 DEF OwnedNames
  <2> QED BY <1>1, <2>4, <2>5, StagingKeeps
<1> QED BY <1>2, <1>3

LEMMA StageCompleteKeeps ==
    ASSUME CacheInv, StageComplete
    PROVE  CacheInv'
<1>1. /\ Open /\ live = tx.previous /\ backup = Absent /\ tx.target = Plan /\ stage = Plan
      /\ UNCHANGED <<ver, overwrite, disk>>
      /\ pc' = IF live = Absent THEN "promote" ELSE "retire"
    BY DEF CacheInv, AtPc, StageComplete, Goto, InstallPcs
<1>2. CacheTypeOK' /\ (IF Open THEN OpenDisk ELSE ClosedDisk)' /\ Open' = Open /\ Plan' = Plan
    BY <1>1, StandingStill DEF Pcs, InstallPcs
<1>3. AtPc'
    BY <1>1, <1>2 DEF AtPc, disk, Staged, Retired, RecoveryPcs
<1> QED BY <1>2, <1>3 DEF CacheInv

(* The renames: the old tree to the backup, the new one to its place, and both back. *)
LEMMA RenameKeeps ==
    ASSUME CacheInv, RetireLive \/ Promote \/ UndoRetire
    PROVE  CacheInv'
<1>1. /\ Open /\ tx.target = Plan /\ OpenDisk
      /\ UNCHANGED <<ver, overwrite, tx>>
    BY DEF CacheInv, AtPc, RetireLive, Promote, UndoRetire, Goto, InstallPcs
<1>2. /\ tx.previous \in Trees \cup {Absent} /\ tx.target # Absent /\ Open' /\ Plan' = Plan
    BY <1>1, OpenFacts DEF CacheInv, Open, Plan
<1>3. CASE RetireLive
  <2>1. Staged /\ backup' = live /\ live' = Absent /\ stage' = stage /\ pc' = "promote"
      BY <1>3 DEF CacheInv, AtPc, RetireLive, Goto
  <2>2. CacheTypeOK'
      BY <1>1, <2>1 DEF CacheInv, CacheTypeOK, Pcs, InstallPcs
  <2>3. OpenDisk'
      BY <1>1, <2>1 DEF OpenDisk, PriorKept, Staged
  <2>4. AtPc'
      BY <1>1, <1>2, <2>1 DEF AtPc, Staged, Retired, RecoveryPcs
  <2> QED BY <1>2, <2>2, <2>3, <2>4 DEF CacheInv
<1>4. CASE Promote
  <2>1. Retired /\ live' = stage /\ stage' = Absent /\ backup' = backup /\ pc' = "validate"
      BY <1>4 DEF CacheInv, AtPc, Promote, Goto
  <2>2. CacheTypeOK'
      BY <1>1, <2>1 DEF CacheInv, CacheTypeOK, Pcs, InstallPcs
  <2>3. OpenDisk'
      BY <1>1, <2>1 DEF OpenDisk, PriorKept, Retired
  <2>4. AtPc'
      BY <1>1, <1>2, <2>1 DEF AtPc, Promoted, Retired, RecoveryPcs
  <2> QED BY <1>2, <2>2, <2>3, <2>4 DEF CacheInv
<1>5. CASE UndoRetire
  <2>1. PriorKept /\ live' = backup /\ backup' = Absent /\ stage' = stage /\ pc' = "cleanup"
      BY <1>5 DEF CacheInv, AtPc, UndoRetire, Goto
  <2>2. CacheTypeOK'
      BY <1>1, <2>1 DEF CacheInv, CacheTypeOK, Pcs, InstallPcs
  <2>3. OpenDisk'
      BY <1>1, <2>1 DEF OpenDisk, PriorKept
  <2>4. AtPc'
      BY <1>1, <1>2, <2>1 DEF AtPc, RecoveryPcs
  <2> QED BY <1>2, <2>2, <2>3, <2>4 DEF CacheInv
<1> QED BY <1>3, <1>4, <1>5

LEMMA ValidateKeeps ==
    ASSUME CacheInv, Validate
    PROVE  CacheInv'
<1>1. /\ Open /\ tx.target = Plan /\ Promoted
      /\ UNCHANGED <<ver, overwrite, disk>>
      /\ pc' = IF backup = Absent THEN "commit" ELSE "drop_backup"
    BY DEF CacheInv, AtPc, Validate, Goto, InstallPcs
<1>2. CacheTypeOK' /\ (IF Open THEN OpenDisk ELSE ClosedDisk)' /\ Open' = Open /\ Plan' = Plan
    BY <1>1, StandingStill DEF Pcs, InstallPcs
<1>3. AtPc'
    BY <1>1, <1>2 DEF AtPc, disk, Promoted, RecoveryPcs
<1> QED BY <1>2, <1>3 DEF CacheInv

LEMMA UndoPromoteKeeps ==
    ASSUME CacheInv, UndoPromote
    PROVE  CacheInv'
<1>1. /\ Open /\ tx.target = Plan /\ OpenDisk /\ (Staged \/ Retired \/ Promoted)
      /\ UNCHANGED <<ver, overwrite, backup, tx>>
      /\ pc' = IF backup # Absent /\ live' = Absent THEN "undo_retire" ELSE "cleanup"
    BY DEF CacheInv, AtPc, UndoPromote, Goto, InstallPcs
<1>2. /\ tx.previous \in Trees \cup {Absent} /\ tx.target # Absent /\ Open' /\ Plan' = Plan
    BY <1>1, OpenFacts DEF CacheInv, Open, Plan
<1>3. CASE Promoted
  <2>1. stage' = live /\ live' = Absent
      BY <1>2, <1>3 DEF UndoPromote, Promoted
  <2>2. CacheTypeOK'
      BY <1>1, <2>1 DEF CacheInv, CacheTypeOK, Pcs, InstallPcs
  <2>3. OpenDisk'
      BY <1>1, <1>3, <2>1 DEF OpenDisk, PriorKept, Promoted, OwnedNames
  <2>4. AtPc'
      BY <1>1, <1>2, <1>3, <2>1 DEF AtPc, PriorKept, Promoted, RecoveryPcs
  <2> QED BY <1>2, <2>2, <2>3, <2>4 DEF CacheInv
<1>4. CASE Staged \/ Retired
  <2>1. UNCHANGED <<stage, live>>
      BY <1>1, <1>2, <1>4 DEF UndoPromote, Staged, Retired
  <2>2. CacheTypeOK' /\ OpenDisk'
      BY <1>1, <1>2, <2>1, StandingStill DEF disk, Pcs, InstallPcs
  <2>3. AtPc'
      BY <1>1, <1>2, <1>4, <2>1 DEF AtPc, PriorKept, Staged, Retired, RecoveryPcs
  <2> QED BY <1>2, <2>2, <2>3 DEF CacheInv
<1> QED BY <1>1, <1>3, <1>4

LEMMA CleanupKeeps ==
    ASSUME CacheInv, Cleanup \/ NothingStaged
    PROVE  CacheInv'
<1>1. Open /\ tx.target = Plan /\ pc = "cleanup"
    BY DEF CacheInv, AtPc, Cleanup, NothingStaged, RemoveStage, InstallPcs
<1>2. CASE Cleanup
  <2>1. /\ CacheTypeOK' /\ OpenDisk' /\ Open'
        /\ UNCHANGED <<ver, live, backup, tx, overwrite>>
        /\ pc' = IF stage' = Absent THEN "abandon" ELSE "cleanup"
      BY <1>1, <1>2, StageShrinks DEF Cleanup, Pcs, InstallPcs
  <2>2. AtPc'
      BY <1>1, <2>1 DEF AtPc, Plan, RecoveryPcs
  <2> QED BY <2>1, <2>2 DEF CacheInv
<1>3. CASE NothingStaged
  <2>1. UNCHANGED <<ver, overwrite, disk>> /\ pc' = "abandon"
      BY <1>3 DEF NothingStaged, Goto
  <2>2. CacheTypeOK' /\ (IF Open THEN OpenDisk ELSE ClosedDisk)' /\ Open' = Open /\ Plan' = Plan
      BY <2>1, StandingStill DEF Pcs, InstallPcs
  <2>3. AtPc'
      BY <1>1, <2>1, <2>2 DEF AtPc, disk, RecoveryPcs
  <2> QED BY <2>2, <2>3 DEF CacheInv
<1> QED BY <1>2, <1>3

LEMMA ErrorKeeps ==
    ASSUME CacheInv, Error
    PROVE  CacheInv'
<1>1. UNCHANGED <<ver, overwrite, disk>> /\ pc' = AfterError
    BY DEF Error, Goto
<1>2. AfterError \in {"undo_promote", "cleanup", "abandon", "idle"}
    BY DEF AfterError
<1>3. CacheTypeOK' /\ (IF Open THEN OpenDisk ELSE ClosedDisk)' /\ Open' = Open /\ Plan' = Plan
    BY <1>1, <1>2, StandingStill DEF Pcs, InstallPcs
<1>4. /\ pc' # "idle" => Open /\ tx.target = Plan
      /\ pc' = "undo_promote" => Staged \/ Retired \/ Promoted
    BY <1>1 DEF CacheInv, AtPc, AfterError, InstallPcs
<1>5. AtPc'
    BY <1>1, <1>2, <1>3, <1>4 DEF AtPc, disk, Staged, Retired, Promoted, RecoveryPcs, InstallPcs
<1> QED BY <1>3, <1>5 DEF CacheInv

LEMMA PowerLossKeeps ==
    ASSUME CacheInv, PowerLoss
    PROVE  CacheInv'
<1>1. /\ Open /\ PriorKept /\ live = tx.target /\ OpenDisk
      /\ pc' = "idle" /\ UNCHANGED <<ver, overwrite, backup, stage, tx>>
    BY DEF CacheInv, PowerLoss, Goto, PriorKept
<1>2. PICK f \in DOMAIN live : live' = Put(live, f, Torn)
    BY DEF PowerLoss
<1>3. live \in Trees /\ f \in Files /\ Torn \in Bytes
    BY <1>1, <1>2, OpenFacts, TreeFacts DEF CacheInv, Bytes
<1>4. live' \in Trees /\ DOMAIN live' = DOMAIN live \cup {f} /\ live'[f] = Torn
    BY <1>2, <1>3, PutTree
<1>5. live' \in Trees /\ DOMAIN live' = DOMAIN tx.target /\ live'[f] = Torn
  <2>1. DOMAIN live \cup {f} = DOMAIN live
    BY <1>2
  <2> QED BY <1>1, <1>4, <2>1
<1>6. CacheTypeOK'
    BY <1>1, <1>5 DEF CacheInv, CacheTypeOK, Pcs
<1>7. OpenDisk' /\ Open'
    BY <1>1, <1>2, <1>5 DEF Open, OpenDisk, PriorKept, LostBytes, OwnedNames
<1>8. AtPc'
    BY <1>1 DEF AtPc, RecoveryPcs, InstallPcs
<1> QED BY <1>6, <1>7, <1>8 DEF CacheInv

LEMMA CacheStepKeeps ==
    ASSUME CacheInv, CacheStep \/ Error \/ PowerLoss
    PROVE  CacheInv'
BY InspectKeeps, RecoverStageKeeps, RecoverMovesKeep, RemoveIsolatedKeeps, RemoveBackupKeeps,
   FinishKeeps, BeginKeeps, StageKeeps, StageCompleteKeeps, RenameKeeps, ValidateKeeps,
   CommitKeeps, UndoPromoteKeeps, CleanupKeeps, AbandonKeeps, ErrorKeeps, PowerLossKeeps
   DEF CacheStep, Recover, Install

(* Outside a transaction only the release and the --overwrite flag change. *)
LEMMA CacheLeftAlone ==
    ASSUME CacheInv, UNCHANGED disk, ver' \in Versions, overwrite' \in BOOLEAN,
           pc' \in {"idle", "inspect"} \/ UNCHANGED <<ver, pc>>
    PROVE  CacheInv'
<1>1. CacheTypeOK'
    BY DEF CacheInv, CacheTypeOK, disk, Pcs
<1>2. (IF Open THEN OpenDisk ELSE ClosedDisk)' /\ Open' = Open
    BY DEF CacheInv, Open, OpenDisk, ClosedDisk, PriorKept, LostBytes, disk
<1>3. CASE pc' \in {"idle", "inspect"}
  <2>1. AtPc'
      BY <1>3 DEF AtPc, RecoveryPcs, InstallPcs
  <2> QED BY <1>1, <1>2, <2>1 DEF CacheInv
<1>4. CASE UNCHANGED <<ver, pc>>
  <2>1. AtPc'
      BY <1>2, <1>4 DEF CacheInv, AtPc, disk, Plan, PriorKept, LostBytes, Staged, Retired, Promoted
  <2> QED BY <1>1, <1>2, <2>1 DEF CacheInv
<1> QED BY <1>3, <1>4

-----------------------------------------------------------------------------
(* The payloads. *)

LEMMA OneKind ==
    ASSUME NEW p \in P!Paths
    PROVE  \/ p \in Plain /\ p \notin Bindings /\ p \notin P!Shared
           \/ p \in Bindings /\ p \notin Plain /\ p \notin P!Shared
           \/ p \in P!Shared /\ p \notin Plain /\ p \notin Bindings
BY KindsAssumption DEF P!Paths, P!Shared

(* What may be found at a destination of each kind. *)
LEMMA ContentsOf ==
    ASSUME NEW p \in P!Paths, NEW c
    PROVE  /\ p \in Plain =>
                 (c \in P!Contents(p) <=> c \in {P!Missing, P!TornText(FALSE), P!Owned("shipped"), P!Owned("foreign")})
           /\ p \in Bindings =>
                 (c \in P!Contents(p) <=> c \in {P!Missing, P!TornText(FALSE), P!Owned("shipped"),
                                                P!Owned("bound"), P!Owned("foreign")})
<1>1. CASE p \in Plain
  <2>1. p \notin Bindings /\ p \notin P!Shared
      BY <1>1, OneKind
  <2>2. P!Contents(p) = {P!Missing, P!TornText(FALSE), P!Owned("shipped"), P!Owned("foreign")}
      BY <1>1, <2>1 DEF P!Contents
  <2> QED BY <2>1, <2>2
<1>2. CASE p \in Bindings
  <2>1. p \notin Plain /\ p \notin P!Shared
      BY <1>2, OneKind
  <2>2. P!Contents(p) = {P!Missing, P!TornText(FALSE), P!Owned("shipped"), P!Owned("bound"), P!Owned("foreign")}
      BY <1>2, <2>1 DEF P!Contents
  <2> QED BY <2>1, <2>2
<1>3. CASE p \in P!Shared
    BY <1>3, OneKind
<1> QED BY <1>1, <1>2, <1>3, OneKind

LEMMA SharedContents ==
    ASSUME NEW p \in P!Shared
    PROVE  P!Contents(p) = {P!Missing, P!TornText(FALSE), P!TornText(TRUE)} \cup P!Configs
<1>1. p \notin Plain /\ p \notin Bindings
    BY OneKind DEF P!Paths
<1> QED BY <1>1 DEF P!Contents

(* What can be told from the text at a destination. *)
LEMMA OwnedTextTells ==
    ASSUME NEW p \in Plain \cup Bindings, NEW c \in P!Contents(p), c.text \in {"shipped", "bound"}
    PROVE  /\ p \in Plain => c = P!Owned("shipped")
           /\ ~c.user
<1>1. p \in P!Paths
    BY DEF P!Paths
<1>2. CASE p \in Plain
  <2>1. c \in {P!Missing, P!TornText(FALSE), P!Owned("shipped"), P!Owned("foreign")}
      BY <1>1, <1>2, ContentsOf
  <2>2. c = P!Owned("shipped")
      BY <2>1 DEF P!Missing, P!TornText, P!Owned
  <2> QED BY <2>2 DEF P!Owned
<1>3. CASE p \in Bindings
  <2>1. c \in {P!Missing, P!TornText(FALSE), P!Owned("shipped"), P!Owned("bound"), P!Owned("foreign")}
      BY <1>1, <1>3, ContentsOf
  <2>2. c = P!Owned("shipped") \/ c = P!Owned("bound")
      BY <2>1 DEF P!Missing, P!TornText, P!Owned
  <2>3. p \notin Plain
      BY <1>1, <1>3, OneKind
  <2>4. ~P!Owned("shipped").user /\ ~P!Owned("bound").user
      BY DEF P!Owned
  <2> QED BY <2>2, <2>3, <2>4
<1> QED BY <1>2, <1>3

LEMMA MergedText ==
    ASSUME NEW p \in P!Shared, NEW c \in P!Contents(p), c.text = "config"
    PROVE  /\ [c EXCEPT !.harness = "whole"] \in P!Contents(p)
           /\ [c EXCEPT !.harness = "whole"].harness = "whole"
           /\ [c EXCEPT !.harness = "whole"].user = c.user
<1>1. c \in P!Configs
    BY SharedContents DEF P!Missing, P!TornText
<1>2. [c EXCEPT !.harness = "whole"] \in P!Configs
    BY <1>1 DEF P!Configs
<1> QED BY <1>1, <1>2, SharedContents DEF P!Configs

LEMMA CopiesAreContents ==
    ASSUME NEW p \in P!Paths
    PROVE  /\ P!TornText(FALSE) \in P!Contents(p)
           /\ p \in P!Shared => P!Config("whole", FALSE) \in P!Contents(p)
           /\ p \notin P!Shared => P!Owned("shipped") \in P!Contents(p)
           /\ p \in Bindings => P!Owned("bound") \in P!Contents(p)
<1>1. p \in P!Shared => P!Config("whole", FALSE) \in P!Configs
    BY DEF P!Config, P!Configs
<1> QED BY <1>1, OneKind, ContentsOf, SharedContents

LEMMA AtFacts ==
    ASSUME P!PayloadTypeOK, NEW p \in P!Paths, NEW c \in P!Contents(p),
           at' = [at EXCEPT ![p] = c]
    PROVE  /\ at' \in [P!Paths -> UNION {P!Contents(q) : q \in P!Paths}]
           /\ \A q \in P!Paths : at'[q] \in P!Contents(q)
           /\ at'[p] = c /\ \A q \in P!Paths \ {p} : at'[q] = at[q]
<1>1. at \in [P!Paths -> UNION {P!Contents(q) : q \in P!Paths}]
    BY DEF P!PayloadTypeOK
<1>2. at'[p] = c /\ \A q \in P!Paths \ {p} : at'[q] = at[q]
    BY <1>1
<1>3. c \in UNION {P!Contents(q) : q \in P!Paths}
    OBVIOUS
<1>4. \A q \in P!Paths : at'[q] \in P!Contents(q)
    BY <1>2 DEF P!PayloadTypeOK
<1> QED BY <1>1, <1>2, <1>3, <1>4

(* However a run ends, the next one starts afresh. *)
LEMMA EndKeeps ==
    ASSUME PayloadInv, NEW how \in P!Results \ {"late_collision"}, P!End(how), UNCHANGED at, pc' = "idle"
    PROVE  PayloadInv'
<1>1. phase' = "idle" /\ todo' = {} /\ filling' = {} /\ result' = how
    BY DEF P!End
<1>2. P!PayloadTypeOK'
    BY <1>1 DEF PayloadInv, P!PayloadTypeOK, P!Pcs
<1>3. AtPhase' /\ Accepted' /\ Written' /\ Bound'
    BY <1>1 DEF AtPhase, Accepted, Written, Bound
<1> QED BY <1>1, <1>2, <1>3 DEF PayloadInv

LEMMA DoneBy ==
    ASSUME NEW p,
           p \in Plain => at'[p] = P!Owned("shipped"),
           p \in Bindings => at'[p].text \in {"shipped", "bound"},
           p \in P!Shared => at'[p].harness = "whole"
    PROVE  Done(p)'
BY DEF Done, P!Owned, P!Shared

(* Every write of phase two replaces what is at one destination; the paths   *)
(* that are done or wait for their turn are others.                          *)
LEMMA WriteKeeps ==
    ASSUME PayloadInv, phase = "install", NEW p \in todo, NEW c \in P!Contents(p),
           at' = [at EXCEPT ![p] = c],
           UNCHANGED <<cacheVars, phase, overwrite, result>>, filling \subseteq {p},
           \/ filling' = {p} /\ todo' = todo /\ c = P!TornText(FALSE)
           \/ filling' = {} /\ todo' = todo \ {p} /\ Done(p)'
    PROVE  PayloadInv'
<1>1. p \in P!Paths /\ todo \subseteq P!Paths /\ phase' = "install" /\ pc' = "idle"
    BY DEF PayloadInv, P!PayloadTypeOK, AtPhase, cacheVars
<1>2. /\ at' \in [P!Paths -> UNION {P!Contents(q) : q \in P!Paths}]
      /\ \A q \in P!Paths : at'[q] \in P!Contents(q)
      /\ at'[p] = c /\ \A q \in P!Paths \ {p} : at'[q] = at[q]
    BY <1>1, AtFacts DEF PayloadInv
<1>3. P!PayloadTypeOK'
    BY <1>1, <1>2 DEF PayloadInv, P!PayloadTypeOK
<1>4. AtPhase'
    BY <1>1 DEF AtPhase
<1>5. Accepted'
  <2>1. SUFFICES ASSUME NEW q \in todo', q \notin filling' PROVE ~P!Collides(q)'
      BY DEF Accepted
  <2>2. q \in P!Paths \ {p} /\ at'[q] = at[q] /\ ~P!Collides(q)
      BY <1>1, <1>2, <2>1 DEF PayloadInv, Accepted
  <2> QED BY <2>2 DEF P!Collides, P!Mergeable, P!Installed
<1>6. ASSUME NEW q \in P!Paths \ {p}, Done(q) PROVE Done(q)'
  <2>1. at'[q] = at[q]
      BY <1>2
  <2> QED BY <1>6, <2>1 DEF Done, P!Owned, P!Shared
<1>7. Written'
  <2>1. ~Open' /\ live' = Plan'
      BY DEF PayloadInv, Written, Open, Plan, cacheVars
  <2>2. ASSUME NEW q \in P!Paths, q \notin todo' PROVE Done(q)'
    <3>1. CASE q = p
        BY <2>2, <3>1
    <3>2. CASE q # p
        BY <1>6, <2>2, <3>2 DEF PayloadInv, Written
    <3> QED BY <3>1, <3>2
  <2> QED BY <1>1, <2>1, <2>2 DEF Written
<1>8. Bound' /\ (\A q \in filling' : at'[q] = P!TornText(FALSE))
    BY <1>1, <1>2 DEF Bound
<1> QED BY <1>3, <1>4, <1>5, <1>7, <1>8 DEF PayloadInv

LEMMA InstallSharedKeeps ==
    ASSUME PayloadInv, NEW p \in P!Paths, P!InstallShared(p), UNCHANGED cacheVars
    PROVE  PayloadInv' /\ result' = result
<1>1. /\ p \in todo /\ phase = "install" /\ filling = {} /\ p \in P!Shared /\ at[p] # P!Missing
      /\ result # "late_collision"
    BY DEF P!InstallShared, PayloadInv
<1>2. P!Mergeable(p)
    BY <1>1 DEF PayloadInv, Accepted, P!Collides
<1>3. /\ at' = [at EXCEPT ![p].harness = "whole"]
      /\ todo' = todo \ {p} /\ UNCHANGED <<phase, filling, overwrite, result>>
    BY <1>2 DEF P!InstallShared, P!Leave
<1> DEFINE c == [at[p] EXCEPT !.harness = "whole"]
<1>4. at[p] \in P!Contents(p) /\ at[p].text = "config"
    BY <1>2 DEF PayloadInv, P!PayloadTypeOK, P!Mergeable
<1>5. c \in P!Contents(p) /\ c.harness = "whole"
    BY <1>1, <1>4, MergedText
<1>6. at \in [P!Paths -> UNION {P!Contents(q) : q \in P!Paths}]
    BY DEF PayloadInv, P!PayloadTypeOK
<1>7. at' = [at EXCEPT ![p] = c] /\ at'[p] = c
    BY <1>3, <1>6
<1>8. Done(p)'
    BY <1>1, <1>5, <1>7, OneKind DEF Done
<1> HIDE DEF c
<1>9. PayloadInv'
    BY <1>1, <1>3, <1>5, <1>7, <1>8, WriteKeeps
<1> QED BY <1>3, <1>9

LEMMA KeepInstalledKeeps ==
    ASSUME PayloadInv, NEW p \in P!Paths, P!KeepInstalled(p), UNCHANGED cacheVars
    PROVE  PayloadInv' /\ result' = result
<1>1. /\ p \in todo /\ p \notin P!Shared /\ phase = "install" /\ filling = {}
      /\ todo' = todo \ {p} /\ UNCHANGED <<at, phase, filling, overwrite, result>>
      /\ P!Installed(p)
    BY DEF P!KeepInstalled, P!Leave
<1>2. at[p] \in P!Contents(p) /\ at = [at EXCEPT ![p] = at[p]]
    BY DEF PayloadInv, P!PayloadTypeOK
<1>3. p \in Plain => at[p] = P!Owned("shipped")
    BY <1>1, <1>2, OwnedTextTells, OneKind DEF P!Installed
<1>4. Done(p)
    BY <1>1, <1>3 DEF Done, P!Installed
<1>5. Done(p)'
    BY <1>1, <1>4 DEF Done, P!Owned, P!Shared
<1>6. PayloadInv'
    BY <1>1, <1>2, <1>5, WriteKeeps
<1> QED BY <1>1, <1>6

LEMMA CopyKeeps ==
    ASSUME PayloadInv, NEW p \in P!Paths, P!CopyBegins(p) \/ P!CopyEnds(p), UNCHANGED cacheVars
    PROVE  PayloadInv' /\ result' = result
<1>1. CASE P!CopyBegins(p)
  <2>1. /\ p \in todo /\ phase = "install" /\ filling = {}
        /\ at' = [at EXCEPT ![p] = P!TornText(FALSE)]
        /\ filling' = {p} /\ UNCHANGED <<phase, todo, overwrite, result>>
      BY <1>1 DEF P!CopyBegins
  <2>2. P!TornText(FALSE) \in P!Contents(p)
      BY CopiesAreContents
  <2> QED BY <2>1, <2>2, WriteKeeps
<1>2. CASE P!CopyEnds(p)
  <2> DEFINE c == IF p \in P!Shared THEN P!Config("whole", FALSE) ELSE P!Owned("shipped")
  <2>1. /\ p \in filling /\ phase = "install"
        /\ at' = [at EXCEPT ![p] = c]
        /\ filling' = {} /\ todo' = todo \ {p} /\ UNCHANGED <<phase, overwrite, result>>
      BY <1>2 DEF P!CopyEnds
  <2>2. p \in todo /\ filling \subseteq todo
      BY <2>1 DEF PayloadInv, P!PayloadTypeOK
  <2>3. c \in P!Contents(p)
      BY CopiesAreContents
  <2>4. at'[p] = c
      BY <2>1 DEF PayloadInv, P!PayloadTypeOK
  <2>5. Done(p)'
    <3>1. CASE p \in P!Shared
        BY <2>4, <3>1, OneKind, DoneBy DEF P!Config
    <3>2. CASE p \notin P!Shared
      <4>1. at'[p] = P!Owned("shipped") /\ P!Owned("shipped").text = "shipped"
          BY <2>4, <3>2 DEF P!Owned
      <4> QED BY <3>2, <4>1, DoneBy
    <3> QED BY <3>1, <3>2
  <2>6. filling \subseteq {p}
      BY <2>1 DEF PayloadInv, AtPhase
  <2> HIDE DEF c
  <2> QED BY <2>1, <2>2, <2>3, <2>5, <2>6, WriteKeeps
<1> QED BY <1>1, <1>2

(* All files are written: the bindings follow. *)
LEMMA InstallDoneKeeps ==
    ASSUME PayloadInv, P!InstallDone, UNCHANGED cacheVars
    PROVE  PayloadInv' /\ result' = result
<1>1. /\ phase = "install" /\ todo = {} /\ phase' = "bind" /\ todo' = Bindings
      /\ UNCHANGED <<at, filling, overwrite, result>>
    BY DEF P!InstallDone
<1>2. filling = {} /\ pc = "idle" /\ pc' = "idle"
    BY <1>1 DEF PayloadInv, P!PayloadTypeOK, AtPhase, cacheVars
<1>3. P!PayloadTypeOK'
    BY <1>1, <1>2 DEF PayloadInv, P!PayloadTypeOK, P!Pcs, P!Paths
<1>4. AtPhase' /\ Accepted' /\ Bound'
    BY <1>1, <1>2 DEF AtPhase, Accepted, Bound
<1>5. Written'
    BY <1>1 DEF PayloadInv, Written, Done, Open, Plan, cacheVars, P!Owned, P!Shared
<1> QED BY <1>1, <1>2, <1>3, <1>4, <1>5 DEF PayloadInv

LEMMA BindKeeps ==
    ASSUME PayloadInv, NEW p \in P!Paths, P!Bind(p), UNCHANGED cacheVars
    PROVE  PayloadInv' /\ result' = result
<1>1. phase = "bind" /\ p \in todo /\ p \in Bindings /\ filling = {} /\ pc = "idle"
    BY DEF P!Bind, PayloadInv, AtPhase
<1>2. p \notin Plain /\ p \notin P!Shared
    BY <1>1, OneKind
<1>3. at[p].text \in {"shipped", "bound"}
    BY <1>1 DEF PayloadInv, Written, Done
<1>4. /\ at' = [at EXCEPT ![p] = P!Owned("bound")]
      /\ todo' = todo \ {p} /\ UNCHANGED <<phase, filling, overwrite, result>>
    BY <1>3 DEF P!Bind, P!Leave
<1>5. P!Owned("bound") \in P!Contents(p)
    BY <1>1, CopiesAreContents
<1>6. /\ at' \in [P!Paths -> UNION {P!Contents(q) : q \in P!Paths}]
      /\ \A q \in P!Paths : at'[q] \in P!Contents(q)
      /\ at'[p] = P!Owned("bound") /\ \A q \in P!Paths \ {p} : at'[q] = at[q]
    BY <1>4, <1>5, AtFacts DEF PayloadInv
<1>7. P!PayloadTypeOK'
    BY <1>1, <1>4, <1>6 DEF PayloadInv, P!PayloadTypeOK
<1>8. AtPhase' /\ Accepted'
    BY <1>1, <1>4 DEF PayloadInv, AtPhase, Accepted, cacheVars
<1>9. Done(p)'
    BY <1>2, <1>6 DEF Done, P!Owned, P!Shared
<1>10. ASSUME NEW q \in P!Paths \ {p} PROVE Done(q)'
  <2>1. at'[q] = at[q] /\ Done(q)
      BY <1>1, <1>6 DEF PayloadInv, Written
  <2> QED BY <2>1 DEF Done, P!Owned, P!Shared
<1>11. Written'
    BY <1>1, <1>4, <1>9, <1>10 DEF PayloadInv, Written, Open, Plan, cacheVars
<1>12. Bound'
  <2>1. SUFFICES ASSUME NEW q \in Bindings \ todo' PROVE at'[q] = P!Owned("bound")
      BY DEF Bound, P!Owned
  <2>2. q \in P!Paths
      BY DEF P!Paths
  <2> QED BY <1>1, <1>4, <1>6, <2>2 DEF PayloadInv, Bound
<1> QED BY <1>1, <1>4, <1>7, <1>8, <1>11, <1>12 DEF PayloadInv

LEMMA PayloadStepKeeps ==
    ASSUME PayloadInv, P!PayloadStep, UNCHANGED cacheVars
    PROVE  PayloadInv' /\ (result' = result \/ P!SetupOk)
<1>1. CASE P!SetupOk
  <2>1. P!End("ok") /\ UNCHANGED at /\ pc' = "idle"
      BY <1>1 DEF P!SetupOk, PayloadInv, AtPhase, cacheVars
  <2> QED BY <1>1, <2>1, EndKeeps DEF P!Results
<1>2. CASE P!InstallDone
    BY <1>2, InstallDoneKeeps
<1>3. CASE \E p \in P!Paths : \/ P!InstallShared(p) \/ P!KeepInstalled(p)
                              \/ P!CopyBegins(p) \/ P!CopyEnds(p) \/ P!Bind(p)
    BY <1>3, InstallSharedKeeps, KeepInstalledKeeps, CopyKeeps, BindKeeps
<1> QED BY <1>1, <1>2, <1>3 DEF P!PayloadStep

LEMMA UserWritesContents ==
    ASSUME NEW p \in P!Paths, NEW c \in P!UserWrites(p)
    PROVE  c \in P!Contents(p)
<1>1. CASE p \in P!Shared
  <2>1. \/ c \in {P!Missing, P!TornText(TRUE)}
        \/ \E h \in {"none", "whole", "changed"} : c = P!Config(h, TRUE)
      BY <1>1 DEF P!UserWrites
  <2>2. \A h \in {"none", "whole", "changed"} : P!Config(h, TRUE) \in P!Configs
      BY DEF P!Config, P!Configs
  <2> QED BY <1>1, <2>1, <2>2, SharedContents
<1>2. CASE p \notin P!Shared
  <2>1. c \in {P!Missing, P!Owned("foreign")}
      BY <1>2 DEF P!UserWrites
  <2> QED BY <1>2, <2>1, OneKind, ContentsOf
<1> QED BY <1>1, <1>2

-----------------------------------------------------------------------------
(* Setup as a whole. *)

LEMMA StartsRight == Init => SetupInv
<1> SUFFICES ASSUME Init PROVE SetupInv
    OBVIOUS
<1>1. /\ ver \in Versions /\ live \in Before /\ backup = Absent /\ stage = Absent /\ tx = NoTx
      /\ pc = "idle" /\ phase = "idle" /\ todo = {} /\ filling = {} /\ result = "none"
      /\ overwrite = FALSE
    BY DEF Init, CacheInit, P!PayloadInit
<1>2. CacheTypeOK
    BY <1>1, AbsentAssumption DEF CacheTypeOK, Pcs
<1>3. ~Open /\ ClosedDisk
    BY <1>1, BeforeAssumption DEF Open, ClosedDisk, Sound
<1>4. AtPc
    BY <1>1 DEF AtPc, RecoveryPcs, InstallPcs
<1>5. /\ at \in [P!Paths -> UNION {P!Contents(p) : p \in P!Paths}]
      /\ \A p \in P!Paths : at[p] \in P!Contents(p)
  <2>1. at \in [P!Paths -> UNION {P!UserWrites(p) : p \in P!Paths}]
      BY DEF Init, P!PayloadInit
  <2>2. \A p \in P!Paths : at[p] \in P!UserWrites(p)
      BY DEF Init, P!PayloadInit
  <2>3. \A p \in P!Paths : at[p] \in P!Contents(p)
      BY <2>2, UserWritesContents
  <2> QED BY <2>1, <2>3
<1>6. P!PayloadTypeOK
    BY <1>1, <1>5 DEF P!PayloadTypeOK, P!Pcs, P!Results
<1>7. PayloadInv
    BY <1>1, <1>6 DEF PayloadInv, AtPhase, Accepted, Written, Bound
<1> QED BY <1>2, <1>3, <1>4, <1>7 DEF SetupInv, CacheInv

LEMMA CacheStepFrames ==
    ASSUME CacheStep \/ Error \/ PowerLoss
    PROVE  UNCHANGED <<ver, overwrite>>
BY DEF CacheStep, Recover, Install, Error, PowerLoss, Goto, Inspect, RecoverRemovesStage, RecoverNoStage,
       RemoveStage, Isolate, RemoveIsolated, Restore, RemoveBackup, Finish, Begin, MakeStage, CopyFile,
       StageComplete, RetireLive, Promote, Validate, DropBackup, Commit, UndoPromote, UndoRetire,
       Cleanup, NothingStaged, Abandon

(* The cache is installed, or is not: the run goes on to the payloads or ends. *)
LEMMA CacheGoesOnKeeps ==
    ASSUME PayloadInv, phase = "cache", CacheGoesOn, UNCHANGED <<ver, overwrite>>
    PROVE  PayloadInv' /\ result' \in {result, "error"} /\ UNCHANGED at
<1>1. todo = P!Paths /\ filling = {} /\ UNCHANGED at
    BY DEF PayloadInv, AtPhase, CacheGoesOn
<1>2. CASE pc' # "idle"
  <2>1. UNCHANGED <<phase, todo, filling, result>>
      BY <1>2 DEF CacheGoesOn
  <2>2. P!PayloadTypeOK' /\ AtPhase'
      BY <1>1, <2>1 DEF PayloadInv, P!PayloadTypeOK, AtPhase
  <2>3. Accepted' /\ Written' /\ Bound'
      BY <1>1, <2>1 DEF PayloadInv, Accepted, Written, Bound, P!Collides, P!Mergeable, P!Installed
  <2> QED BY <1>1, <2>1, <2>2, <2>3 DEF PayloadInv
<1>3. CASE pc' = "idle" /\ ~Open' /\ live' = Plan
  <2>1. phase' = "install" /\ UNCHANGED <<todo, filling, result>>
      BY <1>3 DEF CacheGoesOn, CacheEnds
  <2>2. P!PayloadTypeOK' /\ AtPhase'
      BY <1>1, <1>3, <2>1 DEF PayloadInv, P!PayloadTypeOK, P!Pcs, AtPhase
  <2>3. Accepted' /\ Written' /\ Bound'
      BY <1>1, <1>3, <2>1 DEF PayloadInv, Accepted, Written, Bound, Plan, P!Collides, P!Mergeable, P!Installed
  <2> QED BY <1>1, <2>1, <2>2, <2>3 DEF PayloadInv
<1>4. CASE pc' = "idle" /\ ~(~Open' /\ live' = Plan)
  <2>1. P!End("error")
      BY <1>4 DEF CacheGoesOn, CacheEnds
  <2>2. PayloadInv'
      BY <1>1, <1>4, <2>1, EndKeeps DEF P!Results
  <2> QED BY <1>1, <2>1, <2>2 DEF P!End
<1> QED BY <1>2, <1>3, <1>4

LEMMA StartKeeps ==
    ASSUME SetupInv, Start
    PROVE  SetupInv'
<1>1. /\ phase = "idle" /\ phase' = "preflight" /\ overwrite' \in BOOLEAN /\ result' = "none"
      /\ UNCHANGED <<at, todo, filling>> /\ UNCHANGED cacheVars
    BY DEF Start, P!Start
<1>2. CacheInv'
    BY <1>1, CacheLeftAlone DEF SetupInv, CacheInv, CacheTypeOK, cacheVars, disk
<1>3. P!PayloadTypeOK'
    BY <1>1 DEF SetupInv, PayloadInv, P!PayloadTypeOK, P!Pcs, P!Results
<1>4. AtPhase' /\ Accepted' /\ Written' /\ Bound'
    BY <1>1 DEF SetupInv, PayloadInv, AtPhase, Accepted, Written, Bound, cacheVars
<1>5. \A p \in filling' : at'[p] = P!TornText(FALSE)
    BY <1>1 DEF SetupInv, PayloadInv, AtPhase
<1> QED BY <1>1, <1>2, <1>3, <1>4, <1>5 DEF SetupInv, PayloadInv

LEMMA PreflightKeeps ==
    ASSUME SetupInv, Preflight
    PROVE  SetupInv' /\ result' \in {result, "refused"} /\ UNCHANGED at
<1>1. phase = "preflight" /\ UNCHANGED at /\ UNCHANGED cacheVars /\ pc' = "idle"
    BY DEF Preflight, P!Preflight, SetupInv, PayloadInv, AtPhase, cacheVars
<1>2. CASE \E p \in P!Paths : P!Collides(p)
  <2>1. P!End("refused")
      BY <1>2 DEF Preflight, P!Preflight
  <2>2. PayloadInv'
      BY <1>1, <2>1, EndKeeps DEF SetupInv, P!Results
  <2>3. CacheInv'
      BY <1>1, <2>1, CacheLeftAlone DEF SetupInv, CacheInv, CacheTypeOK, cacheVars, disk, P!End
  <2> QED BY <1>1, <2>1, <2>2, <2>3 DEF SetupInv, P!End
<1>3. CASE ~\E p \in P!Paths : P!Collides(p)
  <2>1. phase' = "inspect" /\ todo' = P!Paths /\ UNCHANGED <<filling, overwrite, result>>
      BY <1>3 DEF Preflight, P!Preflight
  <2>2. CacheInv'
      BY <1>1, <2>1, CacheLeftAlone DEF SetupInv, CacheInv, CacheTypeOK, cacheVars, disk
  <2>3. filling = {}
      BY <1>1 DEF SetupInv, PayloadInv, AtPhase
  <2>4. P!PayloadTypeOK' /\ AtPhase'
      BY <1>1, <2>1, <2>3 DEF SetupInv, PayloadInv, P!PayloadTypeOK, P!Pcs, AtPhase
  <2>5. Accepted' /\ Written' /\ Bound'
      BY <1>1, <1>3, <2>1, <2>3 DEF Accepted, Written, Bound, P!Collides, P!Mergeable, P!Installed
  <2> QED BY <1>1, <2>1, <2>2, <2>3, <2>4, <2>5 DEF SetupInv, PayloadInv
<1> QED BY <1>2, <1>3

LEMMA PreInspectKeeps ==
    ASSUME SetupInv, PreInspect
    PROVE  SetupInv' /\ result' \in {result, "refused"} /\ UNCHANGED at
<1>1. /\ phase = "inspect" /\ UNCHANGED <<ver, disk, at, overwrite>> /\ pc = "idle"
      /\ pc' \in {"idle", "inspect"}
      /\ todo = P!Paths /\ filling = {}
    BY DEF PreInspect, P!End, SetupInv, PayloadInv, AtPhase
<1>2. CacheInv'
    BY <1>1, CacheLeftAlone DEF SetupInv, CacheInv, CacheTypeOK
<1>3. CASE InspectRefuses
  <2>1. P!End("refused") /\ pc' = "idle"
      BY <1>1, <1>3 DEF PreInspect
  <2>2. PayloadInv'
      BY <1>1, <2>1, EndKeeps DEF SetupInv, P!Results
  <2> QED BY <1>1, <1>2, <2>1, <2>2 DEF SetupInv, P!End
<1>4. CASE ~InspectRefuses
  <2>1. phase' = "cache" /\ UNCHANGED <<todo, filling, overwrite, result>>
      BY <1>4 DEF PreInspect
  <2>2. P!PayloadTypeOK' /\ AtPhase'
      BY <1>1, <2>1 DEF SetupInv, PayloadInv, P!PayloadTypeOK, P!Pcs, AtPhase
  <2>3. Accepted' /\ Written' /\ Bound'
      BY <1>1, <2>1 DEF SetupInv, PayloadInv, Accepted, Written, Bound, P!Collides, P!Mergeable, P!Installed
  <2> QED BY <1>1, <1>2, <2>1, <2>2, <2>3 DEF SetupInv, PayloadInv
<1> QED BY <1>3, <1>4

LEMMA CacheRunKeeps ==
    ASSUME SetupInv, InstallCache \/ CacheError
    PROVE  SetupInv' /\ result' \in {result, "error"} /\ UNCHANGED at
<1>1. phase = "cache" /\ (CacheStep \/ Error) /\ CacheGoesOn
    BY DEF InstallCache, CacheError
<1>2. CacheInv' /\ UNCHANGED <<ver, overwrite>>
    BY <1>1, CacheStepKeeps, CacheStepFrames DEF SetupInv
<1>3. PayloadInv' /\ result' \in {result, "error"} /\ UNCHANGED at
    BY <1>1, <1>2, CacheGoesOnKeeps DEF SetupInv
<1> QED BY <1>2, <1>3 DEF SetupInv

LEMMA InstallPayloadsKeeps ==
    ASSUME SetupInv, InstallPayloads
    PROVE  SetupInv' /\ (result' = result \/ P!SetupOk)
<1>1. P!PayloadStep /\ UNCHANGED cacheVars
    BY DEF InstallPayloads
<1>2. PayloadInv' /\ (result' = result \/ P!SetupOk)
    BY <1>1, PayloadStepKeeps DEF SetupInv
<1>3. UNCHANGED overwrite
    BY <1>1 DEF P!PayloadStep, P!InstallDone, P!SetupOk, P!InstallShared, P!KeepInstalled,
                P!CopyBegins, P!CopyEnds, P!Bind, P!Leave, P!End
<1>4. CacheInv'
    BY <1>1, <1>3, CacheLeftAlone DEF SetupInv, CacheInv, CacheTypeOK, cacheVars, disk
<1> QED BY <1>2, <1>4 DEF SetupInv

(* A run that ends without getting to its end. *)
LEMMA EndedKeeps ==
    ASSUME SetupInv, Fails \/ Dies
    PROVE  SetupInv' /\ result' \in {"error", "died"} /\ UNCHANGED at
<1>1. /\ UNCHANGED <<ver, disk, at, overwrite>> /\ pc' = "idle"
      /\ P!End("error") \/ P!End("died")
    BY DEF Fails, Dies, P!End, SetupInv, PayloadInv, AtPhase, cacheVars, disk
<1>2. CacheInv'
    BY <1>1, CacheLeftAlone DEF SetupInv, CacheInv, CacheTypeOK
<1>3. PayloadInv'
    BY <1>1, EndKeeps DEF SetupInv, P!Results
<1> QED BY <1>1, <1>2, <1>3 DEF SetupInv, P!End

LEMMA MachineStopsKeeps ==
    ASSUME SetupInv, MachineStops
    PROVE  SetupInv' /\ result' \in {result, "died"} /\ UNCHANGED at
<1>1. CacheInv' /\ UNCHANGED <<ver, overwrite>> /\ pc' = "idle" /\ UNCHANGED at /\ PowerLoss
    BY CacheStepKeeps, CacheStepFrames DEF SetupInv, MachineStops, PowerLoss, Goto
<1>2. CASE phase = "idle"
  <2>1. UNCHANGED <<phase, todo, filling, result>>
      BY <1>2 DEF MachineStops
  <2>2. P!PayloadTypeOK' /\ AtPhase'
      BY <1>1, <2>1 DEF SetupInv, PayloadInv, P!PayloadTypeOK, AtPhase
  <2>3. Accepted' /\ Written' /\ Bound'
      BY <1>2, <2>1 DEF Accepted, Written, Bound
  <2>4. \A p \in filling' : at'[p] = P!TornText(FALSE)
      BY <1>2, <2>1 DEF SetupInv, PayloadInv, AtPhase
  <2>5. result' # "late_collision"
      BY <2>1 DEF SetupInv, PayloadInv
  <2> QED BY <1>1, <2>1, <2>2, <2>3, <2>4, <2>5 DEF SetupInv, PayloadInv
<1>3. CASE phase # "idle"
  <2>1. P!End("died")
      BY <1>3 DEF MachineStops
  <2>2. PayloadInv'
      BY <1>1, <2>1, EndKeeps DEF SetupInv, P!Results
  <2> QED BY <1>1, <2>1, <2>2 DEF SetupInv, P!End
<1> QED BY <1>2, <1>3

(* What happens between two runs. *)
LEMMA BetweenRunsKeeps ==
    ASSUME SetupInv, UserEdits \/ Upgrade
    PROVE  SetupInv' /\ result' = result /\ phase = "idle"
<1>1. /\ phase = "idle" /\ UNCHANGED <<disk, pc, phase, todo, filling, overwrite, result>>
      /\ ver' \in Versions /\ pc = "idle"
    BY DEF UserEdits, P!UserEdits, Upgrade, cacheVars, payloadVars, disk,
           SetupInv, PayloadInv, AtPhase, CacheInv, CacheTypeOK
<1>2. CacheInv'
    BY <1>1, CacheLeftAlone DEF SetupInv, CacheInv, CacheTypeOK
<1>3. /\ at' \in [P!Paths -> UNION {P!Contents(q) : q \in P!Paths}]
      /\ \A q \in P!Paths : at'[q] \in P!Contents(q)
  <2>1. CASE UserEdits
    <3>1. PICK p \in P!Paths : P!UserEdits(p)
        BY <2>1 DEF UserEdits
    <3>2. PICK c \in P!UserWrites(p) : at' = [at EXCEPT ![p] = c]
        BY <3>1 DEF P!UserEdits
    <3>3. c \in P!Contents(p)
        BY <3>2, UserWritesContents
    <3> QED BY <3>2, <3>3, AtFacts DEF SetupInv, PayloadInv
  <2>2. CASE Upgrade
      BY <2>2 DEF Upgrade, payloadVars, SetupInv, PayloadInv, P!PayloadTypeOK
  <2> QED BY <2>1, <2>2
<1>4. P!PayloadTypeOK'
    BY <1>1, <1>3 DEF SetupInv, PayloadInv, P!PayloadTypeOK
<1>5. AtPhase' /\ Accepted' /\ Written' /\ Bound'
    BY <1>1 DEF SetupInv, PayloadInv, AtPhase, Accepted, Written, Bound
<1>6. \A p \in filling' : at'[p] = P!TornText(FALSE)
    BY <1>1 DEF SetupInv, PayloadInv, AtPhase
<1> QED BY <1>1, <1>2, <1>4, <1>5, <1>6 DEF SetupInv, PayloadInv

LEMMA StutterKeeps ==
    ASSUME SetupInv, UNCHANGED vars
    PROVE  SetupInv'
<1>1. UNCHANGED cacheVars /\ UNCHANGED <<overwrite, at, phase, todo, filling, result>>
    BY DEF vars, payloadVars
<1>2. CacheInv'
    BY <1>1, CacheLeftAlone DEF SetupInv, CacheInv, CacheTypeOK, cacheVars, disk
<1>3. P!PayloadTypeOK' /\ AtPhase'
    BY <1>1 DEF SetupInv, PayloadInv, P!PayloadTypeOK, AtPhase, cacheVars
<1>4. Accepted' /\ Written' /\ Bound'
    BY <1>1 DEF SetupInv, PayloadInv, Accepted, Written, Bound, P!Collides, P!Mergeable, P!Installed,
                Done, Open, Plan, cacheVars, P!Owned, P!Shared
<1> QED BY <1>1, <1>2, <1>3, <1>4 DEF SetupInv, PayloadInv, P!TornText

LEMMA SetupInvInductive == SetupInv /\ [Next]_vars => SetupInv'
BY StartKeeps, PreflightKeeps, PreInspectKeeps, CacheRunKeeps, InstallPayloadsKeeps, EndedKeeps,
   MachineStopsKeeps, BetweenRunsKeeps, StutterKeeps DEF Next, Step, Fault

LEMMA SetupInvHolds == Spec => []SetupInv
BY StartsRight, SetupInvInductive, PTL DEF Spec

(* Every variable of Setup keeps its type, and the transaction only runs in  *)
(* the phase of _install_active_cache.                                       *)
THEOREM SetupTypeCorrect == Spec => []TypeOK
<1>1. SetupInv => TypeOK
    BY DEF SetupInv, CacheInv, PayloadInv, AtPhase, TypeOK
<1> QED BY <1>1, SetupInvHolds, PTL

(* Wherever _install_active_cache or _recover_cache_transaction is stopped,  *)
(* and however often, the prior cache or the new one is whole in its place,  *)
(* or the prior one whole in the backup; and _inspect_active_cache accepts   *)
(* what is left.                                                             *)
THEOREM AlwaysRecoverable == Spec => []CrashSafe
<1>1. SetupInv => CrashSafe
  <2> SUFFICES ASSUME CacheInv PROVE CrashSafe
      BY DEF SetupInv
  <2>1. CASE ~Open
      BY <2>1 DEF CacheInv, ClosedDisk, CrashSafe, PriorOrTarget, Recoverable
  <2>2. CASE Open
    <3>1. OpenDisk
        BY <2>2 DEF CacheInv
    <3>2. PriorOrTarget
        BY <3>1 DEF OpenDisk, PriorKept, PriorOrTarget
    <3>3. backup # Absent => ~BackupRefused
      <4>1. PriorKept => OwnedBytes(backup, tx.previous)
          BY DEF PriorKept, OwnedBytes, OwnedNames
      <4> QED BY <3>1, <4>1 DEF OpenDisk, PriorKept, LostBytes, BackupRefused
    <3>4. backup = Absent => live \in {tx.target, tx.previous}
        BY <3>1 DEF OpenDisk, PriorKept
    <3>5. ~InspectRefuses
        BY <2>2, <3>1, <3>3, <3>4 DEF OpenDisk, InspectRefuses
    <3> QED BY <2>2, <3>2, <3>5 DEF CrashSafe, Recoverable
  <2> QED BY <2>1, <2>2
<1> QED BY <1>1, SetupInvHolds, PTL

(* Success is only reported by the step that has found every binding done. *)
LEMMA OkIsTrue ==
    ASSUME SetupInv, [Next]_vars
    PROVE  ReportsTruly
<1>1. result # "late_collision"
    BY DEF SetupInv, PayloadInv
<1>2. result' \in {result, "none", "refused", "error", "died"} \/ (InstallPayloads /\ P!SetupOk)
  <2>1. Start => result' = "none"
      BY DEF Start, P!Start
  <2>2. UNCHANGED vars => result' = result
      BY DEF vars, payloadVars
  <2> QED BY <2>1, <2>2, PreflightKeeps, PreInspectKeeps, CacheRunKeeps, InstallPayloadsKeeps, EndedKeeps,
             MachineStopsKeeps, BetweenRunsKeeps DEF Next, Step, Fault
<1>3. ASSUME InstallPayloads, P!SetupOk
      PROVE  /\ live' = Plan' /\ ~Open'
             /\ \A p \in Plain : at'[p] = P!Owned("shipped")
             /\ \A p \in Bindings : at'[p] = P!Owned("bound")
             /\ \A p \in P!Shared : at'[p].harness = "whole"
  <2>1. phase = "bind" /\ todo = {} /\ UNCHANGED at /\ UNCHANGED cacheVars
      BY <1>3 DEF InstallPayloads, P!SetupOk
  <2>2. ~Open /\ live = Plan /\ \A p \in P!Paths : Done(p)
      BY <2>1 DEF SetupInv, PayloadInv, Written
  <2>3. live' = Plan' /\ ~Open'
      BY <2>1, <2>2 DEF Plan, Open, cacheVars
  <2>4. \A p \in Bindings : at'[p] = P!Owned("bound")
      BY <2>1 DEF SetupInv, PayloadInv, Bound
  <2>5. \A p \in Plain : at'[p] = P!Owned("shipped")
      BY <2>1, <2>2 DEF Done, P!Paths
  <2>6. \A p \in P!Shared : at'[p].harness = "whole"
      BY <2>1, <2>2 DEF Done, P!Paths
  <2> QED BY <2>3, <2>4, <2>5, <2>6
<1> QED BY <1>1, <1>2, <1>3 DEF ReportsTruly

(* A run that reports success has installed the cache of this release and    *)
(* every payload, whatever the runs before it left; and a collision is       *)
(* reported before anything is written, by _preflight_root_payloads, or not  *)
(* at all.                                                                   *)
THEOREM HonestResult == Spec => ResultHonest
<1>1. SetupInv /\ [Next]_vars => ReportsTruly
    BY OkIsTrue
<1> QED BY <1>1, SetupInvHolds, PTL DEF Spec, ResultHonest

-----------------------------------------------------------------------------
(* What the user wrote. *)

(* Only the payload steps write, each at one destination. *)
LEMMA PayloadStepKeepsUsers ==
    ASSUME SetupInv, P!PayloadStep, NEW p \in P!Paths,
           at[p].user, p \in P!Shared \/ ~overwrite
    PROVE  at'[p].user
<1>1. /\ at \in [P!Paths -> UNION {P!Contents(q) : q \in P!Paths}]
      /\ at[p] \in P!Contents(p)
    BY DEF SetupInv, PayloadInv, P!PayloadTypeOK
<1>2. CASE P!InstallDone \/ P!SetupOk
    BY <1>2 DEF P!InstallDone, P!SetupOk
<1>3. ASSUME NEW q \in P!Paths, P!InstallShared(q)
      PROVE  at'[p].user
  <2>1. CASE q # p \/ ~P!Mergeable(q)
      BY <1>1, <1>3, <2>1 DEF P!InstallShared
  <2>2. CASE q = p /\ P!Mergeable(p)
    <3>1. at' = [at EXCEPT ![p].harness = "whole"] /\ p \in P!Shared /\ at[p].text = "config"
        BY <1>3, <2>2 DEF P!InstallShared, P!Mergeable
    <3>2. at'[p] = [at[p] EXCEPT !.harness = "whole"]
        BY <1>1, <3>1
    <3> QED BY <1>1, <3>1, <3>2, MergedText
  <2> QED BY <2>1, <2>2
<1>4. ASSUME NEW q \in P!Paths, P!KeepInstalled(q)
      PROVE  at'[p].user
    BY <1>4 DEF P!KeepInstalled
<1>5. ASSUME NEW q \in P!Paths, P!CopyBegins(q)
      PROVE  at'[p].user
  <2>1. /\ at' = [at EXCEPT ![q] = P!TornText(FALSE)] /\ phase = "install" /\ filling = {} /\ q \in todo
        /\ IF q \in P!Shared THEN at[q] = P!Missing ELSE overwrite \/ ~P!Installed(q)
      BY <1>5 DEF P!CopyBegins
  <2>2. ~P!Collides(q)
      BY <2>1 DEF SetupInv, PayloadInv, Accepted
  <2>3. at[p] # P!Missing
      BY DEF P!Missing
  <2>4. q # p
      BY <2>1, <2>2, <2>3 DEF P!Collides
  <2> QED BY <1>1, <2>1, <2>4
<1>6. ASSUME NEW q \in P!Paths, P!CopyEnds(q)
      PROVE  at'[p].user
  <2>1. at[q] = P!TornText(FALSE)
      BY <1>6 DEF P!CopyEnds, SetupInv, PayloadInv
  <2>2. q # p
      BY <2>1 DEF P!TornText
  <2> QED BY <1>1, <1>6, <2>2 DEF P!CopyEnds
<1>7. ASSUME NEW q \in P!Paths, P!Bind(q)
      PROVE  at'[p].user
  <2>1. CASE at[q].text \in {"shipped", "bound"}
    <3>1. q \in Bindings /\ at[q] \in P!Contents(q)
        BY <1>7 DEF P!Bind, SetupInv, PayloadInv, AtPhase, P!PayloadTypeOK
    <3>2. q # p
        BY <2>1, <3>1, OwnedTextTells
    <3> QED BY <1>1, <1>7, <2>1, <3>2 DEF P!Bind
  <2>2. CASE at[q].text \notin {"shipped", "bound"}
      BY <1>7, <2>2 DEF P!Bind
  <2> QED BY <2>1, <2>2
<1> QED BY <1>2, <1>3, <1>4, <1>5, <1>6, <1>7 DEF P!PayloadStep

LEMMA UsersKept ==
    ASSUME SetupInv, [Next]_vars
    PROVE  KeepsUserContent
<1> SUFFICES ASSUME NEW p \in P!Paths, at[p].user, p \in P!Shared \/ ~overwrite, phase # "idle"
             PROVE  at'[p].user
    BY DEF KeepsUserContent
<1>1. Start \/ UNCHANGED vars => UNCHANGED at
    BY DEF Start, P!Start, vars, payloadVars
<1>2. UNCHANGED at \/ InstallPayloads
    BY <1>1, PreflightKeeps, PreInspectKeeps, CacheRunKeeps, EndedKeeps, MachineStopsKeeps,
       BetweenRunsKeeps DEF Next, Step, Fault
<1> QED BY <1>2, PayloadStepKeepsUsers DEF InstallPayloads

(* What the user had in a shared file survives every step of every run, even *)
(* with --overwrite; a file of the user's in the way of a harness-owned one  *)
(* survives unless --overwrite was given.                                    *)
THEOREM UsersContentKept == Spec => UserContentKept
<1>1. SetupInv /\ [Next]_vars => KeepsUserContent
    BY UsersKept
<1> QED BY <1>1, SetupInvHolds, PTL DEF Spec, UserContentKept

-----------------------------------------------------------------------------
(* Refinement: the installation is atomic. *)

(* The record is written by Begin, and is removed over one of its two trees; *)
(* the cache is only touched while it is there.                              *)
LEMMA RecordFrames ==
    ASSUME CacheInv, CacheStep \/ Error \/ PowerLoss
    PROVE  \/ Begin
           \/ UNCHANGED tx /\ (Open \/ UNCHANGED live)
           \/ /\ Open /\ tx' = NoTx /\ UNCHANGED live
              /\ live \in {tx.target, tx.previous}
<1>1. CASE Inspect \/ Error
    BY <1>1 DEF Inspect, Error, disk
<1>2. CASE RecoverRemovesStage \/ RecoverNoStage \/ Isolate \/ RemoveIsolated \/ Restore \/ RemoveBackup
    BY <1>2 DEF CacheInv, AtPc, RecoveryPcs, RecoverRemovesStage, RecoverNoStage, RemoveStage, Isolate,
                RemoveIsolated, Restore, RemoveBackup, disk
<1>3. CASE MakeStage \/ CopyFile \/ StageComplete \/ RetireLive \/ Promote \/ Validate \/ DropBackup
    BY <1>3 DEF CacheInv, AtPc, InstallPcs, MakeStage, CopyFile, StageComplete, RetireLive, Promote,
                Validate, DropBackup, disk
<1>4. CASE UndoPromote \/ UndoRetire \/ Cleanup \/ NothingStaged
    BY <1>4 DEF CacheInv, AtPc, InstallPcs, UndoPromote, UndoRetire, Cleanup, NothingStaged, RemoveStage, disk
<1>5. CASE PowerLoss
    BY <1>5 DEF PowerLoss
<1>6. CASE Finish
  <2>1. Open /\ stage = Absent /\ backup = Absent /\ live \in {tx.target, tx.previous}
      BY <1>6, OpenFacts DEF CacheInv, AtPc, Finish, RecoveryPcs, OpenDisk, PriorKept
  <2> QED BY <1>6, <2>1 DEF Finish
<1>7. CASE Commit
    BY <1>7 DEF Commit, CacheInv, AtPc, InstallPcs
<1>8. CASE Abandon
    BY <1>8 DEF Abandon, CacheInv, AtPc, InstallPcs
<1> QED BY <1>1, <1>2, <1>3, <1>4, <1>5, <1>6, <1>7, <1>8 DEF CacheStep, Recover, Install

LEMMA InitIsAtomic == Init => Atomic!Init
BY AbsentAssumption DEF Init, CacheInit, Atomic!Init, Open

LEMMA StepIsAtomic ==
    ASSUME SetupInv, [Next]_vars
    PROVE  [Atomic!Next]_(Atomic!vars)
<1>1. CASE UNCHANGED <<tx, live>>
    BY <1>1 DEF Atomic!vars, Open
<1>2. CASE CacheStep \/ Error \/ PowerLoss
  <2>1. CacheInv
      BY DEF SetupInv
  <2>2. CASE Begin
    <3>1. ~Open /\ tx' = [previous |-> live, target |-> Plan] /\ Plan \in Trees
        BY <2>1, <2>2, PlanIsSound DEF CacheInv, CacheTypeOK, AtPc, Begin, Plan
    <3>2. tx' # NoTx /\ tx'.previous = live /\ tx'.target = Plan
        BY <3>1, AbsentAssumption DEF NoTx
    <3> QED BY <3>1, <3>2 DEF Atomic!Next, Atomic!Begin, Open
  <2>3. CASE UNCHANGED tx /\ (Open \/ UNCHANGED live)
      BY <2>3 DEF Atomic!vars, Open
  <2>4. CASE Open /\ tx' = NoTx /\ UNCHANGED live /\ live \in {tx.target, tx.previous}
    <3>1. tx.target # Absent
        BY <2>1, <2>4, OpenFacts DEF CacheInv
    <3>2. ~Open'
        BY <2>4 DEF Open
    <3> QED BY <2>4, <3>1, <3>2 DEF Atomic!Next, Atomic!Commit, Atomic!Abort
  <2> QED BY <1>2, <2>1, <2>2, <2>3, <2>4, RecordFrames
<1>3. [Next]_vars => UNCHANGED <<tx, live>> \/ CacheStep \/ Error \/ PowerLoss
    BY DEF Next, Step, Fault, Start, Preflight, PreInspect, InstallCache, InstallPayloads, CacheError, Fails,
           Dies, MachineStops, UserEdits, Upgrade, vars, cacheVars, disk
<1> QED BY <1>1, <1>2, <1>3

(* Whoever honours the transaction record sees one whole cache replaced by   *)
(* another or nothing happen, whatever stops setup on the way: the directory *)
(* moves, copies, removals and recoveries implement AtomicCache.             *)
THEOREM SetupImplementsAtomic == Spec => InstallsAtomically
<1>1. Init => Atomic!Init
    BY InitIsAtomic
<1>2. SetupInv /\ [Next]_vars => [Atomic!Next]_(Atomic!vars)
    BY StepIsAtomic
<1> QED BY <1>1, <1>2, SetupInvHolds, PTL DEF Spec, InstallsAtomically, Atomic!Spec
=============================================================================

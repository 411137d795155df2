---------------------------- MODULE CacheInstall ----------------------------
(***************************************************************************)
(* The transaction by which `harness setup` installs the active worker      *)
(* cache (setup.py, _install_active_cache).  Three directories under the    *)
(* runtime root take part: super-cache (live), super-cache.old (backup) and *)
(* .super-cache.<id> (stage); super-cache.transaction.json (tx) records     *)
(* which files the cache had before and which it is to have.  Each action   *)
(* is one effect on the disk.  rmtree and copy2 are not atomic, any effect  *)
(* may fail with OSError, the process may die between two effects, and the  *)
(* shipped files may be another version at the next run.                    *)
(*                                                                          *)
(* A tree is a function from relative paths to the version of the bytes     *)
(* found there.  Directories inside a tree go with their files.             *)
(***************************************************************************)
EXTENDS Naturals, FiniteSets

CONSTANTS Files,      \* the relative paths that occur
          Versions,   \* the releases of the harness
          FilesOf,    \* the paths each release ships
          Torn,       \* bytes of a copy that stopped half way or was not flushed
          Edited,     \* bytes that no release shipped
          Absent,     \* no tree at this path
          Before      \* the caches that may be there before the first setup

ASSUME FilesOfAssumption == FilesOf \in [Versions -> SUBSET Files]
ASSUME BytesAssumption == Torn \notin Versions /\ Edited \notin Versions /\ Torn # Edited

Bytes == Versions \cup {Torn, Edited}
Trees == UNION {[S -> Bytes] : S \in SUBSET Files}

ASSUME AbsentAssumption == Absent \notin Trees /\ Before \subseteq Trees \cup {Absent}

(* Before the first setup no copy has been made that could have stopped. *)
ASSUME BeforeAssumption == \A t \in Before \ {Absent} : \A f \in DOMAIN t : t[f] # Torn

VARIABLES ver,        \* the release in the harness root
          live, backup, stage,
          tx,         \* the transaction record, or NoTx
          pc,         \* where the running setup is; "idle" when none runs
          overwrite   \* was the running setup given --overwrite

cacheVars == <<ver, live, backup, stage, tx, pc>>
disk == <<live, backup, stage, tx>>

PlanOf(v) == [f \in FilesOf[v] |-> v]
Plan == PlanOf(ver)
Transactions == [previous: Trees \cup {Absent}, target: Trees]
NoTx == [previous |-> Absent, target |-> Absent]
Open == tx # NoTx

RecoveryPcs == {"rm_stage", "isolate", "rm_isolated", "restore", "rm_backup", "finish"}
InstallPcs == {"mkdir", "copy", "retire", "promote", "validate", "drop_backup", "commit",
               "undo_promote", "undo_retire", "cleanup", "abandon"}
Pcs == {"idle", "inspect", "reinspect", "begin"} \cup RecoveryPcs \cup InstallPcs

(***************************************************************************)
(* Comparisons with the recorded manifests.                                 *)
(***************************************************************************)
OwnedNames(tree, manifest) == DOMAIN tree \subseteq DOMAIN manifest
OwnedBytes(tree, manifest) == /\ OwnedNames(tree, manifest)
                              /\ \A f \in DOMAIN tree : tree[f] = manifest[f]

Without(tree, f) == [g \in DOMAIN tree \ {f} |-> tree[g]]
Put(tree, f, b) == [g \in DOMAIN tree \cup {f} |-> IF g = f THEN b ELSE tree[g]]

(* One step of rmtree: some file goes, or the directory that is left empty. *)
Shrinks(tree) == IF DOMAIN tree = {} THEN {Absent}
                 ELSE {Without(tree, f) : f \in DOMAIN tree}

(* _inspect_active_cache finds a state it will not touch. *)
BackupRefused ==
    \/ tx.previous = Absent
    \/ ~OwnedBytes(backup, tx.previous)
    \/ backup # tx.previous /\ live # tx.target
    \/ live \notin {Absent, tx.target, tx.previous} /\ ~OwnedNames(live, tx.target)

InspectRefuses ==
    IF Open
    THEN \/ stage # Absent /\ ~OwnedNames(stage, tx.target)
         \/ backup # Absent /\ BackupRefused
         \/ backup = Absent /\ live \notin {tx.target, tx.previous}
    ELSE \/ backup # Absent \/ stage # Absent
         \/ live # Absent /\ ~OwnedNames(live, Plan)
         \/ live # Absent /\ live # Plan /\ ~overwrite

-----------------------------------------------------------------------------
CacheInit == /\ ver \in Versions /\ live \in Before
             /\ backup = Absent /\ stage = Absent /\ tx = NoTx /\ pc = "idle"

Goto(next) == pc' = next /\ UNCHANGED <<ver, overwrite>>

(* Mutant: an open transaction is begun again instead of recovered. *)
InspectOnly ==
    /\ pc \in {"inspect", "reinspect"}
    /\ UNCHANGED disk
    /\ Goto(IF InspectRefuses \/ live = Plan THEN "idle" ELSE "begin")

Inspect ==
    /\ pc \in {"inspect", "reinspect"}
    /\ UNCHANGED disk
    /\ \/ InspectRefuses /\ Goto("idle")
       \/ ~InspectRefuses /\ Open /\ Goto("rm_stage")
       \/ ~InspectRefuses /\ ~Open /\ live = Plan /\ Goto("idle")
       \/ ~InspectRefuses /\ ~Open /\ live # Plan /\ Goto("begin")

-----------------------------------------------------------------------------
(* _recover_cache_transaction *)

(* Mutant: whatever is in place is taken for the promoted cache. *)
TrustLive == IF backup = Absent THEN "finish"
             ELSE IF live = Absent THEN "restore" ELSE "rm_backup"

RecoverBranch == IF backup = Absent THEN "finish"
                 ELSE IF live \in {tx.target, tx.previous} THEN "rm_backup"
                 ELSE IF live = Absent THEN "restore" ELSE "isolate"

RemoveStage(at, next) ==
    /\ pc = at /\ stage # Absent
    /\ stage' \in Shrinks(stage)
    /\ Goto(IF stage' = Absent THEN next ELSE at)
    /\ UNCHANGED <<live, backup, tx>>

RecoverRemovesStage == RemoveStage("rm_stage", RecoverBranch)
RecoverNoStage == /\ pc = "rm_stage" /\ stage = Absent
                  /\ Goto(RecoverBranch) /\ UNCHANGED disk

(* A promoted tree that is neither the target nor the prior cache is moved aside. *)
Isolate == /\ pc = "isolate" /\ OwnedNames(live, tx.target)
           /\ stage' = live /\ live' = Absent
           /\ Goto("rm_isolated") /\ UNCHANGED <<backup, tx>>

RemoveIsolated == RemoveStage("rm_isolated", "restore")

Restore == /\ pc = "restore"
           /\ live' = backup /\ backup' = Absent
           /\ Goto("finish") /\ UNCHANGED <<stage, tx>>

RemoveBackup == /\ pc = "rm_backup"
                /\ backup' \in Shrinks(backup)
                /\ Goto(IF backup' = Absent THEN "finish" ELSE "rm_backup")
                /\ UNCHANGED <<live, stage, tx>>

(* Mutant: only the new tree is accepted at the end of a recovery. *)
FinishForward ==
    /\ pc = "finish"
    /\ IF stage = Absent /\ backup = Absent /\ live = tx.target
       THEN tx' = NoTx /\ Goto("reinspect")
       ELSE tx' = tx /\ Goto("idle")
    /\ UNCHANGED <<live, backup, stage>>

Finish == /\ pc = "finish"
          /\ IF stage = Absent /\ backup = Absent /\ live \in {tx.target, tx.previous}
             THEN tx' = NoTx /\ Goto("reinspect")
             ELSE tx' = tx /\ Goto("idle")
          /\ UNCHANGED <<live, backup, stage>>

-----------------------------------------------------------------------------
(* _install_active_cache and _replace_tree *)

Begin == /\ pc = "begin"
         /\ tx' = [previous |-> live, target |-> Plan]
         /\ Goto("mkdir") /\ UNCHANGED <<live, backup, stage>>

MakeStage == /\ pc = "mkdir"
             /\ stage' = [f \in {} |-> Torn]
             /\ Goto("copy") /\ UNCHANGED <<live, backup, tx>>

(* copy2 creates the file, fills it, and the bytes are read back. *)
CopyFile ==
    /\ pc = "copy" /\ stage # Plan
    /\ \E f \in DOMAIN Plan :
          \/ /\ f \notin DOMAIN stage
             /\ \A g \in DOMAIN stage : stage[g] # Torn
             /\ stage' = Put(stage, f, Torn)
          \/ /\ f \in DOMAIN stage /\ stage[f] = Torn
             /\ stage' = Put(stage, f, ver)
    /\ Goto("copy") /\ UNCHANGED <<live, backup, tx>>

StageComplete == /\ pc = "copy" /\ stage = Plan
                 /\ Goto(IF live = Absent THEN "promote" ELSE "retire")
                 /\ UNCHANGED disk

RetireLive == /\ pc = "retire"
              /\ backup' = live /\ live' = Absent
              /\ Goto("promote") /\ UNCHANGED <<stage, tx>>

Promote == /\ pc = "promote"
           /\ live' = stage /\ stage' = Absent
           /\ Goto("validate") /\ UNCHANGED <<backup, tx>>

Validate == /\ pc = "validate" /\ live = Plan
            /\ Goto(IF backup = Absent THEN "commit" ELSE "drop_backup")
            /\ UNCHANGED disk

(* validate_backup proves the whole backup once, before rmtree begins. *)
DropBackup == /\ pc = "drop_backup"
              /\ backup' \in Shrinks(backup)
              /\ Goto(IF backup' = Absent THEN "commit" ELSE "drop_backup")
              /\ UNCHANGED <<live, stage, tx>>

Commit == /\ pc = "commit"
          /\ tx' = NoTx /\ Goto("idle")
          /\ UNCHANGED <<live, backup, stage>>

(* The rollback of _replace_tree: the promoted tree back to the stage, *)
(* then the backup back to its place.                                  *)
UndoPromote == /\ pc = "undo_promote"
               /\ IF live # Absent /\ stage = Absent /\ (backup # Absent \/ tx.previous = Absent)
                  THEN stage' = live /\ live' = Absent
                  ELSE UNCHANGED <<stage, live>>
               /\ Goto(IF backup # Absent /\ live' = Absent THEN "undo_retire" ELSE "cleanup")
               /\ UNCHANGED <<backup, tx>>

UndoRetire == /\ pc = "undo_retire"
              /\ live' = backup /\ backup' = Absent
              /\ Goto("cleanup") /\ UNCHANGED <<stage, tx>>

(* The except clause of _install_active_cache. *)
Cleanup == RemoveStage("cleanup", "abandon")
NothingStaged == pc = "cleanup" /\ stage = Absent /\ Goto("abandon") /\ UNCHANGED disk

Abandon == /\ pc = "abandon"
           /\ tx' = IF backup = Absent /\ live = tx.previous /\ stage = Absent THEN NoTx ELSE tx
           /\ Goto("idle") /\ UNCHANGED <<live, backup, stage>>

-----------------------------------------------------------------------------
(***************************************************************************)
(* Faults.  An effect that raises OSError did not happen; where control      *)
(* goes is the except clause around it.                                     *)
(***************************************************************************)
AfterError ==
    CASE pc \in {"retire", "promote", "validate"} -> "undo_promote"
      [] pc \in {"copy", "drop_backup", "commit", "undo_promote", "undo_retire"} -> "cleanup"
      [] pc = "cleanup" -> "abandon"
      [] OTHER -> "idle"

Error == /\ pc # "idle"
         /\ Goto(AfterError)
         /\ UNCHANGED disk

(* The machine stops after the rename of the stage reached the disk and the *)
(* bytes of a staged file did not: copy2 does not flush them.  Only while   *)
(* the whole backup is still there (see the README for the later window).   *)
PowerLoss == /\ Open /\ backup # Absent /\ backup = tx.previous /\ live = tx.target
             /\ \E f \in DOMAIN live : live' = Put(live, f, Torn)
             /\ Goto("idle") /\ UNCHANGED <<backup, stage, tx>>

Recover == RecoverRemovesStage \/ RecoverNoStage \/ Isolate \/ RemoveIsolated \/ Restore
           \/ RemoveBackup \/ Finish
Install == Begin \/ MakeStage \/ CopyFile \/ StageComplete \/ RetireLive \/ Promote
           \/ Validate \/ DropBackup \/ Commit \/ UndoPromote \/ UndoRetire
           \/ Cleanup \/ NothingStaged \/ Abandon
CacheStep == Inspect \/ Recover \/ Install
-----------------------------------------------------------------------------
CacheTypeOK == /\ ver \in Versions
               /\ live \in Trees \cup {Absent}
               /\ backup \in Trees \cup {Absent}
               /\ stage \in Trees \cup {Absent}
               /\ tx \in Transactions \cup {NoTx}
               /\ pc \in Pcs
               /\ overwrite \in BOOLEAN

(* Whatever effect of setup was the last before the process died, the cache *)
(* that was installed is whole in its place or in the backup, or the new    *)
(* one is whole in its place: rmtree never runs on the only copy.           *)
PriorOrTarget ==
    Open => \/ live = tx.target
            \/ live = tx.previous
            \/ tx.previous # Absent /\ backup = tx.previous

(* What an interrupted setup leaves behind is always something the next run *)
(* agrees to recover: _inspect_active_cache never refuses an open           *)
(* transaction, and without one there is neither a backup nor a stage.      *)
Recoverable ==
    IF Open THEN ~InspectRefuses ELSE backup = Absent /\ stage = Absent

(* Setup may die after any of its effects: no cache is lost, and no run is  *)
(* needed that setup would refuse.                                          *)
CrashSafe == PriorOrTarget /\ Recoverable

(* Seen by those who respect the transaction record, installing is atomic. *)
Atomic == INSTANCE AtomicCache WITH
             cache <- IF Open THEN tx.previous ELSE live,
             pending <- IF Open THEN tx.target ELSE Absent
InstallsAtomically == Atomic!Spec
=============================================================================

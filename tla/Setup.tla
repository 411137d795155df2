------------------------------- MODULE Setup -------------------------------
(***************************************************************************)
(* run_setup of setup.py: the ROOT payloads are preflighted, the active     *)
(* cache inspected, the cache installed (CacheInstall), then the payloads   *)
(* written and bound (RootPayloads).  The process may die between any two   *)
(* effects and setup is run again, with or without --overwrite; between two *)
(* runs the user edits the workspace, and the harness root may be moved to  *)
(* another release of the worker cache.                                     *)
(***************************************************************************)
EXTENDS CacheInstall

CONSTANTS Plain, Bindings, HookFiles, CodexFiles

ASSUME KindsAssumption == /\ Plain \cap Bindings = {}
                          /\ (Plain \cup Bindings) \cap (HookFiles \cup CodexFiles) = {}
                          /\ HookFiles \cap CodexFiles = {}

VARIABLES at, phase, todo, filling, result

P == INSTANCE RootPayloads WITH pc <- phase

payloadVars == <<at, phase, todo, filling, result>>
vars == <<cacheVars, payloadVars, overwrite>>

Init == CacheInit /\ P!PayloadInit /\ overwrite = FALSE

Start == P!Start /\ UNCHANGED cacheVars

Preflight == P!Preflight /\ UNCHANGED cacheVars

(* The end of phase one: still nothing is written. *)
PreInspect == /\ phase = "inspect"
              /\ IF InspectRefuses
                 THEN P!End("refused") /\ UNCHANGED pc
                 ELSE phase' = "cache" /\ pc' = "inspect" /\ UNCHANGED <<todo, filling, overwrite, result>>
              /\ UNCHANGED <<ver, disk, at>>

(* Mutant: the payloads follow however the cache came out. *)
CacheEndsAnyway == phase' = "install" /\ UNCHANGED <<todo, filling, result>>

(* _install_active_cache returns, or raises. *)
CacheEnds == IF ~Open' /\ live' = Plan
             THEN phase' = "install" /\ UNCHANGED <<todo, filling, result>>
             ELSE P!End("error")

CacheGoesOn == /\ IF pc' = "idle" THEN CacheEnds ELSE UNCHANGED <<phase, todo, filling, result>>
               /\ UNCHANGED at

InstallCache == phase = "cache" /\ CacheStep /\ CacheGoesOn

InstallPayloads == P!PayloadStep /\ UNCHANGED cacheVars

Step == Preflight \/ PreInspect \/ InstallCache \/ InstallPayloads

-----------------------------------------------------------------------------
(* What can happen to a run, and between two. *)

(* An OSError of the transaction, which has handlers of its own. *)
CacheError == phase = "cache" /\ Error /\ CacheGoesOn

(* An OSError that ends the run. *)
Fails == phase \notin {"idle", "cache"} /\ P!End("error") /\ UNCHANGED <<cacheVars, at>>

Dies == /\ phase # "idle" /\ P!End("died")
        /\ pc' = "idle" /\ UNCHANGED <<ver, disk, at>>

MachineStops == /\ PowerLoss
                /\ IF phase = "idle" THEN UNCHANGED <<phase, todo, filling, result>> ELSE P!End("died")
                /\ UNCHANGED at

UserEdits == (\E p \in P!Paths : P!UserEdits(p)) /\ UNCHANGED cacheVars

(* Another release is checked out. *)
Upgrade == /\ phase = "idle"
           /\ ver' \in Versions \ {ver}
           /\ UNCHANGED <<disk, pc, overwrite, payloadVars>>

Fault == CacheError \/ Fails \/ Dies \/ MachineStops
Next == Start \/ Step \/ Fault \/ UserEdits \/ Upgrade

(* A run gets on, and the operator keeps running setup with --overwrite. *)
Fairness == WF_vars(Step) /\ SF_vars(Start /\ overwrite')

Spec == Init /\ [][Next]_vars /\ Fairness
-----------------------------------------------------------------------------
TypeOK == CacheTypeOK /\ P!PayloadTypeOK /\ (pc # "idle" => phase = "cache")

(* What the result of a run says is so.  A run that reports success has      *)
(* installed the cache of this release and every payload in its installed    *)
(* form, with no transaction left open, whatever the runs before it left     *)
(* behind.  "A ROOT payload collision in normal mode therefore causes no     *)
(* partial copy of any kind" (run_setup): what preflight accepts, the        *)
(* installer and the binder accept too, so that a run that has begun to      *)
(* write reports none.                                                       *)
ReportsTruly ==
    /\ result # "ok" /\ result' = "ok" =>
          /\ live' = Plan' /\ ~Open'
          /\ \A p \in Plain : at'[p] = P!Owned("shipped")
          /\ \A p \in Bindings : at'[p] = P!Owned("bound")
          /\ \A p \in P!Shared : at'[p].harness = "whole"
    /\ result # "late_collision"
ResultHonest == [][ReportsTruly]_vars

(* Nothing of the user's is lost to a step of setup: shared files keep what  *)
(* the user had in them even under --overwrite and even when a run dies, and *)
(* a file in the way of a harness-owned one is only replaced on --overwrite. *)
KeepsUserContent ==
    \A p \in P!Paths : at[p].user /\ (p \in P!Shared \/ ~overwrite) /\ phase # "idle"
       => at'[p].user
UserContentKept == [][KeepsUserContent]_vars

(* A shared file, or a file in the cache, that setup refuses to touch. *)
Blocked == \/ \E p \in P!Shared : at[p] # P!Missing /\ ~P!Mergeable(p)
           \/ ~Open /\ live # Absent /\ ~OwnedNames(live, Plan)

(* Once runs are no longer interrupted and nobody edits the workspace, to    *)
(* re-run setup with --overwrite succeeds and so settles an open transaction *)
(* of the cache, unless there is a file that setup refuses to touch.         *)
Interfered == (Fault /\ ~Step) \/ UserEdits \/ Upgrade
RerunRepairs == <>[][~Interfered]_vars => []<>(result = "ok" \/ Blocked)
=============================================================================

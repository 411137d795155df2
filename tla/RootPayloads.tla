---------------------------- MODULE RootPayloads ----------------------------
(***************************************************************************)
(* The files `harness setup` puts into ROOT's own workspace (setup.py,      *)
(* _preflight_root_payloads, _install_root_payloads and                     *)
(* _materialize_root_hook_bindings).  Phase one looks at every destination  *)
(* and writes nothing; phase two writes file after file.  Four kinds of     *)
(* destination are treated differently:                                     *)
(*   Plain     harness-owned files, copied byte for byte;                   *)
(*   Bindings  harness-owned, copied and then bound to this runtime;        *)
(*   HookFiles hooks.json and settings.json, shared with the user: the      *)
(*             shipped hook groups are merged into what is there;           *)
(*   CodexFiles config.toml, shared: kept if it enables hooks.              *)
(* The user edits the workspace between two runs; copy2 is not atomic, and  *)
(* a run may fail or die at any write.                                      *)
(***************************************************************************)
EXTENDS Naturals, FiniteSets

CONSTANTS Plain, Bindings, HookFiles, CodexFiles

Shared == HookFiles \cup CodexFiles
Paths == Plain \cup Bindings \cup Shared

(***************************************************************************)
(* What is at a destination.  text is "torn" when it cannot be parsed, or   *)
(* is half of a copy; "shipped" the shipped bytes; "bound" the binding for  *)
(* this runtime; "foreign" anything else.  For a shared file harness says   *)
(* whether the shipped part is in it ("none", "whole", or "changed": a      *)
(* shipped command in another group, hooks not enabled), and user whether   *)
(* there is anything of the user's.                                         *)
(***************************************************************************)
Missing == [text |-> "absent", harness |-> "none", user |-> FALSE]
Owned(t) == [text |-> t, harness |-> "none", user |-> t = "foreign"]
Config(h, u) == [text |-> "config", harness |-> h, user |-> u]
TornText(u) == [text |-> "torn", harness |-> "none", user |-> u]
Configs == [text : {"config"}, harness : {"none", "whole", "changed"}, user : BOOLEAN]

Contents(p) ==
    CASE p \in Plain -> {Missing, TornText(FALSE), Owned("shipped"), Owned("foreign")}
      [] p \in Bindings -> {Missing, TornText(FALSE), Owned("shipped"), Owned("bound"), Owned("foreign")}
      [] p \in Shared -> {Missing, TornText(FALSE), TornText(TRUE)} \cup Configs

VARIABLES at,         \* what is at each destination
          pc, todo,   \* the running setup and the paths it has still to do
          filling,    \* the destination copy2 has opened, if any
          overwrite,
          result      \* how the last run ended


Pcs == {"idle", "preflight", "inspect", "cache", "install", "bind"}
Results == {"none", "ok", "refused", "late_collision", "died", "error"}

(* _merge_root_hook_config and _validate_existing_codex_config accept the file. *)
Mergeable(p) == /\ at[p].text = "config"
                /\ at[p].harness \in (IF p \in HookFiles THEN {"none", "whole"} ELSE {"whole"})

(* _is_valid_installed_payload *)
Installed(p) == at[p].text \in (IF p \in Bindings THEN {"shipped", "bound"} ELSE {"shipped"})

Collides(p) == /\ at[p] # Missing
               /\ IF p \in Shared THEN ~Mergeable(p) ELSE ~overwrite /\ ~Installed(p)

-----------------------------------------------------------------------------
(* A file a user may have there: never the torn copy of a harness file. *)
UserWrites(p) == IF p \in Shared
                 THEN {Missing, TornText(TRUE)} \cup {Config(h, TRUE) : h \in {"none", "whole", "changed"}}
                 ELSE {Missing, Owned("foreign")}

PayloadInit ==
    /\ at \in [Paths -> UNION {UserWrites(p) : p \in Paths}]
    /\ \A p \in Paths : at[p] \in UserWrites(p)
    /\ pc = "idle" /\ todo = {} /\ filling = {} /\ result = "none"

UserEdits(p) == /\ pc = "idle"
                /\ at' \in {[at EXCEPT ![p] = c] : c \in UserWrites(p)}
                /\ UNCHANGED <<pc, todo, filling, overwrite, result>>

End(how) == pc' = "idle" /\ todo' = {} /\ filling' = {} /\ result' = how /\ UNCHANGED overwrite

Start == /\ pc = "idle"
         /\ pc' = "preflight" /\ overwrite' \in BOOLEAN /\ result' = "none"
         /\ UNCHANGED <<at, todo, filling>>

(* _preflight_root_payloads: any collision ends the run before a write. *)
Preflight == /\ pc = "preflight" /\ UNCHANGED at
             /\ IF \E p \in Paths : Collides(p)
                THEN End("refused")
                ELSE pc' = "inspect" /\ todo' = Paths /\ UNCHANGED <<filling, overwrite, result>>

-----------------------------------------------------------------------------
(* One file of _install_root_payloads. *)

Leave(p) == todo' = todo \ {p} /\ UNCHANGED <<pc, filling, overwrite, result>>

InstallShared(p) ==
    /\ pc = "install" /\ filling = {} /\ p \in todo \cap Shared /\ at[p] # Missing
    /\ IF Mergeable(p)
       THEN at' = [at EXCEPT ![p].harness = "whole"] /\ Leave(p)
       ELSE UNCHANGED at /\ End("late_collision")

KeepInstalled(p) == /\ pc = "install" /\ filling = {} /\ p \in todo \ Shared
                    /\ ~overwrite /\ Installed(p)
                    /\ Leave(p) /\ UNCHANGED at

(* Mutant: --overwrite replaces shared files too. *)
CopyBeginsOver(p) == /\ pc = "install" /\ filling = {} /\ p \in todo
                     /\ overwrite \/ (IF p \in Shared THEN at[p] = Missing ELSE ~Installed(p))
                     /\ at' = [at EXCEPT ![p] = TornText(FALSE)]
                     /\ filling' = {p} /\ UNCHANGED <<pc, todo, overwrite, result>>

(* copy2 truncates or creates the destination, then fills it. *)
CopyBegins(p) == /\ pc = "install" /\ filling = {} /\ p \in todo
                 /\ IF p \in Shared THEN at[p] = Missing ELSE overwrite \/ ~Installed(p)
                 /\ at' = [at EXCEPT ![p] = TornText(FALSE)]
                 /\ filling' = {p} /\ UNCHANGED <<pc, todo, overwrite, result>>

CopyEnds(p) == /\ pc = "install" /\ p \in filling
               /\ at' = [at EXCEPT ![p] = IF p \in Shared THEN Config("whole", FALSE)
                                          ELSE Owned("shipped")]
               /\ filling' = {} /\ todo' = todo \ {p} /\ UNCHANGED <<pc, overwrite, result>>

InstallDone == /\ pc = "install" /\ todo = {}
               /\ pc' = "bind" /\ todo' = Bindings
               /\ UNCHANGED <<at, filling, overwrite, result>>

(* _materialize_root_hook_bindings, one binding: an atomic replacement. *)
Bind(p) == /\ pc = "bind" /\ p \in todo
           /\ IF at[p].text \in {"shipped", "bound"}
              THEN at' = [at EXCEPT ![p] = Owned("bound")] /\ Leave(p)
              ELSE UNCHANGED at /\ End("late_collision")

SetupOk == /\ pc = "bind" /\ todo = {}
           /\ End("ok") /\ UNCHANGED at

PayloadStep == \/ InstallDone \/ SetupOk
               \/ \E p \in Paths : \/ InstallShared(p) \/ KeepInstalled(p)
                                   \/ CopyBegins(p) \/ CopyEnds(p) \/ Bind(p)
-----------------------------------------------------------------------------
PayloadTypeOK ==
    /\ at \in [Paths -> UNION {Contents(p) : p \in Paths}]
    /\ \A p \in Paths : at[p] \in Contents(p)
    /\ pc \in Pcs /\ todo \subseteq Paths /\ filling \subseteq todo
    /\ result \in Results
=============================================================================

---------------------------- MODULE AtomicCache ----------------------------
(***************************************************************************)
(* What an installation of the active cache promises to everybody who may  *)
(* look at it: one whole tree is replaced by another whole tree, or nothing *)
(* happens.  cache is the tree that counts; pending is the tree of an       *)
(* installation that has been announced and not yet settled, during which   *)
(* nobody may use the cache.                                                *)
(***************************************************************************)
CONSTANTS Trees,      \* every tree of files there can be
          Absent      \* no tree at this path

VARIABLES cache, pending

vars == <<cache, pending>>

Init == cache \in Trees \cup {Absent} /\ pending = Absent

(* A transaction is announced: the tree in use is remembered. *)
Begin == /\ pending = Absent
         /\ pending' \in Trees
         /\ cache' = cache

(* It settles with the new tree, complete. *)
Commit == /\ pending # Absent
          /\ cache' = pending
          /\ pending' = Absent

(* It settles with the old tree, untouched. *)
Abort == /\ pending # Absent
         /\ pending' = Absent
         /\ cache' = cache

Next == Begin \/ Commit \/ Abort

Spec == Init /\ [][Next]_vars
=============================================================================

----------------------------- MODULE AppendLock -----------------------------
(***************************************************************************)
(* PathKeyedAppendLock of stable_io.py, for one path: a lock of the process *)
(* (an entry of _PathLockRegistry, counted and dropped with its last user)  *)
(* around a lock of the kernel on a sibling file.  "Windows byte-range      *)
(* locks cannot serialize two handles opened in the same process": the      *)
(* kernel lock keeps processes apart and the entry keeps threads apart.     *)
(***************************************************************************)
EXTENDS Naturals, FiniteSets

CONSTANTS Threads, Processes,
          ProcOf,      \* the process of each thread
          Entries,     \* the _PathLockEntry objects
          None

ASSUME ThreadsAssumption == IsFiniteSet(Threads) /\ ProcOf \in [Threads -> Processes]
ASSUME NoneAssumption == None \notin Threads \cup Processes \cup Entries

VARIABLES lk,       \* where each thread is in __enter__ and __exit__
          entry,    \* the entry it was given
          reg,      \* _entries of each process: the entry of the path, or None
          users,    \* entry.users
          owner,    \* entry.lock: the thread that has it
          kernel    \* the process that has the kernel lock

lockVars == <<lk, entry, reg, users, owner, kernel>>

LockPcs == {"out", "local", "kernel", "in", "release", "unregister"}

LockInit == /\ lk = [t \in Threads |-> "out"] /\ entry = [t \in Threads |-> None]
            /\ reg = [p \in Processes |-> None]
            /\ users = [e \in Entries |-> 0] /\ owner = [e \in Entries |-> None]
            /\ kernel = None

(* The entry of the path, or a new one: one that nobody refers to. *)
EntryFor(p, e) == IF reg[p] = None THEN users[e] = 0 ELSE reg[p] = e

Register(t) == /\ lk[t] = "out"
               /\ \E e \in Entries :
                     /\ EntryFor(ProcOf[t], e)
                     /\ entry' = [entry EXCEPT ![t] = e]
                     /\ reg' = [reg EXCEPT ![ProcOf[t]] = e]
                     /\ users' = [users EXCEPT ![e] = @ + 1]
               /\ lk' = [lk EXCEPT ![t] = "local"]
               /\ UNCHANGED <<owner, kernel>>

(* Mutant: acquire does not wait. *)
NoWait(t) == TRUE
LocalFree(t) == owner[entry[t]] = None

TakeLocal(t) == /\ lk[t] = "local" /\ LocalFree(t)
                /\ owner' = [owner EXCEPT ![entry[t]] = t]
                /\ lk' = [lk EXCEPT ![t] = "kernel"]
                /\ UNCHANGED <<entry, reg, users, kernel>>

TakeKernel(t) == /\ lk[t] = "kernel" /\ kernel \in {None, ProcOf[t]}
                 /\ kernel' = ProcOf[t]
                 /\ lk' = [lk EXCEPT ![t] = "in"]
                 /\ UNCHANGED <<entry, reg, users, owner>>

(* The lock file cannot be opened, or LK_LOCK gives up. *)
LockFails(t) == /\ lk[t] = "kernel"
                /\ lk' = [lk EXCEPT ![t] = "release"]
                /\ UNCHANGED <<entry, reg, users, owner, kernel>>

ReleaseKernel(t) == /\ lk[t] = "in"
                    /\ kernel' = None
                    /\ lk' = [lk EXCEPT ![t] = "release"]
                    /\ UNCHANGED <<entry, reg, users, owner>>

ReleaseLocal(t) == /\ lk[t] = "release"
                   /\ owner' = [owner EXCEPT ![entry[t]] = None]
                   /\ lk' = [lk EXCEPT ![t] = "unregister"]
                   /\ UNCHANGED <<entry, reg, users, kernel>>

LastUser(t) == users[entry[t]] = 1

Unregister(t) == /\ lk[t] = "unregister"
                 /\ users' = [users EXCEPT ![entry[t]] = @ - 1]
                 /\ reg' = [reg EXCEPT ![ProcOf[t]] =
                              IF LastUser(t) /\ @ = entry[t] THEN None ELSE @]
                 /\ entry' = [entry EXCEPT ![t] = None]
                 /\ lk' = [lk EXCEPT ![t] = "out"]
                 /\ UNCHANGED <<owner, kernel>>

(* The kernel releases its lock, and the memory is gone. *)
LocksDie(p) ==
    LET gone == {t \in Threads : ProcOf[t] = p}
        its == {entry[t] : t \in gone}
    IN /\ lk' = [t \in Threads |-> IF t \in gone THEN "out" ELSE lk[t]]
       /\ entry' = [t \in Threads |-> IF t \in gone THEN None ELSE entry[t]]
       /\ reg' = [reg EXCEPT ![p] = None]
       /\ users' = [e \in Entries |-> IF e \in its THEN 0 ELSE users[e]]
       /\ owner' = [e \in Entries |-> IF e \in its THEN None ELSE owner[e]]
       /\ kernel' = IF kernel = p THEN None ELSE kernel

LockStep(t) == \/ Register(t) \/ TakeLocal(t) \/ TakeKernel(t) \/ LockFails(t)
               \/ ReleaseKernel(t) \/ ReleaseLocal(t) \/ Unregister(t)

LockNext == (\E t \in Threads : LockStep(t)) \/ \E p \in Processes : LocksDie(p)

LockSpec == LockInit /\ [][LockNext]_lockVars
-----------------------------------------------------------------------------
(* "only one thread in this process attempts or holds that path's kernel lock *)
(* at a time", and one process holds it: appends to a path exclude each other *)
(* although the entry is dropped and made again as users come and go.         *)
MutualExclusion == \A s, t \in Threads : lk[s] = "in" /\ lk[t] = "in" => s = t

(* "the last release removes the entry so the registry cannot grow without    *)
(* bound": an entry is registered exactly while threads use it.               *)
RegistryBounded ==
    \A p \in Processes : reg[p] # None <=> \E t \in Threads : ProcOf[t] = p /\ lk[t] # "out"
=============================================================================

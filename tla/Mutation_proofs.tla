-------------------------- MODULE Mutation_proofs --------------------------
(***************************************************************************)
(* Module AppendLock: mutual exclusion of PathKeyedAppendLock and the bound *)
(* of its registry, for every number of threads and processes and however   *)
(* often they die.  Module Mutation: its operations use the lock only       *)
(* through the steps of AppendLock, so what is proved of the lock holds in  *)
(* the composition; and, with other programs acting between any two steps,  *)
(* what an operation changes was authorized, remove_tree orphans nothing    *)
(* and no append is lost.  The invariant says of each operation how far it  *)
(* is and what it has anchored (OpInv), of the open handles that each holds *)
(* its entry as it was authorized and no two hold one (HandleInv), of a     *)
(* temporary that its identity is unused (TempInv), and of the directories  *)
(* that they are trees (TreeInv).                                           *)
(***************************************************************************)
EXTENDS Mutation, FiniteSetTheorems, SequenceTheorems, TLAPS

UsersOf(e) == {t \in Threads : entry[t] = e}

LockTypeOK == /\ lk \in [Threads -> LockPcs]
              /\ entry \in [Threads -> Entries \cup {None}]
              /\ reg \in [Processes -> Entries \cup {None}]
              /\ users \in [Entries -> Nat]
              /\ owner \in [Entries -> Threads \cup {None}]
              /\ kernel \in Processes \cup {None}

\* A thread has an entry from Register to Unregister, and it is its process's.
Entered == \A t \in Threads : /\ lk[t] = "out" <=> entry[t] = None
                              /\ lk[t] # "out" => reg[ProcOf[t]] = entry[t]

\* An entry is one process's, and is registered there while it has users.
OwnEntries == /\ \A s, t \in Threads : entry[s] = entry[t] /\ entry[s] # None => ProcOf[s] = ProcOf[t]
              /\ \A p \in Processes :
                    reg[p] # None => \E t \in Threads : ProcOf[t] = p /\ entry[t] = reg[p]

CountExact == \A e \in Entries : users[e] = Cardinality(UsersOf(e))

Owning == \A t \in Threads : /\ lk[t] \in {"kernel", "in", "release"} => owner[entry[t]] = t
                             /\ lk[t] = "in" => kernel = ProcOf[t]

LockInv == LockTypeOK /\ Entered /\ OwnEntries /\ CountExact /\ Owning

LEMMA FiniteUsers == ASSUME NEW e PROVE IsFiniteSet(UsersOf(e))
<1>1. UsersOf(e) \subseteq Threads BY DEF UsersOf
<1> QED BY <1>1, FS_Subset, ThreadsAssumption

\* The threads that hold an entry's lock are one thread.
LEMMA OneOwner ==
    ASSUME LockInv, NEW s \in Threads, NEW t \in Threads, entry[s] = entry[t],
           lk[s] \in {"kernel", "in", "release"}, lk[t] \in {"kernel", "in", "release"}
    PROVE  s = t
BY DEF LockInv, Owning

LEMMA Excludes == LockInv => MutualExclusion
<1> SUFFICES ASSUME LockInv, NEW s \in Threads, NEW t \in Threads, lk[s] = "in", lk[t] = "in"
             PROVE  s = t
    BY DEF MutualExclusion
<1>1. ProcOf[s] = ProcOf[t] BY DEF LockInv, Owning
<1>2. entry[s] = entry[t] BY <1>1 DEF LockInv, Entered
<1> QED BY <1>2, OneOwner

LEMMA Bounded == LockInv => RegistryBounded
<1> SUFFICES ASSUME LockInv, NEW p \in Processes
             PROVE  reg[p] # None <=> \E t \in Threads : ProcOf[t] = p /\ lk[t] # "out"
    BY DEF RegistryBounded
<1>1. ASSUME reg[p] # None PROVE \E t \in Threads : ProcOf[t] = p /\ lk[t] # "out"
    BY <1>1 DEF LockInv, OwnEntries, Entered
<1>2. ASSUME NEW t \in Threads, ProcOf[t] = p, lk[t] # "out" PROVE reg[p] # None
    BY <1>2 DEF LockInv, Entered
<1> QED BY <1>1, <1>2

LEMMA LockInitial == LockInit => LockInv
<1> SUFFICES ASSUME LockInit PROVE LockInv OBVIOUS
<1>1. LockTypeOK BY ThreadsAssumption DEF LockInit, LockTypeOK, LockPcs
<1>2. Entered /\ OwnEntries /\ Owning
    BY NoneAssumption, ThreadsAssumption DEF LockInit, Entered, OwnEntries, Owning
<1>3. CountExact
  <2>1. \A e \in Entries : UsersOf(e) = {}
      BY NoneAssumption DEF LockInit, UsersOf
  <2> QED BY <2>1, FS_EmptySet DEF LockInit, CountExact
<1> QED BY <1>1, <1>2, <1>3 DEF LockInv

\* A step that gives no thread another entry, and keeps the registry.
LEMMA SameEntries ==
    ASSUME LockInv, UNCHANGED <<entry, reg, users>>
    PROVE  OwnEntries' /\ CountExact'
<1>1. OwnEntries' BY DEF LockInv, OwnEntries
<1>2. \A e \in Entries : UsersOf(e)' = UsersOf(e) BY DEF UsersOf
<1> QED BY <1>1, <1>2 DEF LockInv, CountExact

LEMMA RegisterKeeps ==
    ASSUME LockInv, NEW t \in Threads, Register(t)
    PROVE  LockInv'
<1>0. PICK e \in Entries : /\ EntryFor(ProcOf[t], e)
                           /\ entry' = [entry EXCEPT ![t] = e]
                           /\ reg' = [reg EXCEPT ![ProcOf[t]] = e]
                           /\ users' = [users EXCEPT ![e] = @ + 1]
    BY DEF Register
<1>1. entry[t] = None /\ ProcOf[t] \in Processes /\ e # None
    BY ThreadsAssumption, NoneAssumption DEF Register, LockInv, Entered
<1>2. ASSUME NEW s \in Threads, entry[s] = e PROVE ProcOf[s] = ProcOf[t]
  <2>1. CASE reg[ProcOf[t]] = None
    <3>1. Cardinality(UsersOf(e)) = 0
        BY <1>0, <2>1 DEF EntryFor, LockInv, CountExact
    <3>2. UsersOf(e) = {} BY <3>1, FS_EmptySet, FiniteUsers
    <3> QED BY <3>2, <1>2 DEF UsersOf
  <2>2. CASE reg[ProcOf[t]] # None
    <3>1. reg[ProcOf[t]] = e BY <1>0, <2>2 DEF EntryFor
    <3> QED BY <3>1, <1>1, <1>2 DEF LockInv, OwnEntries
  <2> QED BY <2>1, <2>2
<1>3. ASSUME NEW s \in Threads, lk[s] # "out", ProcOf[s] = ProcOf[t] PROVE entry[s] = e
    BY <1>0, <1>3, <1>1 DEF EntryFor, LockInv, Entered
<1>4. LockTypeOK'
    BY <1>0, <1>1 DEF Register, LockInv, LockTypeOK, LockPcs
<1>5. Entered'
    BY <1>0, <1>1, <1>3 DEF Register, LockInv, Entered, LockTypeOK
<1>6. OwnEntries'
  <2>1. \A s \in Threads : entry'[s] = IF s = t THEN e ELSE entry[s]
      BY <1>0 DEF LockInv, LockTypeOK
  <2>2. \A p \in Processes : reg'[p] = IF p = ProcOf[t] THEN e ELSE reg[p]
      BY <1>0 DEF LockInv, LockTypeOK
  <2>3. \A s, u \in Threads : entry'[s] = entry'[u] /\ entry'[s] # None => ProcOf[s] = ProcOf[u]
      BY <2>1, <1>2 DEF LockInv, OwnEntries
  <2>4. ASSUME NEW p \in Processes, reg'[p] # None
        PROVE  \E s \in Threads : ProcOf[s] = p /\ entry'[s] = reg'[p]
    <3>1. CASE p = ProcOf[t] BY <3>1, <2>1, <2>2
    <3>2. CASE p # ProcOf[t]
      <4>1. PICK s \in Threads : ProcOf[s] = p /\ entry[s] = reg[p]
          BY <2>2, <2>4, <3>2 DEF LockInv, OwnEntries
      <4> QED BY <4>1, <3>2, <2>1, <2>2
    <3> QED BY <3>1, <3>2
  <2> QED BY <2>3, <2>4 DEF OwnEntries
<1>7. CountExact'
  <2> SUFFICES ASSUME NEW f \in Entries PROVE users'[f] = Cardinality(UsersOf(f)')
      BY DEF CountExact
  <2>1. CASE f = e
    <3>1. UsersOf(e)' = UsersOf(e) \cup {t} /\ t \notin UsersOf(e)
        BY <1>0, <1>1 DEF UsersOf, LockInv, LockTypeOK
    <3>2. Cardinality(UsersOf(e) \cup {t}) = Cardinality(UsersOf(e)) + 1
        BY <3>1, FS_AddElement, FiniteUsers
    <3> QED BY <2>1, <3>1, <3>2, <1>0 DEF LockInv, CountExact, LockTypeOK
  <2>2. CASE f # e
    <3>1. UsersOf(f)' = UsersOf(f)
        BY <1>0, <1>1, <2>2, NoneAssumption DEF UsersOf, LockInv, LockTypeOK
    <3> QED BY <2>2, <3>1, <1>0 DEF LockInv, CountExact, LockTypeOK
  <2> QED BY <2>1, <2>2
<1>8. Owning'
    BY <1>0, <1>1 DEF Register, LockInv, Owning, LockTypeOK
<1> QED BY <1>4, <1>5, <1>6, <1>7, <1>8 DEF LockInv

LEMMA HoldKeeps ==
    ASSUME LockInv, NEW t \in Threads,
           TakeLocal(t) \/ TakeKernel(t) \/ LockFails(t) \/ ReleaseKernel(t) \/ ReleaseLocal(t)
    PROVE  LockInv'
<1>0. entry[t] \in Entries /\ ProcOf[t] \in Processes
    BY ThreadsAssumption
    DEF LockInv, LockTypeOK, Entered, TakeLocal, TakeKernel, LockFails, ReleaseKernel, ReleaseLocal
<1>1. OwnEntries' /\ CountExact'
    BY SameEntries DEF TakeLocal, TakeKernel, LockFails, ReleaseKernel, ReleaseLocal
<1>2. LockTypeOK' /\ Entered'
    BY <1>0
    DEF LockInv, LockTypeOK, LockPcs, Entered, TakeLocal, TakeKernel, LockFails, ReleaseKernel, ReleaseLocal
<1>3. Owning'
  <2>1. CASE TakeLocal(t)
      BY <2>1, <1>0, NoneAssumption DEF TakeLocal, LocalFree, LockInv, LockTypeOK, Owning, Entered
  <2>2. CASE TakeKernel(t)
    <3>1. /\ kernel' = ProcOf[t] /\ owner' = owner /\ entry' = entry
          /\ \A s \in Threads : lk'[s] = IF s = t THEN "in" ELSE lk[s]
        BY <2>2 DEF TakeKernel, LockInv, LockTypeOK
    <3>2. ASSUME NEW s \in Threads, lk[s] = "in" PROVE kernel' = ProcOf[s]
      <4>1. kernel = ProcOf[s] /\ ProcOf[s] \in Processes
          BY <3>2, ThreadsAssumption DEF LockInv, Owning
      <4> QED BY <4>1, <2>2, NoneAssumption DEF TakeKernel
    <3> QED BY <2>2, <3>1, <3>2 DEF TakeKernel, LockInv, Owning
  <2>3. CASE LockFails(t)
      BY <2>3 DEF LockFails, LockInv, LockTypeOK, Owning
  <2>4. CASE ReleaseKernel(t)
      BY <2>4, Excludes DEF ReleaseKernel, LockInv, LockTypeOK, Owning, MutualExclusion
  <2>5. CASE ReleaseLocal(t)
      BY <2>5, <1>0, OneOwner DEF ReleaseLocal, LockInv, LockTypeOK, Owning
  <2> QED BY <2>1, <2>2, <2>3, <2>4, <2>5
<1> QED BY <1>1, <1>2, <1>3 DEF LockInv

LEMMA UnregisterKeeps ==
    ASSUME LockInv, NEW t \in Threads, Unregister(t)
    PROVE  LockInv'
<1> DEFINE e == entry[t]
<1>0. e \in Entries /\ e # None /\ ProcOf[t] \in Processes /\ reg[ProcOf[t]] = e
    BY ThreadsAssumption, NoneAssumption DEF LockInv, LockTypeOK, Entered, Unregister
<1>1. \A s \in Threads : entry'[s] = IF s = t THEN None ELSE entry[s]
    BY DEF Unregister, LockInv, LockTypeOK
<1>2. t \in UsersOf(e) /\ users[e] = Cardinality(UsersOf(e)) /\ Cardinality(UsersOf(e)) \in Nat
    BY <1>0, FS_CardinalityType, FiniteUsers DEF UsersOf, LockInv, CountExact
<1>3. Cardinality(UsersOf(e) \ {t}) = users[e] - 1 /\ IsFiniteSet(UsersOf(e) \ {t})
    BY <1>2, FS_RemoveElement, FiniteUsers
<1>4. users[e] - 1 \in Nat
    BY <1>3, FS_CardinalityType
<1>5. users[e] = 1 <=> \A s \in Threads : entry[s] = e => s = t
  <2>1. users[e] = 1 <=> UsersOf(e) \ {t} = {}
      BY <1>2, <1>3, FS_EmptySet
  <2> QED BY <2>1 DEF UsersOf
<1>6. reg' = [reg EXCEPT ![ProcOf[t]] = IF users[e] = 1 THEN None ELSE e]
    BY <1>0 DEF Unregister, LastUser
<1>7. LockTypeOK'
  <2>1. users' \in [Entries -> Nat]
      BY <1>0, <1>4 DEF Unregister, LockInv, LockTypeOK
  <2>2. reg' \in [Processes -> Entries \cup {None}]
      BY <1>0, <1>6 DEF LockInv, LockTypeOK
  <2> QED BY <2>1, <2>2 DEF Unregister, LockInv, LockTypeOK, LockPcs
<1>8. Entered'
  <2> SUFFICES ASSUME NEW s \in Threads
               PROVE  /\ lk'[s] = "out" <=> entry'[s] = None
                      /\ lk'[s] # "out" => reg'[ProcOf[s]] = entry'[s]
      BY DEF Entered
  <2>1. CASE s = t BY <2>1, <1>1 DEF Unregister, LockInv, LockTypeOK
  <2>2. CASE s # t
    <3>1. lk'[s] = lk[s] /\ entry'[s] = entry[s]
        BY <2>2, <1>1 DEF Unregister, LockInv, LockTypeOK
    <3>2. ASSUME lk[s] # "out" PROVE reg'[ProcOf[s]] = entry[s]
      <4>1. reg[ProcOf[s]] = entry[s] /\ ProcOf[s] \in Processes
          BY <3>2, ThreadsAssumption DEF LockInv, Entered
      <4>2. CASE ProcOf[s] = ProcOf[t]
          BY <4>1, <4>2, <2>2, <1>0, <1>5, <1>6 DEF LockInv, LockTypeOK
      <4>3. CASE ProcOf[s] # ProcOf[t]
          BY <4>1, <4>3, <1>6 DEF LockInv, LockTypeOK
      <4> QED BY <4>2, <4>3
    <3> QED BY <3>1, <3>2 DEF LockInv, Entered
  <2> QED BY <2>1, <2>2
<1>9. OwnEntries'
  <2>1. \A s, u \in Threads : entry'[s] = entry'[u] /\ entry'[s] # None => ProcOf[s] = ProcOf[u]
      BY <1>1 DEF LockInv, OwnEntries
  <2>2. ASSUME NEW p \in Processes, reg'[p] # None
        PROVE  \E s \in Threads : ProcOf[s] = p /\ entry'[s] = reg'[p]
    <3>1. CASE p = ProcOf[t]
      <4>1. users[e] # 1 /\ reg'[p] = e
          BY <3>1, <2>2, <1>6 DEF LockInv, LockTypeOK
      <4>2. PICK s \in Threads : entry[s] = e /\ s # t BY <4>1, <1>5
      <4>3. ProcOf[s] = p BY <4>2, <1>0, <3>1 DEF LockInv, OwnEntries
      <4> QED BY <4>1, <4>2, <4>3, <1>1
    <3>2. CASE p # ProcOf[t]
      <4>1. reg'[p] = reg[p] BY <3>2, <1>6 DEF LockInv, LockTypeOK
      <4>2. PICK s \in Threads : ProcOf[s] = p /\ entry[s] = reg[p]
          BY <4>1, <2>2 DEF LockInv, OwnEntries
      <4> QED BY <4>1, <4>2, <3>2, <1>1
    <3> QED BY <3>1, <3>2
  <2> QED BY <2>1, <2>2 DEF OwnEntries
<1>10. CountExact'
  <2> SUFFICES ASSUME NEW f \in Entries PROVE users'[f] = Cardinality(UsersOf(f)')
      BY DEF CountExact
  <2>1. CASE f = e
    <3>1. UsersOf(f)' = UsersOf(e) \ {t}
        BY <2>1, <1>0, <1>1 DEF UsersOf
    <3> QED BY <2>1, <3>1, <1>0, <1>3 DEF Unregister, LockInv, LockTypeOK
  <2>2. CASE f # e
    <3>1. UsersOf(f)' = UsersOf(f)
        BY <2>2, <1>1, NoneAssumption DEF UsersOf
    <3> QED BY <2>2, <3>1 DEF Unregister, LockInv, CountExact, LockTypeOK
  <2> QED BY <2>1, <2>2
<1>11. Owning'
    BY <1>1 DEF Unregister, LockInv, Owning, LockTypeOK
<1> QED BY <1>7, <1>8, <1>9, <1>10, <1>11 DEF LockInv

LEMMA DeathKeeps ==
    ASSUME LockInv, NEW p \in Processes, LocksDie(p)
    PROVE  LockInv'
<1>1. \A s \in Threads : /\ ProcOf[s] = p => lk'[s] = "out" /\ entry'[s] = None
                         /\ ProcOf[s] # p => lk'[s] = lk[s] /\ entry'[s] = entry[s]
    BY DEF LocksDie
<1>2. ASSUME NEW s \in Threads, ProcOf[s] # p, entry[s] # None
      PROVE  /\ entry[s] \notin {entry[t] : t \in {u \in Threads : ProcOf[u] = p}}
             /\ entry[s] \in Entries
    BY <1>2 DEF LockInv, OwnEntries, LockTypeOK
<1>3. \A q \in Processes : reg'[q] = IF q = p THEN None ELSE reg[q]
    BY DEF LocksDie, LockInv, LockTypeOK
<1>4. LockTypeOK'
    BY NoneAssumption DEF LocksDie, LockInv, LockTypeOK, LockPcs
<1>5. Entered'
    BY <1>1, <1>3, ThreadsAssumption DEF LockInv, Entered
<1>6. OwnEntries'
  <2>1. \A s, u \in Threads : entry'[s] = entry'[u] /\ entry'[s] # None => ProcOf[s] = ProcOf[u]
      BY <1>1 DEF LockInv, OwnEntries
  <2>2. ASSUME NEW q \in Processes, reg'[q] # None
        PROVE  \E s \in Threads : ProcOf[s] = q /\ entry'[s] = reg'[q]
    <3>1. q # p /\ reg'[q] = reg[q] BY <1>3, <2>2
    <3>2. PICK s \in Threads : ProcOf[s] = q /\ entry[s] = reg[q]
        BY <3>1, <2>2 DEF LockInv, OwnEntries
    <3> QED BY <3>1, <3>2, <1>1
  <2> QED BY <2>1, <2>2 DEF OwnEntries
<1>7. CountExact'
  <2> SUFFICES ASSUME NEW e \in Entries PROVE users'[e] = Cardinality(UsersOf(e)')
      BY DEF CountExact
  <2> DEFINE its == {entry[t] : t \in {u \in Threads : ProcOf[u] = p}}
  <2>0. users'[e] = IF e \in its THEN 0 ELSE users[e] BY DEF LocksDie
  <2>1. CASE e \in its
    <3>1. UsersOf(e)' = {} BY <2>1, <1>1, <1>2, NoneAssumption DEF UsersOf
    <3> QED BY <3>1, <2>0, <2>1, FS_EmptySet
  <2>2. CASE e \notin its
    <3>1. UsersOf(e)' = UsersOf(e) BY <2>2, <1>1, NoneAssumption DEF UsersOf
    <3> QED BY <3>1, <2>0, <2>2 DEF LockInv, CountExact
  <2> QED BY <2>1, <2>2
<1>8. Owning'
  <2> SUFFICES ASSUME NEW s \in Threads, lk'[s] \in {"kernel", "in", "release"}
               PROVE  owner'[entry'[s]] = s /\ (lk'[s] = "in" => kernel' = ProcOf[s])
      BY DEF Owning
  <2>1. ProcOf[s] # p /\ lk[s] = lk'[s] /\ entry'[s] = entry[s] BY <1>1
  <2>2. entry[s] # None BY <2>1 DEF LockInv, Entered
  <2>3. owner'[entry[s]] = owner[entry[s]] BY <1>2, <2>1, <2>2 DEF LocksDie
  <2> QED BY <2>1, <2>3 DEF LocksDie, LockInv, Owning
<1> QED BY <1>4, <1>5, <1>6, <1>7, <1>8 DEF LockInv

LEMMA LockInductive == LockInv /\ [LockNext]_lockVars => LockInv'
<1> SUFFICES ASSUME LockInv, [LockNext]_lockVars PROVE LockInv' OBVIOUS
<1>1. ASSUME NEW t \in Threads, LockStep(t) PROVE LockInv'
    BY <1>1, RegisterKeeps, HoldKeeps, UnregisterKeeps DEF LockStep
<1>2. ASSUME NEW p \in Processes, LocksDie(p) PROVE LockInv'
    BY <1>2, DeathKeeps
<1>3. CASE UNCHANGED lockVars
  <2>1. OwnEntries' /\ CountExact' BY <1>3, SameEntries DEF lockVars
  <2> QED BY <1>3, <2>1 DEF lockVars, LockInv, LockTypeOK, Entered, Owning
<1> QED BY <1>1, <1>2, <1>3 DEF LockNext

\* PathKeyedAppendLock: at most one thread of all processes is inside it.
THEOREM AppendsExclude == LockSpec => []MutualExclusion
<1>1. LockSpec => []LockInv BY LockInitial, LockInductive, PTL DEF LockSpec
<1> QED BY <1>1, Excludes, PTL

\* _PathLockRegistry: an entry is registered exactly while threads use it.
THEOREM RegistryStaysBounded == LockSpec => []RegistryBounded
<1>1. LockSpec => []LockInv BY LockInitial, LockInductive, PTL DEF LockSpec
<1> QED BY <1>1, Bounded, PTL

-----------------------------------------------------------------------------
(* The file operations and the lock *)

LEMMA OnlyLockSteps == ASSUME Next PROVE LockNext \/ UNCHANGED lockVars
<1>1. ASSUME NEW t \in Threads, Locks(t) PROVE LockNext
    BY <1>1 DEF Locks, LockNext, LockStep
<1>2. ASSUME NEW t \in Threads, BeginAppend(t) PROVE LockNext
    BY <1>2 DEF BeginAppend, LockNext, LockStep
<1>3. ASSUME NEW p \in Processes, Dies(p) PROVE LockNext
    BY <1>3 DEF Dies, LockNext
<1>4. ASSUME NEW t \in Threads, Fails(t) \/ AnchorInit(t) \/ AnchorEnter(t) \/ Prove(t) \/ Verify(t)
                                \/ Seek(t) \/ AppendBytes(t)
      PROVE  UNCHANGED lockVars
    BY <1>4 DEF Fails, AnchorInit, AnchorEnter, Prove, Verify, Seek, AppendBytes
<1>5. ASSUME NEW t \in Threads, Open(t) \/ Write(t) \/ Truncate(t) \/ Delete(t)
                                \/ NewTemp(t) \/ Link(t) \/ UnlinkTemp(t) \/ Move(t)
      PROVE  UNCHANGED lockVars
    BY <1>5 DEF Open, Write, Truncate, Delete, NewTemp, Link, UnlinkTemp, Move
<1>6. ASSUME NEW t \in Threads, OpenTree(t) \/ CaptureChild(t) \/ DeleteChild(t)
                                \/ RemoveDirectory(t) \/ MakeDirectory(t)
      PROVE  UNCHANGED lockVars
    BY <1>6 DEF OpenTree, CaptureChild, DeleteChild, RemoveDirectory, MakeDirectory
<1>7. ASSUME NEW t \in Mutators, NEW what \in Kinds, NEW n \in Names, NEW m \in Names,
             Begin(t, what, n, m)
      PROVE  UNCHANGED lockVars
    BY <1>7 DEF Begin
<1>8. ASSUME NEW q \in Places, Other(q) PROVE UNCHANGED lockVars
    BY <1>8 DEF Other
<1>9. ASSUME ExchangeRoot PROVE UNCHANGED lockVars
    BY <1>9 DEF ExchangeRoot
<1> QED BY <1>1, <1>2, <1>3, <1>4, <1>5, <1>6, <1>7, <1>8, <1>9 DEF Next, Step

(* Every behaviour of the file operations is one of the lock: append_bytes    *)
(* and the rest of PreparedOutputTransaction take, hold and give up the lock  *)
(* only as PathKeyedAppendLock does.                                          *)
THEOREM UsesLock == Spec => LockSpec
<1>1. Init => LockInit
    BY DEF Init
<1>2. [Next]_vars => [LockNext]_lockVars
    BY OnlyLockSteps DEF vars
<1> QED BY <1>1, <1>2, PTL DEF Spec, LockSpec

(* Two threads, of one process or of two, are never in append_bytes of a path *)
(* at once, and the registry holds an entry exactly while it is used.         *)
THEOREM LockedAppends == Spec => []MutualExclusion /\ []RegistryBounded
<1> QED BY UsesLock, AppendsExclude, RegistryStaysBounded, PTL

-----------------------------------------------------------------------------
(* Type correctness of the file operations                                   *)

OpPcs == {"idle", "init", "enter", "prove", "verify", "open", "write", "truncate", "delete", "temp",
          "link", "unlink", "move", "open_tree", "tree", "child", "mkdir", "seek", "append"}

OpRecord == [pc : OpPcs, what : Kinds \cup {"append", None}, name : Names \cup {None},
             from : Names \cup {None}, auth : Entry, from_auth : Entry,
             expected : Roots \cup {None}, anchor : Roots \cup {None}, handle : SUBSET Places,
             temp : Entry, list : SUBSET Places, kid : Places \cup {None}, pos : Nat]

Typed == /\ root \in Roots
         /\ fs \in [Places -> Entry]
         /\ op \in [Threads -> OpRecord]

LEMMA EntryFacts ==
    /\ Absent \in Entry /\ Absent.kind = "absent" /\ Absent.id = None
    /\ \A e \in Entry : /\ e.kind = "absent" => e = Absent
                        /\ e.kind = "file" => e.id \in FileIds
                        /\ e.kind = "dir" => e.id \in Subs
                        /\ e.kind \in {"absent", "file", "dir"}
    /\ \A e \in Entry, d \in {"edited", "torn", "new"} :
          e.kind = "file" => /\ [e EXCEPT !.data = d] \in Entry
                             /\ [e EXCEPT !.data = d].kind = "file"
                             /\ [e EXCEPT !.data = d].id = e.id
    /\ \A i \in FileIds, d \in {"user", "new"} :
          File(i, d) \in Entry /\ File(i, d).kind = "file" /\ File(i, d).id = i
    /\ \A i \in Subs : Dir(i) \in Entry /\ Dir(i).kind = "dir" /\ Dir(i).id = i
<1>1. /\ Absent \in Entry /\ Absent.kind = "absent" /\ Absent.id = None
    BY DEF Entry, Absent
<1>2. ASSUME NEW e \in Entry
      PROVE  \/ e = Absent
             \/ \E i \in FileIds, d \in {"user", "edited", "torn", "new"} : e = File(i, d)
             \/ \E i \in Subs : e = Dir(i)
    BY DEF Entry
<1>3. \A i, d : File(i, d).kind = "file" /\ File(i, d).id = i
    BY DEF File
<1>4. \A i : Dir(i).kind = "dir" /\ Dir(i).id = i
    BY DEF Dir
<1>5. \A i \in FileIds, d \in {"user", "edited", "torn", "new"} : File(i, d) \in Entry
    BY DEF Entry
<1>6. \A i \in Subs : Dir(i) \in Entry
    BY DEF Entry
<1>7. \A i, d, c : [File(i, d) EXCEPT !.data = c] = File(i, c)
    BY DEF File
<1>8. ASSUME NEW e \in Entry, NEW d \in {"edited", "torn", "new"}, e.kind = "file"
      PROVE  /\ [e EXCEPT !.data = d] \in Entry
             /\ [e EXCEPT !.data = d].kind = "file"
             /\ [e EXCEPT !.data = d].id = e.id
  <2>1. PICK i \in FileIds, c \in {"user", "edited", "torn", "new"} : e = File(i, c)
    BY <1>1, <1>2, <1>4, <1>8
  <2>2. [e EXCEPT !.data = d] = File(i, d)
    BY <1>7, <2>1
  <2> QED BY <1>3, <1>5, <2>1, <2>2
<1> QED BY <1>1, <1>2, <1>3, <1>4, <1>5, <1>6, <1>8

LEMMA PlaceFacts ==
    /\ \A r \in Roots, n \in Names : <<r, n>> \in Places
    /\ \A i \in Subs : <<i, "child">> \in Places
    /\ \A r \in Roots, n \in Names, i \in Subs : <<r, n>> # <<i, "child">>
    /\ \A q \in Places : q[1] \in Roots \/ q[1] \in Subs
BY DirsAssumption DEF Places

LEMMA NoOpTyped ==
    NoOp \in OpRecord /\ NoOp.pc = "idle" /\ NoOp.handle = {} /\ NoOp.anchor = None
BY EntryFacts DEF NoOp, OpRecord, OpPcs

LEMMA FreshFacts == \A ids : Fresh(ids) \subseteq ids \ Used
<1> SUFFICES ASSUME NEW ids, ~(ids \subseteq Used) PROVE (CHOOSE i \in ids \ Used : TRUE) \in ids \ Used
    BY DEF Fresh
<1>1. \E i : i \in ids \ Used
    OBVIOUS
<1> QED BY <1>1

LEMMA AfterProofTyped == \A o : AfterProof(o) \in OpPcs \cup {"refused"}
BY DEF AfterProof, OpPcs

(* What each step does to the operation of its thread; the others keep       *)
(* theirs.                                                                   *)
Changes(t, o) == /\ op'[t] = o /\ op' \in [Threads -> OpRecord]
                 /\ \A s \in Threads \ {t} : op'[s] = op[s]

LEMMA Changed ==
    ASSUME Typed, NEW t \in Threads, NEW o \in OpRecord, op' = [op EXCEPT ![t] = o]
    PROVE  Changes(t, o)
BY DEF Typed, Changes

LEMMA EndsFacts == ASSUME Typed, NEW t \in Threads, Ends(t) PROVE Changes(t, NoOp)
BY Changed, NoOpTyped DEF Ends

LEMMA GotoFacts ==
    ASSUME Typed, NEW t \in Threads, NEW pc \in OpPcs, Goto(t, pc)
    PROVE  \E o \in OpRecord :
             /\ Changes(t, o) /\ o.pc = pc
             /\ o.what = op[t].what /\ o.name = op[t].name /\ o.from = op[t].from
             /\ o.auth = op[t].auth /\ o.expected = op[t].expected /\ o.anchor = op[t].anchor
             /\ o.handle = op[t].handle /\ o.temp = op[t].temp /\ o.list = op[t].list
             /\ o.pos = op[t].pos
<1> DEFINE o == [op[t] EXCEPT !.pc = pc]
<1>1. op[t] \in OpRecord
    BY DEF Typed
<1>2. /\ o \in OpRecord /\ o.pc = pc
      /\ o.what = op[t].what /\ o.name = op[t].name /\ o.from = op[t].from
      /\ o.auth = op[t].auth /\ o.expected = op[t].expected /\ o.anchor = op[t].anchor
      /\ o.handle = op[t].handle /\ o.temp = op[t].temp /\ o.list = op[t].list
      /\ o.pos = op[t].pos
    BY <1>1 DEF OpRecord
<1>3. op' = [op EXCEPT ![t] = o]
    BY DEF Goto
<1> HIDE DEF o
<1>4. Changes(t, o)
    BY <1>2, <1>3, Changed
<1> QED BY <1>2, <1>4

LEMMA InitFacts ==
    ASSUME Typed, NEW t \in Threads, AnchorInit(t)
    PROVE  \E o \in OpRecord :
             /\ Changes(t, o)
             /\ o.pc = "enter" /\ o.expected = root
             /\ o.what = op[t].what /\ o.name = op[t].name /\ o.from = op[t].from
             /\ o.auth = op[t].auth /\ o.anchor = op[t].anchor /\ o.handle = op[t].handle
             /\ o.temp = op[t].temp /\ o.list = op[t].list
<1> DEFINE o == [op[t] EXCEPT !.expected = root, !.pc = "enter"]
<1>1. op[t] \in OpRecord
    BY DEF Typed
<1>5. root \in Roots
    BY DEF Typed
<1>2. /\ o \in OpRecord
      /\ o.pc = "enter" /\ o.expected = root
      /\ o.what = op[t].what /\ o.name = op[t].name /\ o.from = op[t].from
      /\ o.auth = op[t].auth /\ o.anchor = op[t].anchor /\ o.handle = op[t].handle
      /\ o.temp = op[t].temp /\ o.list = op[t].list
    BY <1>1, <1>5 DEF OpRecord, OpPcs
<1>3. op' = [op EXCEPT ![t] = o]
    BY DEF AnchorInit
<1> HIDE DEF o
<1>4. Changes(t, o)
    BY <1>2, <1>3, Changed
<1> QED BY <1>2, <1>4

LEMMA HeldFacts ==
    ASSUME Typed, NEW t \in Threads, Held(t)
    PROVE  \E o \in OpRecord :
             /\ Changes(t, o)
             /\ o.pc = "prove" /\ o.anchor = root
             /\ o.what = op[t].what /\ o.name = op[t].name /\ o.from = op[t].from
             /\ o.auth = op[t].auth /\ o.expected = op[t].expected /\ o.handle = op[t].handle
             /\ o.temp = op[t].temp /\ o.list = op[t].list
<1> DEFINE o == [op[t] EXCEPT !.anchor = root, !.pc = "prove"]
<1>1. op[t] \in OpRecord
    BY DEF Typed
<1>5. root \in Roots
    BY DEF Typed
<1>2. /\ o \in OpRecord
      /\ o.pc = "prove" /\ o.anchor = root
      /\ o.what = op[t].what /\ o.name = op[t].name /\ o.from = op[t].from
      /\ o.auth = op[t].auth /\ o.expected = op[t].expected /\ o.handle = op[t].handle
      /\ o.temp = op[t].temp /\ o.list = op[t].list
    BY <1>1, <1>5 DEF OpRecord, OpPcs
<1>3. op' = [op EXCEPT ![t] = o]
    BY DEF Held
<1> HIDE DEF o
<1>4. Changes(t, o)
    BY <1>2, <1>3, Changed
<1> QED BY <1>2, <1>4

LEMMA DoneFacts ==
    ASSUME Typed, NEW t \in Threads, op' = [op EXCEPT ![t].handle = {}, ![t].pc = "verify"]
    PROVE  \E o \in OpRecord :
             /\ Changes(t, o)
             /\ o.pc = "verify" /\ o.handle = {}
             /\ o.what = op[t].what /\ o.name = op[t].name /\ o.from = op[t].from
             /\ o.auth = op[t].auth /\ o.expected = op[t].expected /\ o.anchor = op[t].anchor
             /\ o.temp = op[t].temp /\ o.list = op[t].list
<1> DEFINE o == [op[t] EXCEPT !.handle = {}, !.pc = "verify"]
<1>1. op[t] \in OpRecord
    BY DEF Typed
<1>2. /\ o \in OpRecord
      /\ o.pc = "verify" /\ o.handle = {}
      /\ o.what = op[t].what /\ o.name = op[t].name /\ o.from = op[t].from
      /\ o.auth = op[t].auth /\ o.expected = op[t].expected /\ o.anchor = op[t].anchor
      /\ o.temp = op[t].temp /\ o.list = op[t].list
    BY <1>1 DEF OpRecord, OpPcs
<1>3. op' = [op EXCEPT ![t] = o]
    OBVIOUS
<1> HIDE DEF o
<1>4. Changes(t, o)
    BY <1>2, <1>3, Changed
<1> QED BY <1>2, <1>4

LEMMA UnlinkFacts ==
    ASSUME Typed, NEW t \in Threads, UnlinkTemp(t)
    PROVE  \E o \in OpRecord :
             /\ Changes(t, o)
             /\ o.pc = "verify" /\ o.temp = Absent
             /\ o.what = op[t].what /\ o.name = op[t].name /\ o.from = op[t].from
             /\ o.auth = op[t].auth /\ o.expected = op[t].expected /\ o.anchor = op[t].anchor
             /\ o.handle = op[t].handle /\ o.list = op[t].list
<1> DEFINE o == [op[t] EXCEPT !.temp = Absent, !.pc = "verify"]
<1>1. op[t] \in OpRecord /\ Absent \in Entry
    BY EntryFacts DEF Typed
<1>2. /\ o \in OpRecord
      /\ o.pc = "verify" /\ o.temp = Absent
      /\ o.what = op[t].what /\ o.name = op[t].name /\ o.from = op[t].from
      /\ o.auth = op[t].auth /\ o.expected = op[t].expected /\ o.anchor = op[t].anchor
      /\ o.handle = op[t].handle /\ o.list = op[t].list
    BY <1>1 DEF OpRecord, OpPcs
<1>3. op' = [op EXCEPT ![t] = o]
    BY DEF UnlinkTemp
<1> HIDE DEF o
<1>4. Changes(t, o)
    BY <1>2, <1>3, Changed
<1> QED BY <1>2, <1>4

LEMMA SeekFacts ==
    ASSUME Typed, NEW t \in Threads, Seek(t), Len(log[root]) \in Nat
    PROVE  \E o \in OpRecord :
             /\ Changes(t, o)
             /\ o.pc = "append" /\ o.pos = Len(log[root])
             /\ o.what = op[t].what /\ o.name = op[t].name /\ o.from = op[t].from
             /\ o.auth = op[t].auth /\ o.expected = op[t].expected /\ o.anchor = op[t].anchor
             /\ o.handle = op[t].handle /\ o.temp = op[t].temp /\ o.list = op[t].list
<1> DEFINE o == [op[t] EXCEPT !.pos = Len(log[root]), !.pc = "append"]
<1>1. op[t] \in OpRecord
    BY DEF Typed
<1>2. /\ o \in OpRecord
      /\ o.pc = "append" /\ o.pos = Len(log[root])
      /\ o.what = op[t].what /\ o.name = op[t].name /\ o.from = op[t].from
      /\ o.auth = op[t].auth /\ o.expected = op[t].expected /\ o.anchor = op[t].anchor
      /\ o.handle = op[t].handle /\ o.temp = op[t].temp /\ o.list = op[t].list
    BY <1>1 DEF OpRecord, OpPcs
<1>3. op' = [op EXCEPT ![t] = o]
    BY DEF Seek
<1> HIDE DEF o
<1>4. Changes(t, o)
    BY <1>2, <1>3, Changed
<1> QED BY <1>2, <1>4

LEMMA BeginFacts ==
    ASSUME Typed, NEW t \in Threads, NEW what \in Kinds, NEW n \in Names, NEW m \in Names,
           Begin(t, what, n, m)
    PROVE  \E o \in OpRecord :
             /\ Changes(t, o)
             /\ o.pc = "init" /\ o.what = what /\ o.name = n /\ o.from = m
             /\ o.auth = fs[At(n)] /\ o.handle = {} /\ o.anchor = None
<1> DEFINE o == [NoOp EXCEPT !.pc = "init", !.what = what, !.name = n, !.from = m,
                             !.auth = fs[At(n)], !.from_auth = fs[At(m)]]
<1>1. fs[At(n)] \in Entry /\ fs[At(m)] \in Entry
    BY PlaceFacts DEF Typed, At
<1>7. ASSUME NEW r \in OpRecord, NEW d \in Entry, NEW e \in Entry
      PROVE  [r EXCEPT !.pc = "init", !.what = what, !.name = n, !.from = m,
                       !.auth = d, !.from_auth = e] \in OpRecord
    BY DEF OpRecord, OpPcs
<1>5. o \in OpRecord
    BY <1>1, <1>7, NoOpTyped
<1>6. /\ o.pc = "init" /\ o.what = what /\ o.name = n /\ o.from = m
      /\ o.auth = fs[At(n)] /\ o.handle = {} /\ o.anchor = None
    BY NoOpTyped DEF OpRecord
<1>2. /\ o \in OpRecord
      /\ o.pc = "init" /\ o.what = what /\ o.name = n /\ o.from = m
      /\ o.auth = fs[At(n)] /\ o.handle = {} /\ o.anchor = None
    BY <1>5, <1>6
<1>3. op' = [op EXCEPT ![t] = o]
    BY DEF Begin
<1> HIDE DEF o
<1>4. Changes(t, o)
    BY <1>2, <1>3, Changed
<1> QED BY <1>2, <1>4

LEMMA BeginAppendFacts ==
    ASSUME Typed, NEW t \in Threads, BeginAppend(t)
    PROVE  \E o \in OpRecord :
             /\ Changes(t, o)
             /\ o.pc = "init" /\ o.what = "append" /\ o.handle = {} /\ o.anchor = None
<1> DEFINE o == [NoOp EXCEPT !.pc = "init", !.what = "append"]
<1>6. ASSUME NEW r \in OpRecord PROVE [r EXCEPT !.pc = "init", !.what = "append"] \in OpRecord
    BY DEF OpRecord, OpPcs
<1>4. o \in OpRecord
    BY <1>6, NoOpTyped
<1>5. o.pc = "init" /\ o.what = "append" /\ o.handle = {} /\ o.anchor = None
    BY NoOpTyped DEF OpRecord
<1>1. /\ o \in OpRecord
      /\ o.pc = "init" /\ o.what = "append" /\ o.handle = {} /\ o.anchor = None
    BY <1>4, <1>5
<1>2. op' = [op EXCEPT ![t] = o]
    BY DEF BeginAppend
<1> HIDE DEF o
<1>3. Changes(t, o)
    BY <1>1, <1>2, Changed
<1> QED BY <1>1, <1>3

LEMMA OpenFacts ==
    ASSUME Typed, NEW t \in Threads, At(op[t].name) \in Places, Open(t), OpenProven(t)
    PROVE  \E o \in OpRecord :
             /\ Changes(t, o)
             /\ o.pc = (IF op[t].what = "delete" THEN "delete" ELSE "write")
             /\ o.handle = {At(op[t].name)}
             /\ o.what = op[t].what /\ o.name = op[t].name /\ o.from = op[t].from
             /\ o.auth = op[t].auth /\ o.expected = op[t].expected /\ o.anchor = op[t].anchor
<1> DEFINE pc == IF op[t].what = "delete" THEN "delete" ELSE "write"
           q == At(op[t].name)
           o == [op[t] EXCEPT !.handle = {q}, !.pc = pc]
<1>1. op[t] \in OpRecord /\ pc \in OpPcs /\ {q} \in SUBSET Places
    BY DEF Typed, OpPcs
<1>2. op' = [op EXCEPT ![t] = o]
    BY DEF Open
<1> HIDE DEF pc, q
<1>3. /\ o \in OpRecord /\ o.pc = pc /\ o.handle = {q}
      /\ o.what = op[t].what /\ o.name = op[t].name /\ o.from = op[t].from
      /\ o.auth = op[t].auth /\ o.expected = op[t].expected /\ o.anchor = op[t].anchor
    BY <1>1 DEF OpRecord
<1> HIDE DEF o
<1>4. Changes(t, o)
    BY <1>2, <1>3, Changed
<1> QED BY <1>3, <1>4 DEF pc, q

LEMMA NewTempFacts ==
    ASSUME Typed, NEW t \in Threads, NewTemp(t)
    PROVE  \E o \in OpRecord, i \in FileIds \ Used :
             /\ Changes(t, o)
             /\ o.pc = "link" /\ o.temp = File(i, "new")
             /\ o.what = op[t].what /\ o.name = op[t].name /\ o.from = op[t].from
             /\ o.auth = op[t].auth /\ o.expected = op[t].expected /\ o.anchor = op[t].anchor
             /\ o.handle = op[t].handle
<1>1. PICK i \in Fresh(FileIds) : op' = [op EXCEPT ![t].temp = File(i, "new"), ![t].pc = "link"]
    BY DEF NewTemp
<1>2. i \in FileIds \ Used /\ File(i, "new") \in Entry
    BY FreshFacts, EntryFacts
<1> DEFINE o == [op[t] EXCEPT !.temp = File(i, "new"), !.pc = "link"]
<1>3. op[t] \in OpRecord
    BY DEF Typed
<1>4. /\ o \in OpRecord
      /\ o.pc = "link" /\ o.temp = File(i, "new")
      /\ o.what = op[t].what /\ o.name = op[t].name /\ o.from = op[t].from
      /\ o.auth = op[t].auth /\ o.expected = op[t].expected /\ o.anchor = op[t].anchor
      /\ o.handle = op[t].handle
    BY <1>2, <1>3 DEF OpRecord, OpPcs
<1>5. op' = [op EXCEPT ![t] = o]
    BY <1>1
<1> HIDE DEF o
<1>6. Changes(t, o)
    BY <1>4, <1>5, Changed
<1> QED BY <1>2, <1>4, <1>6

LEMMA OpenTreeFacts ==
    ASSUME Typed, NEW t \in Threads, At(op[t].name) \in Places, op[t].auth.kind = "dir",
           OpenTree(t), fs[At(op[t].name)] = op[t].auth, ~Pinned(At(op[t].name))
    PROVE  \E o \in OpRecord :
             /\ Changes(t, o)
             /\ o.pc = "tree" /\ o.handle = {At(op[t].name)}
             /\ o.list \subseteq Kids(op[t].auth.id)
             /\ o.what = op[t].what /\ o.name = op[t].name /\ o.from = op[t].from
             /\ o.auth = op[t].auth /\ o.expected = op[t].expected /\ o.anchor = op[t].anchor
<1> DEFINE q == At(op[t].name)
           kids == {k \in Kids(op[t].auth.id) : fs[k] # Absent}
           o == [op[t] EXCEPT !.handle = {q}, !.list = kids, !.pc = "tree"]
<1>1. op[t] \in OpRecord /\ {q} \in SUBSET Places
    BY DEF Typed
<1>2. Kids(op[t].auth.id) \subseteq Places
    BY <1>1, EntryFacts, PlaceFacts DEF OpRecord, Kids
<1>3. kids \in SUBSET Places /\ kids \subseteq Kids(op[t].auth.id)
    BY <1>2
<1>4. op' = [op EXCEPT ![t] = o]
    BY DEF OpenTree
<1> HIDE DEF kids, q
<1>5. /\ o \in OpRecord /\ o.pc = "tree" /\ o.handle = {q} /\ o.list = kids
      /\ o.what = op[t].what /\ o.name = op[t].name /\ o.from = op[t].from
      /\ o.auth = op[t].auth /\ o.expected = op[t].expected /\ o.anchor = op[t].anchor
    BY <1>1, <1>3 DEF OpRecord, OpPcs
<1> HIDE DEF o
<1>6. Changes(t, o)
    BY <1>4, <1>5, Changed
<1> QED BY <1>3, <1>5, <1>6 DEF q

LEMMA CaptureFacts ==
    ASSUME Typed, NEW t \in Threads, CaptureChild(t)
    PROVE  \E o \in OpRecord, k \in op[t].list :
             /\ Changes(t, o)
             /\ o.pc \in {"tree", "child"} /\ o.list \subseteq op[t].list /\ o.kid = k
             /\ o.handle = op[t].handle
             /\ o.what = op[t].what /\ o.name = op[t].name /\ o.from = op[t].from
             /\ o.auth = op[t].auth /\ o.expected = op[t].expected /\ o.anchor = op[t].anchor
<1>1. PICK k \in op[t].list :
         op' = [op EXCEPT ![t].list = @ \ {k}, ![t].kid = k, ![t].from_auth = fs[k],
                          ![t].pc = IF fs[k] = Absent THEN "tree" ELSE "child"]
    BY DEF CaptureChild
<1> DEFINE pc == IF fs[k] = Absent THEN "tree" ELSE "child"
           o == [op[t] EXCEPT !.list = @ \ {k}, !.kid = k, !.from_auth = fs[k], !.pc = pc]
<1>2. op[t] \in OpRecord
    BY DEF Typed
<1>3. op[t].list \in SUBSET Places /\ op[t].list \ {k} \in SUBSET Places
    BY <1>2 DEF OpRecord
<1>4. k \in Places /\ fs[k] \in Entry /\ pc \in {"tree", "child"}
    BY <1>3 DEF Typed
<1>5. op' = [op EXCEPT ![t] = o]
    BY <1>1
<1> HIDE DEF pc
<1>8. o \in OpRecord
    BY <1>2, <1>3, <1>4 DEF OpRecord, OpPcs
<1>6. /\ o.pc = pc /\ o.list = op[t].list \ {k} /\ o.kid = k
      /\ o.handle = op[t].handle
      /\ o.what = op[t].what /\ o.name = op[t].name /\ o.from = op[t].from
      /\ o.auth = op[t].auth /\ o.expected = op[t].expected /\ o.anchor = op[t].anchor
    BY <1>2 DEF OpRecord
<1> HIDE DEF o
<1>7. Changes(t, o)
    BY <1>5, <1>8, Changed
<1> QED BY <1>4, <1>6, <1>7, <1>8

-----------------------------------------------------------------------------
(* How far an operation is says what it is and what it has anchored: past    *)
(* __enter__ of its anchor the root cannot be exchanged.                     *)

Early == {"idle", "init", "enter"}
Holding == {"write", "truncate", "delete", "tree", "child"}

OpOk(o, l) ==
    /\ o.pc \in Early <=> o.anchor = None
    /\ o.pc \notin Early => o.anchor = root /\ o.expected = root
    /\ o.pc # "idle" =>
         /\ o.what = "append" => l = "in"
         /\ o.what # "append" => l = "out" /\ o.what \in Kinds /\ o.name \in Names /\ o.from \in Names
         /\ o.pc \in {"seek", "append"} => o.what = "append"
         /\ o.pc \in {"open", "write", "truncate", "delete"} =>
              o.what \in {"replace", "delete"} /\ o.auth.kind = "file"
         /\ o.pc \in {"temp", "link", "unlink"} => o.what = "replace"
         /\ o.pc = "move" => o.what = "rename"
         /\ o.what = "rename" => o.name # o.from
         /\ o.pc \in {"open_tree", "tree", "child"} => o.what = "remove_tree"
         /\ o.what = "remove_tree" => o.auth.kind = "dir"
         /\ o.pc = "mkdir" => o.what = "mkdir"

OpInv == \A t \in Threads : OpOk(op[t], lk[t])

LEMMA AfterProofFacts ==
    ASSUME NEW o, AfterProof(o) # "refused"
    PROVE  /\ AfterProof(o) \in {"open", "temp", "verify", "move", "open_tree", "mkdir", "seek"}
           /\ AfterProof(o) = "open" => o.what \in {"replace", "delete"} /\ o.auth.kind = "file"
           /\ AfterProof(o) = "temp" => o.what = "replace"
           /\ AfterProof(o) = "move" => o.what = "rename"
           /\ AfterProof(o) = "open_tree" => o.what = "remove_tree"
           /\ AfterProof(o) = "mkdir" => o.what = "mkdir"
           /\ AfterProof(o) = "seek" => o.what = "append"
BY DEF AfterProof

(* A step of one thread, with the root and the locks left alone.             *)
LEMMA OpOwn ==
    ASSUME OpInv, NEW t \in Threads, NEW o, Changes(t, o), UNCHANGED <<root, lk>>, OpOk(o, lk[t])
    PROVE  OpInv'
BY DEF OpInv, OpOk, Changes

LEMMA NoOpOk == \A l : OpOk(NoOp, l)
BY NoOpTyped DEF OpOk, Early

LEMMA OpEnds ==
    ASSUME Typed, OpInv, NEW t \in Threads, Ends(t), UNCHANGED <<root, lk>>
    PROVE  OpInv' /\ op' \in [Threads -> OpRecord]
BY EndsFacts, OpOwn, NoOpOk DEF Changes

LEMMA OpGoto ==
    ASSUME Typed, OpInv, NEW t \in Threads, NEW pc \in OpPcs, Goto(t, pc), UNCHANGED <<root, lk>>,
           op[t].pc \notin Early, pc \in {"truncate", "verify", "unlink", "tree"},
           pc = "truncate" => op[t].pc = "write",
           pc = "unlink" => op[t].pc = "link",
           pc = "tree" => op[t].pc = "child"
    PROVE  OpInv' /\ op' \in [Threads -> OpRecord]
<1>1. PICK o \in OpRecord :
        /\ Changes(t, o) /\ o.pc = pc
        /\ o.what = op[t].what /\ o.name = op[t].name /\ o.from = op[t].from
        /\ o.auth = op[t].auth /\ o.expected = op[t].expected /\ o.anchor = op[t].anchor
    BY GotoFacts
<1>2. OpOk(op[t], lk[t])
    BY DEF OpInv
<1>3. OpOk(o, lk[t])
    BY <1>1, <1>2 DEF OpOk, Early
<1> QED BY <1>1, <1>3, OpOwn DEF Changes

LEMMA OpStep ==
    ASSUME Typed, OpInv, NEW t \in Threads, Step(t) \/ Fails(t), ~Locks(t), ~BeginAppend(t),
           Seek(t) => Len(log[root]) \in Nat
    PROVE  OpInv' /\ op' \in [Threads -> OpRecord]
<1>0. OpOk(op[t], lk[t])
    BY DEF OpInv
<1>1. op[t].pc \in Early => op[t].anchor = None
    BY <1>0 DEF OpOk
<1>2. CASE AnchorInit(t)
  <2>1. PICK o \in OpRecord :
          /\ Changes(t, o) /\ o.pc = "enter"
          /\ o.what = op[t].what /\ o.name = op[t].name /\ o.from = op[t].from
          /\ o.auth = op[t].auth /\ o.anchor = op[t].anchor
    BY <1>2, InitFacts
  <2>2. OpOk(o, lk[t]) /\ UNCHANGED <<root, lk>>
    BY <1>0, <1>2, <2>1 DEF OpOk, Early, AnchorInit, lockVars
  <2> QED BY <2>1, <2>2, OpOwn DEF Changes
<1>3. CASE AnchorEnter(t)
  <2>1. UNCHANGED <<root, lk>>
    BY <1>3 DEF AnchorEnter, lockVars
  <2>2. CASE Held(t) /\ root = op[t].expected
    <3>1. PICK o \in OpRecord :
            /\ Changes(t, o) /\ o.pc = "prove" /\ o.anchor = root
            /\ o.what = op[t].what /\ o.name = op[t].name /\ o.from = op[t].from
            /\ o.auth = op[t].auth /\ o.expected = op[t].expected
      BY <2>2, HeldFacts
    <3>2. root # None
      BY DirsAssumption DEF Typed
    <3>3. OpOk(o, lk[t])
      BY <1>0, <1>3, <2>2, <3>1, <3>2 DEF OpOk, Early, AnchorEnter
    <3> QED BY <2>1, <3>1, <3>3, OpOwn DEF Changes
  <2> QED BY <1>3, <2>1, <2>2, OpEnds DEF AnchorEnter
<1>4. CASE Prove(t)
  <2>1. UNCHANGED <<root, lk>>
    BY <1>4 DEF Prove, lockVars
  <2>2. CASE AfterProof(op[t]) # "refused" /\ Goto(t, AfterProof(op[t]))
    <3> DEFINE pc == AfterProof(op[t])
    <3>1. pc \in OpPcs
      BY <2>2, AfterProofTyped
    <3>2. PICK o \in OpRecord :
            /\ Changes(t, o) /\ o.pc = pc
            /\ o.what = op[t].what /\ o.name = op[t].name /\ o.from = op[t].from
            /\ o.auth = op[t].auth /\ o.expected = op[t].expected /\ o.anchor = op[t].anchor
      BY <2>2, <3>1, GotoFacts
    <3>3. /\ pc \in {"open", "temp", "verify", "move", "open_tree", "mkdir", "seek"}
          /\ pc = "open" => o.what \in {"replace", "delete"} /\ o.auth.kind = "file"
          /\ pc = "temp" => o.what = "replace"
          /\ pc = "move" => o.what = "rename"
          /\ pc = "open_tree" => o.what = "remove_tree"
          /\ pc = "mkdir" => o.what = "mkdir"
          /\ pc = "seek" => o.what = "append"
      BY <2>2, <3>2, AfterProofFacts
    <3> HIDE DEF pc
    <3>4. OpOk(o, lk[t])
      BY <1>0, <1>4, <3>2, <3>3 DEF OpOk, Early, Prove
    <3> QED BY <2>1, <3>2, <3>4, OpOwn DEF Changes
  <2> QED BY <1>4, <2>1, <2>2, OpEnds DEF Prove
<1>5. CASE Verify(t) \/ Fails(t)
    BY <1>5, OpEnds DEF Verify, Fails, lockVars
<1>6. CASE Open(t)
  <2>1. UNCHANGED <<root, lk>>
    BY <1>6 DEF Open, lockVars
  <2>2. CASE OpenProven(t)
    <3>1. At(op[t].name) \in Places
      BY <1>0, <1>6, KindsAssumption, PlaceFacts DEF OpOk, Open, Typed, At
    <3>2. PICK o \in OpRecord :
            /\ Changes(t, o) /\ o.pc = (IF op[t].what = "delete" THEN "delete" ELSE "write")
            /\ o.what = op[t].what /\ o.name = op[t].name /\ o.from = op[t].from
            /\ o.auth = op[t].auth /\ o.expected = op[t].expected /\ o.anchor = op[t].anchor
      BY <1>6, <2>2, <3>1, OpenFacts
    <3>3. OpOk(o, lk[t])
      BY <1>0, <1>6, <3>2 DEF OpOk, Early, Open
    <3> QED BY <2>1, <3>2, <3>3, OpOwn DEF Changes
  <2> QED BY <1>6, <2>1, <2>2, OpEnds DEF Open
<1>7. CASE Write(t)
    BY <1>7, OpGoto DEF Write, Early, OpPcs, lockVars
<1>8. CASE Truncate(t) \/ Delete(t) \/ (RemoveDirectory(t) /\ Emptied(t))
  <2>1. op' = [op EXCEPT ![t].handle = {}, ![t].pc = "verify"] /\ UNCHANGED <<root, lk>>
        /\ op[t].pc \in {"truncate", "delete", "tree"}
    BY <1>8 DEF Truncate, Delete, RemoveDirectory, lockVars
  <2>2. PICK o \in OpRecord :
          /\ Changes(t, o) /\ o.pc = "verify"
          /\ o.what = op[t].what /\ o.name = op[t].name /\ o.from = op[t].from
          /\ o.auth = op[t].auth /\ o.expected = op[t].expected /\ o.anchor = op[t].anchor
    BY <2>1, DoneFacts
  <2>3. OpOk(o, lk[t])
    BY <1>0, <2>1, <2>2 DEF OpOk, Early
  <2> QED BY <2>1, <2>2, <2>3, OpOwn DEF Changes
<1>9. CASE NewTemp(t)
  <2>1. PICK o \in OpRecord :
          /\ Changes(t, o) /\ o.pc = "link"
          /\ o.what = op[t].what /\ o.name = op[t].name /\ o.from = op[t].from
          /\ o.auth = op[t].auth /\ o.expected = op[t].expected /\ o.anchor = op[t].anchor
    BY <1>9, NewTempFacts
  <2>2. OpOk(o, lk[t]) /\ UNCHANGED <<root, lk>>
    BY <1>0, <1>9, <2>1 DEF OpOk, Early, NewTemp, lockVars
  <2> QED BY <2>1, <2>2, OpOwn DEF Changes
<1>10. CASE Link(t)
    BY <1>10, OpGoto, OpEnds DEF Link, Early, OpPcs, lockVars
<1>11. CASE UnlinkTemp(t)
  <2>1. PICK o \in OpRecord :
          /\ Changes(t, o) /\ o.pc = "verify"
          /\ o.what = op[t].what /\ o.name = op[t].name /\ o.from = op[t].from
          /\ o.auth = op[t].auth /\ o.expected = op[t].expected /\ o.anchor = op[t].anchor
    BY <1>11, UnlinkFacts
  <2>2. OpOk(o, lk[t]) /\ UNCHANGED <<root, lk>>
    BY <1>0, <1>11, <2>1 DEF OpOk, Early, UnlinkTemp, lockVars
  <2> QED BY <2>1, <2>2, OpOwn DEF Changes
<1>12. CASE Move(t)
    BY <1>12, OpGoto, OpEnds DEF Move, Early, OpPcs, lockVars
<1>13. CASE OpenTree(t)
  <2>1. UNCHANGED <<root, lk>>
    BY <1>13 DEF OpenTree, lockVars
  <2>2. CASE fs[At(op[t].name)] = op[t].auth /\ ~Pinned(At(op[t].name))
    <3>1. At(op[t].name) \in Places /\ op[t].auth.kind = "dir"
      BY <1>0, <1>13, PlaceFacts DEF OpOk, OpenTree, Typed, At
    <3>2. PICK o \in OpRecord :
            /\ Changes(t, o) /\ o.pc = "tree"
            /\ o.what = op[t].what /\ o.name = op[t].name /\ o.from = op[t].from
            /\ o.auth = op[t].auth /\ o.expected = op[t].expected /\ o.anchor = op[t].anchor
      BY <1>13, <2>2, <3>1, OpenTreeFacts
    <3>3. OpOk(o, lk[t])
      BY <1>0, <1>13, <3>2 DEF OpOk, Early, OpenTree
    <3> QED BY <2>1, <3>2, <3>3, OpOwn DEF Changes
  <2> QED BY <1>13, <2>1, <2>2, OpEnds DEF OpenTree
<1>14. CASE CaptureChild(t)
  <2>1. PICK o \in OpRecord :
          /\ Changes(t, o) /\ o.pc \in {"tree", "child"}
          /\ o.what = op[t].what /\ o.name = op[t].name /\ o.from = op[t].from
          /\ o.auth = op[t].auth /\ o.expected = op[t].expected /\ o.anchor = op[t].anchor
    BY <1>14, CaptureFacts
  <2>2. OpOk(o, lk[t]) /\ UNCHANGED <<root, lk>>
    BY <1>0, <1>14, <2>1 DEF OpOk, Early, CaptureChild, lockVars
  <2> QED BY <2>1, <2>2, OpOwn DEF Changes
<1>15. CASE DeleteChild(t)
    BY <1>15, OpGoto, OpEnds DEF DeleteChild, Early, OpPcs, lockVars
<1>16. CASE RemoveDirectory(t) /\ ~Emptied(t)
    BY <1>16, OpEnds DEF RemoveDirectory, lockVars
<1>17. CASE MakeDirectory(t)
    BY <1>17, OpGoto DEF MakeDirectory, Early, OpPcs, lockVars
<1>18. CASE Seek(t)
  <2>1. PICK o \in OpRecord :
          /\ Changes(t, o) /\ o.pc = "append"
          /\ o.what = op[t].what /\ o.name = op[t].name /\ o.from = op[t].from
          /\ o.auth = op[t].auth /\ o.expected = op[t].expected /\ o.anchor = op[t].anchor
    BY <1>18, SeekFacts
  <2>2. OpOk(o, lk[t]) /\ UNCHANGED <<root, lk>>
    BY <1>0, <1>18, <2>1 DEF OpOk, Early, Seek, lockVars
  <2> QED BY <2>1, <2>2, OpOwn DEF Changes
<1>19. CASE AppendBytes(t)
    BY <1>19, OpGoto DEF AppendBytes, Early, OpPcs, lockVars
<1> QED BY <1>2, <1>3, <1>4, <1>5, <1>6, <1>7, <1>8, <1>9, <1>10, <1>11, <1>12, <1>13, <1>14, <1>15,
           <1>16, <1>17, <1>18, <1>19 DEF Step

-----------------------------------------------------------------------------
(* What lies in the directories: an identity is at one place, the            *)
(* subdirectories hold files, and nothing is left in one that is gone.       *)

Unique == \A q, r \in Places : fs[q].id = fs[r].id => q = r \/ fs[q] = Absent

Shallow == \A q \in Places : q[1] \in Subs => fs[q].kind # "dir"

TreeInv == Unique /\ Shallow /\ NothingOrphaned

Only(q) == \A r \in Places \ {q} : fs'[r] = fs[r]

LEMMA NoId == ASSUME NEW e \in Entry, e.id = None PROVE e = Absent
BY EntryFacts, DirsAssumption

LEMMA Puts ==
    ASSUME Typed, TreeInv, NEW q \in Places, NEW e \in Entry,
           e # Absent, fs[q] = Absent, \A r \in Places : fs[r].id # e.id,
           q[1] \in Subs => /\ e.kind = "file"
                            /\ \E r \in Roots, n \in Names : fs[<<r, n>>].id = q[1],
           fs' = [fs EXCEPT ![q] = e]
    PROVE  TreeInv' /\ fs' \in [Places -> Entry] /\ Only(q) /\ fs'[q] = e
<1>1. fs' \in [Places -> Entry] /\ Only(q) /\ fs'[q] = e
    BY DEF Typed, Only
<1>2. Unique'
    BY <1>1 DEF TreeInv, Unique, Only
<1>3. ASSUME NEW k \in Places, k[1] \in Subs, fs'[k] # Absent
      PROVE  \E r \in Roots, n \in Names : fs'[<<r, n>>].id = k[1]
  <2>0. k # q => fs[k] # Absent
      BY <1>1, <1>3 DEF Only
  <2>1. PICK r \in Roots, n \in Names : fs[<<r, n>>].id = k[1]
      BY <1>3, <2>0 DEF TreeInv, NothingOrphaned
  <2>2. <<r, n>> # q /\ <<r, n>> \in Places
      BY <1>3, <2>1, EntryFacts, PlaceFacts, DirsAssumption
  <2> QED BY <1>1, <2>1, <2>2 DEF Only
<1>4. NothingOrphaned'
    BY <1>3 DEF NothingOrphaned
<1>5. Shallow'
    BY <1>1, EntryFacts DEF TreeInv, Shallow, Only
<1> QED BY <1>1, <1>2, <1>4, <1>5 DEF TreeInv

LEMMA Edits ==
    ASSUME Typed, TreeInv, NEW q \in Places, NEW e \in Entry,
           fs[q].kind = "file", e.kind = "file", e.id = fs[q].id, fs' = [fs EXCEPT ![q] = e]
    PROVE  TreeInv' /\ fs' \in [Places -> Entry] /\ Only(q) /\ fs'[q] = e
<1>1. fs' \in [Places -> Entry] /\ Only(q) /\ fs'[q] = e
    BY DEF Typed, Only
<1>2. \A r \in Places : fs'[r].id = fs[r].id /\ (fs'[r] = Absent <=> fs[r] = Absent)
    BY <1>1, EntryFacts DEF Only
<1>3. Unique'
    BY <1>2 DEF TreeInv, Unique
<1>4. ASSUME NEW k \in Places, k[1] \in Subs, fs'[k] # Absent
      PROVE  \E r \in Roots, n \in Names : fs'[<<r, n>>].id = k[1]
    BY <1>2, <1>4, PlaceFacts DEF TreeInv, NothingOrphaned
<1>5. NothingOrphaned'
    BY <1>4 DEF NothingOrphaned
<1>6. Shallow'
    BY <1>1, EntryFacts DEF TreeInv, Shallow, Only
<1> QED BY <1>1, <1>3, <1>5, <1>6 DEF TreeInv

(* A file, or a directory with nothing in it.                                *)
LEMMA Removes ==
    ASSUME Typed, TreeInv, NEW q \in Places,
           \/ fs[q].kind = "file"
           \/ \A k \in Places : k[1] = fs[q].id => fs[k] = Absent,
           fs' = [fs EXCEPT ![q] = Absent]
    PROVE  TreeInv' /\ fs' \in [Places -> Entry] /\ Only(q) /\ fs'[q] = Absent
<1>1. fs' \in [Places -> Entry] /\ Only(q) /\ fs'[q] = Absent
    BY EntryFacts DEF Typed, Only
<1>2. Unique'
  <2> SUFFICES ASSUME NEW k \in Places, NEW r \in Places, fs'[k].id = fs'[r].id
               PROVE  k = r \/ fs'[k] = Absent
      BY DEF Unique
  <2>1. CASE k = q \/ r = q
      BY <1>1, <2>1, NoId, EntryFacts DEF Typed
  <2>2. CASE k # q /\ r # q
      BY <1>1, <2>2 DEF TreeInv, Unique, Only
  <2> QED BY <2>1, <2>2
<1>3. ASSUME NEW k \in Places, k[1] \in Subs, fs'[k] # Absent
      PROVE  \E r \in Roots, n \in Names : fs'[<<r, n>>].id = k[1]
  <2>1. k # q /\ fs[k] # Absent
      BY <1>1, <1>3 DEF Only
  <2>2. PICK r \in Roots, n \in Names : fs[<<r, n>>].id = k[1]
      BY <1>3, <2>1 DEF TreeInv, NothingOrphaned
  <2>3. fs[q] \in Entry
      BY DEF Typed
  <2>4. fs[q].id # k[1]
      BY <1>3, <2>1, <2>3, EntryFacts, DirsAssumption
  <2>5. <<r, n>> # q /\ <<r, n>> \in Places
      BY <2>2, <2>4, PlaceFacts
  <2> QED BY <1>1, <2>2, <2>5 DEF Only
<1>4. NothingOrphaned'
    BY <1>3 DEF NothingOrphaned
<1>5. Shallow'
    BY <1>1, EntryFacts DEF TreeInv, Shallow, Only
<1> QED BY <1>1, <1>2, <1>4, <1>5 DEF TreeInv

LEMMA Moves ==
    ASSUME Typed, TreeInv, NEW src \in Places, NEW dst \in Places, src # dst,
           src[1] \in Roots, dst[1] \in Roots, dst = <<dst[1], dst[2]>>, dst[2] \in Names,
           fs[src] # Absent, fs[dst] # Absent => fs[dst].kind = "file",
           fs' = [fs EXCEPT ![dst] = fs[src], ![src] = Absent]
    PROVE  /\ TreeInv' /\ fs' \in [Places -> Entry]
           /\ \A r \in Places \ {src, dst} : fs'[r] = fs[r]
           /\ fs'[src] = Absent /\ fs'[dst] = fs[src]
<1>1. /\ fs' \in [Places -> Entry]
      /\ \A r \in Places \ {src, dst} : fs'[r] = fs[r]
      /\ fs'[src] = Absent /\ fs'[dst] = fs[src]
    BY EntryFacts DEF Typed
<1>2. Unique'
  <2> SUFFICES ASSUME NEW k \in Places, NEW r \in Places, fs'[k].id = fs'[r].id
               PROVE  k = r \/ fs'[k] = Absent
      BY DEF Unique
  <2>1. CASE k = src \/ r = src
      BY <1>1, <2>1, NoId, EntryFacts
  <2>2. CASE k # src /\ r # src /\ k # dst /\ r # dst
      BY <1>1, <2>2 DEF TreeInv, Unique
  <2>3. CASE k = dst /\ r # src /\ r # dst
      BY <1>1, <2>3 DEF TreeInv, Unique
  <2>4. CASE r = dst /\ k # src /\ k # dst
      BY <1>1, <2>4 DEF TreeInv, Unique
  <2> QED BY <2>1, <2>2, <2>3, <2>4
<1>3. ASSUME NEW k \in Places, k[1] \in Subs, fs'[k] # Absent
      PROVE  \E r \in Roots, n \in Names : fs'[<<r, n>>].id = k[1]
  <2>1. fs[k] # Absent
      BY <1>1, <1>3, DirsAssumption
  <2>2. PICK r \in Roots, n \in Names : fs[<<r, n>>].id = k[1]
      BY <1>3, <2>1 DEF TreeInv, NothingOrphaned
  <2>3. fs[dst] \in Entry /\ <<r, n>> \in Places
      BY PlaceFacts DEF Typed
  <2>4. <<r, n>> # dst
      BY <1>3, <2>2, <2>3, EntryFacts, DirsAssumption
  <2>5. CASE <<r, n>> = src
      BY <1>1, <2>2, <2>5
  <2>6. CASE <<r, n>> # src
      BY <1>1, <2>2, <2>3, <2>4, <2>6
  <2> QED BY <2>5, <2>6
<1>4. NothingOrphaned'
    BY <1>3 DEF NothingOrphaned
<1>5. Shallow'
    BY <1>1, EntryFacts, DirsAssumption DEF TreeInv, Shallow
<1> QED BY <1>1, <1>2, <1>4, <1>5 DEF TreeInv

-----------------------------------------------------------------------------
(* Open handles: a thread that has one has the entry as it was authorized,   *)
(* two threads have two entries, and what a thread lists is in its tree.     *)

HoldOk(o, r, f) ==
    /\ o.handle = IF o.pc \in Holding THEN {<<r, o.name>>} ELSE {}
    /\ o.pc \in {"write", "delete", "tree", "child"} => f[<<r, o.name>>] = o.auth
    /\ o.pc = "truncate" => f[<<r, o.name>>].kind = "file"
    /\ o.pc \in {"tree", "child"} => o.list \subseteq Kids(o.auth.id)
    /\ o.pc = "child" => o.kid \in Kids(o.auth.id)

HandleInv ==
    /\ \A t \in Threads : HoldOk(op[t], root, fs)
    /\ \A s, t \in Threads :
          op[s].pc \in Holding /\ op[t].pc \in Holding /\ op[s].name = op[t].name => s = t

\* The entries that these threads hold stay as they are.
Spared(S) == \A s \in S : op[s].pc \in Holding => fs'[At(op[s].name)] = fs[At(op[s].name)]

LEMMA HeldPlaces ==
    ASSUME Typed, OpInv, HandleInv, NEW s \in Threads, op[s].pc \in Holding
    PROVE  /\ op[s].name \in Names /\ At(op[s].name) \in Places
           /\ Pinned(At(op[s].name)) /\ fs[At(op[s].name)].kind \in {"file", "dir"}
<1>1. OpOk(op[s], lk[s]) /\ HoldOk(op[s], root, fs)
    BY DEF OpInv, HandleInv
<1>2. op[s].name \in Names /\ op[s].what # "append"
    BY <1>1, KindsAssumption DEF OpOk, Holding
<1>3. At(op[s].name) \in Places /\ Pinned(At(op[s].name))
    BY <1>1, <1>2, PlaceFacts DEF Typed, At, HoldOk, Pinned, Handles
<1>4. fs[At(op[s].name)].kind \in {"file", "dir"}
    BY <1>1 DEF OpOk, HoldOk, Holding, At
<1> QED BY <1>2, <1>3, <1>4

LEMMA Spares ==
    ASSUME Typed, OpInv, HandleInv, NEW S \in SUBSET Threads, NEW q \in Places, Only(q),
           \/ ~Pinned(q)
           \/ fs[q] = Absent
           \/ q[1] \in Subs
           \/ \E t \in Threads \ S : op[t].pc \in Holding /\ q = At(op[t].name)
    PROVE  Spared(S)
<1> SUFFICES ASSUME NEW s \in S, op[s].pc \in Holding PROVE At(op[s].name) # q
    BY HeldPlaces DEF Spared, Only
<1>1. /\ op[s].name \in Names /\ At(op[s].name) \in Places
      /\ Pinned(At(op[s].name)) /\ fs[At(op[s].name)].kind \in {"file", "dir"}
    BY HeldPlaces
<1>2. \A t \in Threads \ S : op[t].pc \in Holding => At(op[t].name) # At(op[s].name)
    BY DEF HandleInv, At
<1>3. At(op[s].name)[1] \notin Subs
    BY DirsAssumption DEF Typed, At
<1> QED BY <1>1, <1>2, <1>3, EntryFacts

LEMMA HandleStep ==
    ASSUME HandleInv, NEW t \in Threads, NEW o, Changes(t, o), root' = root,
           Spared(Threads \ {t}), HoldOk(o, root, fs'),
           o.pc \in Holding => \A s \in Threads \ {t} : op[s].pc \in Holding => op[s].name # o.name
    PROVE  HandleInv'
<1>1. ASSUME NEW s \in Threads PROVE HoldOk(op'[s], root', fs')
  <2>1. CASE s = t
      BY <2>1 DEF Changes
  <2>2. CASE s # t
    <3>1. op'[s] = op[s] /\ HoldOk(op[s], root, fs)
        BY <2>2 DEF Changes, HandleInv
    <3>2. op[s].pc \in Holding => fs'[<<root, op[s].name>>] = fs[<<root, op[s].name>>]
        BY <2>2 DEF Spared, At
    <3>3. HoldOk(op[s], root, fs')
        BY <3>1, <3>2 DEF HoldOk, Holding
    <3> QED BY <3>1, <3>3
  <2> QED BY <2>1, <2>2
<1>2. \A s, u \in Threads :
          op'[s].pc \in Holding /\ op'[u].pc \in Holding /\ op'[s].name = op'[u].name => s = u
    BY DEF Changes, HandleInv
<1> QED BY <1>1, <1>2 DEF HandleInv

-----------------------------------------------------------------------------
(* A temporary has an identity that nothing else has, until it is linked.    *)

TempOk(o, f) ==
    o.pc = "link" => o.temp.kind = "file" /\ \A q \in Places : f[q].id # o.temp.id

TempInv ==
    /\ \A t \in Threads : TempOk(op[t], fs)
    /\ \A s, t \in Threads :
          op[s].pc = "link" /\ op[t].pc = "link" /\ op[s].temp.id = op[t].temp.id => s = t

\* The identities of these threads' temporaries stay unused.
Unused(S) ==
    \A s \in S : op[s].pc = "link" => \A q \in Places : fs'[q].id # op[s].temp.id

LEMMA TempStep ==
    ASSUME TempInv, NEW t \in Threads, NEW o, Changes(t, o), Unused(Threads \ {t}),
           o.pc = "link" =>
             /\ o.temp.kind = "file" /\ \A q \in Places : fs'[q].id # o.temp.id
             /\ \A s \in Threads \ {t} : op[s].pc = "link" => op[s].temp.id # o.temp.id
    PROVE  TempInv'
BY DEF TempInv, TempOk, Changes, Unused

\* What is removed or edited takes no identity.
LEMMA NoNewId ==
    ASSUME Typed, TempInv, NEW S \in SUBSET Threads,
           \A q \in Places : fs'[q].id = None \/ \E r \in Places : fs'[q].id = fs[r].id
    PROVE  Unused(S)
<1> SUFFICES ASSUME NEW s \in S, op[s].pc = "link", NEW q \in Places
             PROVE  fs'[q].id # op[s].temp.id
    BY DEF Unused
<1>1. op[s].temp \in Entry
    BY DEF Typed, OpRecord
<1>2. op[s].temp.id # None
    BY <1>1, EntryFacts, DirsAssumption DEF TempInv, TempOk
<1> QED BY <1>2 DEF TempInv, TempOk

-----------------------------------------------------------------------------
(* The steps                                                                 *)

FileInv == Typed /\ OpInv /\ HandleInv /\ TempInv /\ TreeInv

Kept == HandleInv' /\ TempInv' /\ TreeInv' /\ fs' \in [Places -> Entry]

LEMMA SameTree == ASSUME UNCHANGED fs, FileInv PROVE TreeInv' /\ fs' \in [Places -> Entry]
BY DEF FileInv, Typed, TreeInv, Unique, Shallow, NothingOrphaned

(* Steps that change no entry, and after which the thread has no handle.     *)
LEMMA Quiet ==
    ASSUME FileInv, NEW t \in Threads, NEW o, Changes(t, o), UNCHANGED <<root, fs>>,
           o.pc \notin Holding \cup {"link"}, o.handle = {}
    PROVE  Kept
<1>1. Spared(Threads \ {t})
    BY DEF Spared
<1>2. HoldOk(o, root, fs')
    BY DEF HoldOk, Holding
<1>3. Unused(Threads \ {t})
    BY DEF Unused, FileInv, TempInv, TempOk
<1>4. HandleInv' /\ TempInv'
    BY <1>1, <1>2, <1>3, HandleStep, TempStep DEF FileInv
<1> QED BY <1>4, SameTree DEF Kept

LEMMA QuietEnds ==
    ASSUME FileInv, NEW t \in Threads, Ends(t), UNCHANGED <<root, fs>>
    PROVE  Kept
BY Quiet, EndsFacts, NoOpTyped DEF FileInv, Holding

\* A thread that has no handle.
LEMMA NoHandle ==
    ASSUME FileInv, NEW t \in Threads, op[t].pc \notin Holding
    PROVE  op[t].handle = {}
BY DEF FileInv, HandleInv, HoldOk

\* The entry that a thread opens is nobody else's.
LEMMA NotHeld ==
    ASSUME FileInv, NEW t \in Threads, ~Pinned(At(op[t].name)), NEW s \in Threads, op[s].pc \in Holding
    PROVE  op[s].name # op[t].name
BY HeldPlaces DEF FileInv

LEMMA OpenKeeps == ASSUME FileInv, NEW t \in Threads, Open(t) PROVE Kept
<1>1. UNCHANGED <<root, fs>> /\ op[t].pc = "open"
    BY DEF Open
<1>2. CASE OpenProven(t)
  <2>1. OpOk(op[t], lk[t])
      BY DEF FileInv, OpInv
  <2>2. At(op[t].name) \in Places
      BY <1>1, <2>1, KindsAssumption, PlaceFacts DEF OpOk, FileInv, Typed, At
  <2>3. PICK o \in OpRecord :
          /\ Changes(t, o) /\ o.pc = (IF op[t].what = "delete" THEN "delete" ELSE "write")
          /\ o.handle = {At(op[t].name)} /\ o.name = op[t].name /\ o.auth = op[t].auth
      BY <1>2, <2>2, OpenFacts DEF FileInv
  <2>4. HoldOk(o, root, fs')
      BY <1>1, <1>2, <2>3 DEF HoldOk, Holding, OpenProven, At
  <2>5. \A s \in Threads \ {t} : op[s].pc \in Holding => op[s].name # o.name
      BY <1>2, <2>3, NotHeld DEF OpenProven
  <2>6. Spared(Threads \ {t}) /\ Unused(Threads \ {t})
      BY <1>1 DEF Spared, Unused, FileInv, TempInv, TempOk
  <2>7. HandleInv' /\ TempInv'
      BY <1>1, <2>3, <2>4, <2>5, <2>6, HandleStep, TempStep DEF FileInv
  <2> QED BY <1>1, <2>7, SameTree DEF Kept
<1> QED BY <1>1, <1>2, QuietEnds DEF Open

LEMMA OpenTreeKeeps == ASSUME FileInv, NEW t \in Threads, OpenTree(t) PROVE Kept
<1>1. UNCHANGED <<root, fs>> /\ op[t].pc = "open_tree"
    BY DEF OpenTree
<1>2. CASE fs[At(op[t].name)] = op[t].auth /\ ~Pinned(At(op[t].name))
  <2>1. OpOk(op[t], lk[t])
      BY DEF FileInv, OpInv
  <2>2. At(op[t].name) \in Places /\ op[t].auth.kind = "dir"
      BY <1>1, <2>1, PlaceFacts DEF OpOk, FileInv, Typed, At
  <2>3. PICK o \in OpRecord :
          /\ Changes(t, o) /\ o.pc = "tree" /\ o.handle = {At(op[t].name)}
          /\ o.list \subseteq Kids(op[t].auth.id) /\ o.name = op[t].name /\ o.auth = op[t].auth
      BY <1>2, <2>2, OpenTreeFacts DEF FileInv
  <2>4. HoldOk(o, root, fs')
      BY <1>1, <1>2, <2>3 DEF HoldOk, Holding, At
  <2>5. \A s \in Threads \ {t} : op[s].pc \in Holding => op[s].name # o.name
      BY <1>2, <2>3, NotHeld
  <2>6. Spared(Threads \ {t}) /\ Unused(Threads \ {t})
      BY <1>1 DEF Spared, Unused, FileInv, TempInv, TempOk
  <2>7. HandleInv' /\ TempInv'
      BY <1>1, <2>3, <2>4, <2>5, <2>6, HandleStep, TempStep DEF FileInv
  <2> QED BY <1>1, <2>7, SameTree DEF Kept
<1> QED BY <1>1, <1>2, QuietEnds DEF OpenTree

\* The names of the other threads that have handles.
LEMMA OwnName ==
    ASSUME FileInv, NEW t \in Threads, op[t].pc \in Holding
    PROVE  \A s \in Threads \ {t} : op[s].pc \in Holding => op[s].name # op[t].name
BY DEF FileInv, HandleInv

LEMMA CaptureKeeps == ASSUME FileInv, NEW t \in Threads, CaptureChild(t) PROVE Kept
<1>1. UNCHANGED <<root, fs>> /\ op[t].pc = "tree" /\ op[t].pc \in Holding
    BY DEF CaptureChild, Holding
<1>2. PICK o \in OpRecord, k \in op[t].list :
        /\ Changes(t, o) /\ o.pc \in {"tree", "child"} /\ o.list \subseteq op[t].list /\ o.kid = k
        /\ o.handle = op[t].handle /\ o.name = op[t].name /\ o.auth = op[t].auth
    BY CaptureFacts DEF FileInv
<1>3. HoldOk(op[t], root, fs)
    BY DEF FileInv, HandleInv
<1>4. HoldOk(o, root, fs')
    BY <1>1, <1>2, <1>3 DEF HoldOk, Holding
<1>5. Spared(Threads \ {t}) /\ Unused(Threads \ {t})
    BY <1>1 DEF Spared, Unused, FileInv, TempInv, TempOk
<1>6. HandleInv' /\ TempInv'
    BY <1>1, <1>2, <1>4, <1>5, OwnName, HandleStep, TempStep DEF FileInv
<1> QED BY <1>1, <1>6, SameTree DEF Kept

LEMMA NewTempKeeps == ASSUME FileInv, NEW t \in Threads, NewTemp(t) PROVE Kept
<1>1. UNCHANGED <<root, fs>> /\ op[t].pc = "temp" /\ op[t].pc \notin Holding
    BY DEF NewTemp, Holding
<1>2. PICK o \in OpRecord, i \in FileIds \ Used :
        Changes(t, o) /\ o.pc = "link" /\ o.temp = File(i, "new") /\ o.handle = op[t].handle
    BY NewTempFacts DEF FileInv
<1>3. HoldOk(o, root, fs')
    BY <1>1, <1>2, NoHandle DEF HoldOk, Holding
<1>4. Spared(Threads \ {t}) /\ Unused(Threads \ {t})
    BY <1>1 DEF Spared, Unused, FileInv, TempInv, TempOk
<1>5. o.temp.kind = "file" /\ o.temp.id = i
    BY <1>2, EntryFacts
<1>6. /\ \A q \in Places : fs'[q].id # i
      /\ \A s \in Threads : op[s].temp.id # i
    BY <1>1, <1>2 DEF Used
<1>7. HandleInv' /\ TempInv'
    BY <1>1, <1>2, <1>3, <1>4, <1>5, <1>6, HandleStep, TempStep DEF FileInv, Holding
<1> QED BY <1>1, <1>7, SameTree DEF Kept

LEMMA WriteKeeps == ASSUME FileInv, NEW t \in Threads, Write(t) PROVE Kept
<1> DEFINE q == At(op[t].name)
           e == [fs[q] EXCEPT !.data = "torn"]
<1>1. UNCHANGED root /\ op[t].pc = "write" /\ op[t].pc \in Holding /\ Goto(t, "truncate")
    BY DEF Write, Holding
<1>2. OpOk(op[t], lk[t]) /\ HoldOk(op[t], root, fs)
    BY DEF FileInv, OpInv, HandleInv
<1>3. q \in Places /\ fs[q] \in Entry /\ fs[q].kind = "file"
    BY <1>1, <1>2, HeldPlaces DEF FileInv, Typed, OpOk, HoldOk, At
<1>4. e \in Entry /\ e.kind = "file" /\ e.id = fs[q].id
    BY <1>3, EntryFacts
<1>5. fs' = [fs EXCEPT ![q] = e]
    BY DEF Write
<1> HIDE DEF e
<1>6. TreeInv' /\ fs' \in [Places -> Entry] /\ Only(q) /\ fs'[q] = e
    BY <1>3, <1>4, <1>5, Edits DEF FileInv
<1>7. PICK o \in OpRecord : /\ Changes(t, o) /\ o.pc = "truncate" /\ o.name = op[t].name
                            /\ o.handle = op[t].handle
    BY <1>1, GotoFacts DEF FileInv, OpPcs
<1>8. HoldOk(o, root, fs')
    BY <1>1, <1>2, <1>4, <1>6, <1>7 DEF HoldOk, Holding, At
<1>9. Spared(Threads \ {t})
    BY <1>1, <1>3, <1>6, Spares DEF FileInv
<1>10. Unused(Threads \ {t})
    BY <1>3, <1>4, <1>6, NoNewId DEF FileInv, Only
<1>11. HandleInv' /\ TempInv'
    BY <1>1, <1>7, <1>8, <1>9, <1>10, OwnName, HandleStep, TempStep DEF FileInv
<1> QED BY <1>6, <1>11 DEF Kept

LEMMA TruncateKeeps == ASSUME FileInv, NEW t \in Threads, Truncate(t) PROVE Kept
<1> DEFINE q == At(op[t].name)
           e == [fs[q] EXCEPT !.data = "new"]
<1>1. UNCHANGED root /\ op[t].pc = "truncate" /\ op[t].pc \in Holding
    BY DEF Truncate, Holding
<1>2. HoldOk(op[t], root, fs)
    BY DEF FileInv, HandleInv
<1>3. q \in Places /\ fs[q] \in Entry /\ fs[q].kind = "file"
    BY <1>1, <1>2, HeldPlaces DEF FileInv, Typed, HoldOk, At
<1>4. e \in Entry /\ e.kind = "file" /\ e.id = fs[q].id
    BY <1>3, EntryFacts
<1>5. fs' = [fs EXCEPT ![q] = e]
    BY DEF Truncate
<1> HIDE DEF e
<1>6. TreeInv' /\ fs' \in [Places -> Entry] /\ Only(q) /\ fs'[q] = e
    BY <1>3, <1>4, <1>5, Edits DEF FileInv
<1>7. PICK o \in OpRecord : Changes(t, o) /\ o.pc = "verify" /\ o.handle = {}
    BY DoneFacts DEF FileInv, Truncate
<1>8. HoldOk(o, root, fs')
    BY <1>7 DEF HoldOk, Holding
<1>9. Spared(Threads \ {t})
    BY <1>1, <1>3, <1>6, Spares DEF FileInv
<1>10. Unused(Threads \ {t})
    BY <1>3, <1>4, <1>6, NoNewId DEF FileInv, Only
<1>11. HandleInv' /\ TempInv'
    BY <1>1, <1>7, <1>8, <1>9, <1>10, HandleStep, TempStep DEF FileInv, Holding
<1> QED BY <1>6, <1>11 DEF Kept

(* Delete, and RemoveDirectory of a directory that was read as empty.        *)
LEMMA HeldIsRemoved ==
    ASSUME FileInv, NEW t \in Threads, op[t].pc \in Holding, UNCHANGED root,
           \/ fs[At(op[t].name)].kind = "file"
           \/ \A k \in Places : k[1] = fs[At(op[t].name)].id => fs[k] = Absent,
           fs' = [fs EXCEPT ![At(op[t].name)] = Absent],
           op' = [op EXCEPT ![t].handle = {}, ![t].pc = "verify"]
    PROVE  Kept
<1> DEFINE q == At(op[t].name)
<1>1. q \in Places
    BY HeldPlaces DEF FileInv
<1>2. TreeInv' /\ fs' \in [Places -> Entry] /\ Only(q) /\ fs'[q] = Absent
    BY <1>1, Removes DEF FileInv
<1>3. PICK o \in OpRecord : Changes(t, o) /\ o.pc = "verify" /\ o.handle = {}
    BY DoneFacts DEF FileInv
<1>4. HoldOk(o, root, fs')
    BY <1>3 DEF HoldOk, Holding
<1>5. Spared(Threads \ {t})
    BY <1>1, <1>2, Spares DEF FileInv
<1>6. Unused(Threads \ {t})
    BY <1>2, EntryFacts, NoNewId DEF FileInv, Only
<1>7. HandleInv' /\ TempInv'
    BY <1>3, <1>4, <1>5, <1>6, HandleStep, TempStep DEF FileInv, Holding
<1> QED BY <1>2, <1>7 DEF Kept

LEMMA DeleteKeeps == ASSUME FileInv, NEW t \in Threads, Delete(t) PROVE Kept
<1>1. op[t].pc = "delete" /\ op[t].pc \in Holding /\ UNCHANGED root
    BY DEF Delete, Holding
<1>2. OpOk(op[t], lk[t]) /\ HoldOk(op[t], root, fs)
    BY DEF FileInv, OpInv, HandleInv
<1>3. fs[At(op[t].name)].kind = "file"
    BY <1>1, <1>2 DEF OpOk, HoldOk, At
<1> QED BY <1>1, <1>3, HeldIsRemoved DEF Delete

\* The places in a directory are those that remove_tree lists.
LEMMA InDirectory == \A i \in Subs, k \in Places : k[1] = i => k \in Kids(i)
BY DirsAssumption DEF Places, Kids

LEMMA RemoveDirectoryKeeps == ASSUME FileInv, NEW t \in Threads, RemoveDirectory(t) PROVE Kept
<1>1. op[t].pc = "tree" /\ op[t].pc \in Holding /\ UNCHANGED root
    BY DEF RemoveDirectory, Holding
<1>2. CASE Emptied(t)
  <2>1. OpOk(op[t], lk[t]) /\ HoldOk(op[t], root, fs)
      BY DEF FileInv, OpInv, HandleInv
  <2>2. fs[At(op[t].name)] = op[t].auth /\ op[t].auth.kind = "dir" /\ op[t].auth \in Entry
      BY <1>1, <2>1 DEF OpOk, HoldOk, At, FileInv, Typed, OpRecord
  <2>3. \A k \in Places : k[1] = fs[At(op[t].name)].id => fs[k] = Absent
      BY <1>2, <2>2, EntryFacts, InDirectory DEF Emptied
  <2> QED BY <1>1, <1>2, <2>3, HeldIsRemoved DEF RemoveDirectory
<1> QED BY <1>1, <1>2, QuietEnds DEF RemoveDirectory

LEMMA DeleteChildKeeps == ASSUME FileInv, NEW t \in Threads, DeleteChild(t) PROVE Kept
<1>1. op[t].pc = "child" /\ op[t].pc \in Holding /\ UNCHANGED root
    BY DEF DeleteChild, Holding
<1>2. CASE fs' = [fs EXCEPT ![op[t].kid] = Absent] /\ Goto(t, "tree")
  <2> DEFINE q == op[t].kid
  <2>1. OpOk(op[t], lk[t]) /\ HoldOk(op[t], root, fs)
      BY DEF FileInv, OpInv, HandleInv
  <2>2. op[t].auth.id \in Subs /\ q = <<op[t].auth.id, "child">>
      BY <1>1, <2>1, EntryFacts DEF OpOk, HoldOk, Kids, FileInv, Typed, OpRecord
  <2>3. q \in Places /\ q[1] \in Subs /\ fs[q].kind # "dir"
      BY <2>2, PlaceFacts DEF FileInv, TreeInv, Shallow
  <2>4. fs[q].kind = "file" \/ \A k \in Places : k[1] = fs[q].id => fs[k] = Absent
    <3>1. fs[q] \in Entry
        BY <2>3 DEF FileInv, Typed
    <3>2. \A k \in Places : k[1] # None
        BY PlaceFacts, DirsAssumption
    <3> QED BY <2>3, <3>1, <3>2, EntryFacts
  <2>5. TreeInv' /\ fs' \in [Places -> Entry] /\ Only(q) /\ fs'[q] = Absent
      BY <1>2, <2>3, <2>4, Removes DEF FileInv
  <2>6. PICK o \in OpRecord :
          /\ Changes(t, o) /\ o.pc = "tree" /\ o.handle = op[t].handle /\ o.list = op[t].list
          /\ o.name = op[t].name /\ o.auth = op[t].auth
      BY <1>2, GotoFacts DEF FileInv, OpPcs
  <2>7. At(op[t].name) \in Places /\ At(op[t].name) # q
      BY <1>1, <2>3, HeldPlaces, DirsAssumption DEF FileInv, Typed, At
  <2>8. HoldOk(o, root, fs')
      BY <1>1, <2>1, <2>5, <2>6, <2>7 DEF HoldOk, Holding, At, Only
  <2>9. Spared(Threads \ {t})
      BY <2>3, <2>5, Spares DEF FileInv
  <2>10. Unused(Threads \ {t})
      BY <2>5, EntryFacts, NoNewId DEF FileInv, Only
  <2>11. HandleInv' /\ TempInv'
      BY <1>1, <2>6, <2>8, <2>9, <2>10, OwnName, HandleStep, TempStep DEF FileInv
  <2> QED BY <2>5, <2>11 DEF Kept
<1> QED BY <1>1, <1>2, QuietEnds DEF DeleteChild

(* Link and MakeDirectory: an entry where there is none, with an identity    *)
(* that is new.                                                              *)
LEMMA NewIsPut ==
    ASSUME FileInv, NEW t \in Threads, NEW pc \in {"unlink", "verify"}, Goto(t, pc),
           op[t].pc \in {"link", "mkdir"}, UNCHANGED root, fs[At(op[t].name)] = Absent,
           NEW e \in Entry, e # Absent, \A r \in Places : fs[r].id # e.id,
           \A s \in Threads \ {t} : op[s].pc = "link" => op[s].temp.id # e.id,
           fs' = [fs EXCEPT ![At(op[t].name)] = e]
    PROVE  Kept
<1> DEFINE q == At(op[t].name)
<1>1. OpOk(op[t], lk[t])
    BY DEF FileInv, OpInv
<1>2. q \in Places /\ q[1] \notin Subs
    BY <1>1, KindsAssumption, PlaceFacts, DirsAssumption DEF OpOk, FileInv, Typed, At
<1>3. TreeInv' /\ fs' \in [Places -> Entry] /\ Only(q) /\ fs'[q] = e
    BY <1>2, Puts DEF FileInv
<1>4. PICK o \in OpRecord : Changes(t, o) /\ o.pc = pc /\ o.handle = op[t].handle
    BY GotoFacts DEF FileInv, OpPcs
<1>5. HoldOk(o, root, fs')
    BY <1>4, NoHandle DEF HoldOk, Holding
<1>6. Spared(Threads \ {t})
    BY <1>2, <1>3, Spares DEF FileInv
<1>7. Unused(Threads \ {t})
    BY <1>3 DEF Unused, FileInv, TempInv, TempOk, Only
<1>8. HandleInv' /\ TempInv'
    BY <1>4, <1>5, <1>6, <1>7, HandleStep, TempStep DEF FileInv, Holding
<1> QED BY <1>3, <1>8 DEF Kept

LEMMA QuietGoto ==
    ASSUME FileInv, NEW t \in Threads, NEW pc \in OpPcs \ (Holding \cup {"link"}), Goto(t, pc),
           op[t].pc \notin Holding, UNCHANGED <<root, fs>>
    PROVE  Kept
<1>1. PICK o \in OpRecord : Changes(t, o) /\ o.pc = pc /\ o.handle = op[t].handle
    BY GotoFacts DEF FileInv
<1> QED BY <1>1, Quiet, NoHandle

LEMMA LinkKeeps == ASSUME FileInv, NEW t \in Threads, Link(t) PROVE Kept
<1>1. op[t].pc = "link" /\ UNCHANGED root
    BY DEF Link
<1>2. CASE fs[At(op[t].name)] = Absent
  <2> DEFINE e == op[t].temp
  <2>1. e \in Entry /\ e # Absent
      BY <1>1, EntryFacts DEF FileInv, Typed, OpRecord, TempInv, TempOk
  <2>2. /\ \A r \in Places : fs[r].id # e.id
        /\ \A s \in Threads \ {t} : op[s].pc = "link" => op[s].temp.id # e.id
      BY <1>1 DEF FileInv, TempInv, TempOk
  <2>3. fs' = [fs EXCEPT ![At(op[t].name)] = e] /\ Goto(t, "unlink")
      BY <1>2 DEF Link
  <2> HIDE DEF e
  <2> QED BY <1>1, <1>2, <2>1, <2>2, <2>3, NewIsPut
<1> QED BY <1>1, <1>2, QuietEnds DEF Link

LEMMA MakeDirectoryKeeps == ASSUME FileInv, NEW t \in Threads, MakeDirectory(t) PROVE Kept
<1>1. op[t].pc = "mkdir" /\ UNCHANGED root /\ Goto(t, "verify")
    BY DEF MakeDirectory
<1>2. ASSUME NEW i \in Fresh(Subs), fs[At(op[t].name)] = Absent,
             fs' = [fs EXCEPT ![At(op[t].name)] = Dir(i)]
      PROVE  Kept
  <2> DEFINE e == Dir(i)
  <2>1. i \in Subs /\ i \notin Used
      BY FreshFacts
  <2>2. e \in Entry /\ e # Absent /\ e.id = i
      BY <2>1, EntryFacts
  <2>3. /\ \A r \in Places : fs[r].id # e.id
        /\ \A s \in Threads \ {t} : op[s].pc = "link" => op[s].temp.id # e.id
      BY <2>1, <2>2 DEF Used
  <2>4. fs' = [fs EXCEPT ![At(op[t].name)] = e]
      BY <1>2
  <2>5. op[t].pc \in {"link", "mkdir"} /\ fs[At(op[t].name)] = Absent
      BY <1>1, <1>2
  <2> HIDE DEF e
  <2> QED BY <1>1, <2>2, <2>3, <2>4, <2>5, NewIsPut
<1>3. CASE UNCHANGED fs
    BY <1>1, <1>3, QuietGoto DEF OpPcs, Holding
<1> QED BY <1>2, <1>3 DEF MakeDirectory

LEMMA MoveKeeps == ASSUME FileInv, NEW t \in Threads, Move(t) PROVE Kept
<1> DEFINE src == At(op[t].from)
           dst == At(op[t].name)
<1>1. op[t].pc = "move" /\ UNCHANGED root
    BY DEF Move
<1>2. CASE /\ fs[src] # Absent /\ ~Pinned(src) /\ ~Pinned(dst)
           /\ fs[dst] # Absent => fs[src].kind = "file" /\ fs[dst].kind = "file"
  <2>1. fs' = [fs EXCEPT ![dst] = fs[src], ![src] = Absent] /\ Goto(t, "verify")
      BY <1>2 DEF Move
  <2>2. OpOk(op[t], lk[t]) /\ root \in Roots
      BY DEF FileInv, OpInv, Typed
  <2>3. op[t].name \in Names /\ op[t].from \in Names /\ op[t].name # op[t].from
      BY <1>1, <2>2 DEF OpOk
  <2>4. /\ src \in Places /\ dst \in Places /\ src # dst
        /\ src[1] \in Roots /\ dst[1] \in Roots /\ dst = <<dst[1], dst[2]>> /\ dst[2] \in Names
      BY <2>2, <2>3, PlaceFacts DEF At
  <2> HIDE DEF src, dst
  <2>5. /\ TreeInv' /\ fs' \in [Places -> Entry]
        /\ \A r \in Places \ {src, dst} : fs'[r] = fs[r]
        /\ fs'[src] = Absent /\ fs'[dst] = fs[src]
      BY <1>2, <2>1, <2>4, Moves DEF FileInv
  <2>6. PICK o \in OpRecord : Changes(t, o) /\ o.pc = "verify" /\ o.handle = op[t].handle
      BY <2>1, GotoFacts DEF FileInv, OpPcs
  <2>7. HoldOk(o, root, fs')
      BY <1>1, <2>6, NoHandle DEF HoldOk, Holding
  <2>8. Spared(Threads \ {t})
      BY <1>2, <2>5, HeldPlaces DEF FileInv, Spared
  <2>9. Unused(Threads \ {t})
      BY <2>4, <2>5, EntryFacts, NoNewId DEF FileInv
  <2>10. HandleInv' /\ TempInv'
      BY <1>1, <2>6, <2>7, <2>8, <2>9, HandleStep, TempStep DEF FileInv, Holding
  <2> QED BY <2>5, <2>10 DEF Kept
<1> QED BY <1>1, <1>2, QuietEnds DEF Move

LEMMA StepKeeps ==
    ASSUME FileInv, NEW t \in Threads, Step(t) \/ Fails(t), Seek(t) => Len(log[root]) \in Nat
    PROVE  Kept
<1>1. CASE AnchorInit(t)
  <2>1. PICK o \in OpRecord : Changes(t, o) /\ o.pc = "enter" /\ o.handle = op[t].handle
      BY <1>1, InitFacts DEF FileInv
  <2> QED BY <1>1, <2>1, Quiet, NoHandle DEF AnchorInit, Holding
<1>2. CASE AnchorEnter(t)
  <2>1. UNCHANGED <<root, fs>> /\ op[t].pc = "enter"
      BY <1>2 DEF AnchorEnter
  <2>2. CASE Held(t)
    <3>1. PICK o \in OpRecord : Changes(t, o) /\ o.pc = "prove" /\ o.handle = op[t].handle
        BY <2>2, HeldFacts DEF FileInv
    <3> QED BY <2>1, <3>1, Quiet, NoHandle DEF Holding
  <2> QED BY <1>2, <2>1, <2>2, QuietEnds DEF AnchorEnter
<1>3. CASE Prove(t)
  <2>1. UNCHANGED <<root, fs>> /\ op[t].pc = "prove"
      BY <1>3 DEF Prove
  <2>2. CASE AfterProof(op[t]) # "refused" /\ Goto(t, AfterProof(op[t]))
    <3>1. AfterProof(op[t]) \in OpPcs \ (Holding \cup {"link"})
        BY <2>2, AfterProofFacts DEF OpPcs, Holding
    <3> QED BY <2>1, <2>2, <3>1, QuietGoto DEF Holding
  <2> QED BY <1>3, <2>1, <2>2, QuietEnds DEF Prove
<1>4. CASE Verify(t) \/ Fails(t)
    BY <1>4, QuietEnds DEF Verify, Fails
<1>5. CASE UnlinkTemp(t)
  <2>1. PICK o \in OpRecord : Changes(t, o) /\ o.pc = "verify" /\ o.handle = op[t].handle
      BY <1>5, UnlinkFacts DEF FileInv
  <2> QED BY <1>5, <2>1, Quiet, NoHandle DEF UnlinkTemp, Holding
<1>6. CASE Seek(t)
  <2>1. PICK o \in OpRecord : Changes(t, o) /\ o.pc = "append" /\ o.handle = op[t].handle
      BY <1>6, SeekFacts DEF FileInv
  <2> QED BY <1>6, <2>1, Quiet, NoHandle DEF Seek, Holding
<1>7. CASE AppendBytes(t)
    BY <1>7, QuietGoto DEF AppendBytes, OpPcs, Holding
<1>8. CASE BeginAppend(t)
  <2>1. PICK o \in OpRecord : Changes(t, o) /\ o.pc = "init" /\ o.handle = {}
      BY <1>8, BeginAppendFacts DEF FileInv
  <2> QED BY <1>8, <2>1, Quiet DEF BeginAppend, Holding
<1>9. CASE Locks(t)
  <2>1. UNCHANGED <<root, fs, op>>
      BY <1>9 DEF Locks
  <2>2. HandleInv' /\ TempInv'
      BY <2>1 DEF FileInv, HandleInv, TempInv
  <2> QED BY <2>1, <2>2, SameTree DEF Kept
<1> QED BY <1>1, <1>2, <1>3, <1>4, <1>5, <1>6, <1>7, <1>8, <1>9, OpenKeeps, OpenTreeKeeps,
           CaptureKeeps, NewTempKeeps, WriteKeeps, TruncateKeeps, DeleteKeeps,
           RemoveDirectoryKeeps, DeleteChildKeeps, LinkKeeps, MakeDirectoryKeeps, MoveKeeps DEF Step

\* Where a step leaves a thread, and the locks, as they were.
LEMMA OpOthers ==
    ASSUME OpInv, UNCHANGED root,
           \A t \in Threads : \/ op'[t] = op[t] /\ lk'[t] = lk[t]
                              \/ OpOk(op'[t], lk'[t])
    PROVE  OpInv'
<1>1. ASSUME NEW t \in Threads PROVE OpOk(op'[t], lk'[t])
    BY DEF OpInv
<1> QED BY <1>1 DEF OpInv, OpOk

LEMMA LocksKeep ==
    ASSUME LockInv, FileInv, NEW t \in Threads, Locks(t)
    PROVE  OpInv'
<1>1. op[t].pc = "idle" /\ UNCHANGED <<root, op>>
    BY DEF Locks
<1>2. \A s \in Threads \ {t} : lk'[s] = lk[s]
    BY DEF Locks, Register, TakeLocal, LockFails, ReleaseKernel, ReleaseLocal, Unregister,
           LockInv, LockTypeOK
<1>3. OpOk(op'[t], lk'[t])
    BY <1>1 DEF FileInv, OpInv, OpOk, Early
<1> QED BY <1>1, <1>2, <1>3, OpOthers DEF FileInv

LEMMA BeginAppendKeeps ==
    ASSUME LockInv, FileInv, NEW t \in Threads, BeginAppend(t)
    PROVE  OpInv' /\ op' \in [Threads -> OpRecord]
<1>1. PICK o \in OpRecord :
        Changes(t, o) /\ o.pc = "init" /\ o.what = "append" /\ o.anchor = None
    BY BeginAppendFacts DEF FileInv
<1>2. UNCHANGED root /\ lk' = [lk EXCEPT ![t] = "in"]
    BY DEF BeginAppend, TakeKernel
<1>3. lk'[t] = "in" /\ \A s \in Threads \ {t} : lk'[s] = lk[s]
    BY <1>2 DEF LockInv, LockTypeOK
<1>4. OpOk(o, lk'[t])
    BY <1>1, <1>3 DEF OpOk, Early
<1>5. \A s \in Threads : \/ op'[s] = op[s] /\ lk'[s] = lk[s]
                         \/ OpOk(op'[s], lk'[s])
    BY <1>1, <1>3, <1>4 DEF Changes
<1>6. op' \in [Threads -> OpRecord]
    BY <1>1 DEF Changes
<1> QED BY <1>2, <1>5, <1>6, OpOthers DEF FileInv

LEMMA BeginKeeps ==
    ASSUME FileInv, NEW t \in Mutators, NEW what \in Kinds, NEW n \in Names, NEW m \in Names,
           Begin(t, what, n, m)
    PROVE  OpInv' /\ op' \in [Threads -> OpRecord] /\ Kept
<1>1. t \in Threads
    BY KindsAssumption
<1>2. PICK o \in OpRecord :
        /\ Changes(t, o)
        /\ o.pc = "init" /\ o.what = what /\ o.name = n /\ o.from = m
        /\ o.auth = fs[At(n)] /\ o.handle = {} /\ o.anchor = None
    BY <1>1, BeginFacts DEF FileInv
<1>3. UNCHANGED <<root, fs, lk>> /\ lk[t] = "out"
    BY DEF Begin, lockVars
<1>4. /\ what = "rename" <=> n # m
      /\ what = "remove_tree" => fs[At(n)].kind = "dir"
    BY DEF Begin
<1>5. OpOk(o, lk[t])
    BY <1>2, <1>3, <1>4, KindsAssumption DEF OpOk, Early
<1>6. OpInv' /\ op' \in [Threads -> OpRecord]
    BY <1>1, <1>2, <1>3, <1>5, OpOwn DEF FileInv, Changes
<1> QED BY <1>1, <1>2, <1>3, <1>6, Quiet DEF Holding

\* Steps after which the threads and their handles are as they were.
LEMMA SameOps ==
    ASSUME FileInv, UNCHANGED <<root, op>>, Spared(Threads), Unused(Threads)
    PROVE  HandleInv' /\ TempInv'
<1>1. ASSUME NEW s \in Threads PROVE HoldOk(op[s], root, fs')
  <2>1. HoldOk(op[s], root, fs)
      BY DEF FileInv, HandleInv
  <2>2. op[s].pc \in Holding => fs'[<<root, op[s].name>>] = fs[<<root, op[s].name>>]
      BY DEF Spared, At
  <2> QED BY <2>1, <2>2 DEF HoldOk, Holding
<1>2. HandleInv'
    BY <1>1 DEF FileInv, HandleInv
<1>3. TempInv'
    BY DEF FileInv, TempInv, TempOk, Unused
<1> QED BY <1>2, <1>3

LEMMA OtherKeeps ==
    ASSUME FileInv, NEW q \in Places, Other(q)
    PROVE  OpInv' /\ Kept
<1>1. UNCHANGED <<root, op, lk>> /\ Reachable(q) /\ ~Pinned(q)
    BY DEF Other, lockVars
<1>2. OpInv'
    BY <1>1 DEF FileInv, OpInv, OpOk
<1>3. fs[q] \in Entry
    BY DEF FileInv, Typed
<1>4. ASSUME NEW i \in Fresh(FileIds), fs[q] = Absent, fs' = [fs EXCEPT ![q] = File(i, "user")]
      PROVE  /\ TreeInv' /\ fs' \in [Places -> Entry] /\ Only(q)
             /\ Unused(Threads)
  <2> DEFINE e == File(i, "user")
  <2>1. i \in FileIds /\ i \notin Used
      BY FreshFacts
  <2>2. e \in Entry /\ e # Absent /\ e.id = i /\ e.kind = "file"
      BY <2>1, EntryFacts
  <2>3. /\ \A r \in Places : fs[r].id # e.id
        /\ \A s \in Threads : op[s].temp.id # e.id
      BY <2>1, <2>2 DEF Used
  <2>4. fs' = [fs EXCEPT ![q] = e]
      BY <1>4
  <2> HIDE DEF e
  <2>5. q[1] \in Subs => \E r \in Roots, n \in Names : fs[<<r, n>>].id = q[1]
      BY <1>1, DirsAssumption DEF Reachable, At, FileInv, Typed
  <2>6. TreeInv' /\ fs' \in [Places -> Entry] /\ Only(q) /\ fs'[q] = e
      BY <1>4, <2>2, <2>3, <2>4, <2>5, Puts DEF FileInv
  <2>7. Unused(Threads)
      BY <2>3, <2>6 DEF Unused, FileInv, TempInv, TempOk, Only
  <2> QED BY <2>6, <2>7
<1>5. ASSUME fs[q].kind = "file", fs' = [fs EXCEPT ![q].data = "edited"]
      PROVE  /\ TreeInv' /\ fs' \in [Places -> Entry] /\ Only(q)
             /\ Unused(Threads)
  <2> DEFINE e == [fs[q] EXCEPT !.data = "edited"]
  <2>1. e \in Entry /\ e.kind = "file" /\ e.id = fs[q].id
      BY <1>3, <1>5, EntryFacts
  <2>2. fs' = [fs EXCEPT ![q] = e]
      BY <1>5
  <2> HIDE DEF e
  <2>3. TreeInv' /\ fs' \in [Places -> Entry] /\ Only(q) /\ fs'[q] = e
      BY <1>5, <2>1, <2>2, Edits DEF FileInv
  <2>4. Unused(Threads)
      BY <2>1, <2>3, NoNewId DEF FileInv, Only
  <2> QED BY <2>3, <2>4
<1>6. ASSUME fs[q].kind = "file", fs' = [fs EXCEPT ![q] = Absent]
      PROVE  /\ TreeInv' /\ fs' \in [Places -> Entry] /\ Only(q)
             /\ Unused(Threads)
  <2>1. TreeInv' /\ fs' \in [Places -> Entry] /\ Only(q) /\ fs'[q] = Absent
      BY <1>6, Removes DEF FileInv
  <2>2. Unused(Threads)
      BY <2>1, EntryFacts, NoNewId DEF FileInv, Only
  <2> QED BY <2>1, <2>2
<1>7. TreeInv' /\ fs' \in [Places -> Entry] /\ Only(q) /\ Unused(Threads)
    BY <1>4, <1>5, <1>6 DEF Other
<1>8. Spared(Threads)
    BY <1>1, <1>7, Spares DEF FileInv
<1> QED BY <1>1, <1>2, <1>7, <1>8, SameOps DEF Kept

\* The root is exchanged only while no operation has anchored it.
LEMMA ExchangeKeeps ==
    ASSUME FileInv, ExchangeRoot
    PROVE  OpInv' /\ Kept
<1>1. UNCHANGED <<op, lk, fs>> /\ \A t \in Threads : op[t].anchor = None
    BY DEF ExchangeRoot, Anchored, lockVars
<1>2. \A t \in Threads : op[t].pc \in Early
    BY <1>1 DEF FileInv, OpInv, OpOk
<1>3. OpInv'
    BY <1>1, <1>2 DEF FileInv, OpInv, OpOk
<1>4. \A t \in Threads : op[t].pc \notin Holding /\ op[t].pc # "link"
    BY <1>2 DEF Early, Holding
<1>5. HandleInv' /\ TempInv'
    BY <1>1, <1>4 DEF FileInv, HandleInv, HoldOk, Holding, TempInv, TempOk
<1> QED BY <1>1, <1>3, <1>5, SameTree DEF Kept

LEMMA DiesKeeps ==
    ASSUME FileInv, NEW p \in Processes, Dies(p)
    PROVE  OpInv' /\ op' \in [Threads -> OpRecord] /\ Kept
<1>1. UNCHANGED <<root, fs>>
    BY DEF Dies
<1>2. \A t \in Threads : op'[t] = NoOp \/ (op'[t] = op[t] /\ lk'[t] = lk[t])
    BY DEF Dies, LocksDie
<1>3. op' \in [Threads -> OpRecord]
    BY NoOpTyped DEF Dies, FileInv, Typed
<1>4. OpInv'
    BY <1>1, <1>2, OpOthers, NoOpOk DEF FileInv
<1>5. \A f, r : HoldOk(NoOp, r, f) /\ TempOk(NoOp, f)
    BY NoOpTyped DEF HoldOk, TempOk, Holding
<1>6. \A t \in Threads : HoldOk(op'[t], root', fs') /\ TempOk(op'[t], fs')
    BY <1>1, <1>2, <1>5 DEF FileInv, HandleInv, TempInv
<1>7. \A t \in Threads : op'[t].pc \in Holding \cup {"link"} => op'[t] = op[t]
    BY <1>2, NoOpTyped DEF Holding
<1>8. HandleInv' /\ TempInv'
    BY <1>6, <1>7 DEF FileInv, HandleInv, TempInv
<1> QED BY <1>1, <1>3, <1>4, <1>8, SameTree DEF Kept

-----------------------------------------------------------------------------
(* The log: its end is where the thread that appends has sought, and what    *)
(* was appended stays.                                                       *)

LogTyped == log \in [Roots -> Seq(written)] /\ \A w \in written : w[1] \in Roots

LogInv ==
    /\ LogTyped
    /\ \A t \in Threads : op[t].pc = "append" => op[t].pos = Len(log[root])
    /\ AppendsKept

Inv == LockInv /\ FileInv /\ LogInv

LEMMA LogLength == ASSUME Typed, LogTyped PROVE log[root] \in Seq(written) /\ Len(log[root]) \in Nat
BY DEF Typed, LogTyped

\* Only Seek brings a thread to the end of the log.
LEMMA SameLog ==
    ASSUME LogInv, UNCHANGED <<log, written>>,
           \A t \in Threads : op'[t].pc = "append" =>
              op'[t].pos = Len(log[root']) \/ (op'[t] = op[t] /\ root' = root)
    PROVE  LogInv'
<1>1. LogTyped' /\ AppendsKept'
    BY DEF LogInv, LogTyped, AppendsKept
<1>2. \A t \in Threads : op'[t].pc = "append" => op'[t].pos = Len(log'[root'])
    BY DEF LogInv
<1> QED BY <1>1, <1>2 DEF LogInv

\* append_bytes: what was in the log stays, and the record is its last.
LEMMA AppendKeeps ==
    ASSUME LockInv, FileInv, LogInv, NEW t \in Threads, AppendBytes(t)
    PROVE  LogInv'
<1> DEFINE rec == <<root, t, Appended(t)>>
           new == written \cup {rec}
           old == log[root]
           sub == SubSeq(old, 1, op[t].pos)
<1>1. /\ op[t].pc = "append" /\ UNCHANGED root
      /\ log' = [log EXCEPT ![root] = Append(sub, rec)] /\ written' = new
    BY DEF AppendBytes
<1>2. root \in Roots /\ op[t].pos = Len(old) /\ Len(old) \in Nat /\ old \in Seq(written)
    BY <1>1, LogLength DEF FileInv, Typed, LogInv
<1>3. rec \in new /\ rec[1] = root
    OBVIOUS
<1> HIDE DEF rec
<1>4. \A s \in Seq(written) : s \in Seq(new)
    BY SeqMonotonic
<1>5. \A i \in 1 .. Len(old) : old[i] \in new
    BY <1>2, ElementOfSeq
<1> HIDE DEF new, old
<1>6. /\ sub \in Seq(new) /\ Len(sub) = Len(old)
      /\ \A i \in 1 .. Len(old) : sub[i] = old[i]
    BY <1>2, <1>5, SubSeqProperties
<1> HIDE DEF sub
<1>7. /\ Append(sub, rec) \in Seq(new) /\ Len(Append(sub, rec)) = Len(old) + 1
      /\ \A i \in 1 .. Len(old) : Append(sub, rec)[i] = old[i]
      /\ Append(sub, rec)[Len(old) + 1] = rec
    BY <1>3, <1>6, AppendProperties
<1>8. DOMAIN old = 1 .. Len(old) /\ DOMAIN Append(sub, rec) = 1 .. Len(old) + 1
    BY <1>2, <1>7, LenProperties
<1>9. /\ log' \in [Roots -> Seq(new)] /\ log'[root] = Append(sub, rec)
      /\ \A r \in Roots \ {root} : log'[r] = log[r]
    BY <1>1, <1>2, <1>4, <1>7 DEF LogInv, LogTyped
<1>10. LogTyped'
    BY <1>1, <1>2, <1>3, <1>9 DEF LogInv, LogTyped, new
<1>11. ASSUME NEW w \in new PROVE \E i \in DOMAIN log'[w[1]] : log'[w[1]][i] = w
  <2>1. CASE w = rec
    <3>1. Len(old) + 1 \in 1 .. Len(old) + 1
        BY <1>2
    <3> QED BY <1>3, <1>7, <1>8, <1>9, <2>1, <3>1
  <2>2. CASE w # rec
    <3>1. w \in written /\ w[1] \in Roots
        BY <2>2 DEF LogInv, LogTyped, new
    <3>2. PICK i \in DOMAIN log[w[1]] : log[w[1]][i] = w
        BY <3>1 DEF LogInv, AppendsKept
    <3>3. CASE w[1] # root
        BY <1>9, <3>1, <3>2, <3>3
    <3>4. CASE w[1] = root
      <4>1. i \in 1 .. Len(old) /\ old[i] = w
          BY <1>8, <3>2, <3>4 DEF old
      <4>2. i \in 1 .. Len(old) + 1
          BY <1>2, <4>1
      <4> QED BY <1>7, <1>8, <1>9, <3>4, <4>1, <4>2
    <3> QED BY <3>3, <3>4
  <2> QED BY <2>1, <2>2
<1>12. AppendsKept'
    BY <1>1, <1>11 DEF AppendsKept
<1>13. PICK o \in OpRecord : Changes(t, o) /\ o.pc = "verify"
    BY GotoFacts DEF AppendBytes, FileInv, OpPcs
<1>14. ASSUME NEW s \in Threads, op'[s].pc = "append" PROVE FALSE
  <2>1. s # t /\ op[s].pc = "append"
      BY <1>13, <1>14 DEF Changes
  <2>2. OpOk(op[s], lk[s]) /\ OpOk(op[t], lk[t])
      BY DEF FileInv, OpInv
  <2>3. lk[s] = "in" /\ lk[t] = "in"
      BY <1>1, <2>1, <2>2 DEF OpOk
  <2> QED BY <2>1, <2>3, Excludes DEF MutualExclusion
<1> QED BY <1>10, <1>12, <1>14 DEF LogInv

LEMMA OnlySeek ==
    ASSUME FileInv, NEW t \in Threads, Step(t) \/ Fails(t), ~Seek(t)
    PROVE  \A s \in Threads : op'[s].pc = "append" => op'[s] = op[s]
<1>0. ASSUME Ends(t) PROVE \A s \in Threads : op'[s].pc = "append" => op'[s] = op[s]
    BY <1>0, EndsFacts, NoOpTyped DEF Changes, FileInv
<1>1. ASSUME NEW pc \in OpPcs \ {"append"}, Goto(t, pc)
      PROVE  \A s \in Threads : op'[s].pc = "append" => op'[s] = op[s]
    BY <1>1, GotoFacts DEF Changes, FileInv
<1>2. CASE AnchorInit(t)
    BY <1>2, InitFacts DEF Changes, FileInv
<1>3. CASE AnchorEnter(t)
    BY <1>0, <1>3, HeldFacts DEF AnchorEnter, Changes, FileInv
<1>4. CASE Prove(t)
  <2>1. AfterProof(op[t]) # "refused" => AfterProof(op[t]) \in OpPcs \ {"append"}
      BY AfterProofFacts DEF OpPcs
  <2> QED BY <1>0, <1>1, <1>4, <2>1 DEF Prove
<1>5. CASE Verify(t) \/ Fails(t)
    BY <1>0, <1>5 DEF Verify, Fails
<1>6. CASE Open(t)
  <2>1. CASE OpenProven(t)
    <3>1. OpOk(op[t], lk[t])
        BY DEF FileInv, OpInv
    <3>2. At(op[t].name) \in Places
        BY <1>6, <3>1, KindsAssumption, PlaceFacts DEF OpOk, Open, FileInv, Typed, At
    <3> QED BY <1>6, <2>1, <3>2, OpenFacts DEF Changes, FileInv
  <2> QED BY <1>0, <1>6, <2>1 DEF Open
<1>7. CASE Write(t) \/ Link(t) \/ Move(t) \/ DeleteChild(t) \/ MakeDirectory(t) \/ AppendBytes(t)
    BY <1>0, <1>1, <1>7 DEF Write, Link, Move, DeleteChild, MakeDirectory, AppendBytes, OpPcs
<1>8. CASE Truncate(t) \/ Delete(t) \/ RemoveDirectory(t)
    BY <1>0, <1>8, DoneFacts DEF Truncate, Delete, RemoveDirectory, Changes, FileInv
<1>9. CASE NewTemp(t)
    BY <1>9, NewTempFacts DEF Changes, FileInv
<1>10. CASE UnlinkTemp(t)
    BY <1>10, UnlinkFacts DEF Changes, FileInv
<1>11. CASE OpenTree(t)
  <2>1. CASE fs[At(op[t].name)] = op[t].auth /\ ~Pinned(At(op[t].name))
    <3>1. OpOk(op[t], lk[t])
        BY DEF FileInv, OpInv
    <3>2. At(op[t].name) \in Places /\ op[t].auth.kind = "dir"
        BY <1>11, <3>1, PlaceFacts DEF OpOk, OpenTree, FileInv, Typed, At
    <3> QED BY <1>11, <2>1, <3>2, OpenTreeFacts DEF Changes, FileInv
  <2> QED BY <1>0, <1>11, <2>1 DEF OpenTree
<1>12. CASE CaptureChild(t)
    BY <1>12, CaptureFacts DEF Changes, FileInv
<1>13. CASE BeginAppend(t)
    BY <1>13, BeginAppendFacts DEF Changes, FileInv
<1>14. CASE Locks(t)
    BY <1>14 DEF Locks
<1> QED BY <1>2, <1>3, <1>4, <1>5, <1>6, <1>7, <1>8, <1>9, <1>10, <1>11, <1>12, <1>13, <1>14 DEF Step

LEMMA SeekKeeps ==
    ASSUME FileInv, LogInv, NEW t \in Threads, Seek(t)
    PROVE  LogInv'
<1>1. UNCHANGED <<root, log, written>>
    BY DEF Seek
<1>2. PICK o \in OpRecord : Changes(t, o) /\ o.pos = Len(log[root])
    BY LogLength, SeekFacts DEF FileInv, LogInv
<1> QED BY <1>1, <1>2, SameLog DEF Changes

LEMMA LogStep ==
    ASSUME LockInv, FileInv, LogInv, NEW t \in Threads, Step(t) \/ Fails(t)
    PROVE  LogInv'
<1>1. CASE Seek(t)
    BY <1>1, SeekKeeps
<1>2. CASE AppendBytes(t)
    BY <1>2, AppendKeeps
<1>3. CASE ~Seek(t) /\ ~AppendBytes(t)
  <2>1. UNCHANGED <<root, log, written>>
      BY <1>3 DEF Step, Fails, AnchorInit, AnchorEnter, Prove, Verify, Open, Write, Truncate, Delete,
         NewTemp, Link, UnlinkTemp, Move, OpenTree, CaptureChild, DeleteChild, RemoveDirectory,
         MakeDirectory, Locks, BeginAppend
  <2> QED BY <1>3, <2>1, OnlySeek, SameLog
<1> QED BY <1>1, <1>2, <1>3

LEMMA OpKeeps ==
    ASSUME LockInv, FileInv, LogInv, NEW t \in Threads, Step(t) \/ Fails(t)
    PROVE  OpInv' /\ op' \in [Threads -> OpRecord]
<1>1. CASE Locks(t)
    BY <1>1, LocksKeep DEF Locks, FileInv, Typed
<1>2. CASE BeginAppend(t)
    BY <1>2, BeginAppendKeeps
<1>3. CASE ~Locks(t) /\ ~BeginAppend(t)
    BY <1>3, OpStep, LogLength DEF FileInv, LogInv
<1> QED BY <1>1, <1>2, <1>3

-----------------------------------------------------------------------------
(* The invariant is inductive                                                *)

LEMMA Initially == Init => Inv
<1> SUFFICES ASSUME Init PROVE Inv
    OBVIOUS
<1>1. LockInv
    BY LockInitial DEF Init
<1>2. /\ root \in Roots /\ fs \in Starts /\ op = [t \in Threads |-> NoOp]
      /\ log = [r \in Roots |-> <<>>] /\ written = {}
    BY DEF Init
<1>3. Typed /\ \A t \in Threads : op[t] = NoOp
    BY <1>2, StartsAssumption, NoOpTyped DEF Typed
<1>4. OpInv
    BY <1>3, NoOpOk DEF OpInv
<1>5. HandleInv /\ TempInv
    BY <1>3, NoOpTyped DEF HandleInv, HoldOk, Holding, TempInv, TempOk
<1>6. Unique /\ NothingOrphaned
    BY <1>2, StartsAssumption DEF Unique, NothingOrphaned
<1>7. Shallow
    BY <1>2, StartsAssumption, EntryFacts DEF Shallow
<1>8. LogInv
    BY <1>2, <1>3, NoOpTyped, EmptySeq DEF LogInv, LogTyped, AppendsKept
<1> QED BY <1>1, <1>3, <1>4, <1>5, <1>6, <1>7, <1>8 DEF Inv, FileInv, TreeInv

LEMMA Inductive == Inv /\ [Next]_vars => Inv'
<1> SUFFICES ASSUME LockInv, FileInv, LogInv, [Next]_vars PROVE Inv'
    BY DEF Inv
<1>1. LockInv'
    BY OnlyLockSteps, LockInductive DEF vars
<1>2. root' \in Roots
  <2>1. root \in Roots
      BY DEF FileInv, Typed
  <2>2. ASSUME NEW t \in Threads, Step(t) \/ Fails(t) PROVE UNCHANGED root
      BY <2>2 DEF Step, Fails, AnchorInit, AnchorEnter, Prove, Verify, Open, Write, Truncate, Delete,
         NewTemp, Link, UnlinkTemp, Move, OpenTree, CaptureChild, DeleteChild, RemoveDirectory,
         MakeDirectory, Seek, AppendBytes, Locks, BeginAppend
  <2>3. ASSUME NEW q \in Places, Other(q) PROVE UNCHANGED root
      BY <2>3 DEF Other
  <2>4. ASSUME NEW p \in Processes, Dies(p) PROVE UNCHANGED root
      BY <2>4 DEF Dies
  <2>5. CASE \E t \in Mutators, what \in Kinds, n, m \in Names : Begin(t, what, n, m)
      BY <2>1, <2>5 DEF Begin
  <2>6. CASE ExchangeRoot \/ UNCHANGED vars
      BY <2>1, <2>6 DEF ExchangeRoot, vars, mutVars
  <2> QED BY <2>1, <2>2, <2>3, <2>4, <2>5, <2>6 DEF Next
<1>3. ASSUME NEW t \in Mutators, NEW what \in Kinds, NEW n \in Names, NEW m \in Names,
             Begin(t, what, n, m)
      PROVE  FileInv' /\ LogInv'
  <2>1. t \in Threads
      BY KindsAssumption
  <2>2. OpInv' /\ op' \in [Threads -> OpRecord] /\ Kept
      BY <1>3, BeginKeeps
  <2>3. PICK o \in OpRecord : Changes(t, o) /\ o.pc = "init"
      BY <1>3, <2>1, BeginFacts DEF FileInv
  <2>4. UNCHANGED <<root, log, written>>
      BY <1>3 DEF Begin
  <2>5. LogInv'
      BY <2>3, <2>4, SameLog DEF Changes
  <2> QED BY <1>2, <2>2, <2>5 DEF FileInv, Typed, Kept
<1>4. ASSUME NEW t \in Threads, Step(t) \/ Fails(t)
      PROVE  FileInv' /\ LogInv'
  <2>1. OpInv' /\ op' \in [Threads -> OpRecord]
      BY <1>4, OpKeeps
  <2>2. Kept
      BY <1>4, StepKeeps, LogLength DEF FileInv, LogInv
  <2> QED BY <1>2, <1>4, <2>1, <2>2, LogStep DEF FileInv, Typed, Kept
<1>5. ASSUME NEW q \in Places, Other(q)
      PROVE  FileInv' /\ LogInv'
  <2>1. UNCHANGED <<root, op, log, written>>
      BY <1>5 DEF Other
  <2>2. LogInv'
      BY <2>1, SameLog
  <2> QED BY <1>5, <2>1, <2>2, OtherKeeps DEF FileInv, Typed, Kept
<1>6. ASSUME ExchangeRoot
      PROVE  FileInv' /\ LogInv'
  <2>1. UNCHANGED <<op, log, written>> /\ \A t \in Threads : op[t].anchor = None
      BY <1>6 DEF ExchangeRoot, Anchored
  <2>2. \A t \in Threads : op[t].pc # "append"
      BY <2>1 DEF FileInv, OpInv, OpOk, Early
  <2>3. LogInv'
      BY <2>1, <2>2, SameLog
  <2> QED BY <1>2, <1>6, <2>1, <2>3, ExchangeKeeps DEF FileInv, Typed, Kept
<1>7. ASSUME NEW p \in Processes, Dies(p)
      PROVE  FileInv' /\ LogInv'
  <2>1. UNCHANGED <<root, log, written>>
      BY <1>7 DEF Dies
  <2>2. \A t \in Threads : op'[t] = NoOp \/ op'[t] = op[t]
      BY <1>7 DEF Dies
  <2>3. LogInv'
      BY <2>1, <2>2, NoOpTyped, SameLog
  <2> QED BY <1>2, <1>7, <2>3, DiesKeeps DEF FileInv, Typed, Kept
<1>8. ASSUME UNCHANGED vars PROVE FileInv' /\ LogInv'
  <2>1. UNCHANGED <<root, fs, op, lk, log, written>>
      BY <1>8 DEF vars, mutVars, lockVars
  <2>2. OpInv'
      BY <2>1 DEF FileInv, OpInv, OpOk
  <2>3. HandleInv' /\ TempInv' /\ TreeInv'
      BY <2>1, SameTree DEF FileInv, HandleInv, TempInv
  <2>4. LogInv'
      BY <2>1, SameLog
  <2> QED BY <2>1, <2>2, <2>3, <2>4 DEF FileInv, Typed
<1>9. FileInv' /\ LogInv'
  <2>1. CASE Next
    <3>1. CASE \E t \in Mutators, what \in Kinds, n, m \in Names : Begin(t, what, n, m)
        BY <1>3, <3>1
    <3>2. CASE \E t \in Threads : Step(t) \/ Fails(t)
        BY <1>4, <3>2
    <3> QED BY <1>5, <1>6, <1>7, <2>1, <3>1, <3>2 DEF Next
  <2> QED BY <1>8, <2>1
<1> QED BY <1>1, <1>9 DEF Inv

LEMMA Invariant == Spec => []Inv
<1> QED BY Initially, Inductive, PTL DEF Spec

(* Whatever threads, other programs and deaths do, the trees are trees: an   *)
(* identity is at one place, and an operation past its anchor is in the root.*)
THEOREM MutationTypeCorrect == Spec => []TypeOK
<1>1. Inv => TypeOK
  <2> SUFFICES ASSUME Inv PROVE TypeOK
      OBVIOUS
  <2>1. \A t \in Threads : /\ op[t].auth \in Entry /\ op[t].handle \subseteq Places
                           /\ op[t].anchor \in {None, root}
      BY DEF Inv, FileInv, Typed, OpRecord, OpInv, OpOk
  <2> QED BY <2>1 DEF Inv, FileInv, Typed, TreeInv, Unique, LockInv, LockTypeOK, TypeOK
<1> QED BY <1>1, Invariant, PTL

(* remove_tree leaves no file behind in a directory that it removes.         *)
THEOREM NothingIsOrphaned == Spec => []NothingOrphaned
<1>1. Inv => NothingOrphaned
    BY DEF Inv, FileInv, TreeInv
<1> QED BY <1>1, Invariant, PTL

(* append_bytes overwrites no record of another append.                      *)
THEOREM AppendsAreKept == Spec => []AppendsKept
<1>1. Inv => AppendsKept
    BY DEF Inv, LogInv
<1> QED BY <1>1, Invariant, PTL

-----------------------------------------------------------------------------
(* What is changed was authorized                                            *)

LEMMA OneMoves ==
    ASSUME FileInv, NEW t \in Threads, Step(t), fs' # fs
    PROVE  \A s \in Threads \ {t} : op'[s] = op[s]
<1>1. \/ Write(t) \/ Truncate(t) \/ Delete(t) \/ Link(t) \/ Move(t) \/ DeleteChild(t)
      \/ RemoveDirectory(t) \/ MakeDirectory(t)
    BY DEF Step, AnchorInit, AnchorEnter, Prove, Verify, Open, NewTemp, UnlinkTemp, OpenTree,
       CaptureChild, Seek, AppendBytes, Locks, BeginAppend
<1> QED BY <1>1 DEF Write, Truncate, Delete, Link, Move, DeleteChild, RemoveDirectory, MakeDirectory,
       Goto, Ends, FileInv, Typed

LEMMA StepAuthorized ==
    ASSUME FileInv, NEW t \in Threads, Step(t), NEW q \in Places, fs'[q] # fs[q]
    PROVE  /\ Inside(t, q)
           /\ op[t].what \in {"replace", "delete", "remove_tree"} /\ fs[q] # Absent
                 => Authorized(t, q)
<1>1. OpOk(op[t], lk[t]) /\ HoldOk(op[t], root, fs)
    BY DEF FileInv, OpInv, HandleInv
<1>2. ASSUME op[t].pc \notin Early, q[1] = root PROVE Inside(t, q)
    BY <1>1, <1>2 DEF Inside, OpOk
<1>3. fs \in [Places -> Entry]
    BY DEF FileInv, Typed
<1>4. CASE Write(t) \/ Truncate(t) \/ Delete(t) \/ RemoveDirectory(t)
  <2>1. op[t].pc \in {"write", "truncate", "delete", "tree"}
      BY <1>4 DEF Write, Truncate, Delete, RemoveDirectory
  <2>2. q = At(op[t].name)
      BY <1>3, <1>4 DEF Write, Truncate, Delete, RemoveDirectory
  <2>3. Authorized(t, q)
      BY <1>1, <2>1, <2>2 DEF HoldOk, Authorized, At
  <2> QED BY <1>2, <2>1, <2>2, <2>3 DEF Early, At
<1>5. CASE Link(t) \/ MakeDirectory(t)
  <2>1. op[t].pc \in {"link", "mkdir"} /\ q = At(op[t].name) /\ fs[q] = Absent
      BY <1>3, <1>5 DEF Link, MakeDirectory
  <2> QED BY <1>2, <2>1 DEF Early, At
<1>6. CASE Move(t)
  <2>1. op[t].pc = "move" /\ q \in {At(op[t].name), At(op[t].from)}
      BY <1>3, <1>6 DEF Move
  <2>2. op[t].what = "rename"
      BY <1>1, <2>1 DEF OpOk
  <2> QED BY <1>2, <2>1, <2>2 DEF Early, At
<1>7. CASE DeleteChild(t)
  <2>1. op[t].pc = "child" /\ q = op[t].kid /\ ChildProven(t)
      BY <1>3, <1>7 DEF DeleteChild
  <2>2. q[1] = op[t].auth.id /\ fs[<<root, op[t].name>>] = op[t].auth
      BY <1>1, <2>1 DEF HoldOk, Kids
  <2>3. Inside(t, q)
      BY <1>1, <2>1, <2>2 DEF Inside, OpOk, Early
  <2> QED BY <2>1, <2>3 DEF Authorized, ChildProven
<1> QED BY <1>4, <1>5, <1>6, <1>7 DEF Step, AnchorInit, AnchorEnter, Prove, Verify, Open, NewTemp,
       UnlinkTemp, OpenTree, CaptureChild, Seek, AppendBytes, Locks, BeginAppend

(* _IdentityBoundTargetHandle and _DirectoryAnchor: whatever other programs  *)
(* do, an operation overwrites and removes only what was authorized, inside  *)
(* the directory it anchored.                                                *)
THEOREM ChangesAreAuthorized == Spec => AuthorizedOnly
<1> DEFINE A(t, q) == op'[t] # op[t] /\ fs'[q] # fs[q] =>
                        /\ Inside(t, q)
                        /\ op[t].what \in {"replace", "delete", "remove_tree"} /\ fs[q] # Absent
                              => Authorized(t, q)
<1>1. ASSUME Inv, Next, NEW t \in Threads, NEW q \in Places PROVE A(t, q)
  <2> SUFFICES ASSUME op'[t] # op[t], fs'[q] # fs[q]
               PROVE  /\ Inside(t, q)
                      /\ op[t].what \in {"replace", "delete", "remove_tree"} /\ fs[q] # Absent
                            => Authorized(t, q)
      OBVIOUS
  <2>1. PICK u \in Threads : Step(u)
      BY <1>1 DEF Next, Begin, Fails, Other, ExchangeRoot, Dies
  <2>2. u = t
      BY <1>1, <2>1, OneMoves DEF Inv
  <2> QED BY <1>1, <2>1, <2>2, StepAuthorized DEF Inv
<1>2. Inv /\ [Next]_vars => [\A t \in Threads, q \in Places : A(t, q)]_vars
    BY <1>1
<1> QED BY <1>2, Invariant, PTL DEF Spec, AuthorizedOnly
=============================================================================

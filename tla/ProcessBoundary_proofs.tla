----------------------- MODULE ProcessBoundary_proofs -----------------------
(***************************************************************************)
(* What a provider's boundary kills and proves, for every set of PIDs and  *)
(* every number of processes: a cleanup ends no process of somebody else   *)
(* (KillsOnlyOurs), and a proof of absence leaves out only what the last   *)
(* snapshot could not attribute (ProvenMeansGone).  Both rest on identities*)
(* that do not come back: a PID may be given away, but never with the      *)
(* creation time of a process that is gone.                                *)
(***************************************************************************)
EXTENDS ProcessBoundary, SequenceTheorems, TLAPS

Record == [pid : Pids, ours : BOOLEAN, inside : BOOLEAN]
Known == 1 .. Len(born)

ProcsTyped ==
    /\ kind \in {"windows-job", "posix-process-group"}
    /\ procs \in [Pids -> Process \cup {None}]
    /\ born \in Seq(Record) /\ Len(born) \in Ids

\* A process was born; it is outside the session of its birth only if it is
\* the provider's and left it; and on POSIX its parent runs, and is one that
\* may be killed only if it is so itself.
TreeOk ==
    /\ \A p \in Pids : procs[p] # None =>
          /\ Identity(p) \in Known
          /\ procs[p].inside => born[Identity(p)].inside
          /\ born[Identity(p)].inside /\ ~Ours(Identity(p)) => procs[p].inside
    /\ Posix => \A p \in Pids : procs[p].parent # 0 =>
          /\ procs[procs[p].parent] # None
          /\ Belongs(Identity(procs[p].parent)) => Belongs(Identity(p))

\* An identity that is gone does not come back, and what was born stays known.
NoReturn == \A p \in Pids : \A i \in Known : procs'[p].id = i => procs[p].id = i
Grown == Len(born') >= Len(born) /\ \A i \in Known : born'[i] = born[i]

LEMMA ProcessFacts ==
    /\ None.id = 0 /\ None.parent = 0 /\ ~None.inside /\ None \notin Process
    /\ \A e \in Process : /\ e.id \in Ids /\ e.id # 0 /\ e.parent \in Pids \cup {0}
                          /\ e.inside \in BOOLEAN
    /\ 0 \notin Pids
BY BoundaryAssumption DEF None, Process, Ids

\* A PID is free exactly when there is no identity under it.
LEMMA IdentityFacts ==
    ASSUME ProcsTyped, NEW p \in Pids
    PROVE  /\ procs[p] = None <=> Identity(p) = 0
           /\ procs[p].parent \in Pids \cup {0} /\ procs[p].inside \in BOOLEAN
           /\ procs[p] = None => procs[p].parent = 0 /\ ~procs[p].inside
           /\ Identity(p) \in Ids \cup {0}
<1>1. procs[p] \in Process \cup {None}
    BY DEF ProcsTyped
<1>2. CASE procs[p] = None
    BY <1>2, ProcessFacts DEF Identity, None
<1>3. CASE procs[p] \in Process
    BY <1>3, ProcessFacts DEF Identity
<1> QED BY <1>1, <1>2, <1>3

-----------------------------------------------------------------------------
(* The operating system                                                      *)

LEMMA Entering ==
    ASSUME ProcsTyped, TreeOk, NEW q \in Pids, NEW ours \in BOOLEAN, NEW parent \in Pids \cup {0},
           NEW inside \in BOOLEAN, Enter(q, ours, parent, inside), UNCHANGED kind,
           parent # 0 => /\ procs[parent] # None
                         /\ ours = Ours(Identity(parent)) /\ inside = procs[parent].inside
    PROVE  /\ ProcsTyped' /\ TreeOk' /\ NoReturn /\ Grown
           /\ \A p \in Pids \ {q} : procs'[p] = procs[p]
           /\ procs[q] = None /\ procs'[q] # None
           /\ born'[procs'[q].id].ours = ours
<1> DEFINE n == Len(born) + 1
           e == [id |-> n, parent |-> parent, inside |-> inside]
           b == [pid |-> q, ours |-> ours, inside |-> inside]
<1>1. /\ Len(born) \in Nat /\ Len(born) < MaxBirths /\ n \in Ids /\ procs[q] = None
      /\ procs' = [procs EXCEPT ![q] = e] /\ born' = Append(born, b)
    BY BoundaryAssumption DEF Enter, Free, ProcsTyped, Ids
<1>2. e \in Process /\ e.id = n /\ e.parent = parent /\ e.inside = inside
    BY <1>1 DEF Process
<1>3. b \in Record /\ b.ours = ours /\ b.inside = inside
    BY DEF Record
<1> HIDE DEF e, b
<1>4. /\ born' \in Seq(Record) /\ Len(born') = n
      /\ \A i \in Known : born'[i] = born[i]
      /\ born'[n] = b
  <2>1. born \in Seq(Record)
      BY DEF ProcsTyped
  <2> DEFINE a == Append(born, b)
  <2>2. /\ a \in Seq(Record) /\ Len(a) = Len(born) + 1
        /\ \A i \in 1 .. Len(born) : a[i] = born[i]
        /\ a[Len(born) + 1] = b
      BY <1>3, <2>1, AppendProperties
  <2>3. born' = a
      BY <1>1
  <2> HIDE DEF a
  <2> QED BY <2>2, <2>3 DEF Known
<1>5. /\ procs' \in [Pids -> Process \cup {None}]
      /\ procs'[q] = e /\ \A p \in Pids \ {q} : procs'[p] = procs[p]
    BY <1>1, <1>2 DEF ProcsTyped
<1>6. ProcsTyped' /\ Grown
  <2>1. n \in Ids /\ n >= Len(born)
      BY <1>1
  <2>2. kind' \in {"windows-job", "posix-process-group"}
      BY DEF ProcsTyped
  <2> HIDE DEF n
  <2> QED BY <1>4, <1>5, <2>1, <2>2 DEF ProcsTyped, Grown
<1>7. n \notin Known /\ n \in 1 .. n /\ \A i \in Known : i \in 1 .. n
    BY <1>1 DEF Known
<1>8. NoReturn
    BY <1>2, <1>5, <1>7 DEF NoReturn
<1>9. ASSUME NEW p \in Pids, procs'[p] # None
      PROVE  /\ procs'[p].id \in 1 .. n
             /\ procs'[p].inside => born'[procs'[p].id].inside
             /\ born'[procs'[p].id].inside /\ ~born'[procs'[p].id].ours => procs'[p].inside
  <2>1. CASE p = q
      BY <1>2, <1>3, <1>4, <1>5, <1>7, <2>1
  <2>2. CASE p # q
      BY <1>4, <1>5, <1>7, <1>9, <2>2 DEF TreeOk, Identity, Ours
  <2> QED BY <2>1, <2>2
<1>10. ASSUME Posix, NEW p \in Pids, procs'[p].parent # 0
       PROVE  /\ procs'[procs'[p].parent] # None
              /\ born'[procs'[procs'[p].parent].id].ours \/ born'[procs'[procs'[p].parent].id].inside
                    => born'[procs'[p].id].ours \/ born'[procs'[p].id].inside
  <2>1. CASE p = q
    <3>1. procs'[p] = e /\ procs'[p].parent = parent /\ parent \in Pids /\ parent # q
        BY <1>1, <1>2, <1>5, <1>10, <2>1
    <3>2. procs'[parent] = procs[parent] /\ Identity(parent) \in Known
        BY <1>2, <1>5, <1>10, <3>1 DEF TreeOk
    <3>3. /\ born'[procs'[p].id] = b
          /\ born'[procs'[parent].id] = born[Identity(parent)]
        BY <1>2, <1>4, <3>1, <3>2 DEF Identity
    <3>4. born[Identity(parent)].inside /\ ~born[Identity(parent)].ours => procs[parent].inside
        BY <3>1, <3>2, <1>10, <1>2 DEF TreeOk, Ours
    <3> QED BY <1>2, <1>3, <1>10, <3>1, <3>2, <3>3, <3>4 DEF Ours
  <2>2. CASE p # q
    <3> DEFINE r == procs[p].parent
    <3>1. procs'[p] = procs[p] /\ r # 0 /\ r \in Pids
        BY <1>5, <1>10, <2>2, IdentityFacts
    <3>2. procs[r] # None /\ (Belongs(Identity(r)) => Belongs(Identity(p)))
        BY <1>10, <3>1 DEF TreeOk
    <3>3. r # q /\ procs'[r] = procs[r] /\ procs[p] # None
        BY <1>1, <1>5, <3>1, <3>2, IdentityFacts
    <3>4. Identity(r) \in Known /\ Identity(p) \in Known
        BY <3>1, <3>2, <3>3 DEF TreeOk
    <3> QED BY <1>4, <3>1, <3>2, <3>3, <3>4 DEF Belongs, Identity
  <2> QED BY <2>1, <2>2
<1>11. TreeOk'
    BY <1>4, <1>9, <1>10 DEF TreeOk, Known, Identity, Ours, Belongs, Posix
<1>12. procs'[q] # None /\ born'[procs'[q].id].ours = ours
    BY <1>2, <1>3, <1>4, <1>5, ProcessFacts
<1> QED BY <1>1, <1>5, <1>6, <1>8, <1>11, <1>12

\* What ends leaves the others as they are.
LEMMA Ending ==
    ASSUME ProcsTyped, TreeOk, NEW gone \in SUBSET Pids, procs' = Without(gone),
           UNCHANGED <<kind, born>>
    PROVE  /\ ProcsTyped' /\ TreeOk' /\ NoReturn /\ Grown
           /\ \A p \in gone : procs'[p] = None
           /\ \A p \in Pids \ gone : procs'[p].id = procs[p].id
<1>1. ASSUME NEW p \in Pids
      PROVE  /\ procs'[p] \in Process \cup {None}
             /\ p \in gone => procs'[p] = None
             /\ p \notin gone => /\ procs'[p].id = procs[p].id /\ procs'[p].inside = procs[p].inside
                                 /\ procs'[p] = None <=> procs[p] = None
             /\ Posix => procs'[p].parent \in {0, procs[p].parent} /\ procs'[p].parent \notin gone
  <2>0. procs'[p] = IF p \in gone THEN None
                    ELSE IF Posix /\ procs[p].parent \in gone
                         THEN [procs[p] EXCEPT !.parent = 0] ELSE procs[p]
      BY DEF Without
  <2>1. CASE p \in gone
      BY <2>0, <2>1, ProcessFacts
  <2>2. CASE p \notin gone /\ Posix /\ procs[p].parent \in gone
    <3>1. procs[p] \in Process
        BY <2>2, ProcessFacts DEF ProcsTyped
    <3>2. /\ procs'[p] \in Process /\ procs'[p].id = procs[p].id
          /\ procs'[p].inside = procs[p].inside /\ procs'[p].parent = 0
        BY <2>0, <2>2, <3>1 DEF Process
    <3> QED BY <2>2, <3>1, <3>2, ProcessFacts
  <2>3. CASE p \notin gone /\ ~(Posix /\ procs[p].parent \in gone)
      BY <2>0, <2>3 DEF ProcsTyped
  <2> QED BY <2>1, <2>2, <2>3
<1>2. procs' \in [Pids -> Process \cup {None}]
    BY <1>1 DEF Without
<1>3. ProcsTyped' /\ Grown
    BY <1>2, BoundaryAssumption DEF ProcsTyped, Grown, Ids
<1>4. NoReturn
  <2> SUFFICES ASSUME NEW p \in Pids, NEW i \in Known, procs'[p].id = i PROVE procs[p].id = i
      BY DEF NoReturn
  <2>1. i # 0
      BY DEF Known
  <2> QED BY <1>1, <2>1, ProcessFacts
<1>5. ASSUME NEW p \in Pids, procs'[p] # None
      PROVE  /\ procs'[p].id \in Known
             /\ procs'[p].inside => born[procs'[p].id].inside
             /\ born[procs'[p].id].inside /\ ~born[procs'[p].id].ours => procs'[p].inside
    BY <1>1, <1>5 DEF TreeOk, Identity, Ours
<1>6. ASSUME Posix, NEW p \in Pids, procs'[p].parent # 0
      PROVE  /\ procs'[procs'[p].parent] # None
             /\ Belongs(procs'[procs'[p].parent].id) => Belongs(procs'[p].id)
  <2> DEFINE r == procs[p].parent
  <2>1. procs'[p].parent = r /\ r \notin gone /\ r # 0
      BY <1>1, <1>6
  <2>2. r \in Pids /\ procs[r] # None /\ (Belongs(Identity(r)) => Belongs(Identity(p)))
      BY <1>6, <2>1, IdentityFacts DEF TreeOk
  <2>3. p \notin gone
      BY <1>1, <1>6, ProcessFacts
  <2> QED BY <1>1, <2>1, <2>2, <2>3 DEF Identity
<1>7. TreeOk'
    BY <1>5, <1>6 DEF TreeOk, Known, Identity, Ours, Belongs, Posix
<1> QED BY <1>1, <1>3, <1>4, <1>7

LEMMA Escaping ==
    ASSUME ProcsTyped, TreeOk, NEW p \in Pids, Escape(p)
    PROVE  /\ ProcsTyped' /\ TreeOk' /\ NoReturn /\ Grown
           /\ \A q \in Pids : procs'[q].id = procs[q].id
<1>1. /\ Posix /\ p \in OurPids /\ UNCHANGED <<kind, born>>
      /\ procs' = [procs EXCEPT ![p] = [procs[p] EXCEPT !.inside = FALSE]]
    BY DEF Escape
<1>2. procs[p] \in Process /\ Ours(Identity(p))
    BY <1>1, ProcessFacts DEF OurPids, ProcsTyped, Identity
<1>3. ASSUME NEW q \in Pids
      PROVE  /\ procs'[q] \in Process \cup {None} /\ procs'[q].id = procs[q].id
             /\ procs'[q].parent = procs[q].parent
             /\ q # p => procs'[q] = procs[q]
             /\ procs'[q] = None <=> procs[q] = None
             /\ q = p => ~procs'[q].inside
  <2>1. CASE q = p
    <3>1. /\ procs'[q] \in Process /\ procs'[q].id = procs[q].id
          /\ procs'[q].parent = procs[q].parent /\ ~procs'[q].inside
        BY <1>1, <1>2, <2>1 DEF ProcsTyped, Process
    <3> QED BY <1>2, <2>1, <3>1, ProcessFacts
  <2>2. CASE q # p
      BY <1>1, <2>2 DEF ProcsTyped
  <2> QED BY <2>1, <2>2
<1>4. procs' \in [Pids -> Process \cup {None}]
    BY <1>1, <1>3 DEF ProcsTyped
<1>5. ProcsTyped' /\ Grown /\ NoReturn
    BY <1>1, <1>3, <1>4, BoundaryAssumption DEF ProcsTyped, Grown, NoReturn, Ids
<1>6. ASSUME NEW q \in Pids, procs'[q] # None
      PROVE  /\ procs'[q].id \in Known
             /\ procs'[q].inside => born[procs'[q].id].inside
             /\ born[procs'[q].id].inside /\ ~born[procs'[q].id].ours => procs'[q].inside
    BY <1>2, <1>3, <1>6 DEF TreeOk, Identity, Ours
<1>7. ASSUME NEW q \in Pids, procs'[q].parent # 0
      PROVE  /\ procs'[procs'[q].parent] # None
             /\ Belongs(procs'[procs'[q].parent].id) => Belongs(procs'[q].id)
    BY <1>1, <1>3, <1>7, IdentityFacts DEF TreeOk, Identity
<1>8. TreeOk'
    BY <1>1, <1>6, <1>7 DEF TreeOk, Known, Identity, Ours, Belongs, Posix
<1> QED BY <1>3, <1>5, <1>8

-----------------------------------------------------------------------------
(* The invariant                                                             *)

\* A job that has no handle left has no process left.
JobOk == ~Posix /\ ~handle => OurPids = {}

\* Where the boundary is a job, and where it is looked at through snapshots.
HandleOk ==
    /\ Posix => ~handle
    /\ pc \in {"kill", "check", "ended", "root", "select", "follow"} => ~handle
    /\ pc \in {"job", "job-kill"} => handle

\* What is retained, or recorded, was born, and on POSIX belongs to the provider.
Attributed(i) == i \in Known /\ (Posix => Belongs(i))
OwnedOk == \A m \in owned \cup record : Attributed(m[2])

\* A snapshot shows processes that were there, with their sessions and parents.
SnapOk ==
    \A p \in Pids : snap[p] # None =>
       /\ snap[p].id \in Known
       /\ snap[p].inside => born[snap[p].id].inside
       /\ Posix /\ snap[p].parent # 0 =>
             /\ snap[snap[p].parent] # None
             /\ Belongs(snap[snap[p].parent].id) => Belongs(snap[p].id)

\* What is captured is in the snapshot, and on POSIX belongs to the provider.
CapOk == \A p \in Pids : captured[p] # 0 => captured[p] = snap[p].id /\ Attributed(captured[p])

\* A retained process that still runs was in the snapshot.
KnownOk ==
    pc \in {"root", "select", "follow"} =>
       \A m \in owned : Identity(m[1]) = m[2] => snap[m[1]].id = m[2]

\* The process the snapshot shows under a PID still runs.
Still(p) == snap[p] # None /\ Identity(p) = snap[p].id

\* No process that still runs, and that the snapshot can attribute, is passed
\* over: it is to be examined, captured, or, when all are, retained.
SeenOk ==
    Posix => \A p \in Pids : Still(p) =>
       /\ pc \in {"root", "select"} /\ snap[p].inside /\ p \notin todo => captured[p] # 0
       /\ pc = "follow" /\ captured[p] = 0 => p \in todo /\ ~snap[p].inside
       /\ pc = "check" /\ (snap[p].inside \/ (snap[p].parent # 0 /\ captured[snap[p].parent] # 0))
             => <<p, Identity(p)>> \in owned

View == SnapOk /\ CapOk /\ KnownOk /\ SeenOk
Inv == TypeOK /\ TreeOk /\ JobOk /\ HandleOk /\ OwnedOk /\ View

\* Time goes on: what holds of processes and of what was born, after a step.
Moved == ProcsTyped' /\ TreeOk' /\ NoReturn /\ Grown /\ kind' = kind

LEMMA InitOk == Init => Inv
<1> SUFFICES ASSUME Init PROVE Inv
    OBVIOUS
<1> DEFINE e == [id |-> 1, parent |-> 0, inside |-> TRUE]
           b == [pid |-> Root, ours |-> TRUE, inside |-> TRUE]
<1>1. /\ e \in Process /\ e.id = 1 /\ e.parent = 0 /\ e.inside /\ b.ours /\ b.inside /\ b \in Record
      /\ Root \in Pids
    BY BoundaryAssumption DEF Process, Ids, Record
<1>2. born = <<b>> /\ procs = [Nothing EXCEPT ![Root] = e]
    BY DEF Init
<1>3. born \in Seq(Record) /\ Len(born) = 1 /\ born[1] = b /\ Known = {1}
    BY <1>1, <1>2 DEF Known
<1>4. ASSUME NEW p \in Pids
      PROVE  procs[p] = (IF p = Root THEN e ELSE None) /\ Nothing[p] = None /\ Nobody[p] = 0
    BY <1>2 DEF Nothing, Nobody
<1>5. procs \in [Pids -> Process \cup {None}] /\ Nothing \in [Pids -> Process \cup {None}]
      /\ Nobody \in [Pids -> 0 .. MaxBirths]
    BY <1>1, <1>2, BoundaryAssumption DEF Nothing, Nobody
<1> HIDE DEF e, b
<1>6. TypeOK
  <2>1. procs \in [Pids -> Process \cup {None}]
      BY <1>5
  <2>2. /\ born \in Seq([pid : Pids, ours : BOOLEAN, inside : BOOLEAN]) /\ Len(born) \in Ids
        /\ {<<Root, 1>>} \subseteq Pids \X Ids
      BY <1>1, <1>3, BoundaryAssumption DEF Record, Ids
  <2>3. /\ kind \in {"windows-job", "posix-process-group"} /\ handle \in BOOLEAN
        /\ owned = {<<Root, 1>>} /\ record = {<<Root, 1>>} /\ err = FALSE /\ proven = FALSE
        /\ route = "run" /\ pc = "watch" /\ why = "none"
        /\ snap = Nothing /\ todo = {} /\ targets = {} /\ captured = Nobody
      BY DEF Init, Posix
  <2> QED BY <1>5, <2>1, <2>2, <2>3 DEF TypeOK
<1>7. TreeOk
    BY <1>1, <1>3, <1>4, ProcessFacts DEF TreeOk, Identity, Ours, Belongs
<1>8. JobOk /\ HandleOk
    BY DEF Init, JobOk, HandleOk, Posix
<1>9. OwnedOk
    BY <1>1, <1>3 DEF Init, OwnedOk, Attributed, Belongs
<1>10. View
    BY <1>4 DEF Init, View, SnapOk, CapOk, KnownOk, SeenOk, Still
<1> QED BY <1>6, <1>7, <1>8, <1>9, <1>10 DEF Inv

-----------------------------------------------------------------------------
(* How a step moves the processes                                            *)

LEMMA TypedProcs == TypeOK => ProcsTyped
BY DEF TypeOK, ProcsTyped, Record

LEMMA Rests ==
    ASSUME ProcsTyped, TreeOk, UNCHANGED system
    PROVE  Moved
<1>1. Len(born) \in Nat
    BY BoundaryAssumption DEF ProcsTyped, Ids
<1> QED BY <1>1 DEF system, Moved, ProcsTyped, TreeOk, NoReturn, Grown, Known, Identity, Ours,
             Belongs, Posix

LEMMA Ends ==
    ASSUME ProcsTyped, TreeOk, NEW gone \in SUBSET Pids, procs' = Without(gone),
           UNCHANGED <<kind, born>>
    PROVE  Moved /\ OurPids' \subseteq OurPids \ gone
<1>1. Moved
    BY Ending DEF Moved
<1>2. ASSUME NEW p \in OurPids' PROVE p \in OurPids /\ p \notin gone
  <2>1. p \in Pids /\ procs'[p].id # 0 /\ born[procs'[p].id].ours
      BY <1>2 DEF OurPids, Identity, Ours
  <2>2. p \notin gone
      BY <2>1, Ending, ProcessFacts
  <2> QED BY <2>1, <2>2, Ending DEF OurPids, Identity, Ours
<1> QED BY <1>1, <1>2

\* The last handle of a job takes the provider's tree with it.
LEMMA Closes ==
    ASSUME ProcsTyped, TreeOk, JobOk, CloseJob, UNCHANGED <<kind, born>>
    PROVE  Moved /\ JobOk' /\ ~handle'
<1>1. CASE handle
  <2>1. OurPids \in SUBSET Pids /\ procs' = Without(OurPids) /\ handle' = FALSE
      BY <1>1 DEF CloseJob, OurPids
  <2>2. Moved /\ OurPids' \subseteq OurPids \ OurPids
      BY <2>1, Ends
  <2> QED BY <2>1, <2>2 DEF JobOk
<1>2. CASE ~handle
    BY <1>2, Rests DEF CloseJob, system, JobOk, OurPids, Identity, Ours, Posix
<1> QED BY <1>1, <1>2

\* A process of the provider is forked by one.
LEMMA Enters ==
    ASSUME ProcsTyped, TreeOk, JobOk, NEW q \in Pids, NEW ours \in BOOLEAN,
           NEW parent \in Pids \cup {0}, NEW inside \in BOOLEAN,
           Enter(q, ours, parent, inside), UNCHANGED <<kind, handle>>,
           parent # 0 => /\ procs[parent] # None
                         /\ ours = Ours(Identity(parent)) /\ inside = procs[parent].inside,
           parent = 0 => ~ours
    PROVE  Moved /\ JobOk'
<1>1. Moved
    BY Entering DEF Moved
<1>2. ASSUME ~Posix, ~handle PROVE OurPids' = {}
  <2>1. OurPids = {}
      BY <1>2 DEF JobOk
  <2>2. ~ours
    <3>1. CASE parent = 0
        BY <3>1
    <3>2. CASE parent # 0
      <4>1. parent \in Pids /\ Identity(parent) # 0
          BY <3>2, IdentityFacts
      <4> QED BY <2>1, <3>2, <4>1 DEF OurPids
    <3> QED BY <3>1, <3>2
  <2>3. ASSUME NEW p \in OurPids' PROVE FALSE
    <3>1. p \in Pids /\ procs'[p].id # 0 /\ born'[procs'[p].id].ours
        BY <2>3 DEF OurPids, Identity, Ours
    <3>2. p # q
        BY <2>2, <3>1, Entering
    <3>3. procs'[p] = procs[p] /\ Identity(p) \in Known
        BY <3>1, <3>2, Entering, ProcessFacts DEF TreeOk, Identity
    <3>4. p \in OurPids
        BY <3>1, <3>3, Entering DEF OurPids, Identity, Ours, Grown
    <3> QED BY <2>1, <3>4
  <2> QED BY <2>3
<1> QED BY <1>1, <1>2 DEF JobOk, Posix

\* How a boundary that stops working leaves the job, and how any other step does.
LEMMA Leaves ==
    ASSUME ProcsTyped, TreeOk, JobOk, UNCHANGED <<kind, born>>,
           CloseJob \/ UNCHANGED <<procs, handle>>
    PROVE  Moved /\ JobOk'
<1>1. CASE CloseJob
    BY <1>1, Closes
<1>2. CASE UNCHANGED <<procs, handle>>
    BY <1>2, Rests DEF system, JobOk, OurPids, Identity, Ours, Posix
<1> QED BY <1>1, <1>2

LEMMA EndsJob ==
    ASSUME ProcsTyped, TreeOk, JobOk, NEW gone \in SUBSET Pids, procs' = Without(gone),
           UNCHANGED <<kind, born, handle>>
    PROVE  Moved /\ JobOk'
BY Ends DEF JobOk, Posix

LEMMA SystemMoves ==
    ASSUME TypeOK, TreeOk, JobOk, SystemStep
    PROVE  Moved /\ JobOk'
<1>0. ProcsTyped
    BY TypedProcs
<1>1. ASSUME NEW p \in Pids, NEW q \in Pids, Fork(p, q) PROVE Moved /\ JobOk'
  <2>1. /\ p \in Pids \cup {0} /\ p # 0 /\ procs[p] # None
        /\ Enter(q, Ours(Identity(p)), p, procs[p].inside) /\ UNCHANGED <<kind, handle>>
      BY <1>1, ProcessFacts DEF Fork, internal
  <2>2. Ours(Identity(p)) \in BOOLEAN /\ procs[p].inside \in BOOLEAN
    <3>1. Identity(p) \in 1 .. Len(born)
        BY <2>1 DEF TreeOk, Known
    <3>2. born[Identity(p)] \in Record
        BY <1>0, <3>1, ElementOfSeq DEF ProcsTyped
    <3> QED BY <1>0, <3>2, IdentityFacts DEF Ours, Record
  <2> QED BY <1>0, <2>1, <2>2, Enters
<1>2. ASSUME NEW q \in Pids, Stranger(q) PROVE Moved /\ JobOk'
  <2>1. PICK inside \in {FALSE, q = Root} : Enter(q, FALSE, 0, inside)
      BY <1>2 DEF Stranger
  <2>2. inside \in BOOLEAN /\ UNCHANGED <<kind, handle>> /\ 0 \in Pids \cup {0} /\ FALSE \in BOOLEAN
      BY <1>2, <2>1 DEF Stranger, internal
  <2> QED BY <1>0, <2>1, <2>2, Enters
<1>3. ASSUME NEW p \in Pids, Exit(p) PROVE Moved /\ JobOk'
    BY <1>0, <1>3, EndsJob DEF Exit, internal
<1>4. ASSUME NEW p \in Pids, Escape(p) PROVE Moved /\ JobOk'
    BY <1>0, <1>4, Escaping DEF Escape, Moved, JobOk, Posix
<1> QED BY <1>1, <1>2, <1>3, <1>4 DEF SystemStep

LEMMA Moves ==
    ASSUME TypeOK, TreeOk, JobOk, HandleOk, OwnedOk, Next
    PROVE  Moved /\ JobOk'
<1>0. ProcsTyped
    BY TypedProcs
<1> DEFINE Keeps == UNCHANGED <<kind, born>> /\ (CloseJob \/ UNCHANGED <<procs, handle>>)
<1>1. CASE SystemStep
    BY <1>1, SystemMoves
<1>2. CASE ObserveStep
  <2>1. ASSUME NEW p \in Pids, Select(p) \/ Follow(p) \/ JobMember(p) PROVE Keeps
      BY <2>1 DEF Select, Follow, JobMember, Continue, system
  <2>2. ASSUME NoSnapshot \/ Snapshot \/ CheckRoot \/ SelectEnds \/ Retain \/ ListJob \/ JobListed
        PROVE  Keeps
      BY <2>2 DEF NoSnapshot, Snapshot, CheckRoot, SelectEnds, Retain, ListJob, JobListed,
                  Continue, system
  <2>3. Keeps
      BY <1>2, <2>1, <2>2 DEF ObserveStep
  <2> QED BY <1>0, <2>3, Leaves
<1>3. CASE CleanupStep
  <2>1. ASSUME NEW m \in owned, Kill(m) PROVE Moved /\ JobOk'
    <3>1. {m[1]} \in SUBSET Pids
        BY DEF TypeOK
    <3>2. CASE procs' = Without({m[1]})
        BY <1>0, <2>1, <3>1, <3>2, EndsJob DEF Kill
    <3>3. CASE procs' = procs
        BY <1>0, <2>1, <3>3, Leaves DEF Kill
    <3> QED BY <2>1, <3>2, <3>3 DEF Kill
  <2>2. CASE Killed \/ Check \/ TerminateJob
    <3>1. Keeps
        BY <2>2 DEF Killed, Check, TerminateJob, system
    <3> QED BY <1>0, <3>1, Leaves
  <2> QED BY <1>3, <2>1, <2>2 DEF CleanupStep
<1>4. CASE RouteStep
  <2>1. CASE ShutdownReap
    <3>1. {Root} \in SUBSET Pids
        BY BoundaryAssumption
    <3>2. CASE procs' = Without({Root})
        BY <1>0, <2>1, <3>1, <3>2, EndsJob DEF ShutdownReap
    <3>3. CASE procs' = procs
        BY <1>0, <2>1, <3>3, Leaves DEF ShutdownReap
    <3> QED BY <2>1, <3>2, <3>3 DEF ShutdownReap
  <2>2. CASE Watch \/ ProviderExited \/ ShutdownStop \/ SaveUnproven \/ ControllerDies
    <3>1. Keeps
        BY <2>2 DEF Watch, ProviderExited, ShutdownStop, SaveUnproven, ControllerDies, system
    <3> QED BY <1>0, <3>1, Leaves
  <2>3. CASE ForceStop \/ Retire
    <3>1. UNCHANGED system /\ pc = "ended" /\ handle' = FALSE
        BY <2>3 DEF ForceStop, Retire, FromRecord
    <3>2. handle' = handle
        BY <3>1 DEF HandleOk, TypeOK
    <3> QED BY <1>0, <3>1, <3>2, Leaves DEF system
  <2> QED BY <1>4, <2>1, <2>2, <2>3 DEF RouteStep
<1> QED BY <1>1, <1>2, <1>3, <1>4 DEF Next

-----------------------------------------------------------------------------
(* Types, handles and what is retained                                       *)

\* The part of TypeOK that is not about the processes.
Shape ==
    /\ handle \in BOOLEAN /\ err \in BOOLEAN /\ proven \in BOOLEAN
    /\ owned \subseteq Pids \X Ids /\ record \subseteq Pids \X Ids
    /\ route \in {"run", "shutdown", "exit", "dead", "force", "retire"}
    /\ pc \in {"watch", "observe", "root", "select", "follow", "job", "kill",
              "job-kill", "check", "ended"}
    /\ why \in {"none", "watch", "cleanup", "again", "gone"}
    /\ snap \in [Pids -> Process \cup {None}]
    /\ todo \subseteq Pids /\ targets \subseteq owned
    /\ captured \in [Pids -> 0..MaxBirths]

LEMMA Parts == TypeOK <=> ProcsTyped /\ Shape
BY DEF TypeOK, ProcsTyped, Shape, Record

LEMMA Empty == Nothing \in [Pids -> Process \cup {None}] /\ Nobody \in [Pids -> 0 .. MaxBirths]
BY BoundaryAssumption DEF Nothing, Nobody

LEMMA Held ==
    ASSUME ProcsTyped, Shape
    PROVE  {<<p, captured[p]>> : p \in {q \in Pids : captured[q] # 0}} \subseteq Pids \X Ids
<1> SUFFICES ASSUME NEW p \in Pids, captured[p] # 0 PROVE captured[p] \in Ids
    OBVIOUS
<1> QED BY BoundaryAssumption DEF Shape, Ids

\* An observation that failed ends the cleanup and closes the job, unless the
\* controller was only watching.
LEMMA GivesUp ==
    ASSUME Shape, HandleOk, Continue(FALSE, {}), err' \in BOOLEAN,
           UNCHANGED <<kind, owned, record, route>>
    PROVE  Shape' /\ HandleOk'
<1>1. CASE why = "watch"
  <2>1. /\ pc' = "watch" /\ why' = "none" /\ Reset /\ UNCHANGED <<handle, targets, proven>>
      BY <1>1 DEF Continue
  <2> QED BY <2>1, Empty DEF Reset, Shape, HandleOk, Posix
<1>2. CASE why # "watch"
  <2>1. CloseJob /\ Answer(FALSE)
      BY <1>2 DEF Continue
  <2>2. /\ handle' = FALSE /\ pc' = "ended" /\ why' = "none" /\ proven' = FALSE /\ targets' = {}
        /\ Reset
      BY <2>1 DEF CloseJob, Answer
  <2> QED BY <2>2, Empty DEF Reset, Shape, HandleOk, Posix
<1> QED BY <1>1, <1>2

LEMMA ObserveShape ==
    ASSUME ProcsTyped, Shape, HandleOk, ObserveStep
    PROVE  Shape' /\ HandleOk'
<1>1. ASSUME NEW p \in Pids, Select(p) PROVE Shape' /\ HandleOk'
  <2>1. captured' \in [Pids -> 0 .. MaxBirths]
      BY <1>1, IdentityFacts, BoundaryAssumption DEF Select, Shape, Ids
  <2> QED BY <1>1, <2>1 DEF Select, Shape, HandleOk, system, Posix
<1>2. ASSUME NEW p \in Pids, Follow(p) PROVE Shape' /\ HandleOk'
  <2>1. CASE err' = TRUE /\ Continue(FALSE, {})
      BY <1>2, <2>1, GivesUp DEF Follow
  <2>2. CASE UNCHANGED <<handle, pc, why, snap, targets, proven>>
               /\ todo' \in {todo, todo \ {p}} /\ err' \in BOOLEAN
               /\ captured' \in {captured, [captured EXCEPT ![p] = Identity(p)]}
    <3>1. captured' \in [Pids -> 0 .. MaxBirths]
        BY <2>2, IdentityFacts, BoundaryAssumption DEF Shape, Ids
    <3> QED BY <1>2, <2>2, <3>1 DEF Follow, Shape, HandleOk, Posix
  <2> QED BY <1>2, <2>1, <2>2 DEF Follow, Shape
<1>3. ASSUME NEW p \in Pids, JobMember(p) PROVE Shape' /\ HandleOk'
  <2>1. owned \subseteq owned' /\ owned' \subseteq Pids \X Ids
      BY <1>3, IdentityFacts DEF JobMember, Shape
  <2> QED BY <1>3, <2>1 DEF JobMember, Shape, HandleOk, system, Posix
<1>4. CASE Retain
  <2>1. PICK members : /\ owned' = members /\ Continue(~err, members)
                       /\ owned \subseteq members /\ members \subseteq Pids \X Ids
      BY <1>4, Held DEF Retain, Shape
  <2>2. pc = "follow" /\ ~handle /\ UNCHANGED <<kind, err, record, route>>
      BY <1>4 DEF Retain, HandleOk
  <2>3. CASE pc' = "watch" /\ why' = "none" /\ Reset /\ UNCHANGED <<handle, targets, proven>>
      BY <2>1, <2>2, <2>3, Empty DEF Reset, Shape, HandleOk, Posix
  <2>4. CASE CloseJob /\ Answer(FALSE)
    <3>1. /\ handle' = FALSE /\ pc' = "ended" /\ why' = "none" /\ proven' = FALSE /\ targets' = {}
          /\ Reset
        BY <2>4 DEF CloseJob, Answer
    <3> QED BY <2>1, <2>2, <3>1, Empty DEF Reset, Shape, HandleOk, Posix
  <2>5. CASE /\ \/ pc' = "kill" /\ targets' = members
                \/ pc' = "check" /\ UNCHANGED targets
             /\ UNCHANGED <<handle, proven, why, snap, todo, captured>>
    <3>1. owned' \subseteq Pids \X Ids /\ targets' \subseteq owned' /\ pc' \in {"kill", "check"}
        BY <2>1, <2>5 DEF Shape
    <3> QED BY <2>2, <2>5, <3>1 DEF Shape, HandleOk, Posix
  <2> QED BY <2>1, <2>2, <2>3, <2>4, <2>5 DEF Continue
<1>5. CASE JobListed
  <2>1. pc = "job" /\ handle /\ Continue(~err, {}) /\ UNCHANGED <<kind, owned, err, record, route>>
      BY <1>5 DEF JobListed, HandleOk
  <2> QED BY <2>1, Empty DEF Shape, HandleOk, Posix, Continue, CloseJob, Answer, Reset
<1>6. CASE NoSnapshot
    BY <1>6, GivesUp DEF NoSnapshot
<1>7. CASE CheckRoot
  <2>1. CASE err' = TRUE /\ Continue(FALSE, {})
      BY <1>7, <2>1, GivesUp DEF CheckRoot
  <2>2. CASE pc' = "select" /\ UNCHANGED <<handle, err, why, snap, todo, targets, captured, proven>>
      BY <1>7, <2>2 DEF CheckRoot, Shape, HandleOk, Posix
  <2> QED BY <1>7, <2>1, <2>2 DEF CheckRoot
<1>8. CASE Snapshot
    BY <1>8, Empty DEF Snapshot, Shape, HandleOk, Posix, system, ProcsTyped
<1>9. CASE SelectEnds \/ ListJob
    BY <1>9 DEF SelectEnds, ListJob, OurPids, Shape, HandleOk, Posix, system
<1> QED BY <1>1, <1>2, <1>3, <1>4, <1>5, <1>6, <1>7, <1>8, <1>9 DEF ObserveStep

LEMMA OtherShape ==
    ASSUME ProcsTyped, Shape, HandleOk, SystemStep \/ CleanupStep \/ RouteStep
    PROVE  Shape' /\ HandleOk'
<1>1. CASE SystemStep
  <2>1. UNCHANGED <<kind, internal>>
      BY <1>1 DEF SystemStep, Fork, Stranger, Exit, Escape
  <2> QED BY <2>1 DEF internal, Shape, HandleOk, Posix
<1>2. CASE CleanupStep
  <2>1. ASSUME NEW m \in owned, Kill(m) PROVE Shape' /\ HandleOk'
      BY <2>1 DEF Kill, Shape, HandleOk, Posix
  <2>2. CASE Killed
      BY <2>2, Empty DEF Killed, Observe, Reset, Shape, HandleOk, Posix, system
  <2>3. CASE Check
    <3>1. Remaining \subseteq owned
        BY DEF Remaining
    <3> QED BY <2>3, <3>1, Empty DEF Check, Answer, Reset, Shape, HandleOk, Posix, system
  <2>4. CASE TerminateJob
      BY <2>4, Empty DEF TerminateJob, CloseJob, Answer, Reset, Shape, HandleOk, Posix
  <2> QED BY <1>2, <2>1, <2>2, <2>3, <2>4 DEF CleanupStep
<1>3. CASE RouteStep
  <2>1. CASE Watch \/ ProviderExited \/ ShutdownStop \/ ShutdownReap
      BY <2>1, Empty DEF Watch, ProviderExited, ShutdownStop, ShutdownReap, Observe, Reset, Shape,
                        HandleOk, Posix, system
  <2>2. CASE ControllerDies
      BY <2>2, Empty DEF ControllerDies, CloseJob, Reset, Shape, HandleOk, Posix
  <2>3. CASE ForceStop \/ Retire
      BY <2>3, Empty DEF ForceStop, Retire, FromRecord, Observe, Reset, Shape, HandleOk, Posix, system
  <2>4. CASE SaveUnproven
      BY <2>4 DEF SaveUnproven, Shape, HandleOk, Posix, system
  <2> QED BY <1>3, <2>1, <2>2, <2>3, <2>4 DEF RouteStep
<1> QED BY <1>1, <1>2, <1>3

\* Once attributed, an identity stays so.
LEMMA StaysAttributed ==
    ASSUME Moved, NEW i, Attributed(i)
    PROVE  Attributed(i)'
<1>1. i \in Known /\ i \in Known'
  <2>1. Len(born) \in Nat /\ Len(born') \in Nat /\ Len(born') >= Len(born)
      BY BoundaryAssumption DEF Moved, ProcsTyped, Grown, Ids
  <2> QED BY <2>1 DEF Attributed, Known
<1>2. born'[i] = born[i]
    BY <1>1 DEF Moved, Grown
<1> QED BY <1>1, <1>2 DEF Moved, Attributed, Belongs, Posix

\* What is retained or recorded by a step was retained, recorded or captured
\* before, or is the live identity of a member of the job.
LEMMA OwnedNext ==
    ASSUME TypeOK, TreeOk, HandleOk, OwnedOk, CapOk, Moved, Next
    PROVE  OwnedOk'
<1>1. ASSUME NEW m \in owned' \cup record' PROVE Attributed(m[2])
  <2>1. CASE owned' \cup record' \subseteq owned \cup record
      BY <2>1 DEF OwnedOk
  <2>2. ASSUME NEW p \in Pids, JobMember(p) PROVE Attributed(m[2])
    <3>1. /\ record' = record /\ handle
          /\ owned' = (IF Identity(p) = 0 THEN owned ELSE owned \cup {<<p, Identity(p)>>})
        BY <2>2 DEF JobMember, HandleOk
    <3>2. CASE m \in owned \cup record
        BY <3>2 DEF OwnedOk
    <3>3. CASE Identity(p) # 0 /\ m = <<p, Identity(p)>>
      <4>1. procs[p] # None /\ ~Posix
          BY <3>1, <3>3, ProcessFacts DEF HandleOk, Identity
      <4> QED BY <3>3, <4>1 DEF TreeOk, Attributed
    <3> QED BY <3>1, <3>2, <3>3
  <2>3. CASE Retain
    <3>1. /\ record' = record
          /\ owned' = owned \cup {<<p, captured[p]>> : p \in {q \in Pids : captured[q] # 0}}
        BY <2>3 DEF Retain
    <3>2. CASE m \in owned \cup record
        BY <3>2 DEF OwnedOk
    <3>3. CASE m \notin owned \cup record
      <4>1. PICK p \in Pids : captured[p] # 0 /\ m = <<p, captured[p]>>
          BY <3>1, <3>3
      <4> QED BY <4>1 DEF CapOk
    <3> QED BY <3>2, <3>3
  <2>4. ASSUME SystemStep \/ CleanupStep \/ RouteStep PROVE owned' \cup record' \subseteq owned \cup record
    <3>1. CASE SystemStep
        BY <3>1 DEF SystemStep, Fork, Stranger, Exit, Escape, internal
    <3>2. CASE CleanupStep
        BY <3>2 DEF CleanupStep, Kill, Killed, Check, TerminateJob
    <3>3. CASE RouteStep
        BY <3>3 DEF RouteStep, Watch, ProviderExited, ShutdownStop, ShutdownReap, SaveUnproven,
                    ControllerDies, ForceStop, Retire, FromRecord
    <3> QED BY <2>4, <3>1, <3>2, <3>3
  <2>5. ASSUME \/ NoSnapshot \/ Snapshot \/ CheckRoot \/ SelectEnds \/ ListJob \/ JobListed
               \/ \E p \in Pids : Select(p) \/ Follow(p)
        PROVE  owned' \cup record' \subseteq owned \cup record
      BY <2>5 DEF NoSnapshot, Snapshot, CheckRoot, SelectEnds, ListJob, JobListed, Select, Follow
  <2> QED BY <2>1, <2>2, <2>3, <2>4, <2>5 DEF Next, ObserveStep
<1> SUFFICES ASSUME NEW m \in owned' \cup record' PROVE Attributed(m[2])'
    BY DEF OwnedOk
<1>2. Attributed(m[2])
    BY <1>1
<1> QED BY <1>2, StaysAttributed

-----------------------------------------------------------------------------
(* What the snapshot shows                                                   *)

LEMMA SnapStays ==
    ASSUME SnapOk, Moved, snap \in [Pids -> Process \cup {None}], UNCHANGED snap
    PROVE  SnapOk'
<1>1. ASSUME NEW i \in Known PROVE i \in Known' /\ born'[i] = born[i]
  <2>1. Len(born) \in Nat /\ Len(born') \in Nat /\ Len(born') >= Len(born)
      BY BoundaryAssumption DEF Moved, ProcsTyped, Grown, Ids
  <2> QED BY <2>1 DEF Moved, Grown, Known
<1> SUFFICES ASSUME NEW p \in Pids, snap[p] # None
             PROVE  /\ snap[p].id \in Known'
                    /\ snap[p].inside => born'[snap[p].id].inside
                    /\ Posix' /\ snap[p].parent # 0 =>
                         /\ snap[snap[p].parent] # None
                         /\ Belongs(snap[snap[p].parent].id)' => Belongs(snap[p].id)'
    BY DEF SnapOk
<1>2. snap[p].id \in Known /\ (snap[p].inside => born[snap[p].id].inside) /\ snap[p].parent \in Pids \cup {0}
    BY ProcessFacts DEF SnapOk
<1>3. ASSUME Posix, snap[p].parent # 0
      PROVE  /\ snap[snap[p].parent] # None /\ snap[snap[p].parent].id \in Known
             /\ Belongs(snap[snap[p].parent].id) => Belongs(snap[p].id)
    BY <1>2, <1>3 DEF SnapOk
<1>4. Posix' => Posix
    BY DEF Moved, Posix
<1> QED BY <1>1, <1>2, <1>3, <1>4 DEF Belongs

LEMMA CapStays ==
    ASSUME CapOk, Moved, UNCHANGED <<snap, captured>>
    PROVE  CapOk'
<1> SUFFICES ASSUME NEW p \in Pids, captured[p] # 0
             PROVE  /\ captured[p] = snap[p].id /\ captured[p] \in Known'
                    /\ Posix' => born'[captured[p]].ours \/ born'[captured[p]].inside
    BY DEF CapOk, Attributed, Belongs
<1>1. PICK i : i = captured[p]
    OBVIOUS
<1>2. i = snap[p].id /\ Attributed(i)
    BY <1>1 DEF CapOk
<1>3. Attributed(i)'
    BY <1>2, StaysAttributed
<1> QED BY <1>1, <1>2, <1>3 DEF Attributed, Belongs

\* What still runs ran before the step.
LEMMA StillRan ==
    ASSUME SnapOk, Moved, NEW p \in Pids, snap[p] # None, procs'[p].id = snap[p].id
    PROVE  Still(p)
BY DEF SnapOk, Moved, NoReturn, Still, Identity

\* A step that leaves the observation alone.
LEMMA ViewStays ==
    ASSUME TypeOK, OwnedOk, View, Moved, UNCHANGED <<pc, snap, captured, todo, owned>>
    PROVE  View'
<1>1. SnapOk' /\ CapOk'
    BY SnapStays, CapStays DEF View, TypeOK
<1>2. KnownOk'
  <2> SUFFICES ASSUME pc \in {"root", "select", "follow"}, NEW m \in owned, procs'[m[1]].id = m[2]
               PROVE  snap[m[1]].id = m[2]
      BY DEF KnownOk, Identity
  <2>1. m[1] \in Pids /\ m[2] \in Known
      BY DEF TypeOK, OwnedOk, Attributed
  <2>2. Identity(m[1]) = m[2]
      BY <2>1 DEF Moved, NoReturn, Identity
  <2> QED BY <2>2 DEF View, KnownOk
<1>3. SeenOk'
  <2> SUFFICES ASSUME Posix', NEW p \in Pids, Still(p)'
               PROVE  /\ pc \in {"root", "select"} /\ snap[p].inside /\ p \notin todo => captured[p] # 0
                      /\ pc = "follow" /\ captured[p] = 0 => p \in todo /\ ~snap[p].inside
                      /\ pc = "check" /\ (snap[p].inside \/ (snap[p].parent # 0 /\ captured[snap[p].parent] # 0))
                            => <<p, procs'[p].id>> \in owned
      BY DEF SeenOk, Identity
  <2>1. Posix /\ Still(p) /\ procs'[p].id = Identity(p)
      BY StillRan DEF Still, Identity, View, Moved, Posix
  <2> QED BY <2>1 DEF View, SeenOk
<1> QED BY <1>1, <1>2, <1>3 DEF View

\* No observation is under way, and none is needed any more.
LEMMA ViewEnds ==
    ASSUME Reset, pc' \notin {"root", "select", "follow", "check"}
    PROVE  View'
<1>1. ASSUME NEW p \in Pids PROVE snap'[p] = None /\ captured'[p] = 0
    BY <1>1 DEF Reset, Nothing, Nobody
<1> QED BY <1>1 DEF View, SnapOk, CapOk, KnownOk, SeenOk, Still

LEMMA ViewRests ==
    ASSUME TypeOK, View, Moved, UNCHANGED <<snap, captured>>,
           pc' \notin {"root", "select", "follow", "check"}
    PROVE  View'
<1>1. SnapOk' /\ CapOk'
    BY SnapStays, CapStays DEF View, TypeOK
<1> QED BY <1>1 DEF View, KnownOk, SeenOk

LEMMA ViewOfObserve ==
    ASSUME TypeOK, TreeOk, HandleOk, OwnedOk, View, Moved, ObserveStep
    PROVE  View'
<1>0. ProcsTyped
    BY TypedProcs
\* Continue, other than to a check: nothing is looked up in the snapshot.
<1> DEFINE Goes == \/ Reset /\ pc' \in {"watch", "ended"}
                   \/ UNCHANGED <<snap, captured>> /\ pc' \in {"kill", "job-kill"}
<1>1. ASSUME Goes PROVE View'
    BY <1>1, ViewEnds, ViewRests
<1>2. CASE NoSnapshot \/ JobListed
  <2>1. Goes
      BY <1>2 DEF NoSnapshot, JobListed, HandleOk, Continue, Answer
  <2> QED BY <1>1, <2>1
<1>3. CASE Snapshot
  <2>1. /\ snap' = procs /\ pc' = "root" /\ procs' = procs /\ UNCHANGED <<kind, born, owned>>
        /\ captured' = Nobody /\ todo' = {p \in Pids : Relevant(procs, p)}
      BY <1>3 DEF Snapshot, system
  <2>2. ASSUME NEW p \in Pids PROVE captured'[p] = 0
      BY <2>1 DEF Nobody
  <2>3. SnapOk'
    <3> SUFFICES ASSUME NEW p \in Pids, procs[p] # None
                 PROVE  /\ procs[p].id \in Known
                        /\ procs[p].inside => born[procs[p].id].inside
                        /\ Posix /\ procs[p].parent # 0 =>
                             /\ procs[procs[p].parent] # None
                             /\ Belongs(procs[procs[p].parent].id) => Belongs(procs[p].id)
        BY <2>1 DEF SnapOk, Known, Belongs, Posix
    <3> QED BY DEF TreeOk, Identity
  <2>4. CapOk'
      BY <2>2 DEF CapOk
  <2>5. KnownOk'
      BY <2>1 DEF KnownOk, Identity
  <2>6. SeenOk'
    <3> SUFFICES ASSUME Posix, NEW p \in Pids, procs[p] # None, procs[p].inside
                 PROVE  Relevant(procs, p)
        BY <2>1 DEF SeenOk, Still, Posix
    <3> QED BY DEF Relevant
  <2> QED BY <2>3, <2>4, <2>5, <2>6 DEF View
<1>4. CASE CheckRoot
  <2>1. CASE Continue(FALSE, {})
    <3>1. Goes
        BY <2>1 DEF Continue, Answer
    <3> QED BY <1>1, <3>1
  <2>2. CASE /\ pc = "root" /\ pc' = "select"
             /\ UNCHANGED <<procs, snap, todo, captured, kind, born, owned>>
    <3>1. SnapOk' /\ CapOk'
        BY <2>2, SnapStays, CapStays DEF View, TypeOK
    <3>2. KnownOk' /\ SeenOk'
        BY <2>2 DEF View, KnownOk, SeenOk, Still, Identity, Posix
    <3> QED BY <3>1, <3>2 DEF View
  <2> QED BY <1>4, <2>1, <2>2 DEF CheckRoot
<1>5. ASSUME NEW p \in Pids, Select(p) PROVE View'
  <2> DEFINE takes == Identity(p) # 0 /\ (<<p, Identity(p)>> \in owned \/ (Posix /\ snap[p].inside /\ Bound(p)))
  <2>1. /\ pc = "select" /\ p \in todo /\ todo' = todo \ {p}
        /\ UNCHANGED <<kind, procs, born, owned, pc, snap>>
        /\ captured' = IF takes THEN [captured EXCEPT ![p] = Identity(p)] ELSE captured
      BY <1>5 DEF Select, system
  <2>2. /\ \A q \in Pids \ {p} : captured'[q] = captured[q]
        /\ captured'[p] = IF takes THEN Identity(p) ELSE captured[p]
      BY <2>1 DEF TypeOK
  <2>3. ASSUME takes PROVE Identity(p) = snap[p].id /\ Attributed(Identity(p))
    <3>1. CASE <<p, Identity(p)>> \in owned
      <4>1. Attributed(Identity(p))
          BY <3>1 DEF OwnedOk
      <4>2. snap[p].id = Identity(p)
          BY <2>1, <3>1 DEF View, KnownOk
      <4> QED BY <4>1, <4>2
    <3>2. CASE Posix /\ snap[p].inside /\ Bound(p)
      <4>1. snap[p] # None /\ Identity(p) = snap[p].id
          BY <3>2, ProcessFacts DEF Bound
      <4> QED BY <3>2, <4>1 DEF View, SnapOk, Attributed, Belongs
    <3> QED BY <2>3, <3>1, <3>2
  <2>4. SnapOk'
      BY <2>1, SnapStays DEF View, TypeOK
  <2>5. CapOk'
    <3> SUFFICES ASSUME NEW q \in Pids, captured'[q] # 0
                 PROVE  captured'[q] = snap[q].id /\ Attributed(captured'[q])
        BY <2>1 DEF CapOk, Attributed, Known, Belongs, Posix
    <3>1. CASE q = p /\ takes
        BY <2>2, <2>3, <3>1
    <3>2. CASE ~(q = p /\ takes)
      <4>1. captured'[q] = captured[q]
          BY <2>2, <3>2
      <4> QED BY <4>1 DEF View, CapOk
    <3> QED BY <3>1, <3>2
  <2>6. KnownOk'
      BY <2>1 DEF View, KnownOk, Identity
  <2>7. SeenOk'
    <3> SUFFICES ASSUME Posix, NEW q \in Pids, Still(q), snap[q].inside, q \notin todo'
                 PROVE  captured'[q] # 0
        BY <2>1 DEF SeenOk, Still, Identity, Posix
    <3>1. CASE q = p
      <4>1. Identity(p) # 0 /\ Bound(p)
          BY <1>0, <3>1, ProcessFacts DEF Still, Bound, TypeOK
      <4> QED BY <2>2, <3>1, <4>1
    <3>2. CASE q # p
        BY <2>1, <2>2, <3>2 DEF View, SeenOk
    <3> QED BY <3>1, <3>2
  <2> QED BY <2>4, <2>5, <2>6, <2>7 DEF View
<1>6. CASE SelectEnds
  <2>1. /\ pc = "select" /\ todo = {} /\ pc' = "follow"
        /\ todo' = {p \in Pids : snap[p] # None /\ captured[p] = 0}
        /\ UNCHANGED <<kind, procs, born, owned, snap, captured>>
      BY <1>6 DEF SelectEnds, system
  <2>2. SnapOk' /\ CapOk'
      BY <2>1, SnapStays, CapStays DEF View, TypeOK
  <2>3. KnownOk'
      BY <2>1 DEF View, KnownOk, Identity
  <2>4. SeenOk'
    <3> SUFFICES ASSUME Posix, NEW p \in Pids, Still(p), captured[p] = 0
                 PROVE  p \in todo' /\ ~snap[p].inside
        BY <2>1 DEF SeenOk, Still, Identity, Posix
    <3> QED BY <2>1 DEF View, SeenOk, Still
  <2> QED BY <2>2, <2>3, <2>4 DEF View
<1>7. ASSUME NEW p \in Pids, Follow(p) PROVE View'
  <2>1. CASE Continue(FALSE, {})
    <3>1. Goes
        BY <2>1 DEF Continue, Answer
    <3> QED BY <1>1, <3>1
  <2> DEFINE takes == Identity(p) # 0 /\ Bound(p)
  <2>2. ASSUME ~Continue(FALSE, {})
        PROVE  /\ pc = "follow" /\ p \in todo /\ snap[p].parent # 0 /\ captured[snap[p].parent] # 0
               /\ Identity(p) # 0 => Identity(snap[p].parent) = captured[snap[p].parent]
               /\ todo' \in {todo, todo \ {p}} /\ (Identity(p) = 0 \/ takes \/ ~Bound(p))
               /\ captured' = IF takes THEN [captured EXCEPT ![p] = Identity(p)] ELSE captured
               /\ UNCHANGED <<kind, procs, born, owned, pc, snap>>
      BY <1>7, <2>2 DEF Follow, Children
  <2>3. ASSUME ~Continue(FALSE, {}) PROVE View'
    <3>1. /\ \A q \in Pids \ {p} : captured'[q] = captured[q]
          /\ captured'[p] = IF takes THEN Identity(p) ELSE captured[p]
        BY <2>2, <2>3 DEF TypeOK
    <3>2. ASSUME takes PROVE Identity(p) = snap[p].id /\ Attributed(Identity(p))
      <4> DEFINE r == snap[p].parent
      <4>1. r \in Pids /\ captured[r] = snap[r].id /\ Attributed(captured[r])
          BY <2>2, <2>3, ProcessFacts DEF TypeOK, View, CapOk
      <4>2. snap[p] # None /\ Identity(p) = snap[p].id
          BY <2>2, <2>3, <3>2, ProcessFacts DEF Bound
      <4>3. Identity(p) \in Known
          BY <4>2 DEF View, SnapOk
      <4>4. Posix => Belongs(Identity(p))
          BY <2>2, <2>3, <4>1, <4>2 DEF View, SnapOk, Attributed
      <4> QED BY <4>2, <4>3, <4>4 DEF Attributed
    <3>3. SnapOk'
        BY <2>2, <2>3, SnapStays DEF View, TypeOK
    <3>4. CapOk'
      <4> SUFFICES ASSUME NEW q \in Pids, captured'[q] # 0
                   PROVE  captured'[q] = snap[q].id /\ Attributed(captured'[q])
          BY <2>2, <2>3 DEF CapOk, Attributed, Known, Belongs, Posix
      <4>1. CASE q = p /\ takes
          BY <3>1, <3>2, <4>1
      <4>2. CASE ~(q = p /\ takes)
        <5>1. captured'[q] = captured[q]
            BY <3>1, <4>2
        <5> QED BY <5>1 DEF View, CapOk
      <4> QED BY <4>1, <4>2
    <3>5. KnownOk'
        BY <2>2, <2>3 DEF View, KnownOk, Identity
    <3>6. SeenOk'
      <4> SUFFICES ASSUME Posix, NEW q \in Pids, Still(q), captured'[q] = 0
                   PROVE  q \in todo' /\ ~snap[q].inside
          BY <2>2, <2>3 DEF SeenOk, Still, Identity, Posix
      <4>1. q # p
        <5>1. ASSUME q = p PROVE FALSE
          <6>1. Identity(p) # 0 /\ Bound(p)
              BY <1>0, <5>1, ProcessFacts DEF Still, Bound, TypeOK
          <6> QED BY <3>1, <5>1, <6>1
        <5> QED BY <5>1
      <4>2. captured[q] = 0
          BY <3>1, <4>1
      <4> QED BY <2>2, <2>3, <4>1, <4>2 DEF View, SeenOk
    <3> QED BY <3>3, <3>4, <3>5, <3>6 DEF View
  <2> QED BY <2>1, <2>3
<1>8. CASE Retain
  <2> DEFINE members == owned \cup {<<p, captured[p]>> : p \in {q \in Pids : captured[q] # 0}}
  <2>1. pc = "follow" /\ Children = {} /\ owned' = members /\ Continue(~err, members) /\ ~handle
      BY <1>8 DEF Retain, HandleOk
  <2>2. CASE pc' # "check"
    <3>1. Goes
        BY <2>1, <2>2 DEF Continue, Answer
    <3> QED BY <1>1, <3>1
  <2>3. CASE pc' = "check"
    <3>1. UNCHANGED <<kind, born, procs, snap, todo, captured>>
        BY <1>8, <2>1, <2>3 DEF Continue, Answer, Retain
    <3>2. SnapOk' /\ CapOk'
        BY <3>1, SnapStays, CapStays DEF View, TypeOK
    <3>3. KnownOk'
        BY <2>3 DEF KnownOk
    <3>4. SeenOk'
      <4> SUFFICES ASSUME Posix, NEW p \in Pids, Still(p),
                          snap[p].inside \/ (snap[p].parent # 0 /\ captured[snap[p].parent] # 0)
                   PROVE  <<p, Identity(p)>> \in members
          BY <2>1, <2>3, <3>1 DEF SeenOk, Still, Identity, Posix
      <4>1. captured[p] # 0
        <5>1. ASSUME captured[p] = 0 PROVE FALSE
          <6>1. p \in todo /\ ~snap[p].inside
              BY <2>1, <5>1 DEF View, SeenOk
          <6> QED BY <2>1, <6>1 DEF Children
        <5> QED BY <5>1
      <4>2. captured[p] = Identity(p)
          BY <4>1 DEF View, CapOk, Still
      <4> QED BY <4>1, <4>2
    <3> QED BY <3>2, <3>3, <3>4 DEF View
  <2> QED BY <2>2, <2>3
<1>9. ASSUME ListJob \/ (\E p \in Pids : JobMember(p)) PROVE View'
  <2>1. pc' = "job" /\ UNCHANGED <<snap, captured>>
      BY <1>9 DEF ListJob, JobMember
  <2> QED BY <2>1, ViewRests
<1> QED BY <1>2, <1>3, <1>4, <1>5, <1>6, <1>7, <1>8, <1>9 DEF ObserveStep

LEMMA ViewOfOthers ==
    ASSUME TypeOK, TreeOk, HandleOk, OwnedOk, View, Moved, SystemStep \/ CleanupStep \/ RouteStep
    PROVE  View'
<1>1. CASE SystemStep
  <2>1. UNCHANGED <<pc, snap, captured, todo, owned>>
      BY <1>1 DEF SystemStep, Fork, Stranger, Exit, Escape, internal
  <2> QED BY <2>1, ViewStays
<1>2. CASE CleanupStep
  <2>1. ASSUME NEW m \in owned, Kill(m) PROVE View'
    <3>1. UNCHANGED <<pc, snap, captured, todo, owned>>
        BY <2>1 DEF Kill
    <3> QED BY <3>1, ViewStays
  <2>2. CASE Killed
      BY <2>2, ViewEnds DEF Killed, Observe
  <2>3. CASE Check
    <3>1. CASE Answer(TRUE) \/ Answer(FALSE)
        BY <3>1, ViewEnds DEF Answer
    <3>2. CASE pc' = "kill" /\ UNCHANGED <<snap, captured>>
        BY <3>2, ViewRests
    <3> QED BY <2>3, <3>1, <3>2 DEF Check
  <2>4. CASE TerminateJob
    <3>1. CASE Answer(FALSE)
        BY <3>1, ViewEnds DEF Answer
    <3>2. CASE pc' = "check" /\ UNCHANGED <<snap, captured>>
      <4>1. SnapOk' /\ CapOk'
          BY <3>2, SnapStays, CapStays DEF View, TypeOK
      <4>2. ~Posix'
          BY <2>4 DEF TerminateJob, HandleOk, Posix
      <4> QED BY <3>2, <4>1, <4>2 DEF View, KnownOk, SeenOk
    <3> QED BY <2>4, <3>1, <3>2 DEF TerminateJob
  <2> QED BY <1>2, <2>1, <2>2, <2>3, <2>4 DEF CleanupStep
<1>3. CASE RouteStep
  <2>1. CASE SaveUnproven
    <3>1. UNCHANGED <<pc, snap, captured, todo, owned>>
        BY <2>1 DEF SaveUnproven
    <3> QED BY <3>1, ViewStays
  <2>2. CASE Watch \/ ProviderExited \/ ShutdownStop \/ ShutdownReap \/ ForceStop \/ Retire
    <3>1. Reset /\ pc' = "observe"
        BY <2>2 DEF Watch, ProviderExited, ShutdownStop, ShutdownReap, ForceStop, Retire,
                    FromRecord, Observe
    <3> QED BY <3>1, ViewEnds
  <2>3. CASE ControllerDies
      BY <2>3, ViewEnds DEF ControllerDies
  <2> QED BY <1>3, <2>1, <2>2, <2>3 DEF RouteStep
<1> QED BY <1>1, <1>2, <1>3

-----------------------------------------------------------------------------
(* The invariant holds                                                       *)

LEMMA InvNext == Inv /\ [Next]_vars => Inv'
<1>1. ASSUME Inv, Next PROVE Inv'
  <2>1. Moved /\ JobOk'
      BY <1>1, Moves DEF Inv
  <2>2. Shape' /\ HandleOk'
      BY <1>1, Parts, ObserveShape, OtherShape DEF Inv, Next
  <2>3. OwnedOk'
      BY <1>1, <2>1, OwnedNext DEF Inv, View
  <2>4. View'
      BY <1>1, <2>1, ViewOfObserve, ViewOfOthers DEF Inv, Next
  <2>5. TypeOK'
      BY <2>1, <2>2 DEF Moved, TypeOK, ProcsTyped, Shape, Record
  <2> QED BY <2>1, <2>2, <2>3, <2>4, <2>5 DEF Inv, Moved
<1>2. ASSUME Inv, UNCHANGED vars PROVE Inv'
  <2>1. UNCHANGED <<kind, procs, born, handle, owned, err, record, route, pc, why, snap, todo,
                    targets, captured, proven>>
      BY <1>2 DEF vars
  <2>2. Moved /\ JobOk'
    <3>1. ProcsTyped /\ TreeOk /\ JobOk
        BY <1>2, TypedProcs DEF Inv
    <3> QED BY <2>1, <3>1, Leaves
  <2>3. Shape' /\ HandleOk'
      BY <1>2, <2>1, Parts DEF Inv, Shape, HandleOk, Posix
  <2>4. View'
      BY <1>2, <2>1, <2>2, ViewStays DEF Inv
  <2>5. OwnedOk'
      BY <1>2, <2>1, <2>2, StaysAttributed DEF Inv, OwnedOk
  <2>6. TypeOK'
      BY <2>2, <2>3 DEF Moved, TypeOK, ProcsTyped, Shape, Record
  <2> QED BY <2>2, <2>3, <2>4, <2>5, <2>6 DEF Inv, Moved
<1> QED BY <1>1, <1>2

LEMMA InvHolds == Spec => []Inv
BY InitOk, InvNext, PTL DEF Spec

THEOREM BoundaryTypeCorrect == Spec => []TypeOK
<1>1. Inv => TypeOK
    BY DEF Inv
<1> QED BY <1>1, InvHolds, PTL

(* On POSIX cleanup ends no process that is not of the provider's tree,      *)
(* whatever PIDs were given away since a member was retained or recorded.    *)
THEOREM OnlyOursAreKilled == Spec => KillsOnlyOurs
<1> DEFINE A == Posix /\ pc = "kill" /\ targets' # targets =>
                  \A p \in Pids : procs[p] # None /\ procs'[p] = None => Belongs(Identity(p))
<1>1. ASSUME Inv, Next PROVE A
  <2> SUFFICES ASSUME Posix, pc = "kill", targets' # targets,
                      NEW p \in Pids, procs[p] # None, procs'[p] = None
               PROVE  Belongs(Identity(p))
      OBVIOUS
  <2>1. ASSUME NEW m \in owned, Kill(m) PROVE Belongs(Identity(p))
    <3>1. IsMember(m) /\ procs' = Without({m[1]})
        BY <2>1 DEF Kill
    <3>2. m[1] \in Pids /\ Attributed(m[2])
        BY <1>1 DEF Inv, TypeOK, OwnedOk
    <3>3. p = m[1]
      <4>1. ASSUME p # m[1] PROVE FALSE
        <5>1. {m[1]} \in SUBSET Pids /\ UNCHANGED <<kind, born>> /\ ProcsTyped /\ TreeOk
            BY <1>1, <2>1, <3>2, TypedProcs DEF Kill, Inv
        <5>2. procs'[p].id = procs[p].id
            BY <3>1, <4>1, <5>1, Ending
        <5> QED BY <5>1, <5>2, IdentityFacts, ProcessFacts DEF Identity
      <4> QED BY <4>1
    <3> QED BY <3>1, <3>2, <3>3 DEF IsMember, Attributed
  <2>2. ASSUME procs' = procs PROVE FALSE
      BY <2>2
  <2>3. ~handle
      BY <1>1 DEF Inv, HandleOk
  <2>4. ASSUME Killed \/ Check \/ TerminateJob PROVE procs' = procs
      BY <2>4 DEF Killed, Check, TerminateJob, system
  <2>5. ASSUME SystemStep PROVE targets' = targets
      BY <2>5 DEF SystemStep, Fork, Stranger, Exit, Escape, internal
  <2>6. ~ObserveStep
      BY DEF ObserveStep, NoSnapshot, Snapshot, CheckRoot, SelectEnds, Retain, ListJob, JobListed,
             Select, Follow, JobMember
  <2>7. ASSUME RouteStep PROVE procs' = procs
      BY <2>3, <2>7 DEF RouteStep, Watch, ProviderExited, ShutdownStop, ShutdownReap, SaveUnproven,
                        ControllerDies, CloseJob, ForceStop, Retire, FromRecord
  <2> QED BY <1>1, <2>1, <2>2, <2>4, <2>5, <2>6, <2>7 DEF Next, CleanupStep
<1>2. Inv /\ [Next]_vars => [A]_vars
    BY <1>1
<1> QED BY <1>2, InvHolds, PTL DEF Spec, KillsOnlyOurs

(* When cleanup or process_boundary_is_gone answers TRUE, nothing of the     *)
(* provider's tree runs in a Windows job, and on POSIX only what the last    *)
(* snapshot could not attribute.                                             *)
THEOREM ProofsMeanGone == Spec => ProvenMeansGone
<1> DEFINE A == proven' /\ pc = "check" /\ pc' = "ended" => \A p \in OurPids : Posix /\ Unseen(p)
<1>1. ASSUME Inv, Next PROVE A
  <2> SUFFICES ASSUME proven', pc = "check", pc' = "ended", NEW p \in OurPids
               PROVE  Posix /\ Unseen(p)
      OBVIOUS
  <2>1. Remaining = {}
    <3>1. ~SystemStep
        BY DEF SystemStep, Fork, Stranger, Exit, Escape, internal
    <3>2. ~ObserveStep
        BY DEF ObserveStep, NoSnapshot, Snapshot, CheckRoot, SelectEnds, Retain, ListJob, JobListed,
               Select, Follow, JobMember
    <3>3. ~RouteStep
        BY DEF RouteStep, Watch, ProviderExited, ShutdownStop, ShutdownReap, SaveUnproven,
               ControllerDies, ForceStop, Retire, FromRecord
    <3>4. Check
        BY <1>1, <3>1, <3>2, <3>3 DEF Next, CleanupStep, Killed, TerminateJob, Kill
    <3> QED BY <3>4 DEF Check, Answer
  <2>2. ~handle
      BY <1>1 DEF Inv, HandleOk
  <2>3. Posix
      BY <1>1, <2>2 DEF Inv, JobOk
  <2>4. p \in Pids /\ Identity(p) # 0
      BY DEF OurPids
  <2>5. ASSUME ~Unseen(p) PROVE FALSE
    <3>1. /\ Identity(p) = snap[p].id
          /\ snap[p].inside \/ (snap[p].parent # 0 /\ captured[snap[p].parent] # 0)
        BY <2>5 DEF Unseen
    <3>2. Still(p)
        BY <2>4, <3>1, ProcessFacts DEF Still
    <3>3. <<p, Identity(p)>> \in owned
        BY <1>1, <2>3, <2>4, <3>1, <3>2 DEF Inv, View, SeenOk
    <3>4. <<p, Identity(p)>> \in Remaining
        BY <3>3 DEF Remaining
    <3> QED BY <2>1, <3>4
  <2> QED BY <2>3, <2>5
<1>2. Inv /\ [Next]_vars => [A]_vars
    BY <1>1
<1> QED BY <1>2, InvHolds, PTL DEF Spec, ProvenMeansGone
=============================================================================

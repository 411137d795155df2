--------------------------- MODULE Watcher_proofs ---------------------------
(***************************************************************************)
(* Proofs about module Watcher, for every number of services, files,        *)
(* records and crashes: one service serves at a time, nothing is shown to   *)
(* the evaluator as new twice, and a quarantine that was lifted releases    *)
(* nothing; and, at the end, about the attention ingest (AttentionIngest).  *)
(*                                                                          *)
(* What a poll makes of the records of a source is a recursive function of  *)
(* their number; what holds of it for each of them is shown by taking the   *)
(* least number at which it would not (Least, UpToN).                       *)
(***************************************************************************)
EXTENDS Watcher, AttentionIngest, FiniteSetTheorems, WellFoundedInduction, TLAPS

(* A set of naturals has a least element. *)

LEMMA Least ==
    ASSUME NEW S, S \subseteq Nat, S # {}
    PROVE  \E m \in S : \A n \in S : m <= n
<1>1. OpToRel(<, Nat) = {ss \in Nat \X Nat : ss[1] < ss[2]}
    BY Zenon DEF OpToRel
<1>2. PICK m \in S : \A y \in S : ~ (<<y, m>> \in OpToRel(<, Nat))
    BY Zenon, WFMin, NatLessThanWellFounded
<1>3. ASSUME NEW y \in S PROVE m <= y
  <2>1. <<y, m>> \notin {ss \in Nat \X Nat : ss[1] < ss[2]}
    BY <1>1, <1>2, Zenon
  <2> QED BY <2>1
<1> QED BY <1>3

(* What holds of 0 and goes on from each number to the next holds up to n. *)
LEMMA UpToN ==
    ASSUME NEW n \in Nat, NEW S, 0 \in S, \A i \in 0 .. n : i \in S /\ i < n => i + 1 \in S
    PROVE  0 .. n \subseteq S
<1> DEFINE missed == (0 .. n) \ S
<1> SUFFICES ASSUME missed # {} PROVE FALSE
    OBVIOUS
<1>0. missed \subseteq Nat
    OBVIOUS
<1> HIDE DEF missed
<1>1. PICK m \in missed : \A i \in missed : m <= i
    BY <1>0, Least, Zenon
<1> USE DEF missed
<1>2. m - 1 \in 0 .. n /\ m - 1 \notin missed
    BY <1>1
<1> QED BY <1>1, <1>2

LEMMA JudgedSteps ==
    ASSUME NEW mature, NEW X, NEW recs \in Seq(X)
    PROVE  \E f : /\ f[0] = [held |-> Quarantined(mature), visible |-> {}]
                  /\ \A i \in 1 .. Len(recs) : f[i] = Judge(f[i - 1], recs[i])
                  /\ Judged(mature, recs) = f[Len(recs)]
<1> DEFINE n == Len(recs)
           base == [held |-> Quarantined(mature), visible |-> {}]
           to(a, i) == Judge(a, recs[i])
           fits(f, m) == /\ f = [i \in 0 .. m |-> f[i]]
                         /\ f[0] = base
                         /\ \A i \in 1 .. m : f[i] = to(f[i - 1], i)
           S == {m \in 0 .. n : \E f : fits(f, m)}
<1>0. n \in Nat
    OBVIOUS
<1>3. n \in S
  <2> HIDE DEF n, base, to
  <2>1. 0 \in S
    <3> DEFINE f == [i \in 0 .. 0 |-> base]
    <3>1. f = [i \in 0 .. 0 |-> f[i]] /\ f[0] = base
      OBVIOUS
    <3>2. \A i \in 1 .. 0 : FALSE
      OBVIOUS
    <3>3. fits(f, 0)
      BY <3>1, <3>2
    <3> HIDE DEF f, fits
    <3> QED BY <3>3, <1>0
  <2>2. ASSUME NEW m \in 0 .. n, m \in S, m < n PROVE m + 1 \in S
    <3>1. PICK f : fits(f, m)
      BY <2>2
    <3> DEFINE g == [i \in 0 .. m + 1 |-> IF i <= m THEN f[i] ELSE to(f[m], m + 1)]
    <3>2. g = [i \in 0 .. m + 1 |-> g[i]]
      OBVIOUS
    <3>3. g[0] = base
      BY <3>1
    <3>4. ASSUME NEW i \in 1 .. m + 1 PROVE g[i] = to(g[i - 1], i)
      <4>1. CASE i <= m
        <5>1. g[i] = f[i] /\ g[i - 1] = f[i - 1] /\ i \in 1 .. m
          BY <4>1
        <5> HIDE DEF g
        <5> QED BY <3>1, <5>1
      <4>2. CASE i = m + 1
        BY <4>2
      <4> QED BY <4>1, <4>2
    <3>5. fits(g, m + 1)
      BY <3>2, <3>3, <3>4
    <3> HIDE DEF g, fits
    <3> QED BY <3>5, <2>2, <1>0
  <2> HIDE DEF S
  <2>3. 0 .. n \subseteq S
    BY <1>0, <2>1, <2>2, UpToN
  <2> QED BY <2>3, <1>0
<1>4. PICK f : fits(f, n)
    BY <1>3
<1>5. f = [i \in 0 .. n |-> IF i = 0 THEN base ELSE to(f[i - 1], i)]
  <2>1. ASSUME NEW i \in 0 .. n PROVE f[i] = IF i = 0 THEN base ELSE to(f[i - 1], i)
    BY <1>4, <1>0
  <2> QED BY <1>4, <2>1
<1> DEFINE after[i \in 0 .. Len(recs)] ==
            IF i = 0 THEN [held |-> Quarantined(mature), visible |-> {}]
                     ELSE Judge(after[i - 1], recs[i])
<1>6. after = [i \in 0 .. n |-> IF i = 0 THEN base ELSE to(after[i - 1], i)]
    BY <1>5 
<1>7. Judged(mature, recs) = after[n]
    BY DEF Judged
<1> HIDE DEF after, base, to
<1>8. after[0] = base /\ \A i \in 1 .. n : after[i] = to(after[i - 1], i)
    BY <1>0, <1>6
<1> USE DEF base, to
<1> QED BY <1>7, <1>8

LEMMA FlattenedType ==
    ASSUME NEW X, NEW seqs \in Seq(Seq(X))
    PROVE  FlattenSeq(seqs) \in Seq(X)
<1> DEFINE n == Len(seqs)
           fits(f, m) == /\ f = [i \in 1 .. m |-> f[i]]
                         /\ \A i \in 1 .. m : /\ f[i] = IF i = 1 THEN seqs[i] ELSE f[i - 1] \o seqs[i]
                                              /\ f[i] \in Seq(X)
           S == {m \in 0 .. n : \E f : fits(f, m)}
<1>1. n \in Nat
    OBVIOUS
<1>2. CASE n = 0
    BY <1>2, seqs = <<>> DEF FlattenSeq
<1>3. ASSUME n # 0 PROVE FlattenSeq(seqs) \in Seq(X)
  <2>1. n \in S
    <3> HIDE DEF n
    <3>1. 0 \in S
      <4> DEFINE f == [i \in 1 .. 0 |-> <<>>]
      <4>1. fits(f, 0)
        OBVIOUS
      <4> HIDE DEF f, fits
      <4> QED BY <4>1, <1>1
    <3>2. ASSUME NEW m \in 0 .. n, m \in S, m < n PROVE m + 1 \in S
      <4>1. PICK f : fits(f, m)
        BY <3>2
      <4> DEFINE last == IF m + 1 = 1 THEN seqs[m + 1] ELSE f[m] \o seqs[m + 1]
                 g == [i \in 1 .. m + 1 |-> IF i <= m THEN f[i] ELSE last]
      <4>2. seqs[m + 1] \in Seq(X)
        BY <3>2 DEF n
      <4>3. last \in Seq(X)
        <5>1. CASE m = 0
          BY <4>2, <5>1
        <5>2. CASE m # 0
          <6>1. m \in 1 .. m /\ m + 1 # 1
            BY <5>2
          <6>2. f[m] \in Seq(X)
            BY <4>1, <6>1
          <6> QED BY <4>2, <6>1, <6>2
        <5> QED BY <5>1, <5>2
      <4>4. g = [i \in 1 .. m + 1 |-> g[i]]
        OBVIOUS
      <4>5. ASSUME NEW i \in 1 .. m + 1
            PROVE  /\ g[i] = IF i = 1 THEN seqs[i] ELSE g[i - 1] \o seqs[i]
                   /\ g[i] \in Seq(X)
        <5>1. CASE i <= m
          <6>1. g[i] = f[i] /\ (i # 1 => g[i - 1] = f[i - 1]) /\ i \in 1 .. m
            BY <5>1
          <6> HIDE DEF g, last
          <6> QED BY <4>1, <6>1
        <5>2. CASE i = m + 1
          <6>1. g[i] = last /\ (i # 1 => g[i - 1] = f[m])
            BY <5>2
          <6> HIDE DEF g
          <6> QED BY <4>3, <5>2, <6>1
        <5> QED BY <5>1, <5>2
      <4> HIDE DEF g
      <4>6. fits(g, m + 1)
        BY <4>4, <4>5
      <4> HIDE DEF fits
      <4> QED BY <4>6, <3>2, <1>1
    <3> HIDE DEF S
    <3>3. 0 .. n \subseteq S
      BY <1>1, <3>1, <3>2, UpToN
    <3> QED BY <3>3, <1>1
  <2>2. PICK f : fits(f, n)
    BY <2>1
  <2>3. f = [i \in 1 .. n |-> IF i = 1 THEN seqs[i] ELSE f[i - 1] \o seqs[i]]
    <3>1. ASSUME NEW i \in 1 .. n PROVE f[i] = IF i = 1 THEN seqs[i] ELSE f[i - 1] \o seqs[i]
      BY <2>2
    <3> QED BY <2>2, <3>1
  <2> DEFINE flatten[i \in 1 .. Len(seqs)] ==
                 IF i = 1 THEN seqs[i] ELSE flatten[i - 1] \o seqs[i]
  <2>4. flatten = [i \in 1 .. n |-> IF i = 1 THEN seqs[i] ELSE flatten[i - 1] \o seqs[i]]
    BY <2>3
  <2>5. FlattenSeq(seqs) = flatten[n]
    BY <1>3 DEF FlattenSeq
  <2> HIDE DEF flatten
  <2> DEFINE T == {0} \cup {m \in 1 .. n : flatten[m] \in Seq(X)}
  <2>6. ASSUME NEW m \in 0 .. n, m \in T, m < n PROVE m + 1 \in T
    <3>1. flatten[m + 1] = IF m + 1 = 1 THEN seqs[m + 1] ELSE flatten[m] \o seqs[m + 1]
      <4>1. m + 1 \in 1 .. n /\ (m + 1) - 1 = m
        BY <2>6, <1>1
      <4> HIDE DEF n
      <4> QED BY <2>4, <4>1
    <3>2. seqs[m + 1] \in Seq(X)
      BY <2>6
    <3>3. m = 0 \/ flatten[m] \in Seq(X)
      BY <2>6
    <3>4. flatten[m + 1] \in Seq(X)
      BY <3>1, <3>2, <3>3
    <3> QED BY <3>4, <2>6
  <2>7. 0 \in T
    OBVIOUS
  <2>8. n \in T
    <3> HIDE DEF T
    <3>1. 0 .. n \subseteq T
      BY <1>1, <2>6, <2>7, UpToN
    <3> QED BY <3>1, <1>1
  <2> QED BY <2>5, <2>8, <1>3
<1> QED BY <1>2, <1>3

LEMMA FlattenedOne ==
    ASSUME NEW X, NEW one \in Seq(X)
    PROVE  FlattenSeq([n \in 1 .. 1 |-> one]) = one
<1> DEFINE seqs == [n \in 1 .. 1 |-> one]
<1>1. Len(seqs) = 1
    OBVIOUS
<1> DEFINE f == [i \in 1 .. 1 |-> one]
<1>2. f = [i \in 1 .. Len(seqs) |-> IF i = 1 THEN seqs[i] ELSE f[i - 1] \o seqs[i]]
    BY <1>1
<1> DEFINE flatten[i \in 1 .. Len(seqs)] == IF i = 1 THEN seqs[i] ELSE flatten[i - 1] \o seqs[i]
<1> HIDE DEF f
<1>3. flatten = [i \in 1 .. Len(seqs) |-> IF i = 1 THEN seqs[i] ELSE flatten[i - 1] \o seqs[i]]
    BY <1>2
<1>4. FlattenSeq(seqs) = flatten[Len(seqs)]
    BY <1>1 DEF FlattenSeq
<1> HIDE DEF flatten
<1>5. flatten[1] = seqs[1]
    BY <1>1, <1>3
<1> QED BY <1>1, <1>4, <1>5

-----------------------------------------------------------------------------
(* What one judgement of the records of a poll leaves in quarantine *)

Rec == [kind : Kinds, at : Sources \X Nat]
HeldNow == {None, "new", "kept", "released"}
Verdicts == [held : HeldNow, visible : SUBSET (Sources \X Nat)]

LEMMA JudgeStep ==
    ASSUME NEW acc \in Verdicts, NEW r \in Rec
    PROVE  /\ Judge(acc, r) \in Verdicts
           /\ Judge(acc, r).held = "kept" => acc.held = "kept" /\ r.kind # "clear"
           /\ Judge(acc, r).held = "new" =>
                 r.kind = "stale" \/ (acc.held = "new" /\ r.kind # "clear")
BY DEF Judge, Verdicts, HeldNow, Rec, Kinds, None

(* The last stale record is not followed by a recovery. *)
EndsStale(recs, n) == \E i \in 1 .. n : /\ recs[i].kind = "stale"
                                        /\ \A j \in 1 .. n : j > i => recs[j].kind # "clear"
NoClear(recs, n) == \A i \in 1 .. n : recs[i].kind # "clear"

LEMMA JudgedHeld ==
    ASSUME NEW mature, NEW recs \in Seq(Rec), Quarantined(mature) \in HeldNow
    PROVE  LET got == Judged(mature, recs)
           IN /\ got \in Verdicts
              /\ got.held = "kept" => Quarantined(mature) = "kept" /\ NoClear(recs, Len(recs))
              /\ got.held = "new" =>
                    \/ EndsStale(recs, Len(recs))
                    \/ Quarantined(mature) = "new" /\ NoClear(recs, Len(recs))
<1> DEFINE n == Len(recs)
           start == Quarantined(mature)
<1>1. n \in Nat /\ \A i \in 1 .. n : recs[i] \in Rec
    OBVIOUS
<1>2. PICK f : /\ f[0] = [held |-> start, visible |-> {}]
               /\ \A i \in 1 .. n : f[i] = Judge(f[i - 1], recs[i])
               /\ Judged(mature, recs) = f[n]
    BY JudgedSteps
<1> DEFINE good(m) ==
               /\ f[m] \in Verdicts
               /\ f[m].held = "kept" => start = "kept" /\ NoClear(recs, m)
               /\ f[m].held = "new" => EndsStale(recs, m) \/ (start = "new" /\ NoClear(recs, m))
           S == {m \in 0 .. n : good(m)}
<1> HIDE DEF n, start
<1>3. good(0)
    BY <1>2 DEF Verdicts, NoClear, start
<1>4. ASSUME NEW m \in 0 .. n, good(m), m < n PROVE good(m + 1)
  <2>1. m + 1 \in 1 .. n /\ (m + 1) - 1 = m
    BY <1>1, <1>4
  <2>2. recs[m + 1] \in Rec /\ f[m + 1] = Judge(f[m], recs[m + 1])
    BY <1>1, <1>2, <2>1
  <2>3. /\ f[m + 1] \in Verdicts
        /\ f[m + 1].held = "kept" => f[m].held = "kept" /\ recs[m + 1].kind # "clear"
        /\ f[m + 1].held = "new" =>
              recs[m + 1].kind = "stale" \/ (f[m].held = "new" /\ recs[m + 1].kind # "clear")
    BY <1>4, <2>2, JudgeStep
  <2>4. ASSUME NEW i \in 1 .. m + 1 PROVE i \in 1 .. m \/ i = m + 1
    OBVIOUS
  <2>5. NoClear(recs, m) /\ recs[m + 1].kind # "clear" => NoClear(recs, m + 1)
    BY <2>4 DEF NoClear
  <2>6. EndsStale(recs, m) /\ recs[m + 1].kind # "clear" => EndsStale(recs, m + 1)
    <3> SUFFICES ASSUME EndsStale(recs, m), recs[m + 1].kind # "clear"
                 PROVE  EndsStale(recs, m + 1)
      OBVIOUS
    <3>1. PICK i \in 1 .. m : /\ recs[i].kind = "stale"
                              /\ \A j \in 1 .. m : j > i => recs[j].kind # "clear"
      BY DEF EndsStale
    <3>2. i \in 1 .. m + 1 /\ \A j \in 1 .. m + 1 : j > i => recs[j].kind # "clear"
      BY <2>4, <3>1
    <3> QED BY <3>1, <3>2 DEF EndsStale
  <2>7. recs[m + 1].kind = "stale" => EndsStale(recs, m + 1)
    <3>1. m + 1 \in 1 .. m + 1 /\ \A j \in 1 .. m + 1 : ~ (j > m + 1)
      OBVIOUS
    <3> QED BY <3>1 DEF EndsStale
  <2> QED BY <1>4, <2>3, <2>5, <2>6, <2>7
<1>5. n \in S
  <2>1. 0 \in S /\ \A i \in 0 .. n : i \in S /\ i < n => i + 1 \in S
    <3> HIDE DEF good
    <3> QED BY <1>1, <1>3, <1>4
  <2> HIDE DEF S
  <2>2. 0 .. n \subseteq S
    BY <1>1, <2>1, UpToN
  <2> QED BY <1>1, <2>2
<1> QED BY <1>2, <1>5 DEF n, start

-----------------------------------------------------------------------------
(* Type correctness *)

Marks == Nat \X {"record", "idle", "stale"} \X Nat
Entry == [id : 0 .. MaxFiles, offset : Nat, text : Seq(Rec), np : BOOLEAN]
Cursors == [Sources -> Entry] \cup {<<>>}
Helds == {None, "new", "released"}
SvcRecord == [tok : 0 .. MaxStarts, w : 0 .. MaxStarts, stop : BOOLEAN, exit : BOOLEAN]
Pcs == {"off", "boot", "first", "poll", "observed", "evaluate", "sleep", "ending", "exit"}
Service == [pc : Pcs, cursor : Cursors, held : Helds, news : SUBSET Marks,
            clr : BOOLEAN, rec : SvcRecord \cup {<<>>}]

Typed == /\ log \in [Sources -> [id : 1 .. MaxFiles, base : Nat, recs : Seq(Kinds)]]
         /\ cursor \in Cursors /\ held \in Helds
         /\ serve \in [Services -> Service]
         /\ \A k \in Services : serve[k].pc = "exit" => serve[k].rec \in SvcRecord
         /\ \A k \in Services : serve[k].pc = "observed" => serve[k].cursor \in [Sources -> Entry]
         /\ svc \in SvcRecord /\ stopper \in SvcRecord
         /\ starts \in 0 .. MaxStarts
         /\ starter \in [k : 0 .. starts, up : BOOLEAN] /\ (starter.up => starter.k # 0)
         /\ {again, cleared, claim} \subseteq BOOLEAN

LEMMA Bounds ==
    /\ MaxWrites \in Nat \ {0} /\ MaxFiles \in Nat \ {0} /\ MaxStarts \in Nat \ {0}
    /\ Limit \in Nat \ {0}
    /\ Sources \subseteq Nat /\ Services \subseteq Nat \ {0}
BY BoundAssumption, SourcesAssumption, FS_CardinalityType DEF Services

LEMMA TypedOK == Typed => TypeOK
<1> SUFFICES ASSUME Typed PROVE TypeOK
    OBVIOUS
<1>1. \A s \in Sources : log[s].id \in 1 .. MaxFiles /\ log[s].recs \in Seq(Kinds)
    BY DEF Typed
<1>2. \A k \in Services : serve[k].pc \in {"off", "boot", "ending", "exit"} \/ Running(k)
    BY DEF Typed, Service, Pcs, Running
<1> QED BY <1>1, <1>2 DEF Typed, TypeOK, Helds, SvcRecord

LEMMA OffTyped ==
    ASSUME NEW p \in Pcs
    PROVE  Off \in Service /\ [Off EXCEPT !.pc = p] \in Service
BY DEF Off, Service, Pcs, Cursors, Helds, None

LEMMA PriorTyped ==
    ASSUME Typed, NEW s \in Sources
    PROVE  Prior(s) \in Entry
BY Bounds DEF Typed, Prior, NoEntry, Entry, Cursors

LEMMA TextTyped ==
    ASSUME Typed, NEW s \in Sources, NEW unread
    PROVE  /\ Size(s) \in Nat /\ Old(s) \in Nat /\ From(s) \in Nat
           /\ Changed(s) \in BOOLEAN /\ From(s) >= Old(s)
           /\ Changed(s) => From(s) < Size(s)
           /\ NewText(s) \in Seq(Rec) /\ Len(NewText(s)) = Size(s) - From(s)
           /\ News(s, unread) \in Seq(Rec)
           /\ Text(s, unread) \in Seq(Rec)
<1>1. /\ log[s] \in [id : 1 .. MaxFiles, base : Nat, recs : Seq(Kinds)]
      /\ Prior(s) \in Entry
    BY PriorTyped DEF Typed
<1>2. Size(s) \in Nat /\ Old(s) \in Nat /\ Old(s) <= Size(s)
    BY <1>1 DEF Size, Old, Entry
<1>3. From(s) \in Nat /\ From(s) >= Old(s) /\ From(s) <= Size(s)
    BY <1>2, Bounds DEF From
<1>4. Changed(s) \in BOOLEAN /\ (Changed(s) => From(s) < Size(s))
    BY <1>2, Bounds DEF From, Changed
<1>5. NewText(s) \in Seq(Rec) /\ Len(NewText(s)) = Size(s) - From(s)
  <2>1. ASSUME NEW i \in 1 .. Size(s) - From(s)
        PROVE  [kind |-> log[s].recs[From(s) + i], at |-> <<s, log[s].base + From(s) + i>>] \in Rec
    <3>1. From(s) + i \in 1 .. Len(log[s].recs)
      BY <1>2, <1>3 DEF Size
    <3>2. log[s].recs[From(s) + i] \in Kinds
      BY <1>1, <3>1
    <3> QED BY <1>1, <1>3, <3>2 DEF Rec
  <2>2. Size(s) - From(s) \in Nat
    BY <1>2, <1>3
  <2> QED BY <2>1, <2>2 DEF NewText
<1>6. News(s, unread) \in Seq(Rec) /\ Text(s, unread) \in Seq(Rec)
    BY <1>1, <1>5 DEF News, Text, Entry
<1> QED BY <1>2, <1>3, <1>4, <1>5, <1>6

LEMMA InOrderTyped ==
    ASSUME Typed, NEW unread
    PROVE  AllText(unread) \in Seq(Rec) /\ AllNews(unread) \in Seq(Rec)
<1> DEFINE n == Cardinality(Sources)
<1>1. n \in Nat /\ Sources = 1 .. n
    BY SourcesAssumption, FS_CardinalityType
<1>2. ASSUME NEW f \in [Sources -> Seq(Rec)] PROVE InOrder(f) \in Seq(Rec)
  <2>1. [s \in 1 .. n |-> f[s]] \in Seq(Seq(Rec))
    <3> HIDE DEF n
    <3> QED BY <1>1
  <2>2. FlattenSeq([s \in 1 .. n |-> f[s]]) \in Seq(Rec)
    BY <2>1, FlattenedType
  <2> QED BY <2>2 DEF InOrder
<1>3. /\ [s \in Sources |-> Text(s, unread)] \in [Sources -> Seq(Rec)]
      /\ [s \in Sources |-> News(s, unread)] \in [Sources -> Seq(Rec)]
    BY TextTyped
<1> HIDE DEF n
<1> QED BY <1>2, <1>3 DEF AllText, AllNews

LEMMA InitTyped == Init => Typed
<1> SUFFICES ASSUME Init PROVE Typed
    OBVIOUS
<1>1. serve \in [Services -> Service] /\ \A k \in Services : serve[k].pc = "off"
    BY OffTyped DEF Init, Off, Pcs
<1>2. log \in [Sources -> [id : 1 .. MaxFiles, base : Nat, recs : Seq(Kinds)]]
  <2>1. [id |-> 1, base |-> 0, recs |-> <<>>] \in [id : 1 .. MaxFiles, base : Nat, recs : Seq(Kinds)]
    BY Bounds
  <2> QED BY <2>1 DEF Init
<1>3. svc \in SvcRecord /\ stopper \in SvcRecord
    BY Bounds DEF Init, NoRecord, SvcRecord
<1>4. /\ starts \in 0 .. MaxStarts
      /\ starter \in [k : 0 .. starts, up : BOOLEAN] /\ (starter.up => starter.k # 0)
    BY Bounds DEF Init, NoStart
<1>5. cursor \in Cursors /\ held \in Helds /\ {again, cleared, claim} \subseteq BOOLEAN
    BY DEF Init, Cursors, Helds
<1> QED BY <1>1, <1>2, <1>3, <1>4, <1>5 DEF Typed

LEMMA MarksTyped ==
    ASSUME Typed, NEW unread, NEW visible, NEW idle \in SUBSET Sources
    PROVE  /\ RecordMarks(visible, unread) \subseteq Marks
           /\ IdleMarks(visible, unread, idle) \subseteq Marks
<1>1. ASSUME NEW s \in Sources, NEW r \in ToSet(News(s, unread))
      PROVE  <<s, "record", r.at[2]>> \in Marks
  <2>1. News(s, unread) \in Seq(Rec)
    BY TextTyped
  <2>2. r \in Rec
    BY <2>1 DEF ToSet
  <2>3. r.at[2] \in Nat
    BY <2>2 DEF Rec
  <2> QED BY <2>3, Bounds DEF Marks
<1>2. ASSUME NEW s \in Sources
      PROVE  IdleMark(s, Text(s, unread)) \in Marks
  <2> DEFINE text == Text(s, unread)
  <2>1. text \in Seq(Rec)
    BY TextTyped
  <2> HIDE DEF text
  <2>2. text # <<>> => text[Len(text)] \in Rec
    BY <2>1
  <2>3. text # <<>> => text[Len(text)].at[2] \in Nat
    BY <2>2 DEF Rec
  <2>4. IdleMark(s, text) \in Marks
    BY <2>3, Bounds DEF IdleMark, Marks
  <2> QED BY <2>4 DEF text
<1>3. RecordMarks(visible, unread) \subseteq Marks
  <2> SUFFICES ASSUME NEW m \in RecordMarks(visible, unread) PROVE m \in Marks
    OBVIOUS
  <2>1. PICK s \in Sources : \E r \in ToSet(News(s, unread)) : m = <<s, "record", r.at[2]>>
    BY DEF RecordMarks
  <2> QED BY <1>1, <2>1
<1>4. IdleMarks(visible, unread, idle) \subseteq Marks
    BY <1>2 DEF IdleMarks
<1> QED BY <1>3, <1>4

LEMMA EntryTyped ==
    ASSUME Typed, NEW s \in Sources, NEW idle
    PROVE  NextEntry(s, idle) \in Entry /\ NoEntry \in Entry /\ AtEnd(s) \in Entry
<1>1. Text(s, {}) \in Seq(Rec)
    BY TextTyped
<1>2. Size(s) \in Nat
    BY TextTyped
<1>3. log[s].id \in 0 .. MaxFiles
    BY Bounds DEF Typed
<1> QED BY <1>1, <1>2, <1>3, Bounds DEF NextEntry, Entry, NoEntry, AtEnd

LEMMA ObservedTyped ==
    ASSUME Typed, NEW mature, NEW unread, NEW idle \in SUBSET Sources
    PROVE  /\ Observed(mature, unread, idle) \in Service
           /\ Observed(mature, unread, idle).pc = "observed"
           /\ Observed(mature, unread, idle).cursor \in [Sources -> Entry]
           /\ Judged(mature, AllText(unread)) \in Verdicts
<1> DEFINE got == Judged(mature, AllText(unread))
           next == [s \in Sources |-> IF s \in unread THEN NoEntry ELSE NextEntry(s, idle)]
           clr == Recovers(cleared, AllNews(unread))
           marks == RecordMarks(got.visible, unread) \cup IdleMarks(got.visible, unread, idle)
                       \cup (IF Released(got.held) THEN {Matured} ELSE {})
<1>2. next \in [Sources -> Entry]
    BY EntryTyped
<1>3. got \in Verdicts
  <2>1. AllText(unread) \in Seq(Rec)
    BY InOrderTyped
  <2>2. Quarantined(mature) \in HeldNow
    BY DEF Quarantined, HeldNow, Typed, Helds
  <2> QED BY <2>1, <2>2, JudgedHeld
<1>4. Saved(got.held) \in Helds
  <2> HIDE DEF got
  <2> QED BY <1>3 DEF Saved, Released, Verdicts, HeldNow, Helds
<1>5. marks \in SUBSET Marks
  <2>1. RecordMarks(got.visible, unread) \subseteq Marks /\ IdleMarks(got.visible, unread, idle) \subseteq Marks
    BY MarksTyped
  <2>2. Matured \in Marks
    BY DEF Matured, Marks
  <2> QED BY <2>1, <2>2
<1>6. clr \in BOOLEAN
    BY DEF Recovers, Typed
<1>7. Observed(mature, unread, idle) =
         [pc |-> "observed", cursor |-> next, held |-> Saved(got.held), news |-> marks,
          clr |-> clr, rec |-> <<>>]
    BY DEF Observed
<1> HIDE DEF next, clr, marks
<1>8. [pc |-> "observed", cursor |-> next, held |-> Saved(got.held), news |-> marks,
       clr |-> clr, rec |-> <<>>] \in Service
    BY <1>2, <1>4, <1>5, <1>6 DEF Service, Pcs, Cursors
<1> QED BY <1>2, <1>3, <1>7, <1>8

LEMMA Observes ==
    ASSUME NEW k \in Services, NEW mature, Observe(k, mature)
    PROVE  \E unread \in SUBSET Sources :
              /\ Readable => unread = {}
              /\ \E idle \in SUBSET Sources :
                    /\ \A s \in idle : Idle(s)
                    /\ serve' = [serve EXCEPT ![k] = Observed(mature, unread, idle)]
                    /\ UNCHANGED <<log, cursor, held, svc, starts, claim, starter, stopper,
                                   shown, again, cleared>>
<1>1. PICK unread \in SUBSET (IF Readable THEN {} ELSE Sources) :
          \E idle \in SUBSET {s \in Sources \ unread : Idle(s)} :
             serve' = [serve EXCEPT ![k] = Observed(mature, unread, idle)]
    BY DEF Observe
<1>2. PICK idle \in SUBSET {s \in Sources \ unread : Idle(s)} :
             serve' = [serve EXCEPT ![k] = Observed(mature, unread, idle)]
    BY <1>1
<1>3. UNCHANGED <<log, cursor, held, svc, starts, claim, starter, stopper, shown, again, cleared>>
    BY DEF Observe, disk, service, history
<1> QED BY <1>1, <1>2, <1>3, ModeAssumption

LEMMA TypedServe ==
    ASSUME Typed, NEW k \in Services, NEW v \in Service, serve' = [serve EXCEPT ![k] = v],
           v.pc = "exit" => v.rec \in SvcRecord,
           v.pc = "observed" => v.cursor \in [Sources -> Entry]
    PROVE  /\ serve' \in [Services -> Service]
           /\ \A j \in Services : serve'[j].pc = "exit" => serve'[j].rec \in SvcRecord
           /\ \A j \in Services : serve'[j].pc = "observed" => serve'[j].cursor \in [Sources -> Entry]
<1>1. serve \in [Services -> Service]
    BY DEF Typed
<1>2. serve'[k] = v /\ \A j \in Services : j # k => serve'[j] = serve[j]
    BY <1>1
<1>3. serve' \in [Services -> Service]
    BY <1>1
<1>4. /\ \A j \in Services : serve[j].pc = "exit" => serve[j].rec \in SvcRecord
      /\ \A j \in Services : serve[j].pc = "observed" => serve[j].cursor \in [Sources -> Entry]
    BY DEF Typed
<1> QED BY <1>2, <1>3, <1>4

(* A service goes on without a poll of its own: what it holds stays. *)
LEMMA GotoTyped ==
    ASSUME Typed, NEW k \in Services, NEW p \in Pcs \ {"exit", "observed"}, Goto(k, p)
    PROVE  /\ serve' \in [Services -> Service]
           /\ \A j \in Services : serve'[j].pc = "exit" => serve'[j].rec \in SvcRecord
           /\ \A j \in Services : serve'[j].pc = "observed" => serve'[j].cursor \in [Sources -> Entry]
<1> DEFINE v == [serve[k] EXCEPT !.pc = p]
<1>1. serve[k] \in Service
    BY DEF Typed
<1>2. v \in Service /\ v.pc = p
    BY <1>1 DEF Service
<1>3. serve' = [serve EXCEPT ![k] = v]
    BY DEF Goto
<1> HIDE DEF v
<1> QED BY <1>2, <1>3, TypedServe

LEMMA OffTypedServe ==
    ASSUME Typed, NEW k \in Services, NEW p \in Pcs \ {"exit", "observed"},
           serve' = [serve EXCEPT ![k] = [Off EXCEPT !.pc = p]] \/ serve' = [serve EXCEPT ![k] = Off]
    PROVE  /\ serve' \in [Services -> Service]
           /\ \A j \in Services : serve'[j].pc = "exit" => serve'[j].rec \in SvcRecord
           /\ \A j \in Services : serve'[j].pc = "observed" => serve'[j].cursor \in [Sources -> Entry]
<1> DEFINE v == [Off EXCEPT !.pc = p]
<1>1. v \in Service /\ v.pc = p /\ Off \in Service /\ Off.pc = "off"
    BY OffTyped DEF Off
<1> HIDE DEF v
<1>2. CASE serve' = [serve EXCEPT ![k] = v]
    BY <1>1, <1>2, TypedServe
<1>3. CASE serve' = [serve EXCEPT ![k] = Off]
    BY <1>1, <1>3, TypedServe
<1> QED BY <1>2, <1>3 DEF v

LEMMA LogTyped ==
    ASSUME Typed, NEW s \in Sources, Rotate(s) \/ \E kind \in Kinds : Write(s, kind)
    PROVE  Typed'
<1> DEFINE Log == [id : 1 .. MaxFiles, base : Nat, recs : Seq(Kinds)]
<1>1. log \in [Sources -> Log] /\ log[s] \in Log
    BY DEF Typed
<1>2. log' \in [Sources -> Log]
  <2>1. CASE Rotate(s)
    <3> DEFINE v == [id |-> log[s].id + 1, base |-> log[s].base + Len(log[s].recs), recs |-> <<>>]
    <3>1. v \in Log
      BY <1>1, <2>1, Bounds DEF Rotate
    <3>2. log' = [log EXCEPT ![s] = v]
      BY <2>1 DEF Rotate
    <3> HIDE DEF v
    <3> QED BY <1>1, <3>1, <3>2
  <2>2. ASSUME NEW kind \in Kinds, Write(s, kind) PROVE log' \in [Sources -> Log]
    <3> DEFINE v == [log[s] EXCEPT !.recs = Append(@, kind)]
    <3>1. v \in Log
      <4>1. Append(log[s].recs, kind) \in Seq(Kinds)
        BY <1>1
      <4> QED BY <1>1, <4>1
    <3>2. log' = [log EXCEPT ![s] = v]
      BY <2>2 DEF Write
    <3> HIDE DEF v
    <3> QED BY <1>1, <3>1, <3>2
  <2> QED BY <2>1, <2>2
<1>3. UNCHANGED <<disk, serve, service, history>>
    BY DEF Rotate, Write
<1> QED BY <1>2, <1>3 DEF Typed, disk, service, history

LEMMA CommandTyped ==
    ASSUME Typed,
           StartClaims \/ StartSpawns \/ StartSees \/ StartFails \/ StartDies \/ StopReads \/ StopWrites
    PROVE  Typed'
<1> USE Bounds
<1>1. svc \in SvcRecord /\ stopper \in SvcRecord /\ starts \in 0 .. MaxStarts
      /\ starter \in [k : 0 .. starts, up : BOOLEAN] /\ (starter.up => starter.k # 0)
      /\ starter.k \in 0 .. MaxStarts /\ (starter.k # 0 => starter.k \in Services)
    BY DEF Typed, Services
<1>2. CASE StartClaims
  <2>1. starts' \in 0 .. MaxStarts /\ starter' \in [k : 0 .. starts', up : BOOLEAN] /\ ~starter'.up
    BY <1>1, <1>2 DEF StartClaims
  <2> QED BY <1>2, <2>1 DEF StartClaims, Typed, disk, service, history
<1>3. CASE StartSpawns
  <2>1. svc' \in SvcRecord
    <3>1. svc' = [tok |-> starter.k, w |-> 0, stop |-> FALSE, exit |-> FALSE]
      BY <1>3 DEF StartSpawns, NoRecord
    <3> QED BY <1>1, <3>1 DEF SvcRecord
  <2>2. starter' \in [k : 0 .. starts, up : BOOLEAN] /\ starter'.k # 0
    BY <1>1, <1>3 DEF StartSpawns
  <2>3. /\ serve' \in [Services -> Service]
        /\ \A j \in Services : serve'[j].pc = "exit" => serve'[j].rec \in SvcRecord
        /\ \A j \in Services : serve'[j].pc = "observed" => serve'[j].cursor \in [Sources -> Entry]
    <3>1. "boot" \in Pcs \ {"exit", "observed"} /\ starter.k \in Services /\ Goto(starter.k, "boot")
      BY <1>1, <1>3 DEF StartSpawns, Pcs
    <3> QED BY <3>1, GotoTyped
  <2> QED BY <1>3, <2>1, <2>2, <2>3 DEF StartSpawns, Typed, disk, service, history
<1>4. CASE StartSees
  <2>1. starter' \in [k : 0 .. starts, up : BOOLEAN] /\ ~starter'.up
    BY <1>1, <1>4 DEF StartSees, NoStart
  <2> QED BY <1>4, <2>1 DEF StartSees, Typed, disk, service, history
<1>5. CASE StartFails
  <2>1. starter' \in [k : 0 .. starts, up : BOOLEAN] /\ ~starter'.up
    BY <1>1, <1>5 DEF StartFails, NoStart
  <2>2. /\ serve' \in [Services -> Service]
        /\ \A j \in Services : serve'[j].pc = "exit" => serve'[j].rec \in SvcRecord
        /\ \A j \in Services : serve'[j].pc = "observed" => serve'[j].cursor \in [Sources -> Entry]
    <3>1. "off" \in Pcs \ {"exit", "observed"} /\ starter.k \in Services
      BY <1>1, <1>5 DEF StartFails, Pcs
    <3>2. serve' = [serve EXCEPT ![starter.k] = Off]
      BY <1>5 DEF StartFails
    <3> QED BY <3>1, <3>2, OffTypedServe
  <2> QED BY <1>5, <2>1, <2>2 DEF StartFails, Typed, disk, service, history
<1>6. CASE StartDies
  <2>1. starter' \in [k : 0 .. starts, up : BOOLEAN] /\ ~starter'.up
    BY <1>1, <1>6 DEF StartDies, NoStart
  <2> QED BY <1>6, <2>1 DEF StartDies, Typed, disk, service, history
<1>7. CASE StopReads
    BY <1>1, <1>7 DEF StopReads, Typed, disk, service, history
<1>8. CASE StopWrites
  <2>1. svc' \in SvcRecord
    BY <1>1, <1>8 DEF StopWrites, SvcRecord
  <2>2. stopper' \in SvcRecord
    BY <1>8 DEF StopWrites, NoRecord, SvcRecord
  <2> QED BY <1>8, <2>1, <2>2 DEF StopWrites, Typed, disk, service, history
<1> QED BY <1>2, <1>3, <1>4, <1>5, <1>6, <1>7, <1>8

LEMMA ServeTyped ==
    ASSUME Typed, NEW k \in Services, Serves(k) \/ BootFails(k) \/ OwnerLost(k) \/ Dies(k)
    PROVE  Typed'
<1> DEFINE Ok == /\ serve' \in [Services -> Service]
                 /\ \A j \in Services : serve'[j].pc = "exit" => serve'[j].rec \in SvcRecord
                 /\ \A j \in Services : serve'[j].pc = "observed" => serve'[j].cursor \in [Sources -> Entry]
<1>0. /\ serve[k] \in Service /\ k \in 0 .. MaxStarts /\ svc \in SvcRecord
      /\ \A p \in {"first", "poll", "ending", "sleep", "off"} : p \in Pcs \ {"exit", "observed"}
    BY Bounds DEF Typed, Services, Pcs
<1>1. CASE Boot(k)
  <2>1. Ok
    BY <1>0, <1>1, GotoTyped DEF Boot
  <2>2. svc' \in SvcRecord
    BY <1>0, <1>1 DEF Boot, SvcRecord
  <2>3. cursor' \in Cursors
    <3>1. [s \in Sources |-> AtEnd(s)] \in [Sources -> Entry]
      BY EntryTyped
    <3> QED BY <1>1, <3>1 DEF Boot, Typed, Cursors
  <2> QED BY <1>1, <2>1, <2>2, <2>3 DEF Boot, Typed, history
<1>2. ASSUME NEW mature \in BOOLEAN, Observe(k, mature) PROVE Typed'
  <2>1. PICK unread \in SUBSET Sources, idle \in SUBSET Sources :
           /\ serve' = [serve EXCEPT ![k] = Observed(mature, unread, idle)]
           /\ UNCHANGED <<log, cursor, held, svc, starts, claim, starter, stopper, shown, again, cleared>>
    BY <1>2, Observes
  <2>2. Ok
    <3>1. /\ Observed(mature, unread, idle) \in Service
          /\ Observed(mature, unread, idle).pc = "observed"
          /\ Observed(mature, unread, idle).cursor \in [Sources -> Entry]
      BY ObservedTyped
    <3>2. serve' = [serve EXCEPT ![k] = Observed(mature, unread, idle)]
      BY <2>1
    <3> QED BY <3>1, <3>2, TypedServe
  <2> QED BY <2>1, <2>2 DEF Typed
<1>3. CASE FirstPoll(k) \/ Poll(k)
    BY <1>2, <1>3 DEF FirstPoll, Poll
<1>4. CASE SaveCursor(k)
  <2> DEFINE v == [Off EXCEPT !.pc = IF serve[k].news = {} THEN "sleep" ELSE "evaluate",
                              !.news = serve[k].news]
  <2>1. v \in Service /\ v.pc \notin {"exit", "observed"}
    <3>1. serve[k].news \in SUBSET Marks
      BY <1>0 DEF Service
    <3> QED BY <3>1 DEF Off, Service, Pcs, Cursors, Helds, None
  <2>2. serve' = [serve EXCEPT ![k] = v]
    BY <1>4 DEF SaveCursor
  <2>3. cursor' \in Cursors /\ held' \in Helds /\ cleared' \in BOOLEAN
    BY <1>0, <1>4 DEF SaveCursor, Service
  <2> HIDE DEF v
  <2>4. Ok
    BY <2>1, <2>2, TypedServe
  <2> QED BY <1>4, <2>3, <2>4 DEF SaveCursor, Typed, service
<1>5. CASE Evaluate(k)
  <2>1. PICK p \in {"sleep", "ending"} : serve' = [serve EXCEPT ![k] = [Off EXCEPT !.pc = p]]
    BY <1>5 DEF Evaluate
  <2>2. Ok
    BY <1>0, <2>1, OffTypedServe
  <2>3. again' \in BOOLEAN
    BY <1>5 DEF Evaluate, Typed
  <2>4. UNCHANGED <<log, disk, service, cleared>>
    BY <1>5 DEF Evaluate
  <2> QED BY <2>2, <2>3, <2>4 DEF Typed, disk, service
<1>6. CASE Wakes(k)
  <2>1. Ok
    BY <1>0, <1>6, GotoTyped DEF Wakes
  <2> QED BY <1>6, <2>1 DEF Wakes, Typed, disk, service, history
<1>7. CASE Terminal(k)
  <2> DEFINE v == [Off EXCEPT !.pc = "exit", !.rec = svc]
  <2>1. v \in Service /\ v.rec = svc /\ v.pc = "exit"
    BY <1>0 DEF Off, Service, Pcs, Cursors, Helds, None
  <2>2. serve' = [serve EXCEPT ![k] = v] \/ serve' = [serve EXCEPT ![k] = Off]
    BY <1>7 DEF Terminal
  <2> HIDE DEF v
  <2>3. Ok
    <3>1. CASE serve' = [serve EXCEPT ![k] = v]
      BY <1>0, <2>1, <3>1, TypedServe
    <3>2. CASE serve' = [serve EXCEPT ![k] = Off]
      BY <1>0, <3>2, OffTypedServe
    <3> QED BY <2>2, <3>1, <3>2
  <2> QED BY <1>7, <2>3 DEF Terminal, Typed, disk, service, history
<1>8. CASE TerminalWrites(k)
  <2>1. Ok
    BY <1>0, <1>8, OffTypedServe DEF TerminalWrites
  <2>2. svc' \in SvcRecord
    <3>1. serve[k].rec \in SvcRecord
      BY <1>8 DEF TerminalWrites, Typed
    <3> QED BY <1>8, <3>1 DEF TerminalWrites, SvcRecord
  <2> QED BY <1>8, <2>1, <2>2 DEF TerminalWrites, Typed, disk, history
<1>9. CASE BootFails(k) \/ OwnerLost(k) \/ Dies(k)
  <2>1. Ok
    BY <1>0, <1>9, OffTypedServe DEF BootFails, OwnerLost, Dies, Ends
  <2> QED BY <1>9, <2>1 DEF BootFails, OwnerLost, Dies, Typed, disk, service, history
<1> QED BY <1>1, <1>3, <1>4, <1>5, <1>6, <1>7, <1>8, <1>9 DEF Serves

LEMMA NextTyped == Typed /\ [Next]_vars => Typed'
<1> SUFFICES ASSUME Typed, [Next]_vars PROVE Typed'
    OBVIOUS
<1>1. CASE UNCHANGED vars
    BY <1>1 DEF Typed, vars, disk, service, history
<1>2. CASE Next
    BY <1>2, LogTyped, CommandTyped, ServeTyped DEF Next
<1> QED BY <1>1, <1>2

(* The service record, the cursor and the processes of the watcher have their *)
(* types in every state, for every bound and every number of sources          *)
(* (__main__.py, poller.py).                                                  *)
THEOREM WatcherTypeCorrect == Spec => []TypeOK
<1>1. Spec => []Typed
    BY InitTyped, NextTyped, PTL DEF Spec
<1> QED BY <1>1, TypedOK, PTL

-----------------------------------------------------------------------------
(* One service at a time *)

ServiceInv ==
    /\ \A k \in Services : Alive(k) => svc.tok = k /\ (svc.w = k \/ (svc.w = 0 /\ claim))
    /\ \A k \in Services : serve[k].pc = "exit" => serve[k].rec.tok = k /\ serve[k].rec.w = svc.w
    /\ starter.k # 0 => claim /\ stopper = NoRecord
    /\ starter.k = 0 => starter = NoStart
    /\ starter.up => svc.tok = starter.k
    /\ starter.k # 0 /\ ~starter.up => \A k \in Services : ~Alive(k)
    /\ stopper # NoRecord => stopper.tok = svc.tok /\ stopper.w = svc.w /\ svc.w # 0

LEMMA OneAlive ==
    ASSUME ServiceInv, NEW j \in Services, NEW k \in Services, Alive(j), Alive(k)
    PROVE  j = k
BY DEF ServiceInv

LEMMA InitService == Init => ServiceInv
BY DEF Init, ServiceInv, Alive, Off, NoRecord, NoStart

(* What the services and their record are is all that ServiceInv is about. *)
LEMMA ServiceStutters ==
    ASSUME ServiceInv, UNCHANGED service,
           \A k \in Services : /\ Alive(k)' => Alive(k)
                               /\ serve'[k].pc = "exit" => serve[k].pc = "exit" /\ serve'[k].rec = serve[k].rec
    PROVE  ServiceInv'
BY DEF ServiceInv, service, Alive

LEMMA CommandsOneService ==
    ASSUME Typed, ServiceInv, Patient = TRUE,
           StartClaims \/ StartSpawns \/ StartSees \/ StartFails \/ StartDies \/ StopReads \/ StopWrites
    PROVE  ServiceInv'
<1>0. /\ svc \in SvcRecord /\ stopper \in SvcRecord /\ starts \in 0 .. MaxStarts
      /\ starter \in [k : 0 .. starts, up : BOOLEAN] /\ (starter.up => starter.k # 0)
      /\ (starter.k # 0 => starter.k \in Services) /\ serve \in [Services -> Service]
      /\ svc.w # 0 => svc.w \in Services
    BY Bounds DEF Typed, Services, SvcRecord
<1>1. CASE StartClaims
  <2>1. UNCHANGED <<serve, svc, stopper>> /\ stopper = NoRecord /\ claim' = TRUE
        /\ starter' = [k |-> starts + 1, up |-> FALSE] /\ ~claim /\ ~Alive(svc.w)
    BY <1>1 DEF StartClaims, Waits, Startable
  <2>2. \A k \in Services : ~Alive(k)
    BY <2>1 DEF ServiceInv
  <2>3. \A k \in Services : ~Alive(k)'
    BY <2>1, <2>2 DEF Alive
  <2>4. \A k \in Services : serve'[k].pc # "exit"
    BY <2>3, Bounds DEF Alive
  <2>5. starter'.k = starts + 1 /\ ~starter'.up /\ starts + 1 # 0
    BY <1>0, <2>1
  <2> QED BY <2>1, <2>3, <2>4, <2>5 DEF ServiceInv
<1>2. CASE StartSpawns
  <2> DEFINE k == starter.k
  <2>1. k \in Services /\ k # 0 /\ ~starter.up /\ claim /\ stopper = NoRecord
        /\ \A j \in Services : ~Alive(j)
    BY <1>0, <1>2 DEF StartSpawns, ServiceInv
  <2>2. svc' = [tok |-> k, w |-> 0, stop |-> FALSE, exit |-> FALSE]
    BY <1>2 DEF StartSpawns, NoRecord
  <2>3. UNCHANGED <<claim, stopper>> /\ starter' = [k |-> k, up |-> TRUE]
    BY <1>0, <1>2 DEF StartSpawns
  <2>4. serve'[k].pc = "boot" /\ \A j \in Services : j # k => serve'[j] = serve[j]
    BY <1>0, <1>2 DEF StartSpawns, Goto, Service
  <2>5. \A j \in Services : Alive(j)' => j = k
    BY <2>1, <2>4 DEF Alive
  <2>6. \A j \in Services : serve'[j].pc # "exit"
    BY <2>4, <2>5, Bounds DEF Alive
  <2> HIDE DEF k
  <2> QED BY <2>1, <2>2, <2>3, <2>5, <2>6 DEF ServiceInv
<1>3. CASE StartSees
  <2>1. UNCHANGED <<serve, svc, stopper>> /\ starter' = NoStart /\ claim' = FALSE
        /\ svc.tok = starter.k /\ svc.w = starter.k /\ Alive(starter.k)
    BY <1>3 DEF StartSees
  <2>2. \A k \in Services : Alive(k) => svc.w = k
    BY <2>1 DEF ServiceInv
  <2> QED BY <2>1, <2>2 DEF ServiceInv, Alive, NoStart
<1>4. CASE StartFails
  <2>1. UNCHANGED <<svc, stopper>> /\ starter' = NoStart /\ claim' = FALSE /\ svc.tok = starter.k
        /\ starter.k \in Services
    BY <1>0, <1>4 DEF StartFails, ServiceInv
  <2>2. serve'[starter.k] = Off /\ \A j \in Services : j # starter.k => serve'[j] = serve[j]
    BY <1>0, <1>4 DEF StartFails
  <2>3. \A k \in Services : ~Alive(k)' /\ serve'[k].pc = "off"
    <3>1. \A k \in Services : Alive(k) => k = starter.k
      BY <2>1 DEF ServiceInv
    <3> QED BY <2>2, <3>1, Bounds DEF Alive, Off
  <2>4. stopper # NoRecord => stopper.tok = svc.tok /\ stopper.w = svc.w /\ svc.w # 0
    BY DEF ServiceInv
  <2> QED BY <2>1, <2>3, <2>4 DEF ServiceInv, NoStart
<1>5. CASE StartDies
  <2>1. UNCHANGED <<serve, svc, stopper, claim>> /\ starter' = NoStart
    BY <1>5 DEF StartDies
  <2> QED BY <2>1 DEF ServiceInv, Alive, NoStart
<1>6. CASE StopReads
  <2>1. UNCHANGED <<serve, svc, starter, claim>> /\ stopper' = svc /\ starter = NoStart /\ Alive(svc.w)
    BY <1>6 DEF StopReads
  <2> QED BY <2>1 DEF ServiceInv, Alive, NoStart
<1>7. CASE StopWrites
  <2>1. UNCHANGED <<serve, starter, claim>> /\ stopper' = NoRecord /\ stopper # NoRecord
        /\ svc' = [stopper EXCEPT !.stop = TRUE]
    BY <1>7 DEF StopWrites
  <2>2. svc'.tok = svc.tok /\ svc'.w = svc.w
    BY <1>0, <2>1 DEF ServiceInv, SvcRecord
  <2> QED BY <2>1, <2>2 DEF ServiceInv, Alive
<1> QED BY <1>1, <1>2, <1>3, <1>4, <1>5, <1>6, <1>7

LEMMA ServesOneService ==
    ASSUME Typed, ServiceInv, NEW k \in Services,
           Serves(k) \/ BootFails(k) \/ OwnerLost(k) \/ Dies(k)
    PROVE  ServiceInv'
<1>0. svc \in SvcRecord /\ serve \in [Services -> Service] /\ k # 0
    BY Bounds DEF Typed
(* A step that leaves service.json alone keeps the service, or ends it. *)
<1>1. ASSUME NEW v, serve' = [serve EXCEPT ![k] = v], v.pc # "exit", serve[k].pc # "off",
             UNCHANGED service
      PROVE  ServiceInv'
  <2>1. serve'[k] = v /\ \A j \in Services : j # k => serve'[j] = serve[j]
    BY <1>0, <1>1
  <2>2. \A j \in Services : Alive(j)' => Alive(j)
    BY <1>0, <1>1, <2>1 DEF Alive
  <2>3. \A j \in Services : serve'[j].pc = "exit" => serve[j].pc = "exit" /\ serve'[j].rec = serve[j].rec
    BY <1>1, <2>1
  <2> QED BY <1>1, <2>2, <2>3, ServiceStutters
<1>2. CASE Boot(k)
  <2>1. Alive(k) /\ svc.tok = k /\ UNCHANGED <<claim, starter, stopper>> /\ svc' = [svc EXCEPT !.w = k]
    BY <1>0, <1>2 DEF Boot, Alive
  <2>2. svc.w = k \/ (svc.w = 0 /\ claim)
    BY <2>1 DEF ServiceInv
  <2>3. svc'.tok = k /\ svc'.w = k
    BY <1>0, <2>1 DEF SvcRecord
  <2>4. serve'[k].pc = "first" /\ \A j \in Services : j # k => serve'[j] = serve[j]
    BY <1>0, <1>2 DEF Boot, Goto, Service
  <2>5. \A j \in Services : Alive(j) => j = k
    BY <2>1, OneAlive
  <2>6. \A j \in Services : Alive(j)' => j = k
    BY <2>4, <2>5 DEF Alive
  <2>7. \A j \in Services : serve'[j].pc # "exit"
    BY <2>4, <2>6, Bounds DEF Alive
  <2>8. stopper # NoRecord => stopper.tok = k /\ stopper.w = k
    BY <2>1, <2>2 DEF ServiceInv
  <2>9. starter.k # 0 /\ ~starter.up => FALSE
    BY <2>1 DEF ServiceInv
  <2> QED BY <1>0, <2>1, <2>3, <2>6, <2>7, <2>8, <2>9 DEF ServiceInv
<1>3. ASSUME NEW mature, Observe(k, mature), serve[k].pc # "off" PROVE ServiceInv'
  <2>1. PICK unread \in SUBSET Sources, idle \in SUBSET Sources :
           serve' = [serve EXCEPT ![k] = Observed(mature, unread, idle)]
    BY <1>3, Observes
  <2>2. Observed(mature, unread, idle).pc # "exit"
    BY ObservedTyped
  <2> QED BY <1>1, <1>3, <2>1, <2>2 DEF Observe
<1>4. CASE FirstPoll(k) \/ Poll(k)
    BY <1>3, <1>4 DEF FirstPoll, Poll
<1>5. CASE SaveCursor(k)
  <2> DEFINE v == [Off EXCEPT !.pc = IF serve[k].news = {} THEN "sleep" ELSE "evaluate",
                              !.news = serve[k].news]
  <2>1. serve' = [serve EXCEPT ![k] = v] /\ UNCHANGED service /\ serve[k].pc # "off"
    BY <1>5 DEF SaveCursor
  <2>2. v.pc # "exit"
    BY DEF Off
  <2> HIDE DEF v
  <2> QED BY <1>1, <2>1, <2>2
<1>6. CASE Evaluate(k)
  <2>1. PICK p \in {"sleep", "ending"} : serve' = [serve EXCEPT ![k] = [Off EXCEPT !.pc = p]]
    BY <1>6 DEF Evaluate
  <2>2. [Off EXCEPT !.pc = p].pc # "exit" /\ UNCHANGED service /\ serve[k].pc # "off"
    BY <1>6 DEF Off, Evaluate
  <2> QED BY <1>1, <2>1, <2>2
<1>7. CASE Wakes(k)
  <2> DEFINE v == [serve[k] EXCEPT !.pc = IF svc.stop THEN "ending" ELSE "poll"]
  <2>1. serve' = [serve EXCEPT ![k] = v] /\ UNCHANGED service /\ serve[k].pc # "off"
    BY <1>7 DEF Wakes, Goto
  <2>2. v.pc # "exit"
    BY <1>0 DEF Service
  <2> HIDE DEF v
  <2> QED BY <1>1, <2>1, <2>2
<1>8. CASE Terminal(k)
  <2>1. CASE svc.tok = k
    <3> DEFINE v == [Off EXCEPT !.pc = "exit", !.rec = svc]
    <3>1. serve' = [serve EXCEPT ![k] = v] /\ UNCHANGED service /\ serve[k].pc = "ending"
      BY <1>8, <2>1 DEF Terminal
    <3>2. v.rec = svc
      BY DEF Off
    <3> HIDE DEF v
    <3>3. serve'[k].rec = svc /\ \A j \in Services : j # k => serve'[j] = serve[j]
      BY <1>0, <3>1, <3>2
    <3>4. \A j \in Services : Alive(j)' => Alive(j)
      BY <1>0, <3>1, <3>3 DEF Alive
    <3> QED BY <2>1, <3>1, <3>3, <3>4 DEF ServiceInv, service
  <2>2. CASE svc.tok # k
    <3>1. serve' = [serve EXCEPT ![k] = Off] /\ UNCHANGED service /\ serve[k].pc # "off"
      BY <1>8, <2>2 DEF Terminal
    <3>2. Off.pc # "exit"
      BY DEF Off
    <3> QED BY <1>1, <3>1, <3>2
  <2> QED BY <2>1, <2>2
<1>9. CASE TerminalWrites(k)
  <2>1. serve[k].rec \in SvcRecord /\ serve[k].rec.tok = k /\ serve[k].rec.w = svc.w /\ Alive(k)
    BY <1>0, <1>9 DEF TerminalWrites, ServiceInv, Typed, Alive
  <2>2. svc.tok = k
    BY <2>1 DEF ServiceInv
  <2>3. svc' = [serve[k].rec EXCEPT !.exit = TRUE] /\ UNCHANGED <<claim, starter, stopper>>
    BY <1>9 DEF TerminalWrites
  <2>4. svc'.tok = svc.tok /\ svc'.w = svc.w
    BY <2>1, <2>2, <2>3 DEF SvcRecord
  <2>5. serve'[k].pc = "off" /\ \A j \in Services : j # k => serve'[j] = serve[j]
    BY <1>0, <1>9 DEF TerminalWrites, Off
  <2>6. \A j \in Services : Alive(j)' => Alive(j)
    BY <2>5 DEF Alive
  <2> QED BY <2>3, <2>4, <2>5, <2>6 DEF ServiceInv
<1>10. CASE BootFails(k) \/ OwnerLost(k) \/ Dies(k)
  <2>1. PICK v \in {Off, [Off EXCEPT !.pc = "ending"]} : serve' = [serve EXCEPT ![k] = v]
    BY <1>10 DEF BootFails, OwnerLost, Dies, Ends
  <2>2. v.pc # "exit" /\ serve[k].pc # "off" /\ UNCHANGED service
    BY <1>10 DEF Off, BootFails, OwnerLost, Dies, Alive
  <2> QED BY <1>1, <2>1, <2>2
<1> QED BY <1>2, <1>4, <1>5, <1>6, <1>7, <1>8, <1>9, <1>10 DEF Serves

LEMMA NextService ==
    ASSUME Typed, ServiceInv, Patient = TRUE, [Next]_vars
    PROVE  ServiceInv'
<1>1. CASE UNCHANGED vars
    BY <1>1 DEF ServiceInv, vars, service, Alive
<1>2. ASSUME NEW s \in Sources, Rotate(s) \/ \E kind \in Kinds : Write(s, kind)
      PROVE  ServiceInv'
  <2>1. UNCHANGED <<serve, service>>
    BY <1>2 DEF Rotate, Write
  <2> QED BY <2>1 DEF ServiceInv, service, Alive
<1>3. CASE Next
    BY <1>2, <1>3, CommandsOneService, ServesOneService DEF Next
<1> QED BY <1>1, <1>3

(* SPEC.md: the service commands run one watcher.  As long as the operator    *)
(* runs one command at a time, and starts again only when the service that    *)
(* was asked to stop has ended, no two services serve at once: for any number *)
(* of sources, starts and crashes (__main__.py, start, stop and serve).       *)
THEOREM OneServiceHolds == Patient = TRUE => (Spec => []OneService)
<1> SUFFICES ASSUME Patient = TRUE PROVE Spec => []OneService
    OBVIOUS
<1>1. Init => Typed /\ ServiceInv
    BY InitTyped, InitService
<1>2. Typed /\ ServiceInv /\ [Next]_vars => (Typed /\ ServiceInv)'
    BY NextTyped, NextService
<1>3. ServiceInv => OneService
  <2>1. ASSUME NEW k \in Services, Running(k) PROVE Alive(k)
    BY <2>1, Bounds DEF Running, Alive
  <2> QED BY <2>1, OneAlive DEF OneService
<1> QED BY <1>1, <1>2, <1>3, PTL DEF Spec

-----------------------------------------------------------------------------
(* Nothing is shown twice *)

LEMMA MaxOf ==
    ASSUME NEW M \in SUBSET Nat, NEW x \in Nat, NEW b \in Nat, x <= b, \A m \in M : m <= b
    PROVE  /\ Max({x} \cup M) \in Nat
           /\ Max({x} \cup M) <= b
           /\ M = {} => Max({x} \cup M) = x
<1> DEFINE S == {x} \cup M
           T == {b - m : m \in S}
<1>1. T \subseteq Nat /\ T # {}
    OBVIOUS
<1>2. PICK t \in T : \A u \in T : t <= u
    BY <1>1, Least
<1>3. PICK m \in S : t = b - m
    BY <1>2
<1>4. ASSUME NEW n \in S PROVE m >= n
  <2>1. b - n \in T
    OBVIOUS
  <2>2. b - m <= b - n
    BY <1>2, <1>3, <2>1
  <2> QED BY <2>2
<1>5. Max(S) \in S
  <2> HIDE DEF S
  <2> QED BY <1>4 DEF Max
<1> QED BY <1>5

(* The place of an entry of the cursor in the history of its source. *)
Log == [id : 1 .. MaxFiles, base : Nat, recs : Seq(Kinds)]
Pos(l, e) == IF e.id = l.id THEN l.base + e.offset ELSE l.base
LastPos(text) == IF text = <<>> THEN 0 ELSE text[Len(text)].at[2]

EntryOk(l, e) == /\ e.id <= l.id
                 /\ e.id = l.id => e.offset <= Len(l.recs)
                 /\ LastPos(e.text) <= Pos(l, e)
(* What was shown of the source: no record after the place, the idle mark of  *)
(* the text at most once.                                                      *)
ShownOk(records, idles, l, e) == /\ records <= Pos(l, e)
                                 /\ idles <= LastPos(e.text)
                                 /\ ~e.np => idles < LastPos(e.text)
NewsOk(s, records, idles, l, e, news) ==
    /\ \A n \in news : n[1] = s /\ n[2] = "record" => records < n[3] /\ n[3] <= Pos(l, e)
    /\ \A n \in news : n[1] = s /\ n[2] = "idle" => idles < n[3] /\ n[3] = LastPos(e.text) /\ e.np

ShownInv ==
    /\ shown \in [Sources \X {"record", "idle"} -> Nat]
    /\ ~again
    /\ \A s \in Sources :
          /\ EntryOk(log[s], Prior(s))
          /\ ShownOk(shown[<<s, "record">>], shown[<<s, "idle">>], log[s], Prior(s))
    /\ \A k \in Services, s \in Sources : serve[k].pc = "observed" =>
          /\ EntryOk(log[s], serve[k].cursor[s])
          /\ ShownOk(shown[<<s, "record">>], shown[<<s, "idle">>], log[s], serve[k].cursor[s])
          /\ NewsOk(s, shown[<<s, "record">>], shown[<<s, "idle">>], log[s], serve[k].cursor[s], serve[k].news)
    /\ \A k \in Services, s \in Sources : serve[k].pc = "evaluate" =>
          NewsOk(s, shown[<<s, "record">>], shown[<<s, "idle">>], log[s], Prior(s), serve[k].news)

LEMMA LastPosTyped ==
    ASSUME NEW text \in Seq(Rec)
    PROVE  LastPos(text) \in Nat
<1>1. text # <<>> => text[Len(text)] \in Rec
    OBVIOUS
<1> QED BY <1>1 DEF LastPos, Rec

LEMMA PosTyped ==
    ASSUME NEW l \in Log, NEW e \in Entry
    PROVE  Pos(l, e) \in Nat /\ LastPos(e.text) \in Nat
BY LastPosTyped DEF Pos, Log, Entry

(* A source that grows, or that another file takes over, moves no place back. *)
LEMMA LogGrows ==
    ASSUME NEW l \in Log, NEW m \in Log, NEW e \in Entry, EntryOk(l, e),
           \/ m.id = l.id /\ m.base = l.base /\ Len(m.recs) >= Len(l.recs)
           \/ m.id > l.id /\ m.base >= l.base + Len(l.recs)
    PROVE  EntryOk(m, e) /\ Pos(l, e) <= Pos(m, e)
<1>1. /\ l.id \in Nat /\ m.id \in Nat /\ e.id \in Nat /\ e.offset \in Nat /\ l.base \in Nat
      /\ m.base \in Nat /\ Len(l.recs) \in Nat /\ Len(m.recs) \in Nat
    BY Bounds DEF Log, Entry
<1>2. LastPos(e.text) \in Nat
    BY PosTyped
<1>3. Pos(l, e) <= Pos(m, e)
    BY <1>1 DEF EntryOk, Pos
<1>4. Pos(l, e) \in Nat /\ Pos(m, e) \in Nat
    BY PosTyped
<1>5. LastPos(e.text) <= Pos(m, e)
    BY <1>2, <1>3, <1>4 DEF EntryOk
<1> QED BY <1>1, <1>3, <1>5 DEF EntryOk

LEMMA InitShown == Init => ShownInv
<1> SUFFICES ASSUME Init PROVE ShownInv
    OBVIOUS
<1>1. \A k \in Services : serve[k].pc = "off"
    BY DEF Init, Off
<1>2. shown \in [Sources \X {"record", "idle"} -> Nat] /\ \A m \in DOMAIN shown : shown[m] = 0
    BY DEF Init
<1>3. ASSUME NEW s \in Sources
      PROVE  /\ EntryOk(log[s], Prior(s))
             /\ ShownOk(shown[<<s, "record">>], shown[<<s, "idle">>], log[s], Prior(s))
  <2>1. log[s].id = 1 /\ log[s].base = 0 /\ Prior(s) = NoEntry
    BY DEF Init, Prior
  <2>2. shown[<<s, "record">>] = 0 /\ shown[<<s, "idle">>] = 0
    BY <1>2
  <2> QED BY <2>1, <2>2 DEF EntryOk, ShownOk, NoEntry, Pos, LastPos
<1>4. ~again
    BY DEF Init
<1> QED BY <1>1, <1>2, <1>3, <1>4 DEF ShownInv

LEMMA LogShown ==
    ASSUME Typed, ShownInv, NEW s0 \in Sources, Rotate(s0) \/ \E kind \in Kinds : Write(s0, kind)
    PROVE  ShownInv'
<1>1. log \in [Sources -> Log] /\ log' \in [Sources -> Log]
  <2>1. Typed'
    BY LogTyped
  <2> QED BY <2>1 DEF Typed, Log
<1>2. UNCHANGED <<cursor, serve, shown, again>>
    BY DEF Rotate, Write, disk, history
<1>3. ASSUME NEW s \in Sources
      PROVE  \/ /\ log'[s].id = log[s].id /\ log'[s].base = log[s].base
                /\ Len(log'[s].recs) >= Len(log[s].recs)
             \/ log'[s].id > log[s].id /\ log'[s].base >= log[s].base + Len(log[s].recs)
  <2>0. log[s] \in Log /\ log[s].id \in Nat /\ log[s].base \in Nat /\ Len(log[s].recs) \in Nat
    BY <1>1, Bounds DEF Log
  <2>1. CASE s # s0
    BY <1>1, <2>0, <2>1 DEF Rotate, Write
  <2>2. CASE s = s0 /\ Rotate(s0)
    BY <1>1, <2>0, <2>2 DEF Rotate
  <2>3. ASSUME NEW kind \in Kinds, Write(s0, kind), s = s0
        PROVE  /\ log'[s].id = log[s].id /\ log'[s].base = log[s].base
               /\ Len(log'[s].recs) >= Len(log[s].recs)
    <3>1. log'[s] = [log[s] EXCEPT !.recs = Append(@, kind)]
      BY <1>1, <2>3 DEF Write
    <3>2. log'[s].id = log[s].id /\ log'[s].base = log[s].base /\ log'[s].recs = Append(log[s].recs, kind)
      BY <2>0, <3>1 DEF Log
    <3>3. Len(Append(log[s].recs, kind)) = Len(log[s].recs) + 1
      BY <2>0 DEF Log
    <3> QED BY <2>0, <3>2, <3>3
  <2> QED BY <2>1, <2>2, <2>3
<1>4. ASSUME NEW s \in Sources, NEW e \in Entry, EntryOk(log[s], e)
      PROVE  /\ EntryOk(log'[s], e) /\ Pos(log[s], e) <= Pos(log'[s], e)
             /\ Pos(log[s], e) \in Nat /\ Pos(log'[s], e) \in Nat
    BY <1>1, <1>3, <1>4, LogGrows, PosTyped
<1>5. \A s \in Sources : Prior(s)' = Prior(s) /\ Prior(s) \in Entry
    BY <1>2, PriorTyped DEF Prior
<1>6. \A s \in Sources : shown[<<s, "record">>] \in Nat /\ shown[<<s, "idle">>] \in Nat
    BY DEF ShownInv
<1>7. ASSUME NEW s \in Sources
      PROVE  /\ EntryOk(log[s], Prior(s))'
             /\ ShownOk(shown[<<s, "record">>], shown[<<s, "idle">>], log[s], Prior(s))'
  <2>1. EntryOk(log[s], Prior(s)) /\ ShownOk(shown[<<s, "record">>], shown[<<s, "idle">>], log[s], Prior(s))
    BY DEF ShownInv
  <2>2. EntryOk(log'[s], Prior(s)) /\ ShownOk(shown[<<s, "record">>], shown[<<s, "idle">>], log'[s], Prior(s))
    BY <2>1, <1>4, <1>5, <1>6 DEF ShownOk
  <2> QED BY <2>2, <1>2, <1>5
<1>8. ASSUME NEW k \in Services, NEW s \in Sources, serve'[k].pc = "observed"
      PROVE  /\ EntryOk(log'[s], serve[k].cursor[s])
             /\ ShownOk(shown[<<s, "record">>], shown[<<s, "idle">>], log'[s], serve[k].cursor[s])
             /\ NewsOk(s, shown[<<s, "record">>], shown[<<s, "idle">>], log'[s], serve[k].cursor[s], serve[k].news)
  <2> DEFINE e == serve[k].cursor[s]
  <2>1. e \in Entry
    BY <1>2, <1>8 DEF Typed
  <2>2. /\ EntryOk(log[s], e)
        /\ ShownOk(shown[<<s, "record">>], shown[<<s, "idle">>], log[s], e)
        /\ NewsOk(s, shown[<<s, "record">>], shown[<<s, "idle">>], log[s], e, serve[k].news)
    BY <1>2, <1>8 DEF ShownInv
  <2>3. serve[k].news \subseteq Marks
    BY DEF Typed, Service
  <2>4. \A n \in serve[k].news : n[3] \in Nat
    BY <2>3 DEF Marks
  <2> HIDE DEF e
  <2>5. EntryOk(log'[s], e) /\ ShownOk(shown[<<s, "record">>], shown[<<s, "idle">>], log'[s], e)
    BY <2>1, <2>2, <1>4, <1>6 DEF ShownOk
  <2>6. NewsOk(s, shown[<<s, "record">>], shown[<<s, "idle">>], log'[s], e, serve[k].news)
    BY <2>1, <2>2, <2>4, <1>4, <1>6 DEF NewsOk
  <2> QED BY <2>5, <2>6 DEF e
<1>9. ASSUME NEW k \in Services, NEW s \in Sources, serve'[k].pc = "evaluate"
      PROVE  NewsOk(s, shown[<<s, "record">>], shown[<<s, "idle">>], log'[s], Prior(s), serve[k].news)
  <2>1. EntryOk(log[s], Prior(s))
        /\ NewsOk(s, shown[<<s, "record">>], shown[<<s, "idle">>], log[s], Prior(s), serve[k].news)
    BY <1>2, <1>9 DEF ShownInv
  <2>2. serve[k].news \subseteq Marks
    BY DEF Typed, Service
  <2>3. \A n \in serve[k].news : n[3] \in Nat
    BY <2>2 DEF Marks
  <2> QED BY <2>1, <2>3, <1>4, <1>5, <1>6 DEF NewsOk
<1>10. shown' \in [Sources \X {"record", "idle"} -> Nat] /\ ~again'
    BY <1>2 DEF ShownInv
<1> QED BY <1>2, <1>5, <1>7, <1>8, <1>9, <1>10 DEF ShownInv

(* What leaves the cursor and the history alone, and takes no poll further.   *)
LEMMA ShownStutters ==
    ASSUME ShownInv, UNCHANGED <<log, cursor, shown, again>>,
           \A k \in Services : serve'[k].pc \in {"observed", "evaluate"} => serve'[k] = serve[k]
    PROVE  ShownInv'
<1>1. \A s \in Sources : Prior(s)' = Prior(s)
    BY DEF Prior
<1>2. ASSUME NEW k \in Services, NEW s \in Sources, serve'[k].pc = "observed"
      PROVE  /\ EntryOk(log[s], serve[k].cursor[s])'
             /\ ShownOk(shown[<<s, "record">>], shown[<<s, "idle">>], log[s], serve[k].cursor[s])'
             /\ NewsOk(s, shown[<<s, "record">>], shown[<<s, "idle">>], log[s], serve[k].cursor[s], serve[k].news)'
  <2>1. serve'[k] = serve[k] /\ serve[k].pc = "observed"
    BY <1>2
  <2>2. /\ EntryOk(log[s], serve[k].cursor[s])
        /\ ShownOk(shown[<<s, "record">>], shown[<<s, "idle">>], log[s], serve[k].cursor[s])
        /\ NewsOk(s, shown[<<s, "record">>], shown[<<s, "idle">>], log[s], serve[k].cursor[s], serve[k].news)
    BY <2>1 DEF ShownInv
  <2> QED BY <2>1, <2>2
<1>3. ASSUME NEW k \in Services, NEW s \in Sources, serve'[k].pc = "evaluate"
      PROVE  NewsOk(s, shown[<<s, "record">>], shown[<<s, "idle">>], log[s], Prior(s), serve[k].news)'
  <2>1. serve'[k] = serve[k] /\ serve[k].pc = "evaluate"
    BY <1>3
  <2>2. NewsOk(s, shown[<<s, "record">>], shown[<<s, "idle">>], log[s], Prior(s), serve[k].news)
    BY <2>1 DEF ShownInv
  <2> QED BY <1>1, <2>1, <2>2
<1>4. \A s \in Sources :
          /\ EntryOk(log[s], Prior(s))'
          /\ ShownOk(shown[<<s, "record">>], shown[<<s, "idle">>], log[s], Prior(s))'
    BY <1>1 DEF ShownInv
<1>5. shown' \in [Sources \X {"record", "idle"} -> Nat] /\ ~again'
    BY DEF ShownInv
<1> QED BY <1>2, <1>3, <1>4, <1>5 DEF ShownInv

(* What a poll has come to, for a source: the new text begins after the place *)
(* where the last poll ended.                                                 *)
LEMMA PollPlace ==
    ASSUME Typed, NEW s \in Sources, EntryOk(log[s], Prior(s))
    PROVE  /\ Pos(log[s], Prior(s)) <= log[s].base + Old(s)
           /\ Changed(s) => LastPos(NewText(s)) = log[s].base + Size(s) /\ Old(s) < Size(s)
           /\ Old(s) <= Size(s)
           /\ \A r \in ToSet(NewText(s)) :
                 r.at[2] \in Nat /\ log[s].base + From(s) < r.at[2] /\ r.at[2] <= log[s].base + Size(s)
<1>1. /\ log[s] \in Log /\ Prior(s) \in Entry
      /\ log[s].base \in Nat /\ Prior(s).id \in Nat /\ log[s].id \in Nat /\ Prior(s).offset \in Nat
    BY PriorTyped, Bounds DEF Typed, Log, Entry
<1>2. /\ Size(s) \in Nat /\ Old(s) \in Nat /\ From(s) \in Nat /\ From(s) >= Old(s)
      /\ Changed(s) => From(s) < Size(s)
      /\ NewText(s) \in Seq(Rec) /\ Len(NewText(s)) = Size(s) - From(s)
    BY TextTyped
<1>3. Pos(log[s], Prior(s)) <= log[s].base + Old(s) /\ Old(s) <= Size(s)
  <2>1. CASE Prior(s).id = log[s].id
    <3>1. Prior(s).offset <= Size(s)
      BY <2>1 DEF EntryOk, Size
    <3>2. Old(s) = Prior(s).offset
      BY <2>1, <3>1 DEF Old, Size
    <3> QED BY <1>1, <1>2, <2>1, <3>1, <3>2 DEF Pos
  <2>2. CASE Prior(s).id # log[s].id
    <3>1. Old(s) = 0
      BY <2>2 DEF Old
    <3> QED BY <1>1, <1>2, <2>2, <3>1 DEF Pos
  <2> QED BY <2>1, <2>2
<1>4. ASSUME NEW i \in 1 .. Size(s) - From(s)
      PROVE  NewText(s)[i].at[2] = log[s].base + From(s) + i
    BY DEF NewText
<1>5. ASSUME Changed(s) PROVE LastPos(NewText(s)) = log[s].base + Size(s) /\ Old(s) < Size(s)
  <2>1. Len(NewText(s)) \in 1 .. Size(s) - From(s) /\ NewText(s) # <<>>
    BY <1>2, <1>5
  <2>2. NewText(s)[Len(NewText(s))].at[2] = log[s].base + From(s) + (Size(s) - From(s))
    BY <1>2, <1>4, <2>1
  <2> QED BY <1>1, <1>2, <1>5, <2>1, <2>2 DEF LastPos
<1>6. ASSUME NEW r \in ToSet(NewText(s))
      PROVE  r.at[2] \in Nat /\ log[s].base + From(s) < r.at[2] /\ r.at[2] <= log[s].base + Size(s)
  <2>1. PICK i \in 1 .. Len(NewText(s)) : r = NewText(s)[i]
    BY DEF ToSet
  <2>2. i \in 1 .. Size(s) - From(s)
    BY <1>2, <2>1
  <2>3. r.at[2] = log[s].base + From(s) + i
    BY <1>4, <2>1, <2>2
  <2> QED BY <1>1, <1>2, <2>2, <2>3
<1> QED BY <1>3, <1>5, <1>6

LEMMA PollShown ==
    ASSUME Typed, NEW mature, NEW idle \in SUBSET Sources, \A s \in idle : Idle(s),
           NEW s \in Sources, NEW records \in Nat, NEW idles \in Nat,
           EntryOk(log[s], Prior(s)), ShownOk(records, idles, log[s], Prior(s))
    PROVE  LET seen == Observed(mature, {}, idle)
           IN /\ EntryOk(log[s], seen.cursor[s])
              /\ ShownOk(records, idles, log[s], seen.cursor[s])
              /\ NewsOk(s, records, idles, log[s], seen.cursor[s], seen.news)
<1> DEFINE e == NextEntry(s, idle)
           visible == Judged(mature, AllText({})).visible
           news == Observed(mature, {}, idle).news
<1>1. /\ log[s] \in Log /\ Prior(s) \in Entry /\ e \in Entry /\ log[s].base \in Nat
      /\ log[s].id \in Nat
    BY PriorTyped, EntryTyped, Bounds DEF Typed, Log
<1>2. /\ Size(s) \in Nat /\ Old(s) \in Nat /\ From(s) \in Nat /\ From(s) >= Old(s)
      /\ Pos(log[s], Prior(s)) <= log[s].base + Old(s)
      /\ Changed(s) => LastPos(NewText(s)) = log[s].base + Size(s) /\ Old(s) < Size(s)
      /\ Old(s) <= Size(s)
    BY TextTyped, PollPlace
<1>3. /\ Pos(log[s], Prior(s)) \in Nat /\ LastPos(Prior(s).text) \in Nat
      /\ LastPos(e.text) \in Nat
    BY <1>1, PosTyped
<1>4. e.id = log[s].id /\ e.offset = Size(s) /\ Pos(log[s], e) = log[s].base + Size(s)
    BY DEF NextEntry, Pos
<1>5. /\ Changed(s) => LastPos(e.text) = log[s].base + Size(s)
      /\ ~Changed(s) => LastPos(e.text) = LastPos(Prior(s).text)
    BY <1>2 DEF NextEntry, Text
<1>6. EntryOk(log[s], e)
  <2>1. LastPos(e.text) <= Pos(log[s], e)
    BY <1>1, <1>2, <1>3, <1>4, <1>5 DEF EntryOk
  <2> QED BY <1>1, <1>2, <1>4, <2>1 DEF EntryOk, Size
<1>7. ShownOk(records, idles, log[s], e)
  <2>1. records <= Pos(log[s], e)
    BY <1>1, <1>2, <1>3, <1>4 DEF ShownOk
  <2>2. Changed(s) => idles < LastPos(e.text)
    BY <1>1, <1>2, <1>3, <1>5 DEF ShownOk, EntryOk
  <2>3. ~Changed(s) => idles <= LastPos(e.text) /\ (~e.np => idles < LastPos(e.text))
    BY <1>5 DEF ShownOk, NextEntry
  <2> QED BY <1>3, <2>1, <2>2, <2>3 DEF ShownOk
<1>8. ASSUME NEW n \in news
      PROVE  \/ n \in RecordMarks(visible, {})
             \/ n \in IdleMarks(visible, {}, idle)
             \/ n = Matured
    BY DEF Observed
<1>9. ASSUME NEW n \in news, n[1] = s, n[2] = "record"
      PROVE  records < n[3] /\ n[3] <= Pos(log[s], e)
  <2>1. n \notin IdleMarks(visible, {}, idle) /\ n # Matured
    BY <1>9 DEF IdleMarks, IdleMark, Matured
  <2>2. PICK t \in Sources : \E r \in ToSet(News(t, {})) : n = <<t, "record", r.at[2]>>
    BY <1>8, <2>1 DEF RecordMarks
  <2>3. t = s
    BY <1>9, <2>2
  <2>4. PICK r \in ToSet(News(s, {})) : n = <<s, "record", r.at[2]>>
    BY <2>2, <2>3
  <2>5. r \in ToSet(NewText(s))
    BY <2>4 DEF News, ToSet
  <2>6. n[3] = r.at[2] /\ r.at[2] \in Nat /\ log[s].base + From(s) < r.at[2] /\ r.at[2] <= log[s].base + Size(s)
    BY <2>4, <2>5, PollPlace
  <2>7. records <= log[s].base + Old(s)
    BY <1>1, <1>2, <1>3 DEF ShownOk
  <2> QED BY <1>1, <1>2, <1>4, <2>6, <2>7
<1>10. ASSUME NEW n \in news, n[1] = s, n[2] = "idle"
       PROVE  idles < n[3] /\ n[3] = LastPos(e.text) /\ e.np
  <2>1. n \notin RecordMarks(visible, {}) /\ n # Matured
    BY <1>10 DEF RecordMarks, Matured
  <2>2. PICK t \in idle : n = IdleMark(t, Text(t, {}))
    BY <1>8, <2>1 DEF IdleMarks
  <2>3. t = s /\ n[3] = LastPos(Text(s, {}))
    BY <1>10, <2>2 DEF IdleMark, LastPos
  <2>4. s \in idle /\ ~Changed(s) /\ ~Prior(s).np
    BY <2>2, <2>3 DEF Idle
  <2>5. e.np /\ e.text = Text(s, {})
    BY <2>4 DEF NextEntry
  <2>6. LastPos(e.text) = LastPos(Prior(s).text) /\ idles < LastPos(Prior(s).text)
    BY <1>5, <2>4 DEF ShownOk
  <2> QED BY <2>3, <2>5, <2>6
<1>11. NewsOk(s, records, idles, log[s], e, news)
  <2> HIDE DEF e, news
  <2> QED BY <1>9, <1>10 DEF NewsOk
<1>12. Observed(mature, {}, idle).cursor[s] = e
    BY DEF Observed
<1> QED BY <1>6, <1>7, <1>11, <1>12

(* What the evaluator is shown moves the history up to the cursor at most. *)
LEMMA EvaluateShown ==
    ASSUME Typed, ServiceInv, ShownInv, NEW k \in Services, Evaluate(k)
    PROVE  ShownInv'
<1> DEFINE marks(s, what) == {m[3] : m \in {n \in serve[k].news : n[1] = s /\ n[2] = what}}
<1>0. PICK p \in {"sleep", "ending"} : serve' = [serve EXCEPT ![k] = [Off EXCEPT !.pc = p]]
    BY DEF Evaluate
<1>1. /\ serve[k].pc = "evaluate" /\ UNCHANGED <<log, cursor>>
      /\ shown' = [m \in DOMAIN shown |-> Max({shown[m]} \cup marks(m[1], m[2]))]
      /\ again' = (again \/ \E m \in DOMAIN shown : \E n \in marks(m[1], m[2]) : n <= shown[m])
    BY DEF Evaluate, disk
<1>2. /\ DOMAIN shown = Sources \X {"record", "idle"}
      /\ \A s \in Sources : shown[<<s, "record">>] \in Nat /\ shown[<<s, "idle">>] \in Nat
    BY DEF ShownInv
<1>3. serve[k].news \subseteq Marks
    BY DEF Typed, Service
<1>4. \A s \in Sources : marks(s, "record") \subseteq Nat /\ marks(s, "idle") \subseteq Nat
    BY <1>3 DEF Marks
<1>5. \A s \in Sources :
         /\ Prior(s) \in Entry /\ log[s] \in Log
         /\ Pos(log[s], Prior(s)) \in Nat /\ LastPos(Prior(s).text) \in Nat
         /\ EntryOk(log[s], Prior(s))
         /\ ShownOk(shown[<<s, "record">>], shown[<<s, "idle">>], log[s], Prior(s))
         /\ NewsOk(s, shown[<<s, "record">>], shown[<<s, "idle">>], log[s], Prior(s), serve[k].news)
    BY <1>1, PriorTyped, PosTyped DEF Typed, Log, ShownInv
<1>6. ASSUME NEW s \in Sources
      PROVE  /\ \A n \in marks(s, "record") : shown[<<s, "record">>] < n /\ n <= Pos(log[s], Prior(s))
             /\ \A n \in marks(s, "idle") :
                   shown[<<s, "idle">>] < n /\ n = LastPos(Prior(s).text) /\ Prior(s).np
    BY <1>5 DEF NewsOk
<1>7. /\ \A s \in Sources : shown'[<<s, "record">>] = Max({shown[<<s, "record">>]} \cup marks(s, "record"))
      /\ \A s \in Sources : shown'[<<s, "idle">>] = Max({shown[<<s, "idle">>]} \cup marks(s, "idle"))
  <2>1. \A s \in Sources : <<s, "record">> \in DOMAIN shown /\ <<s, "idle">> \in DOMAIN shown
    BY <1>2
  <2> HIDE DEF marks
  <2> QED BY <1>1, <2>1
<1>8. ASSUME NEW m \in DOMAIN shown
      PROVE  \E s \in Sources : m = <<s, "record">> \/ m = <<s, "idle">>
    BY <1>2
<1>9. ~again'
  <2>1. ASSUME NEW m \in DOMAIN shown, NEW n \in marks(m[1], m[2]), n <= shown[m] PROVE FALSE
    <3>1. PICK s \in Sources : m = <<s, "record">> \/ m = <<s, "idle">>
      BY <1>8
    <3> HIDE DEF marks
    <3>2. CASE m = <<s, "record">>
      <4>1. n \in marks(s, "record") /\ n <= shown[<<s, "record">>]
        BY <2>1, <3>2
      <4>2. shown[<<s, "record">>] < n
        BY <4>1, <1>6
      <4>3. n \in Nat /\ shown[<<s, "record">>] \in Nat
        BY <4>1, <1>2, <1>4
      <4> QED BY <4>1, <4>2, <4>3
    <3>3. CASE m = <<s, "idle">>
      <4>1. n \in marks(s, "idle") /\ n <= shown[<<s, "idle">>]
        BY <2>1, <3>3
      <4>2. shown[<<s, "idle">>] < n
        BY <4>1, <1>6
      <4>3. n \in Nat /\ shown[<<s, "idle">>] \in Nat
        BY <4>1, <1>2, <1>4
      <4> QED BY <4>1, <4>2, <4>3
    <3> QED BY <3>1, <3>2, <3>3
  <2>2. ~again
    BY DEF ShownInv
  <2> HIDE DEF marks
  <2> QED BY <1>1, <2>1, <2>2
<1>10. ASSUME NEW s \in Sources
       PROVE  /\ shown'[<<s, "record">>] \in Nat /\ shown'[<<s, "idle">>] \in Nat
              /\ ShownOk(shown'[<<s, "record">>], shown'[<<s, "idle">>], log[s], Prior(s))
  <2> HIDE DEF marks
  <2>1. shown'[<<s, "record">>] \in Nat /\ shown'[<<s, "record">>] <= Pos(log[s], Prior(s))
    <3>1. shown[<<s, "record">>] <= Pos(log[s], Prior(s))
      BY <1>5 DEF ShownOk
    <3>2. \A m \in marks(s, "record") : m <= Pos(log[s], Prior(s))
      BY <1>6
    <3>3. marks(s, "record") \in SUBSET Nat /\ shown[<<s, "record">>] \in Nat /\ Pos(log[s], Prior(s)) \in Nat
      BY <1>2, <1>4, <1>5
    <3>4. /\ Max({shown[<<s, "record">>]} \cup marks(s, "record")) \in Nat
          /\ Max({shown[<<s, "record">>]} \cup marks(s, "record")) <= Pos(log[s], Prior(s))
      BY <3>1, <3>2, <3>3, MaxOf
    <3> QED BY <1>7, <3>4
  <2>2. /\ shown'[<<s, "idle">>] \in Nat /\ shown'[<<s, "idle">>] <= LastPos(Prior(s).text)
        /\ marks(s, "idle") = {} => shown'[<<s, "idle">>] = shown[<<s, "idle">>]
    <3>1. shown[<<s, "idle">>] <= LastPos(Prior(s).text)
      BY <1>5 DEF ShownOk
    <3>2. ASSUME NEW m \in marks(s, "idle") PROVE m <= LastPos(Prior(s).text)
      <4>1. m = LastPos(Prior(s).text)
        BY <1>6
      <4>2. LastPos(Prior(s).text) \in Nat
        BY <1>5
      <4> QED BY <4>1, <4>2
    <3>3. marks(s, "idle") \in SUBSET Nat /\ shown[<<s, "idle">>] \in Nat /\ LastPos(Prior(s).text) \in Nat
      BY <1>2, <1>4, <1>5
    <3>4. /\ Max({shown[<<s, "idle">>]} \cup marks(s, "idle")) \in Nat
          /\ Max({shown[<<s, "idle">>]} \cup marks(s, "idle")) <= LastPos(Prior(s).text)
          /\ marks(s, "idle") = {} =>
                Max({shown[<<s, "idle">>]} \cup marks(s, "idle")) = shown[<<s, "idle">>]
      BY <3>1, <3>2, <3>3, MaxOf
    <3> QED BY <1>7, <3>4
  <2>3. ~Prior(s).np => marks(s, "idle") = {}
    BY <1>6
  <2> QED BY <1>5, <2>1, <2>2, <2>3 DEF ShownOk
<1>11. shown' \in [Sources \X {"record", "idle"} -> Nat]
  <2>1. ASSUME NEW m \in DOMAIN shown PROVE shown'[m] \in Nat
    BY <1>8, <1>10
  <2>2. shown' = [m \in DOMAIN shown |-> shown'[m]]
    BY <1>1
  <2> QED BY <1>2, <2>1, <2>2
<1>12. \A j \in Services : serve'[j].pc \notin {"observed", "evaluate"}
  <2>1. serve'[k].pc = p /\ \A j \in Services : j # k => serve'[j] = serve[j]
    BY <1>0 DEF Typed, Off
  <2>2. \A j \in Services : Alive(j) => j = k
    BY <1>1, OneAlive, Bounds DEF Alive
  <2> QED BY <1>0, <2>1, <2>2, Bounds DEF Alive
<1>13. \A s \in Sources : Prior(s)' = Prior(s) /\ EntryOk(log[s], Prior(s))
    BY <1>1, <1>5 DEF Prior
<1> HIDE DEF marks
<1> QED BY <1>1, <1>9, <1>10, <1>11, <1>12, <1>13 DEF ShownInv

LEMMA NextShown ==
    ASSUME Typed, ServiceInv, ShownInv, Patient = TRUE, Readable = TRUE, [Next]_vars
    PROVE  ShownInv'
<1>0. serve \in [Services -> Service] /\ Typed'
    BY NextTyped DEF Typed
(* A step of one service that is neither a poll nor a save. *)
<1>1. ASSUME NEW k, NEW v, serve' = [serve EXCEPT ![k] = v], v.pc \notin {"observed", "evaluate"},
             UNCHANGED <<log, cursor, shown, again>>
      PROVE  ShownInv'
  <2>1. \A j \in Services : serve'[j] = v \/ serve'[j] = serve[j]
    BY <1>0, <1>1
  <2>2. \A j \in Services : serve'[j].pc \in {"observed", "evaluate"} => serve'[j] = serve[j]
    BY <1>1, <2>1
  <2> QED BY <1>1, <2>2, ShownStutters
<1>2. ASSUME UNCHANGED <<log, cursor, serve, shown, again>> PROVE ShownInv'
    BY <1>2, ShownStutters
<1>3. CASE StartClaims \/ StartSees \/ StartDies \/ StopReads \/ StopWrites \/ UNCHANGED vars
    BY <1>2, <1>3 DEF StartClaims, StartSees, StartDies, StopReads, StopWrites, vars, disk, history
<1>4. CASE StartSpawns
  <2> DEFINE v == [serve[starter.k] EXCEPT !.pc = "boot"]
  <2>1. starter.k \in Services
    BY <1>4, Bounds DEF StartSpawns, Typed, Services
  <2>2. serve' = [serve EXCEPT ![starter.k] = v] /\ v.pc = "boot"
    BY <1>0, <1>4, <2>1 DEF StartSpawns, Goto, Service
  <2>3. UNCHANGED <<log, cursor, shown, again>>
    BY <1>4 DEF StartSpawns, disk, history
  <2> HIDE DEF v
  <2> QED BY <1>1, <2>2, <2>3
<1>5. CASE StartFails
  <2>1. serve' = [serve EXCEPT ![starter.k] = Off] /\ UNCHANGED <<log, cursor, shown, again>>
    BY <1>5 DEF StartFails, disk, history
  <2>2. Off.pc \notin {"observed", "evaluate"}
    BY DEF Off
  <2> QED BY <1>1, <2>1, <2>2
<1>6. ASSUME NEW k \in Services, Boot(k) PROVE ShownInv'
  <2>1. serve[k].pc = "boot" /\ svc.tok = k /\ UNCHANGED <<log, shown, again>>
    BY <1>6 DEF Boot, history
  <2>2. serve'[k].pc = "first" /\ \A j \in Services : j # k => serve'[j] = serve[j]
    BY <1>0, <1>6 DEF Boot, Goto, Service
  <2>3. CASE cursor # <<>>
    <3> DEFINE v == [serve[k] EXCEPT !.pc = "first"]
    <3>1. serve' = [serve EXCEPT ![k] = v] /\ UNCHANGED cursor /\ v.pc = "first"
      BY <1>0, <1>6, <2>3 DEF Boot, Goto, Service
    <3> HIDE DEF v
    <3> QED BY <1>1, <2>1, <3>1
  <2>4. CASE cursor = <<>>
    <3>1. \A j \in Services : Alive(j) => j = k
      BY <2>1, OneAlive, Bounds DEF Alive
    <3>2. \A j \in Services : serve'[j].pc \notin {"observed", "evaluate"}
      BY <2>2, <3>1, Bounds DEF Alive
    <3>3. ASSUME NEW s \in Sources
          PROVE  /\ EntryOk(log[s], Prior(s))'
                 /\ ShownOk(shown[<<s, "record">>], shown[<<s, "idle">>], log[s], Prior(s))'
      <4>1. cursor' = [t \in Sources |-> AtEnd(t)]
        BY <1>6, <2>4 DEF Boot
      <4>2. cursor' # <<>> /\ cursor'[s] = AtEnd(s)
        BY <4>1
      <4>3. Prior(s)' = AtEnd(s)
        BY <4>2 DEF Prior
      <4>4. /\ log[s] \in Log /\ Size(s) \in Nat /\ log[s].base \in Nat /\ log[s].id \in Nat \ {0}
        <5>1. log[s] \in Log /\ Size(s) \in Nat
          BY TextTyped DEF Typed, Log
        <5> QED BY <5>1, Bounds DEF Log
      <4>5. ShownOk(shown[<<s, "record">>], shown[<<s, "idle">>], log[s], NoEntry)
        BY <2>4 DEF ShownInv, Prior
      <4>6. shown[<<s, "record">>] <= log[s].base /\ shown[<<s, "idle">>] <= 0
        BY <4>4, <4>5 DEF ShownOk, NoEntry, Pos, LastPos
      <4>7. shown[<<s, "record">>] \in Nat /\ shown[<<s, "idle">>] \in Nat
        BY DEF ShownInv
      <4>8. EntryOk(log[s], AtEnd(s))
        BY <4>4 DEF EntryOk, AtEnd, Pos, LastPos, Size
      <4>9. ShownOk(shown[<<s, "record">>], shown[<<s, "idle">>], log[s], AtEnd(s))
        BY <4>4, <4>6, <4>7 DEF ShownOk, AtEnd, Pos, LastPos
      <4> QED BY <2>1, <4>3, <4>8, <4>9
    <3>4. shown' \in [Sources \X {"record", "idle"} -> Nat] /\ ~again'
      BY <2>1 DEF ShownInv
    <3> QED BY <3>2, <3>3, <3>4 DEF ShownInv
  <2> QED BY <2>3, <2>4
<1>7. ASSUME NEW k \in Services, NEW mature, Observe(k, mature), serve[k].pc # "off"
      PROVE  ShownInv'
  <2>1. PICK idle \in SUBSET Sources :
           /\ \A s \in idle : Idle(s)
           /\ serve' = [serve EXCEPT ![k] = Observed(mature, {}, idle)]
           /\ UNCHANGED <<log, cursor, shown, again>>
    BY <1>7, Observes
  <2> DEFINE seen == Observed(mature, {}, idle)
  <2>2. seen.pc = "observed"
    BY DEF Observed
  <2>3. serve'[k] = seen /\ \A j \in Services : j # k => serve'[j] = serve[j]
    BY <1>0, <2>1
  <2>4. \A j \in Services : Alive(j) => j = k
    BY <1>7, OneAlive, Bounds DEF Alive
  <2>5. \A j \in Services : serve'[j].pc \in {"observed", "evaluate"} => j = k
    BY <2>3, <2>4, Bounds DEF Alive
  <2>6. \A s \in Sources : Prior(s)' = Prior(s)
    BY <2>1 DEF Prior
  <2>7. ASSUME NEW s \in Sources
        PROVE  /\ EntryOk(log[s], seen.cursor[s])
               /\ ShownOk(shown[<<s, "record">>], shown[<<s, "idle">>], log[s], seen.cursor[s])
               /\ NewsOk(s, shown[<<s, "record">>], shown[<<s, "idle">>], log[s], seen.cursor[s], seen.news)
    <3>1. /\ shown[<<s, "record">>] \in Nat /\ shown[<<s, "idle">>] \in Nat
          /\ EntryOk(log[s], Prior(s))
          /\ ShownOk(shown[<<s, "record">>], shown[<<s, "idle">>], log[s], Prior(s))
      BY DEF ShownInv
    <3> QED BY <2>1, <3>1, PollShown
  <2> HIDE DEF seen
  <2>8. \A s \in Sources :
          /\ EntryOk(log[s], Prior(s))'
          /\ ShownOk(shown[<<s, "record">>], shown[<<s, "idle">>], log[s], Prior(s))'
    BY <2>1, <2>6 DEF ShownInv
  <2>9. shown' \in [Sources \X {"record", "idle"} -> Nat] /\ ~again'
    BY <2>1 DEF ShownInv
  <2> QED BY <2>1, <2>2, <2>3, <2>5, <2>7, <2>8, <2>9 DEF ShownInv
<1>8. ASSUME NEW k \in Services, SaveCursor(k) PROVE ShownInv'
  <2> DEFINE v == [Off EXCEPT !.pc = IF serve[k].news = {} THEN "sleep" ELSE "evaluate",
                              !.news = serve[k].news]
  <2>1. /\ serve[k].pc = "observed" /\ cursor' = serve[k].cursor /\ UNCHANGED <<log, shown, again>>
        /\ serve' = [serve EXCEPT ![k] = v]
    BY <1>8 DEF SaveCursor
  <2>2. v.pc # "observed" /\ v.news = serve[k].news
    BY DEF Off
  <2> HIDE DEF v
  <2>3. serve'[k] = v /\ \A j \in Services : j # k => serve'[j] = serve[j]
    BY <1>0, <2>1
  <2>4. \A j \in Services : Alive(j) => j = k
    BY <2>1, OneAlive, Bounds DEF Alive
  <2>5. \A j \in Services : serve'[j].pc \in {"observed", "evaluate"} => j = k
    BY <2>3, <2>4, Bounds DEF Alive
  <2>6. ASSUME NEW s \in Sources PROVE Prior(s)' = serve[k].cursor[s]
    <3>1. cursor' \in [Sources -> Entry]
      BY <2>1 DEF Typed
    <3>2. cursor' # <<>>
      BY <3>1
    <3> QED BY <2>1, <3>2 DEF Prior
  <2>7. ASSUME NEW s \in Sources
        PROVE  /\ EntryOk(log[s], Prior(s))'
               /\ ShownOk(shown[<<s, "record">>], shown[<<s, "idle">>], log[s], Prior(s))'
               /\ NewsOk(s, shown[<<s, "record">>], shown[<<s, "idle">>], log[s], Prior(s), serve[k].news)'
    <3>1. /\ EntryOk(log[s], serve[k].cursor[s])
          /\ ShownOk(shown[<<s, "record">>], shown[<<s, "idle">>], log[s], serve[k].cursor[s])
          /\ NewsOk(s, shown[<<s, "record">>], shown[<<s, "idle">>], log[s], serve[k].cursor[s], serve[k].news)
      BY <2>1 DEF ShownInv
    <3>2. /\ EntryOk(log'[s], Prior(s)')
          /\ ShownOk(shown'[<<s, "record">>], shown'[<<s, "idle">>], log'[s], Prior(s)')
      BY <2>1, <2>6, <3>1
    <3>3. CASE serve'[k].news = serve[k].news
      BY <2>1, <2>6, <3>1, <3>2, <3>3
    <3> QED BY <3>3, <2>2, <2>3
  <2>8. shown' \in [Sources \X {"record", "idle"} -> Nat] /\ ~again'
    BY <2>1 DEF ShownInv
  <2>9. \A s \in Sources :
          NewsOk(s, shown[<<s, "record">>], shown[<<s, "idle">>], log[s], Prior(s), serve[k].news)'
    BY <2>7
  <2> QED BY <2>2, <2>3, <2>5, <2>7, <2>8, <2>9 DEF ShownInv
<1>9. ASSUME NEW k \in Services, Wakes(k) PROVE ShownInv'
  <2> DEFINE v == [serve[k] EXCEPT !.pc = IF svc.stop THEN "ending" ELSE "poll"]
  <2>1. serve' = [serve EXCEPT ![k] = v] /\ UNCHANGED <<log, cursor, shown, again>>
    BY <1>9 DEF Wakes, Goto, disk, history
  <2>2. v.pc \notin {"observed", "evaluate"}
    BY <1>0 DEF Service
  <2> HIDE DEF v
  <2> QED BY <1>1, <2>1, <2>2
<1>10. ASSUME NEW k \in Services, Terminal(k) \/ TerminalWrites(k) \/ BootFails(k) \/ OwnerLost(k) \/ Dies(k)
       PROVE  ShownInv'
  <2> DEFINE ending == [Off EXCEPT !.pc = "ending"]
             exit == [Off EXCEPT !.pc = "exit", !.rec = svc]
  <2>1. UNCHANGED <<log, cursor, shown, again>>
    BY <1>10 DEF Terminal, TerminalWrites, BootFails, OwnerLost, Dies, Ends, disk, history
  <2>2. \/ serve' = [serve EXCEPT ![k] = Off]
        \/ serve' = [serve EXCEPT ![k] = ending]
        \/ serve' = [serve EXCEPT ![k] = exit]
    BY <1>10 DEF Terminal, TerminalWrites, BootFails, OwnerLost, Dies, Ends
  <2>3. Off.pc = "off" /\ ending.pc = "ending" /\ exit.pc = "exit"
    BY DEF Off
  <2> HIDE DEF ending, exit
  <2> QED BY <1>1, <2>1, <2>2, <2>3
<1>11. ASSUME NEW k \in Services, FirstPoll(k) \/ Poll(k) PROVE ShownInv'
    BY <1>7, <1>11 DEF FirstPoll, Poll
<1>12. ASSUME NEW k \in Services, Serves(k) \/ BootFails(k) \/ OwnerLost(k) \/ Dies(k) PROVE ShownInv'
    BY <1>6, <1>8, <1>9, <1>10, <1>11, <1>12, EvaluateShown DEF Serves
<1> QED BY <1>3, <1>4, <1>5, <1>12, LogShown DEF Next

(* The cursor is saved before the evaluator is asked (poller.py, poll_once):  *)
(* as long as one command runs at a time (OneServiceHolds) and every source   *)
(* can be read, no record is shown to the evaluator as new twice, and no      *)
(* source is twice shown as idle, whatever dies and however the log files     *)
(* are replaced; for any number of sources, files and records.                *)
THEOREM EvaluatedOnceHolds == Patient = TRUE /\ Readable = TRUE => (Spec => []EvaluatedOnce)
<1> SUFFICES ASSUME Patient = TRUE, Readable = TRUE PROVE Spec => []EvaluatedOnce
    OBVIOUS
<1>1. Init => Typed /\ ServiceInv /\ ShownInv
    BY InitTyped, InitService, InitShown
<1>2. Typed /\ ServiceInv /\ ShownInv /\ [Next]_vars => (Typed /\ ServiceInv /\ ShownInv)'
    BY NextTyped, NextService, NextShown
<1>3. ShownInv => EvaluatedOnce
    BY DEF ShownInv, EvaluatedOnce
<1> QED BY <1>1, <1>2, <1>3, PTL DEF Spec

-----------------------------------------------------------------------------
(* No release of a recovered identity *)

Stale(recs) == EndsStale(recs, Len(recs))
OldText == Prior(1).text

HeldInv == /\ held = "new" => ~cleared
           /\ Stale(OldText) => ~cleared
           /\ \A k \in Services : serve[k].pc = "observed" =>
                 /\ serve[k].held = "new" => ~serve[k].clr
                 /\ Stale(serve[k].cursor[1].text) => ~serve[k].clr
                 /\ Matured \in serve[k].news => ~serve[k].clr

LEMMA NoRecoveryAfter ==
    ASSUME NEW recs \in Seq(Rec), NEW was \in BOOLEAN
    PROVE  /\ Stale(recs) => ~Recovers(was, recs)
           /\ ~was /\ NoClear(recs, Len(recs)) => ~Recovers(was, recs)
           /\ recs = <<>> => Recovers(was, recs) = was /\ ~Stale(recs)
<1>0. DOMAIN recs = 1 .. Len(recs) /\ Len(recs) \in Nat
    OBVIOUS
<1>1. ASSUME Stale(recs) PROVE ~Recovers(was, recs)
  <2>1. PICK i \in 1 .. Len(recs) : /\ recs[i].kind = "stale"
                                    /\ \A j \in 1 .. Len(recs) : j > i => recs[j].kind # "clear"
    BY <1>1 DEF Stale, EndsStale
  <2>2. ~Calm(recs, 0)
    BY <1>0, <2>1 DEF Calm
  <2>3. ASSUME NEW j \in DOMAIN recs, recs[j].kind = "clear", Calm(recs, j) PROVE FALSE
    <3>1. ~ (i > j)
      BY <1>0, <2>1, <2>3 DEF Calm
    <3>2. ~ (j > i) /\ j # i
      BY <1>0, <2>1, <2>3
    <3> QED BY <1>0, <3>1, <3>2
  <2> QED BY <2>2, <2>3 DEF Recovers
<1>2. ASSUME ~was, NoClear(recs, Len(recs)) PROVE ~Recovers(was, recs)
    BY <1>0, <1>2 DEF Recovers, NoClear
<1>3. ASSUME recs = <<>> PROVE Recovers(was, recs) = was /\ ~Stale(recs)
  <2>1. DOMAIN recs = {} /\ \A i \in 1 .. Len(recs) : FALSE
    BY <1>0, <1>3
  <2>2. Calm(recs, 0)
    BY <2>1 DEF Calm
  <2>3. Recovers(was, recs) = was
    BY <2>1, <2>2, Zenon DEF Recovers
  <2> QED BY <2>1, <2>3 DEF Stale, EndsStale
<1> QED BY <1>1, <1>2, <1>3

LEMMA OneSource ==
    ASSUME Typed, Sources = {1}, NEW unread
    PROVE  AllText(unread) = Text(1, unread) /\ AllNews(unread) = News(1, unread)
<1>1. Cardinality(Sources) = 1
    BY FS_Singleton
<1>2. ASSUME NEW f \in [Sources -> Seq(Rec)] PROVE InOrder(f) = f[1]
  <2>1. [n \in 1 .. 1 |-> f[n]] = [n \in 1 .. 1 |-> f[1]]
    OBVIOUS
  <2>2. f[1] \in Seq(Rec)
    OBVIOUS
  <2>3. FlattenSeq([n \in 1 .. 1 |-> f[1]]) = f[1]
    BY <2>2, FlattenedOne
  <2> QED BY <1>1, <2>1, <2>3 DEF InOrder
<1>3. /\ [s \in Sources |-> Text(s, unread)] \in [Sources -> Seq(Rec)]
      /\ [s \in Sources |-> News(s, unread)] \in [Sources -> Seq(Rec)]
    BY TextTyped
<1>4. /\ [s \in Sources |-> Text(s, unread)][1] = Text(1, unread)
      /\ [s \in Sources |-> News(s, unread)][1] = News(1, unread)
    OBVIOUS
<1> QED BY <1>2, <1>3, <1>4 DEF AllText, AllNews

LEMMA ObservedHeld ==
    ASSUME Typed, HeldInv, Sources = {1}, NEW mature, NEW unread \in SUBSET Sources,
           NEW idle \in SUBSET Sources
    PROVE  LET seen == Observed(mature, unread, idle)
           IN /\ seen.held = "new" => ~seen.clr
              /\ Stale(seen.cursor[1].text) => ~seen.clr
              /\ Matured \in seen.news => ~seen.clr
<1> DEFINE seen == Observed(mature, unread, idle)
           text == Text(1, unread)
           new == News(1, unread)
           got == Judged(mature, text)
<1>1. text \in Seq(Rec) /\ new \in Seq(Rec)
    BY TextTyped
<1>2. /\ cleared \in BOOLEAN /\ held \in Helds
      /\ held = "new" => ~cleared
      /\ Stale(OldText) => ~cleared
    BY DEF Typed, HeldInv
<1>3. /\ seen.held = Saved(got.held)
      /\ seen.clr = Recovers(cleared, new)
      /\ seen.cursor[1] = IF 1 \in unread THEN NoEntry ELSE NextEntry(1, idle)
      /\ seen.news = RecordMarks(got.visible, unread) \cup IdleMarks(got.visible, unread, idle)
                        \cup (IF Released(got.held) THEN {Matured} ELSE {})
    BY OneSource DEF Observed
<1>4. new = text \/ (new = <<>> /\ (text = <<>> \/ text = OldText))
    BY DEF News, Text, OldText
<1>5. /\ got \in Verdicts
      /\ got.held = "kept" => Quarantined(mature) = "kept" /\ NoClear(text, Len(text))
      /\ got.held = "new" => Stale(text) \/ (Quarantined(mature) = "new" /\ NoClear(text, Len(text)))
  <2>1. Quarantined(mature) \in HeldNow
    BY <1>2 DEF Quarantined, HeldNow, Helds
  <2> HIDE DEF text
  <2> QED BY <1>1, <2>1, JudgedHeld DEF Stale
<1>6. (Quarantined(mature) = "kept" => held = "new") /\ (Quarantined(mature) = "new" => held = "new")
    BY <1>2 DEF Quarantined, Helds, None
<1> HIDE DEF text, new
<1>7. /\ Recovers(cleared, <<>>) = cleared
      /\ Stale(text) => ~Recovers(cleared, text)
      /\ ~cleared /\ NoClear(text, Len(text)) => ~Recovers(cleared, text)
      /\ ~Stale(<<>>)
  <2>1. <<>> \in Seq(Rec)
    OBVIOUS
  <2> QED BY <1>1, <1>2, <2>1, NoRecoveryAfter
<1>8. Stale(text) => ~Recovers(cleared, new)
    BY <1>2, <1>4, <1>7
<1>9. ~cleared /\ NoClear(text, Len(text)) => ~Recovers(cleared, new)
    BY <1>4, <1>7
<1> HIDE DEF got
<1>10. seen.held = "new" => ~seen.clr
  <2>1. Saved(got.held) = "new" => got.held = "new"
    BY DEF Saved, Released
  <2> QED BY <1>2, <1>3, <1>5, <1>6, <1>8, <1>9, <2>1
<1>11. Stale(seen.cursor[1].text) => ~seen.clr
  <2>1. CASE 1 \in unread
    BY <1>3, <1>7, <2>1 DEF NoEntry
  <2>2. CASE 1 \notin unread
    <3>1. text = Text(1, {})
      BY <2>2 DEF text, Text
    <3>2. seen.cursor[1].text = text
      BY <1>3, <2>2, <3>1 DEF NextEntry
    <3> QED BY <1>3, <1>8, <3>2
  <2> QED BY <2>1, <2>2
<1>12. Matured \in seen.news => ~seen.clr
  <2>1. Matured \notin RecordMarks(got.visible, unread)
    BY DEF RecordMarks, Matured
  <2>2. Matured \notin IdleMarks(got.visible, unread, idle)
    BY DEF IdleMarks, IdleMark, Matured
  <2>3. Matured \in seen.news => got.held = "kept"
    BY <1>3, <2>1, <2>2 DEF Released
  <2> QED BY <1>2, <1>3, <1>5, <1>6, <1>9, <2>3
<1> QED BY <1>10, <1>11, <1>12

LEMMA HeldStutters ==
    ASSUME HeldInv, UNCHANGED <<held, cleared>>, OldText' = OldText \/ OldText' = <<>>,
           \A k \in Services : serve'[k].pc = "observed" => serve'[k] = serve[k]
    PROVE  HeldInv'
<1>1. ~Stale(<<>>)
    BY DEF Stale, EndsStale
<1>2. Stale(OldText') => ~cleared'
    BY <1>1 DEF HeldInv
<1>3. ASSUME NEW k \in Services, serve'[k].pc = "observed"
      PROVE  /\ serve'[k].held = "new" => ~serve'[k].clr
             /\ Stale(serve'[k].cursor[1].text) => ~serve'[k].clr
             /\ Matured \in serve'[k].news => ~serve'[k].clr
  <2>1. serve'[k] = serve[k] /\ serve[k].pc = "observed"
    BY <1>3
  <2>2. /\ serve[k].held = "new" => ~serve[k].clr
        /\ Stale(serve[k].cursor[1].text) => ~serve[k].clr
        /\ Matured \in serve[k].news => ~serve[k].clr
    BY <2>1 DEF HeldInv
  <2> QED BY <2>1, <2>2
<1>4. held' = "new" => ~cleared'
    BY DEF HeldInv
<1>5. Matured' = Matured
    BY DEF Matured
<1> QED BY <1>2, <1>3, <1>4, <1>5 DEF HeldInv

LEMMA InitHeld == Init => HeldInv
<1> SUFFICES ASSUME Init PROVE HeldInv
    OBVIOUS
<1>1. held = None /\ \A k \in Services : serve[k].pc = "off"
    BY DEF Init, Off
<1>2. OldText = <<>>
    BY DEF Init, OldText, Prior, NoEntry
<1>3. ~Stale(OldText)
    BY <1>2 DEF Stale, EndsStale
<1> QED BY <1>1, <1>3 DEF HeldInv, None

LEMMA NextHeld ==
    ASSUME Typed, HeldInv, Sources = {1}, [Next]_vars
    PROVE  HeldInv'
<1>0. serve \in [Services -> Service]
    BY DEF Typed
<1>1. ASSUME NEW k, NEW v, serve' = [serve EXCEPT ![k] = v], v.pc # "observed",
             UNCHANGED <<cursor, held, cleared>>
      PROVE  HeldInv'
  <2>1. \A j \in Services : serve'[j] = v \/ serve'[j] = serve[j]
    BY <1>0, <1>1
  <2>2. \A j \in Services : serve'[j].pc = "observed" => serve'[j] = serve[j]
    BY <1>1, <2>1
  <2>3. OldText' = OldText
    BY <1>1 DEF OldText, Prior
  <2> QED BY <1>1, <2>2, <2>3, HeldStutters
<1>2. ASSUME UNCHANGED <<cursor, held, serve, cleared>> PROVE HeldInv'
  <2>1. OldText' = OldText
    BY <1>2 DEF OldText, Prior
  <2> QED BY <1>2, <2>1, HeldStutters
<1>3. CASE StartClaims \/ StartSees \/ StartDies \/ StopReads \/ StopWrites \/ UNCHANGED vars
    BY <1>2, <1>3 DEF StartClaims, StartSees, StartDies, StopReads, StopWrites, vars, disk, history
<1>4. CASE StartSpawns
  <2> DEFINE v == [serve[starter.k] EXCEPT !.pc = "boot"]
  <2>1. starter.k \in Services
    BY <1>4, Bounds DEF StartSpawns, Typed, Services
  <2>2. serve' = [serve EXCEPT ![starter.k] = v] /\ v.pc = "boot"
    BY <1>0, <1>4, <2>1 DEF StartSpawns, Goto, Service
  <2>3. UNCHANGED <<cursor, held, cleared>>
    BY <1>4 DEF StartSpawns, disk, history
  <2> HIDE DEF v
  <2> QED BY <1>1, <2>2, <2>3
<1>5. CASE StartFails
  <2>1. serve' = [serve EXCEPT ![starter.k] = Off] /\ UNCHANGED <<cursor, held, cleared>>
    BY <1>5 DEF StartFails, disk, history
  <2>2. Off.pc # "observed"
    BY DEF Off
  <2> QED BY <1>1, <2>1, <2>2
<1>6. ASSUME NEW k \in Services, Boot(k) PROVE HeldInv'
  <2>1. UNCHANGED <<held, cleared>>
    BY <1>6 DEF Boot, history
  <2>2. serve'[k].pc = "first" /\ \A j \in Services : j # k => serve'[j] = serve[j]
    BY <1>0, <1>6 DEF Boot, Goto, Service
  <2>3. \A j \in Services : serve'[j].pc = "observed" => serve'[j] = serve[j]
    BY <2>2
  <2>4. OldText' = OldText \/ OldText' = <<>>
    <3>1. CASE cursor # <<>>
      BY <1>6, <3>1 DEF Boot, OldText, Prior
    <3>2. CASE cursor = <<>>
      <4>1. cursor' = [s \in Sources |-> AtEnd(s)]
        BY <1>6, <3>2 DEF Boot
      <4>2. 1 \in Sources
        BY DEF Next
      <4>3. cursor' # <<>> /\ cursor'[1] = AtEnd(1)
        BY <4>1, <4>2
      <4> QED BY <4>3 DEF OldText, Prior, AtEnd
    <3> QED BY <3>1, <3>2
  <2> QED BY <2>1, <2>3, <2>4, HeldStutters
<1>7. ASSUME NEW k \in Services, NEW mature, Observe(k, mature) PROVE HeldInv'
  <2>1. PICK unread \in SUBSET Sources, idle \in SUBSET Sources :
           /\ serve' = [serve EXCEPT ![k] = Observed(mature, unread, idle)]
           /\ UNCHANGED <<cursor, held, cleared>>
    BY <1>7, Observes
  <2> DEFINE seen == Observed(mature, unread, idle)
  <2>2. /\ seen.held = "new" => ~seen.clr
        /\ Stale(seen.cursor[1].text) => ~seen.clr
        /\ Matured \in seen.news => ~seen.clr
    BY ObservedHeld
  <2>3. serve'[k] = seen /\ \A j \in Services : j # k => serve'[j] = serve[j]
    BY <1>0, <2>1
  <2> HIDE DEF seen
  <2>4. OldText' = OldText /\ Matured' = Matured
    BY <2>1 DEF OldText, Prior, Matured
  <2>5. ASSUME NEW j \in Services, serve'[j].pc = "observed"
        PROVE  /\ serve'[j].held = "new" => ~serve'[j].clr
               /\ Stale(serve'[j].cursor[1].text) => ~serve'[j].clr
               /\ Matured \in serve'[j].news => ~serve'[j].clr
    <3>1. CASE j = k
      BY <2>2, <2>3, <3>1
    <3>2. CASE j # k
      <4>1. serve'[j] = serve[j] /\ serve[j].pc = "observed"
        BY <2>3, <2>5, <3>2
      <4>2. /\ serve[j].held = "new" => ~serve[j].clr
            /\ Stale(serve[j].cursor[1].text) => ~serve[j].clr
            /\ Matured \in serve[j].news => ~serve[j].clr
        BY <4>1 DEF HeldInv
      <4> QED BY <4>1, <4>2
    <3> QED BY <3>1, <3>2
  <2> QED BY <2>1, <2>4, <2>5 DEF HeldInv
<1>8. ASSUME NEW k \in Services, SaveCursor(k) PROVE HeldInv'
  <2> DEFINE v == [Off EXCEPT !.pc = IF serve[k].news = {} THEN "sleep" ELSE "evaluate",
                              !.news = serve[k].news]
  <2>1. /\ serve[k].pc = "observed" /\ cursor' = serve[k].cursor /\ held' = serve[k].held
        /\ cleared' = serve[k].clr
        /\ serve' = [serve EXCEPT ![k] = v]
    BY <1>8 DEF SaveCursor
  <2>2. v.pc # "observed"
    BY DEF Off
  <2> HIDE DEF v
  <2>3. serve'[k] = v /\ \A j \in Services : j # k => serve'[j] = serve[j]
    BY <1>0, <2>1
  <2>4. OldText' = serve[k].cursor[1].text
    <3>1. cursor' \in [Sources -> Entry] /\ 1 \in Sources
      BY <2>1 DEF Typed
    <3>2. cursor' # <<>>
      BY <3>1
    <3> QED BY <2>1, <3>2 DEF OldText, Prior
  <2>5. /\ held' = "new" => ~cleared'
        /\ Stale(OldText') => ~cleared'
    BY <2>1, <2>4 DEF HeldInv
  <2>6. ASSUME NEW j \in Services, serve'[j].pc = "observed"
        PROVE  /\ serve'[j].held = "new" => ~serve'[j].clr
               /\ Stale(serve'[j].cursor[1].text) => ~serve'[j].clr
               /\ Matured \in serve'[j].news => ~serve'[j].clr
    <3>1. serve'[j] = serve[j] /\ serve[j].pc = "observed"
      BY <2>2, <2>3, <2>6
    <3>2. /\ serve[j].held = "new" => ~serve[j].clr
          /\ Stale(serve[j].cursor[1].text) => ~serve[j].clr
          /\ Matured \in serve[j].news => ~serve[j].clr
      BY <3>1 DEF HeldInv
    <3> QED BY <3>1, <3>2
  <2>7. Matured' = Matured
    BY DEF Matured
  <2> QED BY <2>5, <2>6, <2>7 DEF HeldInv
<1>9. ASSUME NEW k \in Services, Wakes(k) PROVE HeldInv'
  <2> DEFINE v == [serve[k] EXCEPT !.pc = IF svc.stop THEN "ending" ELSE "poll"]
  <2>1. serve' = [serve EXCEPT ![k] = v] /\ UNCHANGED <<cursor, held, cleared>>
    BY <1>9 DEF Wakes, Goto, disk, history
  <2>2. v.pc # "observed"
    BY <1>0 DEF Service
  <2> HIDE DEF v
  <2> QED BY <1>1, <2>1, <2>2
<1>10. ASSUME NEW k \in Services, Evaluate(k) PROVE HeldInv'
  <2>1. PICK p \in {"sleep", "ending"} : serve' = [serve EXCEPT ![k] = [Off EXCEPT !.pc = p]]
    BY <1>10 DEF Evaluate
  <2>2. [Off EXCEPT !.pc = p].pc # "observed" /\ UNCHANGED <<cursor, held, cleared>>
    BY <1>10 DEF Off, Evaluate, disk
  <2> QED BY <1>1, <2>1, <2>2
<1>11. ASSUME NEW k \in Services, Terminal(k) \/ TerminalWrites(k) \/ BootFails(k) \/ OwnerLost(k) \/ Dies(k)
       PROVE  HeldInv'
  <2> DEFINE ending == [Off EXCEPT !.pc = "ending"]
             exit == [Off EXCEPT !.pc = "exit", !.rec = svc]
  <2>1. UNCHANGED <<cursor, held, cleared>>
    BY <1>11 DEF Terminal, TerminalWrites, BootFails, OwnerLost, Dies, Ends, disk, history
  <2>2. \/ serve' = [serve EXCEPT ![k] = Off]
        \/ serve' = [serve EXCEPT ![k] = ending]
        \/ serve' = [serve EXCEPT ![k] = exit]
    BY <1>11 DEF Terminal, TerminalWrites, BootFails, OwnerLost, Dies, Ends
  <2>3. Off.pc = "off" /\ ending.pc = "ending" /\ exit.pc = "exit"
    BY DEF Off
  <2> HIDE DEF ending, exit
  <2> QED BY <1>1, <2>1, <2>2, <2>3
<1>12. ASSUME NEW k \in Services, Serves(k) \/ BootFails(k) \/ OwnerLost(k) \/ Dies(k) PROVE HeldInv'
    BY <1>6, <1>7, <1>8, <1>9, <1>10, <1>11, <1>12 DEF Serves, FirstPoll, Poll
<1>13. ASSUME NEW s \in Sources, Rotate(s) \/ \E kind \in Kinds : Write(s, kind) PROVE HeldInv'
  <2>1. UNCHANGED <<cursor, held, serve, cleared>>
    BY <1>13 DEF Rotate, Write, disk, history
  <2> QED BY <1>2, <2>1
<1> QED BY <1>3, <1>4, <1>5, <1>12, <1>13 DEF Next

(* STALE_STATUS_QUARANTINE_RULE (evaluator.py): with one log source, a        *)
(* poll that releases a quarantined identity has read no recovery of it since *)
(* its last stale record: for any number of services, also when two serve at  *)
(* once, when a source cannot be read, and whatever dies.  With a second      *)
(* source the statement is false, see the README.                             *)
THEOREM ClearedNotReleasedHolds == Sources = {1} => (Spec => []ClearedNotReleased)
<1> SUFFICES ASSUME Sources = {1} PROVE Spec => []ClearedNotReleased
    OBVIOUS
<1>1. Init => Typed /\ HeldInv
    BY InitTyped, InitHeld
<1>2. Typed /\ HeldInv /\ [Next]_vars => (Typed /\ HeldInv)'
    BY NextTyped, NextHeld
<1>3. HeldInv => ClearedNotReleased
    BY DEF HeldInv, ClearedNotReleased
<1> QED BY <1>1, <1>2, <1>3, PTL DEF Spec

-----------------------------------------------------------------------------
(* The attention ingest (module AttentionIngest), which each poll of the       *)
(* service runs.                                                               *)

-----------------------------------------------------------------------------
(* Sequences of what was read *)

Members(s) == {s[i] : i \in 1 .. Len(s)}

LEMMA ToSetIsMembers ==
    ASSUME NEW X, NEW s \in Seq(X)
    PROVE  ToSet(s) = Members(s)
BY DEF ToSet, Members

LEMMA JoinMembers ==
    ASSUME NEW X, NEW s \in Seq(X), NEW t \in Seq(X)
    PROVE  /\ s \o t \in Seq(X) /\ Len(s \o t) = Len(s) + Len(t)
           /\ \A i \in 1 .. Len(s) : (s \o t)[i] = s[i]
           /\ \A i \in 1 .. Len(t) : (s \o t)[Len(s) + i] = t[i]
           /\ Members(s \o t) = Members(s) \cup Members(t)
<1>1. s \o t \in Seq(X) /\ Len(s \o t) = Len(s) + Len(t) /\ Len(s) \in Nat /\ Len(t) \in Nat
    OBVIOUS
<1>2. \A i \in 1 .. Len(s) : (s \o t)[i] = s[i]
    OBVIOUS
<1>3. \A i \in 1 .. Len(t) : (s \o t)[Len(s) + i] = t[i]
    OBVIOUS
<1>4. ASSUME NEW x \in Members(s \o t) PROVE x \in Members(s) \cup Members(t)
  <2>1. PICK i \in 1 .. Len(s \o t) : x = (s \o t)[i]
    BY DEF Members
  <2>2. CASE i <= Len(s)
    BY <1>1, <1>2, <2>1, <2>2 DEF Members
  <2>3. CASE ~ (i <= Len(s))
    <3>1. i - Len(s) \in 1 .. Len(t) /\ Len(s) + (i - Len(s)) = i
      BY <1>1, <2>1, <2>3
    <3>2. x = t[i - Len(s)]
      BY <1>3, <2>1, <3>1
    <3> QED BY <3>1, <3>2 DEF Members
  <2> QED BY <2>2, <2>3
<1>5. ASSUME NEW i \in 1 .. Len(s) PROVE s[i] \in Members(s \o t)
  <2>1. i \in 1 .. Len(s \o t) /\ (s \o t)[i] = s[i]
    BY <1>1, <1>2
  <2> QED BY <2>1 DEF Members
<1>6. ASSUME NEW i \in 1 .. Len(t) PROVE t[i] \in Members(s \o t)
  <2>1. Len(s) + i \in 1 .. Len(s \o t) /\ (s \o t)[Len(s) + i] = t[i]
    BY <1>1, <1>3
  <2> QED BY <2>1 DEF Members
<1>7. Members(s) \subseteq Members(s \o t) /\ Members(t) \subseteq Members(s \o t)
    BY <1>5, <1>6 DEF Members
<1> QED BY <1>1, <1>2, <1>3, <1>4, <1>7

LEMMA AppendMembers ==
    ASSUME NEW X, NEW s \in Seq(X), NEW x \in X
    PROVE  /\ Append(s, x) \in Seq(X) /\ Len(Append(s, x)) = Len(s) + 1
           /\ \A i \in 1 .. Len(s) : Append(s, x)[i] = s[i]
           /\ Append(s, x)[Len(s) + 1] = x
           /\ Members(Append(s, x)) = Members(s) \cup {x}
<1>1. /\ Append(s, x) \in Seq(X) /\ Len(Append(s, x)) = Len(s) + 1 /\ Len(s) \in Nat
      /\ \A i \in 1 .. Len(s) : Append(s, x)[i] = s[i]
      /\ Append(s, x)[Len(s) + 1] = x
    OBVIOUS
<1>2. ASSUME NEW y \in Members(Append(s, x)) PROVE y \in Members(s) \cup {x}
  <2>1. PICK i \in 1 .. Len(s) + 1 : y = Append(s, x)[i]
    BY <1>1 DEF Members
  <2>2. i \in 1 .. Len(s) \/ i = Len(s) + 1
    BY <1>1, <2>1
  <2> QED BY <1>1, <2>1, <2>2 DEF Members
<1>3. ASSUME NEW i \in 1 .. Len(s) PROVE s[i] \in Members(Append(s, x))
  <2>1. i \in 1 .. Len(s) + 1 /\ Append(s, x)[i] = s[i]
    BY <1>1
  <2> QED BY <1>1, <2>1 DEF Members
<1>4. x \in Members(Append(s, x))
  <2>1. Len(s) + 1 \in 1 .. Len(s) + 1
    BY <1>1
  <2> QED BY <1>1, <2>1 DEF Members
<1>5. Members(s) \subseteq Members(Append(s, x))
    BY <1>3 DEF Members
<1> QED BY <1>1, <1>2, <1>4, <1>5

-----------------------------------------------------------------------------
(* Type correctness *)

Params == /\ MaxCells \in Nat \ {0} /\ MaxFaults \in Nat \ {0} /\ Chunk \in Nat \ {0}
          /\ MaxCarry \in Nat \ {0}
          /\ Records \cap {"none", "part", "damaged", "malformed", "garbled"} = {}

LEMMA ParamsHold == Params
BY IngestBounds, RecordsAssumption DEF Params

(* A newline ends a line of a record: a torn append leaves none. *)
SourceCell == {c \in Cell : c.nl => c.rec \in Records}
Place == [id : Nat, offset : Nat, carry : Seq(SourceCell)]
PollPcs == {"idle", "read", "timeline", "errors", "cursor"}
PollState == [pc : PollPcs, id : Nat, size : Nat, next : Place, new : Seq(Records),
              err : SUBSET Evidence, whole : BOOLEAN]

IngestTyped ==
    /\ Params
    /\ src \in [id : Nat \ {0}, cells : Seq(SourceCell)]
    /\ place \in Place /\ Len(place.carry) <= MaxCarry
    /\ timeline \in Seq(Records \cup {Damaged})
    /\ torn \in Records \cup {NoLine, Part}
    /\ errors \subseteq Evidence \cup {Garbled}
    /\ poll \in PollState /\ Len(poll.next.carry) <= MaxCarry
    /\ faults \in 0 .. MaxFaults
    /\ {errTorn, intact} \subseteq BOOLEAN

Acc == [line : Seq(SourceCell), new : Seq(Records), err : SUBSET Evidence]

LEMMA CanonicalTyped ==
    ASSUME IngestTyped
    PROVE  /\ Canonical \in Seq(Records \cup {Damaged})
           /\ torn \in Records => Canonical = Append(timeline, torn)
           /\ torn \notin Records => Canonical = timeline
<1>1. timeline \in Seq(Records \cup {Damaged})
    BY DEF IngestTyped
<1>2. ASSUME torn \in Records PROVE Canonical = Append(timeline, torn)
    BY <1>1, <1>2 DEF Canonical
<1>3. ASSUME torn \notin Records PROVE Canonical = timeline
    BY <1>1, <1>3 DEF Canonical
<1> QED BY <1>1, <1>2, <1>3

LEMMA TakeTyped ==
    ASSUME Params, NEW acc \in Acc, NEW x \in Records \cup {Malformed}
    PROVE  Take(acc, x) \in Acc /\ Take(acc, x).line = acc.line
<1>1. CASE x = Malformed
    BY <1>1 DEF Take, Acc, Evidence
<1>2. CASE x # Malformed /\ ~Known(acc.new, x)
  <2>1. Append(acc.new, x) \in Seq(Records)
    BY <1>2 DEF Acc
  <2> QED BY <1>2, <2>1 DEF Take, Acc
<1>3. CASE x # Malformed /\ Known(acc.new, x)
    BY <1>3 DEF Take, Acc, Evidence
<1> QED BY <1>1, <1>2, <1>3

LEMMA EatTyped ==
    ASSUME Params, NEW acc \in Acc, NEW cell \in SourceCell
    PROVE  /\ Eat(acc, cell) \in Acc
           /\ ~cell.nl => Eat(acc, cell) = [acc EXCEPT !.line = Append(@, cell)]
           /\ cell.nl => LET said == IF Append(acc.line, cell) = Line(cell.rec) THEN cell.rec ELSE Malformed
                         IN /\ Eat(acc, cell).line = <<>>
                            /\ Eat(acc, cell).new = Take(acc, said).new
                            /\ Eat(acc, cell).err = Take(acc, said).err
                            /\ said \in Records \cup {Malformed}
<1> DEFINE said == IF Append(acc.line, cell) = Line(cell.rec) THEN cell.rec ELSE Malformed
<1>1. CASE cell.nl
  <2>1. said \in Records \cup {Malformed}
    BY <1>1 DEF SourceCell
  <2>2. Eat(acc, cell) = [Take(acc, said) EXCEPT !.line = <<>>]
    BY <1>1 DEF Eat
  <2> HIDE DEF said
  <2>3. Take(acc, said) \in Acc
    BY <2>1, TakeTyped
  <2> DEFINE taken == Take(acc, said)
  <2>4. Eat(acc, cell) \in Acc /\ Eat(acc, cell).line = <<>>
        /\ Eat(acc, cell).new = taken.new /\ Eat(acc, cell).err = taken.err
    <3>1. Eat(acc, cell) = [taken EXCEPT !.line = <<>>] /\ taken \in Acc
      BY <2>2, <2>3
    <3>2. <<>> \in Seq(SourceCell)
      OBVIOUS
    <3> HIDE DEF taken
    <3> QED BY <3>1, <3>2 DEF Acc
  <2> QED BY <1>1, <2>1, <2>4 DEF said
<1>2. CASE ~cell.nl
  <2>1. Eat(acc, cell) = [acc EXCEPT !.line = Append(@, cell)]
    BY <1>2 DEF Eat
  <2>2. Append(acc.line, cell) \in Seq(SourceCell)
    BY DEF Acc
  <2> QED BY <1>2, <2>1, <2>2 DEF Acc
<1>3. cell.nl \in BOOLEAN
    BY DEF SourceCell, Cell
<1> QED BY <1>1, <1>2, <1>3

LEMMA EatenSteps ==
    ASSUME NEW data \in Seq(SourceCell)
    PROVE  \E f : /\ f[0] = [line |-> Carry, new |-> <<>>, err |-> poll.err]
                  /\ \A i \in 1 .. Len(data) : f[i] = Eat(f[i - 1], data[i])
                  /\ Eaten(data) = f[Len(data)]
<1> DEFINE n == Len(data)
           base == [line |-> Carry, new |-> <<>>, err |-> poll.err]
           to(a, i) == Eat(a, data[i])
           fits(f, m) == /\ f = [i \in 0 .. m |-> f[i]]
                         /\ f[0] = base
                         /\ \A i \in 1 .. m : f[i] = to(f[i - 1], i)
           S == {m \in 0 .. n : \E f : fits(f, m)}
<1>0. n \in Nat
    OBVIOUS
<1>3. n \in S
  <2> HIDE DEF n, base, to
  <2>1. 0 \in S
    <3> DEFINE f == [i \in 0 .. 0 |-> base]
    <3>1. f = [i \in 0 .. 0 |-> f[i]] /\ f[0] = base
      OBVIOUS
    <3>2. \A i \in 1 .. 0 : FALSE
      OBVIOUS
    <3>3. fits(f, 0)
      BY <3>1, <3>2
    <3> HIDE DEF f, fits
    <3> QED BY <3>3, <1>0
  <2>2. ASSUME NEW m \in 0 .. n, m \in S, m < n PROVE m + 1 \in S
    <3>1. PICK f : fits(f, m)
      BY <2>2
    <3> DEFINE g == [i \in 0 .. m + 1 |-> IF i <= m THEN f[i] ELSE to(f[m], m + 1)]
    <3>2. g = [i \in 0 .. m + 1 |-> g[i]]
      OBVIOUS
    <3>3. g[0] = base
      BY <3>1
    <3>4. ASSUME NEW i \in 1 .. m + 1 PROVE g[i] = to(g[i - 1], i)
      <4>1. CASE i <= m
        <5>1. g[i] = f[i] /\ g[i - 1] = f[i - 1] /\ i \in 1 .. m
          BY <4>1
        <5> HIDE DEF g
        <5> QED BY <3>1, <5>1
      <4>2. CASE i = m + 1
        BY <4>2
      <4> QED BY <4>1, <4>2
    <3>5. fits(g, m + 1)
      BY <3>2, <3>3, <3>4
    <3> HIDE DEF g, fits
    <3> QED BY <3>5, <2>2, <1>0
  <2> HIDE DEF S
  <2>3. 0 .. n \subseteq S
    BY <1>0, <2>1, <2>2, UpToN
  <2> QED BY <2>3, <1>0
<1>4. PICK f : fits(f, n)
    BY <1>3
<1>5. f = [i \in 0 .. n |-> IF i = 0 THEN base ELSE to(f[i - 1], i)]
  <2>1. ASSUME NEW i \in 0 .. n PROVE f[i] = IF i = 0 THEN base ELSE to(f[i - 1], i)
    BY <1>4, <1>0
  <2> QED BY <1>4, <2>1
<1> DEFINE eaten[i \in 0 .. Len(data)] ==
            IF i = 0 THEN [line |-> Carry, new |-> <<>>, err |-> poll.err]
                     ELSE Eat(eaten[i - 1], data[i])
<1>6. eaten = [i \in 0 .. n |-> IF i = 0 THEN base ELSE to(eaten[i - 1], i)]
    BY <1>5
<1>7. Eaten(data) = eaten[n]
    BY DEF Eaten
<1> HIDE DEF eaten, base, to
<1>8. eaten[0] = base /\ \A i \in 1 .. n : eaten[i] = to(eaten[i - 1], i)
    BY <1>0, <1>6
<1> USE DEF base, to
<1> QED BY <1>7, <1>8

LEMMA EatenTyped ==
    ASSUME IngestTyped, NEW data \in Seq(SourceCell)
    PROVE  \E f : /\ f[0] = [line |-> Carry, new |-> <<>>, err |-> poll.err]
                  /\ \A i \in 1 .. Len(data) : f[i] = Eat(f[i - 1], data[i])
                  /\ Eaten(data) = f[Len(data)]
                  /\ \A i \in 0 .. Len(data) : f[i] \in Acc
<1> DEFINE n == Len(data)
<1>1. PICK f : /\ f[0] = [line |-> Carry, new |-> <<>>, err |-> poll.err]
               /\ \A i \in 1 .. n : f[i] = Eat(f[i - 1], data[i])
               /\ Eaten(data) = f[n]
    BY EatenSteps
<1>2. n \in Nat /\ \A i \in 1 .. n : data[i] \in SourceCell
    OBVIOUS
<1> HIDE DEF n
<1>3. f[0] \in Acc
  <2>1. Carry \in Seq(SourceCell) /\ poll.err \in SUBSET Evidence /\ <<>> \in Seq(Records)
    BY DEF IngestTyped, PollState, Place, Carry
  <2> QED BY <1>1, <2>1 DEF Acc
<1> DEFINE S == {m \in 0 .. n : f[m] \in Acc}
<1>4. ASSUME NEW m \in 0 .. n, m \in S, m < n PROVE m + 1 \in S
  <2>1. m + 1 \in 1 .. n /\ (m + 1) - 1 = m
    BY <1>2, <1>4
  <2>2. f[m + 1] = Eat(f[m], data[m + 1]) /\ data[m + 1] \in SourceCell
    BY <1>1, <1>2, <2>1
  <2>3. f[m] \in Acc /\ Params
    BY <1>4 DEF IngestTyped
  <2>4. f[m + 1] \in Acc
    BY <2>2, <2>3, EatTyped
  <2> QED BY <2>1, <2>4
<1>5. 0 \in S
    BY <1>2, <1>3
<1> HIDE DEF S
<1>6. 0 .. n \subseteq S
    BY <1>2, <1>4, <1>5, UpToN
<1> USE DEF S
<1>7. \A i \in 0 .. n : f[i] \in Acc
    BY <1>6
<1> QED BY <1>1, <1>7 DEF n

(* What one poll reads. *)
Data == SubSeq(src.cells, Offset + 1, UpTo)

LEMMA DataTyped ==
    ASSUME IngestTyped
    PROVE  /\ Data \in Seq(SourceCell) /\ Offset \in Nat /\ UpTo \in Nat /\ UpTo <= Len(src.cells)
           /\ Offset <= Len(src.cells) => Len(Data) = UpTo - Offset /\ Offset <= UpTo
           /\ Len(Data) \in Nat
           /\ \A i \in 1 .. Len(Data) : Data[i] = src.cells[Offset + i]
<1>1. /\ src.cells \in Seq(SourceCell) /\ Len(src.cells) \in Nat /\ Chunk \in Nat
      /\ Offset \in Nat
    BY DEF IngestTyped, Params, Offset, Place
<1>2. UpTo \in Nat /\ UpTo <= Len(src.cells) /\ (Offset <= Len(src.cells) => Offset <= UpTo)
    BY <1>1 DEF UpTo
<1>3. Data \in Seq(SourceCell)
    BY <1>1, <1>2 DEF Data
<1>4. Len(Data) = IF Offset + 1 <= UpTo THEN UpTo - Offset ELSE 0
    BY <1>1, <1>2 DEF Data
<1>5. \A i \in 1 .. Len(Data) : Data[i] = src.cells[Offset + i]
    BY <1>1, <1>2, <1>4 DEF Data
<1> QED BY <1>1, <1>2, <1>3, <1>4, <1>5

(* What a poll has come to when it has read. *)
LEMMA ReadParts ==
    ASSUME IngestTyped, Read
    PROVE  LET got == Eaten(Data)
               over == TooLong(got.line)
           IN /\ poll.pc = "read" /\ UNCHANGED <<src, place, files, faults, intact>>
              /\ got \in Acc
              /\ poll' \in PollState /\ Len(poll'.next.carry) <= MaxCarry
              /\ poll'.pc = "timeline" /\ poll'.id = poll.id /\ poll'.whole = poll.whole
              /\ poll'.new = got.new /\ got.err \subseteq poll'.err
              /\ poll'.next.id = poll.id /\ poll'.next.offset = Offset + Len(Data)
              /\ poll'.next.carry = IF over THEN <<>> ELSE got.line
<1> DEFINE got == Eaten(Data)
           over == TooLong(got.line)
           err == got.err \cup (IF over THEN {Malformed} ELSE {})
           next == [id |-> poll.id, offset |-> Offset + Len(Data),
                    carry |-> IF over THEN <<>> ELSE got.line]
<1>1. poll' = [poll EXCEPT !.pc = "timeline", !.new = got.new, !.err = err, !.next = next]
      /\ poll.pc = "read" /\ UNCHANGED <<src, place, files, faults, intact>>
    BY DEF Read, Data
<1>2. got \in Acc
  <2>1. Data \in Seq(SourceCell)
    BY DataTyped
  <2>2. PICK f : Eaten(Data) = f[Len(Data)] /\ \A i \in 0 .. Len(Data) : f[i] \in Acc
    BY <2>1, EatenTyped
  <2> QED BY <2>1, <2>2, DataTyped
<1>3. Offset \in Nat /\ Len(Data) \in Nat /\ poll \in PollState /\ MaxCarry \in Nat
    BY DataTyped DEF IngestTyped, Params
<1> HIDE DEF got
<1>4. err \in SUBSET Evidence
    BY <1>2 DEF Acc, Evidence
<1>5. next \in Place /\ Len(next.carry) <= MaxCarry
    BY <1>2, <1>3 DEF Acc, Place, PollState, TooLong
<1>6. got.new \in Seq(Records)
    BY <1>2 DEF Acc
<1>7. next.id = poll.id /\ next.offset = Offset + Len(Data) /\ next.carry = IF over THEN <<>> ELSE got.line
    OBVIOUS
<1>8. got.err \subseteq err
    OBVIOUS
<1> HIDE DEF next, err, over
<1>9. /\ poll' \in PollState /\ poll'.next = next /\ poll'.err = err /\ poll'.new = got.new
      /\ poll'.pc = "timeline" /\ poll'.id = poll.id /\ poll'.whole = poll.whole
    BY <1>1, <1>3, <1>4, <1>5, <1>6 DEF PollState, PollPcs
<1> QED BY <1>1, <1>2, <1>5, <1>7, <1>8, <1>9 DEF got, over

LEMMA JoinedTyped ==
    ASSUME IngestTyped, NEW new \in Seq(Records)
    PROVE  /\ Joined(new) \in Seq(Records \cup {Damaged}) /\ Len(Joined(new)) = Len(new)
           /\ new # <<>> /\ torn # NoLine => Joined(new)[1] = Damaged /\ 1 \in 1 .. Len(new)
           /\ \A i \in 1 .. Len(new) : Joined(new)[i] = new[i] \/ (i = 1 /\ Joined(new)[i] = Damaged)
           /\ torn = NoLine => Joined(new) = new
<1>1. CASE torn # NoLine /\ new # <<>>
  <2>1. Joined(new) = <<Damaged>> \o SubSeq(new, 2, Len(new)) /\ Len(new) \in Nat \ {0}
    BY <1>1 DEF Joined
  <2>2. /\ SubSeq(new, 2, Len(new)) \in Seq(Records)
        /\ Len(SubSeq(new, 2, Len(new))) = Len(new) - 1
        /\ \A i \in 1 .. Len(new) - 1 : SubSeq(new, 2, Len(new))[i] = new[i + 1]
    BY <2>1
  <2> DEFINE rest == SubSeq(new, 2, Len(new))
  <2> HIDE DEF rest
  <2>3. rest \in Seq(Records \cup {Damaged}) /\ Len(rest) = Len(new) - 1
        /\ \A i \in 1 .. Len(new) - 1 : rest[i] = new[i + 1]
    BY <2>2 DEF rest
  <2>4. <<Damaged>> \o rest \in Seq(Records \cup {Damaged}) /\ Len(<<Damaged>> \o rest) = Len(new)
    BY <2>1, <2>3
  <2>5. (<<Damaged>> \o rest)[1] = Damaged
    BY <2>3
  <2>6. ASSUME NEW i \in 1 .. Len(new), i # 1 PROVE (<<Damaged>> \o rest)[i] = new[i]
    <3>1. i - 1 \in 1 .. Len(new) - 1 /\ 1 + (i - 1) = i
      BY <2>1, <2>6
    <3>2. (<<Damaged>> \o rest)[i] = rest[i - 1]
      BY <2>3, <2>6, <3>1
    <3> QED BY <2>3, <3>1, <3>2
  <2> QED BY <1>1, <2>1, <2>4, <2>5, <2>6 DEF rest
<1>2. CASE ~ (torn # NoLine /\ new # <<>>)
  <2>1. Joined(new) = new
    BY <1>2 DEF Joined
  <2>2. new \in Seq(Records \cup {Damaged})
    OBVIOUS
  <2> QED BY <1>2, <2>1, <2>2
<1> QED BY <1>1, <1>2

LEMMA LineTyped ==
    ASSUME NEW r \in Records
    PROVE  /\ Line(r) \in Seq(SourceCell) /\ Len(Line(r)) = 2
           /\ Line(r)[1] = [rec |-> r, nl |-> FALSE] /\ Line(r)[2] = [rec |-> r, nl |-> TRUE]
           /\ Torn \in SourceCell
BY DEF Line, SourceCell, Cell, Torn

LEMMA IngestInitTyped == Params /\ IngestInit => IngestTyped
<1> SUFFICES ASSUME Params, IngestInit PROVE IngestTyped
    OBVIOUS
<1>1. NoCursor \in Place /\ Len(NoCursor.carry) <= MaxCarry
    BY DEF NoCursor, Place, Params
<1>2. PollIdle \in PollState /\ PollIdle.next = NoCursor
    BY <1>1 DEF PollIdle, PollState, PollPcs
<1>3. <<>> \in Seq(SourceCell) /\ <<>> \in Seq(Records \cup {Damaged})
    OBVIOUS
<1>4. src \in [id : Nat \ {0}, cells : Seq(SourceCell)]
  <2>1. 1 \in Nat \ {0}
    OBVIOUS
  <2> QED BY <1>3, <2>1, Zenon DEF IngestInit
<1>5. timeline \in Seq(Records \cup {Damaged}) /\ torn \in Records \cup {NoLine, Part}
      /\ errors \subseteq Evidence \cup {Garbled} /\ {errTorn, intact} \subseteq BOOLEAN
    BY <1>3 DEF IngestInit
<1>6. place = NoCursor /\ poll = PollIdle /\ faults \in 0 .. MaxFaults
    BY DEF IngestInit, Params
<1> QED BY <1>1, <1>2, <1>4, <1>5, <1>6 DEF IngestTyped

LEMMA IngestNextTyped == IngestTyped /\ [IngestNext]_ingestVars => IngestTyped'
<1> SUFFICES ASSUME IngestTyped, [IngestNext]_ingestVars PROVE IngestTyped'
    OBVIOUS
<1>0. /\ Params' = Params /\ Params
      /\ Place' = Place /\ PollState' = PollState /\ SourceCell' = SourceCell
    BY DEF IngestTyped, Params, Place, PollState, SourceCell, Cell, Evidence
<1>1. /\ src \in [id : Nat \ {0}, cells : Seq(SourceCell)]
      /\ poll \in PollState /\ Len(poll.next.carry) <= MaxCarry
      /\ timeline \in Seq(Records \cup {Damaged}) /\ faults \in 0 .. MaxFaults /\ MaxFaults \in Nat
      /\ poll.new \in Seq(Records) /\ poll.err \in SUBSET Evidence /\ poll.next \in Place
      /\ poll.whole \in BOOLEAN
    BY <1>0 DEF IngestTyped, PollState, Params
<1>2. PollIdle \in PollState /\ Len(PollIdle.next.carry) <= MaxCarry /\ NoCursor \in Place
  <2>1. NoCursor \in Place /\ Len(NoCursor.carry) <= MaxCarry
    BY <1>0 DEF NoCursor, Place, Params
  <2> QED BY <2>1 DEF PollIdle, PollState, PollPcs
<1>3. Fault => faults' \in 0 .. MaxFaults
    BY <1>1 DEF Fault
<1>4. ASSUME NEW r \in Records, AppendRecord(r) PROVE IngestTyped'
  <2>1. src.cells \o Line(r) \in Seq(SourceCell)
    <3>1. src.cells \in Seq(SourceCell) /\ Line(r) \in Seq(SourceCell)
      BY <1>1, LineTyped
    <3> QED BY <3>1, JoinMembers
  <2>2. src' \in [id : Nat \ {0}, cells : Seq(SourceCell)]
    BY <1>1, <1>4, <2>1 DEF AppendRecord
  <2> QED BY <1>0, <1>4, <2>2 DEF AppendRecord, IngestTyped, files
<1>5. CASE AppendTears
  <2>1. Append(src.cells, Torn) \in Seq(SourceCell)
    <3>1. Torn \in SourceCell
      BY DEF Torn, SourceCell, Cell
    <3> QED BY <1>1, <3>1
  <2>2. src' \in [id : Nat \ {0}, cells : Seq(SourceCell)]
    BY <1>1, <1>5, <2>1 DEF AppendTears
  <2> QED BY <1>0, <1>3, <1>5, <2>2 DEF AppendTears, IngestTyped, files
<1>6. ASSUME NEW new \in [id : Nat \ {0}, cells : Seq(SourceCell)], Replace(new) PROVE IngestTyped'
  <2>1. poll' \in PollState /\ poll'.next = poll.next
    BY <1>1, <1>6 DEF Replace, PollState
  <2> QED BY <1>0, <1>3, <1>6, <2>1 DEF Replace, IngestTyped, files
<1>7. CASE SourceRotates \/ Cut
  <2>1. src.id + 1 \in Nat \ {0} /\ <<>> \in Seq(SourceCell)
    BY <1>1
  <2> DEFINE fresh == [id |-> src.id + 1, cells |-> <<>>]
             short == [src EXCEPT !.cells = <<>>]
  <2>2. fresh \in [id : Nat \ {0}, cells : Seq(SourceCell)]
    BY <2>1, Zenon
  <2>3. short \in [id : Nat \ {0}, cells : Seq(SourceCell)]
    BY <1>1, <2>1
  <2>4. Replace(fresh) \/ Replace(short)
    BY <1>7 DEF SourceRotates, Cut
  <2> HIDE DEF fresh, short
  <2> QED BY <1>6, <2>2, <2>3, <2>4
<1>8. CASE Begin
  <2>1. Unreported \in SUBSET Evidence /\ (intact \/ Replaced(src.id, Len(src.cells))) \in BOOLEAN
    BY DEF Unreported, Damage, Evidence, IngestTyped, Replaced
  <2>2. src.id \in Nat /\ Len(src.cells) \in Nat /\ "read" \in PollPcs
    BY <1>1 DEF PollPcs
  <2> DEFINE fields == [PollIdle EXCEPT !.pc = "read", !.id = src.id, !.size = Len(src.cells),
                           !.err = Unreported,
                           !.whole = intact \/ Replaced(src.id, Len(src.cells))]
  <2>3. poll' = fields
    BY <1>8 DEF Begin
  <2>4. fields \in PollState /\ fields.next = PollIdle.next
    BY <1>2, <2>1, <2>2 DEF PollState
  <2>5. poll' \in PollState /\ poll'.next = PollIdle.next
    BY <2>3, <2>4
  <2> QED BY <1>0, <1>2, <1>8, <2>5 DEF Begin, IngestTyped, files
<1>9. CASE Read
  <2>1. /\ UNCHANGED <<src, place, files, faults, intact>>
        /\ poll' \in PollState /\ Len(poll'.next.carry) <= MaxCarry
    BY <1>9, ReadParts
  <2> QED BY <1>0, <2>1 DEF IngestTyped, files
<1>10. CASE WriteTimeline
  <2>1. timeline \o Joined(poll.new) \in Seq(Records \cup {Damaged})
    BY <1>1, JoinedTyped
  <2>2. poll' \in PollState /\ poll'.next = poll.next
    BY <1>1, <1>10 DEF WriteTimeline, PollState, PollPcs
  <2>3. torn' \in Records \cup {NoLine, Part}
    BY <1>10 DEF WriteTimeline, IngestTyped
  <2> QED BY <1>0, <1>1, <1>10, <2>1, <2>2, <2>3 DEF WriteTimeline, IngestTyped
<1>11. CASE WriteErrors
  <2>1. poll' \in PollState /\ poll'.next = poll.next
    BY <1>1, <1>11 DEF WriteErrors, PollState, PollPcs
  <2>2. errors' \subseteq Evidence \cup {Garbled} /\ errTorn' \in BOOLEAN
    BY <1>1, <1>11 DEF WriteErrors, IngestTyped
  <2> QED BY <1>0, <1>1, <1>11, <2>1, <2>2 DEF WriteErrors, IngestTyped
<1>12. CASE WriteCursor
    BY <1>0, <1>1, <1>2, <1>12 DEF WriteCursor, IngestTyped, files
<1>13. CASE Die
    BY <1>0, <1>2, <1>13 DEF Die, IngestTyped, files
<1>14. CASE TearTimeline
  <2>1. PICK k \in DOMAIN poll.new :
           /\ timeline' = timeline \o Joined(SubSeq(poll.new, 1, k - 1))
           /\ torn' \in {Part} \cup (IF k = 1 /\ torn # NoLine THEN {} ELSE {poll.new[k]})
    BY <1>14 DEF TearTimeline
  <2>2. k \in 1 .. Len(poll.new) /\ poll.new[k] \in Records
    BY <1>1
  <2>3. SubSeq(poll.new, 1, k - 1) \in Seq(Records)
    BY <1>1, <2>2
  <2>4. timeline' \in Seq(Records \cup {Damaged})
    <3>1. Joined(SubSeq(poll.new, 1, k - 1)) \in Seq(Records \cup {Damaged})
      BY <2>3, JoinedTyped
    <3> QED BY <1>1, <2>1, <3>1, JoinMembers
  <2>5. torn' \in Records \cup {NoLine, Part}
    BY <2>1, <2>2
  <2> QED BY <1>0, <1>2, <1>3, <1>14, <2>4, <2>5 DEF TearTimeline, IngestTyped
<1>15. CASE TearErrors
    BY <1>0, <1>2, <1>3, <1>15 DEF TearErrors, IngestTyped
<1>16. CASE UNCHANGED ingestVars
    BY <1>0, <1>16 DEF ingestVars, files, IngestTyped
<1> QED BY <1>4, <1>5, <1>7, <1>8, <1>9, <1>10, <1>11, <1>12, <1>13, <1>14, <1>15, <1>16 DEF IngestNext


-----------------------------------------------------------------------------
(* No record_id twice *)

RecordAt(s, i) == i \in 1 .. Len(s) /\ s[i] \in Records
Unique(s) == \A i, j \in 1 .. Len(s) :
                RecordAt(s, i) /\ RecordAt(s, j) /\ Id[s[i]] = Id[s[j]] => i = j

(* The timeline, with what a poll is about to append to it. *)
Once == /\ IngestTyped
        /\ Unique(Canonical)
        /\ poll.pc = "timeline" => Unique(Canonical \o poll.new)

LEMMA NothingNew ==
    ASSUME IngestTyped
    PROVE  Canonical \o <<>> = Canonical /\ Joined(<<>>) = <<>> /\ timeline \o <<>> = timeline
BY CanonicalTyped DEF IngestTyped, Joined

(* Taking up a line keeps record_ids apart. *)
LEMMA TakeUnique ==
    ASSUME IngestTyped, NEW acc \in Acc, NEW x \in Records \cup {Malformed},
           Unique(Canonical \o acc.new)
    PROVE  Unique(Canonical \o Take(acc, x).new)
<1>1. CASE x = Malformed \/ Known(acc.new, x)
  <2>1. Take(acc, x).new = acc.new
    BY <1>1 DEF Take, Acc
  <2> QED BY <2>1
<1>2. CASE x # Malformed /\ ~Known(acc.new, x)
  <2>1. x \in Records /\ acc.new \in Seq(Records) /\ Canonical \in Seq(Records \cup {Damaged})
    BY <1>2, CanonicalTyped DEF Acc
  <2> DEFINE both == Canonical \o acc.new
             more == Append(both, x)
  <2>2. both \in Seq(Records \cup {Damaged}) /\ Canonical \o Append(acc.new, x) = more
    <3>1. acc.new \in Seq(Records \cup {Damaged})
      BY <2>1
    <3> QED BY <2>1, <3>1
  <2>3. Take(acc, x).new = Append(acc.new, x)
    BY <1>2 DEF Take, Acc
  <2>4. \A i \in 1 .. Len(both) : RecordAt(both, i) => Id[both[i]] # Id[x]
    <3>1. \A q \in ToSet(both) \cap Records : Id[q] # Id[x]
      BY <1>2 DEF Known
    <3>2. ToSet(both) = Members(both)
      BY <2>2, ToSetIsMembers
    <3> QED BY <3>1, <3>2 DEF Members, RecordAt
  <2>5. Unique(both)
    OBVIOUS
  <2> HIDE DEF both
  <2>6. /\ more \in Seq(Records \cup {Damaged}) /\ Len(more) = Len(both) + 1 /\ Len(both) \in Nat
        /\ \A i \in 1 .. Len(both) : more[i] = both[i]
        /\ more[Len(both) + 1] = x
    BY <2>1, <2>2
  <2> HIDE DEF more
  <2>7. ASSUME NEW i \in 1 .. Len(more), NEW j \in 1 .. Len(more),
               RecordAt(more, i), RecordAt(more, j), Id[more[i]] = Id[more[j]]
        PROVE  i = j
    <3>1. CASE i \in 1 .. Len(both) /\ j \in 1 .. Len(both)
      <4>1. RecordAt(both, i) /\ RecordAt(both, j) /\ Id[both[i]] = Id[both[j]]
        BY <2>6, <2>7, <3>1 DEF RecordAt
      <4> QED BY <2>5, <3>1, <4>1 DEF Unique
    <3>2. CASE i = Len(both) + 1 /\ j \in 1 .. Len(both)
      BY <2>4, <2>6, <2>7, <3>2 DEF RecordAt
    <3>3. CASE j = Len(both) + 1 /\ i \in 1 .. Len(both)
      BY <2>4, <2>6, <2>7, <3>3 DEF RecordAt
    <3> QED BY <2>6, <2>7, <3>1, <3>2, <3>3
  <2>8. Unique(more)
    BY <2>7 DEF Unique
  <2> QED BY <2>2, <2>3, <2>8
<1> QED BY <1>1, <1>2

LEMMA EatenUnique ==
    ASSUME IngestTyped, Unique(Canonical), NEW data \in Seq(SourceCell)
    PROVE  Unique(Canonical \o Eaten(data).new)
<1> DEFINE n == Len(data)
<1>1. PICK f : /\ f[0] = [line |-> Carry, new |-> <<>>, err |-> poll.err]
               /\ \A i \in 1 .. n : f[i] = Eat(f[i - 1], data[i])
               /\ Eaten(data) = f[n]
               /\ \A i \in 0 .. n : f[i] \in Acc
    BY EatenTyped
<1>2. n \in Nat /\ \A i \in 1 .. n : data[i] \in SourceCell
    OBVIOUS
<1> HIDE DEF n
<1> DEFINE S == {m \in 0 .. n : Unique(Canonical \o f[m].new)}
<1>3. 0 \in S
  <2>1. f[0].new = <<>>
    BY <1>1
  <2>2. Unique(Canonical \o f[0].new)
    BY <2>1, NothingNew
  <2> QED BY <1>2, <2>2
<1>4. ASSUME NEW m \in 0 .. n, m \in S, m < n PROVE m + 1 \in S
  <2>1. m + 1 \in 1 .. n /\ (m + 1) - 1 = m /\ m + 1 \in 0 .. n
    BY <1>2, <1>4
  <2> DEFINE acc == f[m]
             cell == data[m + 1]
             said == IF Append(acc.line, cell) = Line(cell.rec) THEN cell.rec ELSE Malformed
  <2>2. f[m + 1] = Eat(acc, cell) /\ cell \in SourceCell /\ acc \in Acc /\ Params
        /\ Unique(Canonical \o acc.new)
    BY <1>1, <1>2, <1>4, <2>1 DEF IngestTyped
  <2>3. CASE cell.nl
    <3> HIDE DEF acc, cell
    <3>0. Eat(acc, cell).new = Take(acc, said).new /\ said \in Records \cup {Malformed}
      BY <2>2, <2>3, EatTyped, Zenon
    <3> HIDE DEF said
    <3>1. f[m + 1].new = Take(acc, said).new /\ said \in Records \cup {Malformed}
      BY <2>2, <3>0
    <3>2. Unique(Canonical \o f[m + 1].new)
      BY <2>2, <3>1, TakeUnique
    <3> QED BY <2>1, <3>2
  <2>4. CASE ~cell.nl
    <3>1. f[m + 1] = [acc EXCEPT !.line = Append(@, cell)]
      BY <2>2, <2>4, EatTyped
    <3>2. f[m + 1].new = acc.new
      BY <2>2, <3>1 DEF Acc
    <3> QED BY <2>1, <2>2, <3>2
  <2> QED BY <2>3, <2>4
<1> HIDE DEF S
<1>5. 0 .. n \subseteq S
    BY <1>2, <1>3, <1>4, UpToN
<1> USE DEF S
<1>6. n \in S
    BY <1>2, <1>5
<1> QED BY <1>1, <1>6

(* A timeline whose records are among those of one without repetition, each at *)
(* a place of its own.                                                         *)
LEMMA Rewritten ==
    ASSUME IngestTyped, NEW new \in Seq(Records), Unique(Canonical \o new),
           NEW t \in Seq(Records \cup {Damaged}),
           \A i \in 1 .. Len(t) : RecordAt(t, i) =>
               \/ i \in 1 .. Len(timeline) /\ t[i] = timeline[i]
               \/ i - Len(timeline) \in 1 .. Len(new) /\ t[i] = new[i - Len(timeline)]
    PROVE  Unique(t)
<1> DEFINE both == Canonical \o new
           n == Len(timeline)
           c == Len(Canonical)
           at(i) == IF i <= n THEN i ELSE i - n + c
<1>1. /\ Canonical \in Seq(Records \cup {Damaged}) /\ n \in Nat /\ c \in Nat /\ n <= c
      /\ \A i \in 1 .. n : Canonical[i] = timeline[i]
  <2>1. timeline \in Seq(Records \cup {Damaged}) /\ Canonical \in Seq(Records \cup {Damaged})
    BY CanonicalTyped DEF IngestTyped
  <2>2. CASE torn \in Records
    <3>1. Canonical = Append(timeline, torn)
      BY <2>2, CanonicalTyped
    <3> QED BY <2>1, <2>2, <3>1
  <2>3. CASE torn \notin Records
    BY <2>1, <2>3, CanonicalTyped
  <2> QED BY <2>1, <2>2, <2>3
<1>2. /\ both \in Seq(Records \cup {Damaged}) /\ Len(both) = c + Len(new)
      /\ \A i \in 1 .. c : both[i] = Canonical[i]
      /\ \A i \in 1 .. Len(new) : both[c + i] = new[i]
      /\ Len(new) \in Nat
  <2>1. new \in Seq(Records \cup {Damaged})
    OBVIOUS
  <2> QED BY <1>1, <2>1, JoinMembers
<1>3. Unique(both)
    OBVIOUS
<1> HIDE DEF both, n, c
<1>4. ASSUME NEW i \in 1 .. Len(t), RecordAt(t, i)
      PROVE  at(i) \in 1 .. Len(both) /\ both[at(i)] = t[i] /\ RecordAt(both, at(i))
  <2>1. CASE i \in 1 .. n /\ t[i] = timeline[i]
    <3>1. at(i) = i /\ i \in 1 .. c /\ i \in 1 .. c + Len(new)
      BY <1>1, <1>2, <2>1
    <3>2. both[i] = Canonical[i] /\ Canonical[i] = timeline[i]
      BY <1>1, <1>2, <2>1, <3>1
    <3> HIDE DEF at
    <3> QED BY <1>2, <1>4, <2>1, <3>1, <3>2 DEF RecordAt
  <2>2. CASE i - n \in 1 .. Len(new) /\ t[i] = new[i - n]
    <3>1. at(i) = c + (i - n) /\ at(i) \in 1 .. Len(both)
      BY <1>1, <1>2, <2>2
    <3>2. both[c + (i - n)] = new[i - n]
      BY <1>2, <2>2
    <3> HIDE DEF at
    <3> QED BY <1>4, <2>2, <3>1, <3>2 DEF RecordAt
  <2> QED BY <1>4, <2>1, <2>2 DEF n
<1>5. ASSUME NEW i \in 1 .. Len(t), NEW j \in 1 .. Len(t),
             RecordAt(t, i), RecordAt(t, j), Id[t[i]] = Id[t[j]]
      PROVE  i = j
  <2>1. /\ at(i) \in 1 .. Len(both) /\ both[at(i)] = t[i] /\ RecordAt(both, at(i))
        /\ at(j) \in 1 .. Len(both) /\ both[at(j)] = t[j] /\ RecordAt(both, at(j))
    BY <1>4, <1>5
  <2>2. at(i) = at(j)
    <3> HIDE DEF at
    <3> QED BY <1>3, <1>5, <2>1 DEF Unique
  <2> QED BY <1>1, <2>2
<1> QED BY <1>5 DEF Unique

LEMMA OnceNext == Once /\ [IngestNext]_ingestVars => Once'
<1> SUFFICES ASSUME Once, [IngestNext]_ingestVars PROVE Once'
    OBVIOUS
<1>0. IngestTyped /\ IngestTyped' /\ Unique(Canonical)
    BY IngestNextTyped DEF Once
<1>1. /\ timeline \in Seq(Records \cup {Damaged}) /\ poll.new \in Seq(Records)
      /\ Canonical \in Seq(Records \cup {Damaged})
      /\ Canonical' \in Seq(Records \cup {Damaged})
    <2>1. timeline \in Seq(Records \cup {Damaged}) /\ poll.new \in Seq(Records)
      BY <1>0 DEF IngestTyped, PollState
    <2>2. Canonical \in Seq(Records \cup {Damaged})
      BY <1>0, CanonicalTyped
    <2>3. timeline' \in Seq(Records \cup {Damaged})
      BY <1>0 DEF IngestTyped
    <2>4. Canonical' \in Seq(Records \cup {Damaged})
      <3>1. CASE torn' \in Records
        <4>1. Canonical' = timeline' \o <<torn'>>
          BY <3>1 DEF Canonical
        <4>2. <<torn'>> \in Seq(Records \cup {Damaged})
          BY <3>1
        <4> QED BY <2>3, <4>1, <4>2, JoinMembers
      <3>2. CASE torn' \notin Records
        <4>1. Canonical' = timeline' \o <<>>
          BY <3>2 DEF Canonical
        <4> QED BY <2>3, <4>1
      <3> QED BY <3>1, <3>2
    <2> QED BY <2>1, <2>2, <2>4
<1>2. ASSUME UNCHANGED <<timeline, torn>>, poll'.pc = "timeline" => poll.pc = "timeline" /\ poll'.new = poll.new
      PROVE  Once'
  <2>1. Canonical' = Canonical
    BY <1>2 DEF Canonical
  <2>2. Unique(Canonical)'
    BY <1>0, <2>1 DEF Unique, RecordAt
  <2>3. poll'.pc = "timeline" => Unique(Canonical \o poll.new)'
    BY <1>2, <2>1 DEF Once, Unique, RecordAt
  <2> QED BY <1>0, <2>2, <2>3 DEF Once
<1>3. ASSUME NEW r \in Records, AppendRecord(r) PROVE Once'
    BY <1>2, <1>3 DEF AppendRecord, files
<1>4. CASE AppendTears
    BY <1>2, <1>4 DEF AppendTears, files
<1>5. CASE SourceRotates \/ Cut
  <2>1. \E new : Replace(new)
    BY <1>5 DEF SourceRotates, Cut
  <2>2. UNCHANGED <<timeline, torn>> /\ poll' = [poll EXCEPT !.whole = FALSE]
    BY <2>1 DEF Replace, files
  <2>3. poll'.pc = poll.pc /\ poll'.new = poll.new
    BY <1>0, <2>2 DEF IngestTyped, PollState
  <2> QED BY <1>2, <2>2, <2>3
<1>6. CASE Begin
    BY <1>2, <1>6 DEF Begin, PollIdle, files
<1>7. CASE Read
  <2>1. Unique(Canonical \o Eaten(Data).new)
    BY <1>0, DataTyped, EatenUnique
  <2>2. poll'.new = Eaten(Data).new /\ UNCHANGED files
    BY <1>0, <1>7, ReadParts
  <2>3. Canonical' = Canonical
    BY <2>2 DEF files, Canonical
  <2>4. Unique(Canonical)' /\ Unique(Canonical \o poll.new)'
    BY <1>0, <2>1, <2>2, <2>3 DEF Unique, RecordAt
  <2> QED BY <1>0, <2>4 DEF Once
<1>8. CASE WriteTimeline
  <2> DEFINE t == timeline \o Joined(poll.new)
  <2>1. poll.pc = "timeline" /\ timeline' = t /\ poll'.pc = "errors"
        /\ torn' = IF poll.new = <<>> THEN torn ELSE NoLine
    BY <1>0, <1>8 DEF WriteTimeline, IngestTyped, PollState
  <2>2. Unique(Canonical \o poll.new)
    BY <2>1 DEF Once
  <2>3. CASE poll.new = <<>>
    <3>1. timeline' = timeline /\ torn' = torn
      BY <1>0, <2>1, <2>3, NothingNew
    <3> QED BY <1>2, <2>1, <3>1
  <2>4. CASE poll.new # <<>>
    <3>1. Canonical' = t
      <4>1. NoLine \notin Records
        BY <1>0 DEF IngestTyped, Params, NoLine
      <4>2. timeline' \in Seq(Records \cup {Damaged})
        BY <1>0 DEF IngestTyped
      <4> QED BY <2>1, <2>4, <4>1, <4>2 DEF Canonical
    <3> DEFINE tail == Joined(poll.new)
    <3>2. /\ tail \in Seq(Records \cup {Damaged}) /\ Len(tail) = Len(poll.new)
          /\ \A i \in 1 .. Len(poll.new) : tail[i] = poll.new[i] \/ (i = 1 /\ tail[i] = Damaged)
      BY <1>0, <1>1, JoinedTyped
    <3>3. \A i \in 1 .. Len(poll.new) : tail[i] \in Records => tail[i] = poll.new[i]
      BY <1>0, <3>2 DEF IngestTyped, Params, Damaged
    <3> HIDE DEF tail
    <3>4. t = timeline \o tail
      BY DEF tail
    <3> HIDE DEF t
    <3>5. /\ t \in Seq(Records \cup {Damaged}) /\ Len(t) = Len(timeline) + Len(tail)
          /\ \A i \in 1 .. Len(timeline) : t[i] = timeline[i]
          /\ \A i \in 1 .. Len(tail) : t[Len(timeline) + i] = tail[i]
          /\ Len(timeline) \in Nat /\ Len(tail) \in Nat
      <4>1. timeline \in Seq(Records \cup {Damaged}) /\ tail \in Seq(Records \cup {Damaged})
        BY <1>1, <3>2
      <4>2. /\ timeline \o tail \in Seq(Records \cup {Damaged})
            /\ Len(timeline \o tail) = Len(timeline) + Len(tail)
            /\ \A i \in 1 .. Len(timeline) : (timeline \o tail)[i] = timeline[i]
            /\ \A i \in 1 .. Len(tail) : (timeline \o tail)[Len(timeline) + i] = tail[i]
        BY <4>1, JoinMembers, SMTT(30)
      <4>3. Len(timeline) \in Nat /\ Len(tail) \in Nat
        BY <4>1
      <4> QED BY <3>4, <4>2, <4>3, Zenon
    <3>6. ASSUME NEW i \in 1 .. Len(t), RecordAt(t, i)
          PROVE  \/ i \in 1 .. Len(timeline) /\ t[i] = timeline[i]
                 \/ i - Len(timeline) \in 1 .. Len(poll.new) /\ t[i] = poll.new[i - Len(timeline)]
      <4>1. CASE i <= Len(timeline)
        BY <3>5, <4>1
      <4>2. CASE ~ (i <= Len(timeline))
        <5>1. i - Len(timeline) \in 1 .. Len(tail) /\ Len(timeline) + (i - Len(timeline)) = i
          BY <3>5, <4>2
        <5>2. t[i] = tail[i - Len(timeline)]
          BY <3>5, <5>1
        <5> QED BY <3>2, <3>3, <3>6, <5>1, <5>2 DEF RecordAt
      <4> QED BY <4>1, <4>2
    <3>7. Unique(t)
      BY <1>0, <1>1, <2>2, <3>5, <3>6, Rewritten
    <3>8. Unique(Canonical)'
      BY <3>1, <3>7 DEF Unique, RecordAt
    <3> QED BY <1>0, <2>1, <3>8 DEF Once
  <2> QED BY <2>3, <2>4
<1>9. CASE WriteErrors
  <2>1. UNCHANGED <<timeline, torn>> /\ poll'.pc = "cursor"
    BY <1>0, <1>9 DEF WriteErrors, IngestTyped, PollState
  <2> QED BY <1>2, <2>1
<1>10. CASE WriteCursor
    BY <1>2, <1>10 DEF WriteCursor, PollIdle, files
<1>11. CASE Die
    BY <1>2, <1>11 DEF Die, PollIdle, files
<1>12. CASE TearTimeline
  <2>1. PICK k \in DOMAIN poll.new :
           /\ timeline' = timeline \o Joined(SubSeq(poll.new, 1, k - 1))
           /\ torn' \in {Part} \cup (IF k = 1 /\ torn # NoLine THEN {} ELSE {poll.new[k]})
    BY <1>12 DEF TearTimeline
  <2>2. poll.pc = "timeline" /\ poll'.pc = "idle"
    BY <1>12 DEF TearTimeline, PollIdle
  <2>3. Unique(Canonical \o poll.new)
    BY <2>2 DEF Once
  <2> DEFINE head == SubSeq(poll.new, 1, k - 1)
             tail == Joined(head)
             mid == timeline \o tail
             t == Canonical'
             m == Len(timeline)
  <2>4. k \in 1 .. Len(poll.new) /\ poll.new[k] \in Records /\ m \in Nat
    BY <1>1
  <2>5. /\ head \in Seq(Records) /\ Len(head) = k - 1
        /\ \A i \in 1 .. k - 1 : head[i] = poll.new[i]
    BY <1>1, <2>4
  <2> HIDE DEF head
  <2>6. /\ tail \in Seq(Records \cup {Damaged}) /\ Len(tail) = k - 1
        /\ \A i \in 1 .. k - 1 : tail[i] = head[i] \/ (i = 1 /\ tail[i] = Damaged)
    BY <1>0, <2>5, JoinedTyped
  <2>7. \A i \in 1 .. k - 1 : tail[i] \in Records => tail[i] = poll.new[i]
    BY <1>0, <2>5, <2>6 DEF IngestTyped, Params, Damaged
  <2> HIDE DEF tail
  <2>8. /\ mid \in Seq(Records \cup {Damaged}) /\ Len(mid) = m + (k - 1)
        /\ \A i \in 1 .. m : mid[i] = timeline[i]
        /\ \A i \in 1 .. k - 1 : mid[m + i] = tail[i]
    <3>1. timeline \in Seq(Records \cup {Damaged}) /\ tail \in Seq(Records \cup {Damaged})
      BY <1>1, <2>6
    <3>2. /\ mid \in Seq(Records \cup {Damaged})
          /\ Len(mid) = m + Len(tail)
          /\ \A i \in 1 .. m : mid[i] = timeline[i]
          /\ \A i \in 1 .. Len(tail) : mid[m + i] = tail[i]
      BY <3>1, JoinMembers, SMTT(30)
    <3> HIDE DEF mid, m
    <3> QED BY <2>6, <3>2
  <2>9. timeline' = mid
    BY <2>1 DEF tail, head
  <2> HIDE DEF mid
  <2>10. \/ t = mid
         \/ t = Append(mid, poll.new[k])
    <3>1. Part \notin Records
      BY <1>0 DEF IngestTyped, Params, Part
    <3>2. CASE torn' = Part
      BY <2>8, <2>9, <3>1, <3>2 DEF Canonical
    <3>3. CASE torn' = poll.new[k]
      BY <2>4, <2>8, <2>9, <3>3 DEF Canonical
    <3> QED BY <2>1, <3>2, <3>3
  <2>11. /\ \A i \in 1 .. Len(mid) : t[i] = mid[i]
         /\ Len(t) = Len(mid) \/ (Len(t) = Len(mid) + 1 /\ t[Len(mid) + 1] = poll.new[k])
         /\ t \in Seq(Records \cup {Damaged})
    <3> HIDE DEF t, m
    <3>1. Len(mid) \in Nat /\ mid \in Seq(Records \cup {Damaged})
      BY <2>8
    <3>2. CASE t = mid
      BY <3>1, <3>2
    <3>3. CASE t = Append(mid, poll.new[k])
      BY <2>4, <3>1, <3>3
    <3> QED BY <2>10, <3>2, <3>3
  <2> HIDE DEF t, m
  <2>12. ASSUME NEW i \in 1 .. Len(t), RecordAt(t, i)
         PROVE  \/ i \in 1 .. m /\ t[i] = timeline[i]
                \/ i - m \in 1 .. Len(poll.new) /\ t[i] = poll.new[i - m]
    <3>1. CASE i <= m
      <4>1. i \in 1 .. m /\ i \in 1 .. Len(mid)
        BY <2>4, <2>8, <3>1
      <4>2. t[i] = mid[i] /\ mid[i] = timeline[i]
        BY <2>8, <2>11, <4>1
      <4> QED BY <4>1, <4>2
    <3>2. CASE m < i /\ i <= m + (k - 1)
      <4>1. i - m \in 1 .. k - 1 /\ m + (i - m) = i /\ i \in 1 .. Len(mid) /\ i - m \in 1 .. Len(poll.new)
        BY <2>4, <2>8, <3>2
      <4>2. t[i] = mid[i] /\ mid[m + (i - m)] = tail[i - m]
        BY <2>8, <2>11, <4>1
      <4>3. t[i] = tail[i - m]
        BY <4>1, <4>2
      <4> QED BY <2>7, <2>12, <4>1, <4>3 DEF RecordAt
    <3>3. CASE ~ (i <= m + (k - 1))
      <4>1. i = Len(mid) + 1 /\ t[i] = poll.new[k] /\ i - m = k
        BY <2>4, <2>8, <2>11, <3>3
      <4> QED BY <2>4, <4>1
    <3> QED BY <2>4, <3>1, <3>2, <3>3
  <2>13. Unique(t)
    <3> USE DEF m
    <3> QED BY <1>0, <1>1, <2>3, <2>11, <2>12, Rewritten
  <2>14. Unique(Canonical)'
    BY <2>13 DEF t, Unique, RecordAt
  <2> QED BY <1>0, <2>2, <2>14 DEF Once
<1>13. CASE TearErrors
    BY <1>2, <1>13 DEF TearErrors, PollIdle
<1>14. CASE UNCHANGED ingestVars
    BY <1>2, <1>14 DEF ingestVars, files
<1> QED BY <1>3, <1>4, <1>5, <1>6, <1>7, <1>8, <1>9, <1>10, <1>11, <1>12, <1>13, <1>14 DEF IngestNext

LEMMA OnceInit == Params /\ IngestInit => Once
<1> SUFFICES ASSUME Params, IngestInit PROVE Once
    OBVIOUS
<1>1. IngestTyped
    BY IngestInitTyped
<1>2. Canonical = <<>>
    BY <1>1, CanonicalTyped DEF IngestInit, IngestTyped, Params, NoLine
<1>3. poll.pc = "idle"
    BY DEF IngestInit, PollIdle
<1> QED BY <1>1, <1>2, <1>3 DEF Once, Unique

LEMMA OnceShown == Once => OnceInTimeline
<1> SUFFICES ASSUME Once PROVE OnceInTimeline
    OBVIOUS
<1>1. DOMAIN Canonical = 1 .. Len(Canonical)
    BY CanonicalTyped DEF Once
<1> QED BY <1>1 DEF OnceInTimeline, Once, Unique, RecordAt

(* "A crash after its fsync but before cursor replacement must replay without *)
(* manufacturing a second canonical record" (attention.py, _timeline_dedup    *)
(* and ingest_attention): for every set of records with any record_ids, every *)
(* length of source, read and carry, and however often the poll or the        *)
(* producer dies in its append or the source is rotated or cut.               *)
THEOREM OnceInTimelineHolds == IngestSpec => [](IngestTypeOK /\ OnceInTimeline)
<1>1. Once => IngestTypeOK
  <2> SUFFICES ASSUME Once PROVE IngestTypeOK
    OBVIOUS
  <2>1. IngestTyped
    BY DEF Once
  <2>2. \A s \in Seq(SourceCell) : s \in Seq(Cell)
    BY DEF SourceCell
  <2> QED BY <2>1, <2>2 DEF IngestTyped, IngestTypeOK, Place, PollState, PollPcs
<1> QED BY <1>1, OnceInit, OnceNext, OnceShown, ParamsHold, PTL DEF IngestSpec

-----------------------------------------------------------------------------
(* No record lost without a trace *)

(* The partial line after n cells of a source: it goes back to the last       *)
(* newline, or it was too long and dropped, and then the rest of the line     *)
(* cannot pass for a record.                                                  *)
Rest(cells, n, line) ==
    \E b \in 0 .. n : /\ line = SubSeq(cells, b + 1, n)
                      /\ \A j \in b + 1 .. n : ~cells[j].nl
                      /\ b = n /\ n > 0 /\ ~cells[n].nl => ~Starts(cells, n)

Passing(cells, n) == {r \in Records : \E i \in 1 .. Len(cells) : i <= n /\ Parsed(cells, i) = r}

(* A place of a source such that all before it is known. *)
Follows(cells, e, known) == /\ e.offset <= Len(cells)
                            /\ Rest(cells, e.offset, e.carry)
                            /\ Passing(cells, e.offset) \subseteq known

LEMMA OneCell ==
    ASSUME NEW X, NEW s \in Seq(X), NEW n \in 1 .. Len(s)
    PROVE  Len(SubSeq(s, n, n)) = 1 /\ SubSeq(s, n, n)[1] = s[n]
OBVIOUS

LEMMA SameSeq ==
    ASSUME NEW X, NEW s \in Seq(X), NEW t \in Seq(X), Len(s) = Len(t),
           \A i \in 1 .. Len(s) : s[i] = t[i]
    PROVE  s = t
OBVIOUS

LEMMA SameSubSeq ==
    ASSUME NEW X, NEW s \in Seq(X), NEW t \in Seq(X), NEW a \in Nat \ {0}, NEW b \in Nat,
           b <= Len(s), b <= Len(t), \A j \in a .. b : s[j] = t[j]
    PROVE  SubSeq(s, a, b) = SubSeq(t, a, b)
<1>1. SubSeq(s, a, b) = [i \in 1 .. (1 + b - a) |-> s[i + a - 1]]
      /\ SubSeq(t, a, b) = [i \in 1 .. (1 + b - a) |-> t[i + a - 1]]
    OBVIOUS
<1>2. \A i \in 1 .. (1 + b - a) : i + a - 1 \in a .. b
    OBVIOUS
<1> QED BY <1>1, <1>2

LEMMA RestGoesOn ==
    ASSUME Params, NEW cells \in Seq(SourceCell), NEW n \in Nat, n < Len(cells),
           NEW line \in Seq(SourceCell), Rest(cells, n, line)
    PROVE  /\ ~cells[n + 1].nl => Rest(cells, n + 1, Append(line, cells[n + 1]))
           /\ cells[n + 1].nl => Rest(cells, n + 1, <<>>)
           /\ \A r \in Records : Parsed(cells, n + 1) = r =>
                 /\ cells[n + 1].nl /\ cells[n + 1].rec = r
                 /\ Append(line, cells[n + 1]) = Line(r)
<1>0. Len(cells) \in Nat /\ n + 1 \in 1 .. Len(cells) /\ n + 1 \in Nat
      /\ \A i \in 1 .. Len(cells) : cells[i] \in SourceCell
    OBVIOUS
<1>1. PICK b \in 0 .. n : /\ line = SubSeq(cells, b + 1, n)
                          /\ \A j \in b + 1 .. n : ~cells[j].nl
                          /\ b = n /\ n > 0 /\ ~cells[n].nl => ~Starts(cells, n)
    BY DEF Rest
<1>2. ASSUME ~cells[n + 1].nl PROVE Rest(cells, n + 1, Append(line, cells[n + 1]))
  <2>1. SubSeq(cells, b + 1, n + 1) = Append(line, cells[n + 1])
    BY <1>0, <1>1
  <2>2. \A j \in b + 1 .. n + 1 : ~cells[j].nl
    BY <1>1, <1>2
  <2>3. b \in 0 .. n + 1 /\ b # n + 1
    BY <1>1
  <2> QED BY <2>1, <2>2, <2>3 DEF Rest
<1>3. ASSUME cells[n + 1].nl PROVE Rest(cells, n + 1, <<>>)
  <2>1. SubSeq(cells, n + 2, n + 1) = <<>>
    BY <1>0
  <2>2. n + 1 \in 0 .. n + 1 /\ (n + 1) + 1 = n + 2 /\ \A j \in n + 2 .. n + 1 : FALSE
    OBVIOUS
  <2> QED BY <1>3, <2>1, <2>2 DEF Rest
<1>4. ASSUME NEW r \in Records, Parsed(cells, n + 1) = r
      PROVE  /\ cells[n + 1].nl /\ cells[n + 1].rec = r
             /\ Append(line, cells[n + 1]) = Line(r)
  <2>1. r # Malformed
    BY DEF Params, Malformed
  <2>2. /\ n + 1 > 1 /\ Starts(cells, n) /\ cells[n + 1].rec = r
        /\ <<cells[n], cells[n + 1]>> = Line(r)
    <3>1. n + 1 > 1 /\ Starts(cells, (n + 1) - 1)
          /\ <<cells[(n + 1) - 1], cells[n + 1]>> = Line(cells[n + 1].rec) /\ cells[n + 1].rec = r
      BY <1>4, <2>1 DEF Parsed
    <3>2. (n + 1) - 1 = n
      OBVIOUS
    <3> QED BY <3>1, <3>2
  <2>3. cells[n] = [rec |-> r, nl |-> FALSE] /\ cells[n + 1] = [rec |-> r, nl |-> TRUE]
    BY <2>2 DEF Line
  <2>4. b = n - 1
    <3>1. b # n
      BY <1>1, <2>2, <2>3
    <3>2. CASE b < n - 1
      <4>1. n # 1 /\ n - 1 \in b + 1 .. n
        BY <3>2, <1>1
      <4>2. ~cells[n - 1].nl
        BY <1>1, <4>1
      <4> QED BY <2>2, <4>1, <4>2 DEF Starts
    <3> QED BY <1>1, <3>1, <3>2
  <2>5. Len(line) = 1 /\ line[1] = cells[n]
    <3>1. line = SubSeq(cells, n, n) /\ n \in 1 .. Len(cells)
      BY <1>0, <1>1, <2>2, <2>4
    <3>2. Len(SubSeq(cells, n, n)) = 1 /\ SubSeq(cells, n, n)[1] = cells[n]
      BY <3>1, OneCell
    <3> QED BY <3>1, <3>2
  <2> DEFINE whole == Append(line, cells[n + 1])
  <2>6. whole \in Seq(SourceCell) /\ Len(whole) = 2
        /\ whole[1] = cells[n] /\ whole[2] = cells[n + 1]
    <3>1. cells[n + 1] \in SourceCell
      BY <1>0
    <3> DEFINE c == cells[n + 1]
    <3> HIDE DEF c
    <3>2. c \in SourceCell
      BY <3>1 DEF c
    <3>3. Append(line, c) \in Seq(SourceCell) /\ Len(Append(line, c)) = Len(line) + 1
          /\ \A i \in 1 .. Len(line) : Append(line, c)[i] = line[i]
          /\ Append(line, c)[Len(line) + 1] = c
      BY <3>2, AppendMembers
    <3>4. whole = Append(line, c)
      BY DEF c
    <3> HIDE DEF whole
    <3> QED BY <2>5, <3>3, <3>4 DEF c
  <2> HIDE DEF whole
  <2>7. /\ Line(r) \in Seq(SourceCell) /\ Len(Line(r)) = 2
        /\ \A i \in 1 .. 2 : whole[i] = Line(r)[i]
    BY <2>3, <2>6, LineTyped
  <2>8. whole = Line(r)
    BY <2>6, <2>7, SameSeq
  <2> QED BY <2>2, <2>3, <2>8 DEF whole
<1> QED BY <1>2, <1>3, <1>4

LEMMA RestDropped ==
    ASSUME NEW cells \in Seq(SourceCell), NEW n \in Nat, n <= Len(cells),
           NEW line \in Seq(SourceCell), Rest(cells, n, line), Len(line) > 1
    PROVE  Rest(cells, n, <<>>)
<1>1. PICK b \in 0 .. n : /\ line = SubSeq(cells, b + 1, n)
                          /\ \A j \in b + 1 .. n : ~cells[j].nl
    BY DEF Rest
<1>2. b < n - 1
    BY <1>1
<1>3. ~Starts(cells, n)
  <2>1. n # 1 /\ n - 1 \in b + 1 .. n
    BY <1>1, <1>2
  <2> QED BY <1>1, <2>1 DEF Starts
<1>4. SubSeq(cells, n + 1, n) = <<>> /\ n \in 0 .. n /\ \A j \in n + 1 .. n : FALSE
    OBVIOUS
<1> QED BY <1>3, <1>4 DEF Rest

LEMMA AtStart == \A cells \in Seq(SourceCell) : Rest(cells, 0, <<>>) /\ Passing(cells, 0) = {}
<1> SUFFICES ASSUME NEW cells \in Seq(SourceCell)
             PROVE  Rest(cells, 0, <<>>) /\ Passing(cells, 0) = {}
    OBVIOUS
<1>1. SubSeq(cells, 0 + 1, 0) = <<>> /\ 0 \in 0 .. 0 /\ \A j \in 0 + 1 .. 0 : FALSE
    OBVIOUS
<1> QED BY <1>1 DEF Rest, Passing

(* A source that grows keeps what was before the place. *)
LEMMA FollowsGrown ==
    ASSUME NEW cells \in Seq(SourceCell), NEW more \in Seq(SourceCell),
           NEW e \in Place, NEW known, Follows(cells, e, known)
    PROVE  Follows(cells \o more, e, known)
<1> DEFINE longer == cells \o more
           n == e.offset
<1>1. /\ longer \in Seq(SourceCell) /\ Len(longer) = Len(cells) + Len(more)
      /\ Len(cells) \in Nat /\ Len(more) \in Nat
      /\ \A i \in 1 .. Len(cells) : longer[i] = cells[i]
    OBVIOUS
<1>2. n \in Nat /\ n <= Len(cells)
    BY DEF Follows, Place
<1> HIDE DEF longer, n
<1>8. \A i \in 1 .. n : longer[i] = cells[i]
    BY <1>1, <1>2
<1>3. \A i \in 1 .. n : Starts(longer, i) = Starts(cells, i)
    BY <1>1, <1>2 DEF Starts
<1>4. Rest(longer, n, e.carry)
  <2>1. PICK b \in 0 .. n : /\ e.carry = SubSeq(cells, b + 1, n)
                            /\ \A j \in b + 1 .. n : ~cells[j].nl
                            /\ b = n /\ n > 0 /\ ~cells[n].nl => ~Starts(cells, n)
    BY DEF Follows, Rest, n
  <2>3. \A j \in b + 1 .. n : longer[j] = cells[j]
    BY <1>2, <1>8, <2>1
  <2>2. SubSeq(longer, b + 1, n) = SubSeq(cells, b + 1, n)
    BY <1>1, <1>2, <2>1, <2>3, SameSubSeq
  <2>4. n > 0 => longer[n] = cells[n] /\ Starts(longer, n) = Starts(cells, n)
    BY <1>1, <1>2, <1>3
  <2> QED BY <2>1, <2>2, <2>3, <2>4 DEF Rest
<1>5. ASSUME NEW i \in 1 .. n PROVE Parsed(longer, i) = Parsed(cells, i)
  <2>1. longer[i] = cells[i] /\ (i > 1 => longer[i - 1] = cells[i - 1] /\ Starts(longer, i - 1) = Starts(cells, i - 1))
    <3>1. i > 1 => i - 1 \in 1 .. n
      BY <1>2
    <3> QED BY <1>3, <1>8, <3>1
  <2> QED BY <2>1 DEF Parsed
<1>6. Passing(longer, n) \subseteq Passing(cells, n)
  <2>1. ASSUME NEW r \in Records, NEW i \in 1 .. Len(longer), i <= n, Parsed(longer, i) = r
        PROVE  i \in 1 .. Len(cells) /\ Parsed(cells, i) = r
    <3>1. i \in 1 .. n /\ i \in 1 .. Len(cells)
      BY <1>1, <1>2, <2>1
    <3> QED BY <1>5, <2>1, <3>1
  <2> QED BY <2>1 DEF Passing
<1>7. n <= Len(longer)
    BY <1>1, <1>2
<1> QED BY <1>4, <1>6, <1>7 DEF Follows, longer, n

(* A line that is taken up is in the timeline, is new, or there is evidence. *)
LEMMA TakeTells ==
    ASSUME IngestTyped, NEW acc \in Acc, NEW x \in Records \cup {Malformed}
    PROVE  /\ Members(acc.new) \subseteq Members(Take(acc, x).new)
           /\ acc.err \subseteq Take(acc, x).err
           /\ x \in Records =>
                 x \in Members(Canonical) \cup Members(Take(acc, x).new) \cup Take(acc, x).err
<1>0. Malformed \notin Records /\ acc.new \in Seq(Records) /\ Canonical \in Seq(Records \cup {Damaged})
    BY CanonicalTyped DEF IngestTyped, Params, Malformed, Acc
<1>1. CASE x = Malformed
  <2>1. Take(acc, x).new = acc.new /\ Take(acc, x).err = acc.err \cup {Malformed}
    BY <1>1 DEF Take, Acc
  <2> QED BY <1>0, <1>1, <2>1
<1>2. CASE x # Malformed /\ ~Known(acc.new, x)
  <2>1. Take(acc, x).new = Append(acc.new, x) /\ Take(acc, x).err = acc.err /\ x \in Records
    BY <1>2 DEF Take, Acc
  <2>2. Members(Append(acc.new, x)) = Members(acc.new) \cup {x}
    BY <1>0, <2>1, AppendMembers
  <2> QED BY <2>1, <2>2
<1>3. CASE x # Malformed /\ Known(acc.new, x) /\ x \in ToSet(Canonical \o acc.new)
  <2>1. Take(acc, x) = acc
    BY <1>3 DEF Take
  <2>2. ToSet(Canonical \o acc.new) = Members(Canonical) \cup Members(acc.new)
    <3>1. acc.new \in Seq(Records \cup {Damaged})
      BY <1>0
    <3>2. /\ Canonical \o acc.new \in Seq(Records \cup {Damaged})
          /\ Members(Canonical \o acc.new) = Members(Canonical) \cup Members(acc.new)
      BY <1>0, <3>1, JoinMembers
    <3> QED BY <3>2, ToSetIsMembers
  <2> QED BY <1>3, <2>1, <2>2
<1>4. CASE x # Malformed /\ Known(acc.new, x) /\ x \notin ToSet(Canonical \o acc.new)
  <2>1. Take(acc, x).new = acc.new /\ Take(acc, x).err = acc.err \cup {x}
    BY <1>4 DEF Take, Acc
  <2> QED BY <2>1
<1> QED BY <1>1, <1>2, <1>3, <1>4

(* Reading on from the place, each record that is passed is told of. *)
LEMMA EatenTells ==
    ASSUME IngestTyped, NEW known,
           Offset <= Len(src.cells), Rest(src.cells, Offset, Carry),
           Passing(src.cells, Offset) \subseteq known
    PROVE  LET got == Eaten(Data)
               n == Offset + Len(Data)
           IN /\ n <= Len(src.cells) /\ Rest(src.cells, n, got.line)
              /\ Passing(src.cells, n) \subseteq
                    known \cup Members(Canonical) \cup Members(got.new) \cup got.err
<1> DEFINE cells == src.cells
           n == Len(Data)
           told(acc) == known \cup Members(Canonical) \cup Members(acc.new) \cup acc.err
           S(f) == {m \in 0 .. n : /\ Rest(cells, Offset + m, f[m].line)
                                   /\ Passing(cells, Offset + m) \subseteq told(f[m])}
<1>1. /\ cells \in Seq(SourceCell) /\ Len(cells) \in Nat /\ Data \in Seq(SourceCell)
      /\ Offset \in Nat /\ n \in Nat /\ Offset + n <= Len(cells)
      /\ \A i \in 1 .. n : Data[i] = cells[Offset + i] /\ Data[i] \in SourceCell
      /\ Params
    BY DataTyped DEF IngestTyped
<1>2. PICK f : /\ f[0] = [line |-> Carry, new |-> <<>>, err |-> poll.err]
               /\ \A i \in 1 .. n : f[i] = Eat(f[i - 1], Data[i])
               /\ Eaten(Data) = f[n]
               /\ \A i \in 0 .. n : f[i] \in Acc
    BY <1>1, EatenTyped
<1> HIDE DEF n
<1>3. 0 \in S(f)
  <2>1. f[0].line = Carry /\ Offset + 0 = Offset
    BY <1>1, <1>2
  <2> QED BY <1>1, <2>1
<1>4. ASSUME NEW m \in 0 .. n, m \in S(f), m < n PROVE m + 1 \in S(f)
  <2> DEFINE acc == f[m]
             to == f[m + 1]
             cell == cells[Offset + m + 1]
             k == Offset + m
             said == IF Append(acc.line, cell) = Line(cell.rec) THEN cell.rec ELSE Malformed
  <2>1. m + 1 \in 1 .. n /\ (m + 1) - 1 = m /\ m + 1 \in 0 .. n /\ k \in Nat /\ k < Len(cells)
        /\ Offset + (m + 1) = k + 1
    BY <1>1, <1>4
  <2>2. to = Eat(acc, cell) /\ cell \in SourceCell /\ acc \in Acc /\ to \in Acc
    <3>1. Data[m + 1] = cells[Offset + (m + 1)]
      BY <1>1, <2>1
    <3> QED BY <1>1, <1>2, <2>1, <3>1
  <2>3. Rest(cells, k, acc.line) /\ Passing(cells, k) \subseteq told(acc)
    BY <1>4
  <2>4. acc.line \in Seq(SourceCell)
    BY <2>2 DEF Acc
  <2>5. /\ ~cells[k + 1].nl => Rest(cells, k + 1, Append(acc.line, cells[k + 1]))
        /\ cells[k + 1].nl => Rest(cells, k + 1, <<>>)
        /\ \A r \in Records : Parsed(cells, k + 1) = r =>
              /\ cells[k + 1].nl /\ cells[k + 1].rec = r
              /\ Append(acc.line, cells[k + 1]) = Line(r)
    <3> HIDE DEF cells, acc, k
    <3> QED BY <1>1, <2>1, <2>3, <2>4, RestGoesOn
  <2>6. cells[k + 1] = cell
    OBVIOUS
  <2>7. Passing(cells, k + 1) \subseteq Passing(cells, k) \cup {r \in Records : Parsed(cells, k + 1) = r}
    <3> HIDE DEF cells, k
    <3>1. ASSUME NEW r \in Records, NEW i \in 1 .. Len(cells), i <= k + 1, Parsed(cells, i) = r
          PROVE  i <= k \/ Parsed(cells, k + 1) = r
      BY <1>1, <2>1, <3>1
    <3> QED BY <3>1 DEF Passing
  <2>8. CASE cell.nl
    <3>1. /\ to.line = <<>> /\ to.new = Take(acc, said).new /\ to.err = Take(acc, said).err
          /\ said \in Records \cup {Malformed}
      <4> HIDE DEF acc, cell
      <4>1. /\ Eat(acc, cell).line = <<>> /\ Eat(acc, cell).new = Take(acc, said).new
            /\ Eat(acc, cell).err = Take(acc, said).err
            /\ said \in Records \cup {Malformed}
        BY <1>1, <2>2, <2>8, EatTyped, Zenon
      <4> HIDE DEF said
      <4> QED BY <2>2, <4>1
    <3>2. /\ Members(acc.new) \subseteq Members(to.new) /\ acc.err \subseteq to.err
          /\ said \in Records => said \in Members(Canonical) \cup Members(to.new) \cup to.err
      <4> HIDE DEF said, acc, to
      <4> QED BY <2>2, <3>1, TakeTells
    <3>3. ASSUME NEW r \in Records, Parsed(cells, k + 1) = r PROVE r \in told(to)
      <4>1. said = r
        BY <2>5, <2>6, <3>3
      <4> QED BY <3>2, <4>1
    <3>4. Passing(cells, k + 1) \subseteq told(to)
      <4> HIDE DEF cells, k, to, acc
      <4> QED BY <2>3, <2>7, <3>2, <3>3
    <3> QED BY <2>1, <2>5, <2>6, <2>8, <3>1, <3>4
  <2>9. CASE ~cell.nl
    <3>1. to = [acc EXCEPT !.line = Append(@, cell)]
      <4> HIDE DEF acc, cell, to
      <4> QED BY <1>1, <2>2, <2>9, EatTyped
    <3>2. to.line = Append(acc.line, cell) /\ to.new = acc.new /\ to.err = acc.err
      <4> HIDE DEF acc, cell, to
      <4> QED BY <2>2, <3>1 DEF Acc
    <3>3. Passing(cells, k + 1) \subseteq told(to)
      <4>1. \A r \in Records : Parsed(cells, k + 1) # r
        BY <2>5, <2>6, <2>9
      <4> HIDE DEF cells, k, to, acc
      <4> QED BY <2>3, <2>7, <3>2, <4>1
    <3> QED BY <2>1, <2>5, <2>6, <2>9, <3>2, <3>3
  <2> QED BY <2>8, <2>9
<1>5. 0 .. n \subseteq S(f)
  <2> HIDE DEF S
  <2> QED BY <1>1, <1>3, <1>4, UpToN
<1>6. n \in S(f)
    BY <1>1, <1>5
<1>7. Rest(cells, Offset + n, Eaten(Data).line) /\ Passing(cells, Offset + n) \subseteq told(Eaten(Data))
    BY <1>2, <1>6
<1> QED BY <1>1, <1>7 DEF n

(* The records that the files tell of, and those that the poll is on the way *)
(* to tell of.                                                              *)
ToldNow == {r \in Records : r \in Members(Canonical) \/ r \in errors \/ Visible}
Pending == ToldNow \cup (IF poll.pc = "timeline" THEN Members(poll.new) ELSE {})
                   \cup (IF poll.pc # "cursor" THEN poll.err ELSE {})

CursorTold == intact /\ place.id = src.id => Follows(src.cells, place, ToldNow)
StatTold == poll.pc = "read" /\ poll.whole =>
               /\ poll.id = src.id /\ poll.size <= Len(src.cells)
               /\ Replaced(poll.id, poll.size) \/ intact
NextTold == poll.pc \in {"timeline", "errors", "cursor"} /\ poll.whole =>
               poll.next.id = src.id /\ Follows(src.cells, poll.next, Pending)

Accounted == IngestTyped /\ CursorTold /\ StatTold /\ NextTold

LEMMA FollowsMore ==
    ASSUME NEW cells, NEW e, NEW known, NEW more, known \cap Records \subseteq more, Follows(cells, e, known)
    PROVE  Follows(cells, e, more)
BY DEF Follows, Passing

(* The source, the poll and the cursor stay, and the files tell of no less. *)
LEMMA FilesGrow ==
    ASSUME Accounted, IngestTyped', UNCHANGED <<src, place, intact>>, ToldNow \subseteq ToldNow',
           poll'.pc \in {"idle", "errors", "cursor"},
           poll'.pc # "idle" => /\ poll.pc \in {"timeline", "errors"} /\ poll'.whole = poll.whole
                                /\ poll'.next = poll.next /\ Pending \cap Records \subseteq Pending'
    PROVE  Accounted'
<1>1. CursorTold'
    BY FollowsMore DEF Accounted, CursorTold, ToldNow
<1>2. StatTold'
    BY DEF StatTold
<1>3. NextTold'
  <2> SUFFICES ASSUME poll'.pc \in {"timeline", "errors", "cursor"}, poll'.whole
               PROVE  poll'.next.id = src'.id /\ Follows(src'.cells, poll'.next, Pending')
    BY DEF NextTold
  <2>1. poll.next.id = src.id /\ Follows(src.cells, poll.next, Pending)
    BY DEF Accounted, NextTold
  <2> QED BY <2>1, FollowsMore
<1> QED BY <1>1, <1>2, <1>3 DEF Accounted

(* The source grows. *)
LEMMA SourceGrows ==
    ASSUME Accounted, IngestTyped', NEW more \in Seq(SourceCell),
           src' = [src EXCEPT !.cells = @ \o more],
           UNCHANGED <<place, files, poll, intact>>
    PROVE  Accounted'
<1>1. /\ src'.id = src.id /\ src'.cells = src.cells \o more /\ src.cells \in Seq(SourceCell)
      /\ place \in Place /\ poll.next \in Place
      /\ Len(src.cells) <= Len(src'.cells) /\ Len(src.cells) \in Nat /\ Len(src'.cells) \in Nat
      /\ poll.size \in Nat
  <2>1. src \in [id : Nat \ {0}, cells : Seq(SourceCell)]
    BY DEF Accounted, IngestTyped
  <2>2. src'.id = src.id /\ src'.cells = src.cells \o more
    BY <2>1
  <2>3. Len(src.cells \o more) = Len(src.cells) + Len(more) /\ Len(src.cells) \in Nat /\ Len(more) \in Nat
    BY <2>1
  <2> QED BY <2>1, <2>2, <2>3 DEF Accounted, IngestTyped, PollState
<1>2. ToldNow' = ToldNow /\ Pending' = Pending
    BY DEF ToldNow, Pending, Canonical, Visible, Members, files
<1>3. CursorTold'
    BY <1>1, <1>2, FollowsGrown DEF Accounted, CursorTold
<1>4. StatTold'
    BY <1>1 DEF Accounted, StatTold, Replaced
<1>5. NextTold'
    BY <1>1, <1>2, FollowsGrown DEF Accounted, NextTold
<1> QED BY <1>3, <1>4, <1>5 DEF Accounted

(* Where a poll reads on. *)
LEMMA ReadsOn ==
    ASSUME Accounted, poll.pc = "read", poll.whole
    PROVE  Offset <= Len(src.cells) /\ Rest(src.cells, Offset, Carry)
           /\ Passing(src.cells, Offset) \subseteq ToldNow
<1>1. poll.id = src.id /\ poll.size <= Len(src.cells)
    BY DEF Accounted, StatTold
<1>2. src.cells \in Seq(SourceCell) /\ Len(src.cells) \in Nat
    BY DEF Accounted, IngestTyped
<1>3. CASE Replaced(poll.id, poll.size)
  <2>1. Offset = 0 /\ Carry = <<>>
    BY <1>3 DEF Offset, Carry
  <2> QED BY <1>2, <2>1, AtStart
<1>4. CASE ~Replaced(poll.id, poll.size)
  <2>1. Offset = place.offset /\ Carry = place.carry /\ place.id = src.id /\ intact
    BY <1>1, <1>4 DEF Offset, Carry, Replaced, Accounted, StatTold
  <2> QED BY <2>1 DEF Accounted, CursorTold, Follows
<1> QED BY <1>3, <1>4

LEMMA AccountedRead == Accounted /\ IngestTyped' /\ Read => Accounted'
<1> SUFFICES ASSUME Accounted, IngestTyped', Read PROVE Accounted'
    OBVIOUS
<1> DEFINE got == Eaten(Data)
           n == Offset + Len(Data)
<1>1. /\ IngestTyped /\ poll.pc = "read" /\ UNCHANGED <<src, place, files, faults, intact>>
      /\ got \in Acc
      /\ poll'.pc = "timeline" /\ poll'.id = poll.id /\ poll'.whole = poll.whole
      /\ poll'.new = got.new /\ got.err \subseteq poll'.err
      /\ poll'.next.id = poll.id /\ poll'.next.offset = n
      /\ poll'.next.carry = IF TooLong(got.line) THEN <<>> ELSE got.line
  <2>1. IngestTyped
    BY DEF Accounted
  <2> QED BY <2>1, ReadParts
<1>2. ToldNow' = ToldNow /\ Canonical' = Canonical
    BY <1>1 DEF ToldNow, Canonical, Visible, Members, files
<1>3. CursorTold'
    BY <1>1, <1>2 DEF Accounted, CursorTold
<1>4. StatTold'
    BY <1>1 DEF StatTold
<1>5. ASSUME poll.whole PROVE poll'.next.id = src.id /\ Follows(src.cells, poll'.next, Pending')
  <2>1. poll.id = src.id
    BY <1>1, <1>5 DEF Accounted, StatTold
  <2>2. /\ n <= Len(src.cells) /\ Rest(src.cells, n, got.line)
        /\ Passing(src.cells, n) \subseteq ToldNow \cup Members(Canonical) \cup Members(got.new) \cup got.err
    <3>1. Offset <= Len(src.cells) /\ Rest(src.cells, Offset, Carry)
          /\ Passing(src.cells, Offset) \subseteq ToldNow
      BY <1>1, <1>5, ReadsOn
    <3> QED BY <1>1, <3>1, EatenTells
  <2>3. n \in Nat /\ src.cells \in Seq(SourceCell) /\ got.line \in Seq(SourceCell) /\ MaxCarry \in Nat \ {0}
    BY <1>1, DataTyped DEF Acc, IngestTyped, Params
  <2> HIDE DEF n, got
  <2>4. Rest(src.cells, n, poll'.next.carry)
    <3>1. CASE TooLong(got.line)
      <4>1. Len(got.line) > 1
        BY <2>3, <3>1 DEF TooLong
      <4> QED BY <1>1, <2>2, <2>3, <3>1, <4>1, RestDropped
    <3>2. CASE ~TooLong(got.line)
      BY <1>1, <2>2, <3>2
    <3> QED BY <3>1, <3>2
  <2>5. Passing(src.cells, n) \subseteq Pending'
    <3>1. Pending' = ToldNow' \cup Members(poll'.new) \cup poll'.err
      BY <1>1 DEF Pending, Members
    <3>2. Members(Canonical) \cap Records \subseteq ToldNow
      BY DEF ToldNow
    <3>3. Passing(src.cells, n) \subseteq Records
      BY DEF Passing
    <3> QED BY <1>1, <1>2, <2>2, <3>1, <3>2, <3>3
  <2> QED BY <1>1, <2>1, <2>2, <2>4, <2>5 DEF Follows
<1>6. NextTold'
    BY <1>1, <1>5 DEF NextTold
<1> QED BY <1>3, <1>4, <1>6 DEF Accounted

LEMMA WithTorn ==
    ASSUME NEW X, NEW t \in Seq(X), NEW R, NEW x, R \subseteq X
    PROVE  Members(t \o (IF x \in R THEN <<x>> ELSE <<>>)) =
              Members(t) \cup (IF x \in R THEN {x} ELSE {})
<1>1. CASE x \in R
  <2>1. <<x>> \in Seq(X) /\ Members(<<x>>) = {x}
    BY <1>1 DEF Members
  <2>2. Members(t \o <<x>>) = Members(t) \cup Members(<<x>>)
    BY <2>1, JoinMembers
  <2> QED BY <1>1, <2>1, <2>2
<1>2. CASE x \notin R
  <2>1. t \o <<>> = t
    OBVIOUS
  <2> QED BY <1>2, <2>1
<1> QED BY <1>1, <1>2

LEMMA ToldGrows ==
    ASSUME IngestTyped, IngestTyped', Members(timeline) \subseteq Members(timeline)',
           errors \subseteq errors', errTorn => errTorn' \/ Garbled \in errors',
           \/ torn = NoLine \/ torn' = torn \/ torn' = Part \/ Damaged \in Members(timeline)'
    PROVE  ToldNow \subseteq ToldNow' /\ (Damaged \in Members(timeline)' => Records \subseteq ToldNow')
<1>1. /\ Members(Canonical) = Members(timeline) \cup (IF torn \in Records THEN {torn} ELSE {})
      /\ Members(Canonical)' = Members(timeline)' \cup (IF torn' \in Records THEN {torn'} ELSE {})
  <2> DEFINE X == Records \cup {Damaged}
  <2>1. timeline \in Seq(X) /\ timeline' \in Seq(X) /\ Records \subseteq X
    BY DEF IngestTyped
  <2> HIDE DEF X
  <2>2. Members(timeline \o (IF torn \in Records THEN <<torn>> ELSE <<>>)) =
           Members(timeline) \cup (IF torn \in Records THEN {torn} ELSE {})
    BY <2>1, WithTorn
  <2>3. Members(timeline' \o (IF torn' \in Records THEN <<torn'>> ELSE <<>>)) =
           Members(timeline') \cup (IF torn' \in Records THEN {torn'} ELSE {})
    BY <2>1, WithTorn
  <2>4. Canonical' = timeline' \o (IF torn' \in Records THEN <<torn'>> ELSE <<>>)
    BY DEF Canonical
  <2>5. Members(Canonical)' = Members(Canonical') /\ Members(timeline)' = Members(timeline')
    BY DEF Members
  <2> QED BY <2>2, <2>3, <2>4, <2>5 DEF Canonical
<1>2. ToSet(timeline) = Members(timeline) /\ ToSet(timeline') = Members(timeline)'
  <2>1. timeline \in Seq(Records \cup {Damaged}) /\ timeline' \in Seq(Records \cup {Damaged})
    BY DEF IngestTyped
  <2>2. ToSet(timeline) = Members(timeline) /\ ToSet(timeline') = Members(timeline')
    BY <2>1, ToSetIsMembers
  <2> QED BY <2>2 DEF Members
<1>3. /\ Visible = (torn = Part \/ Damaged \in Members(timeline) \/ errTorn \/ Garbled \in errors)
      /\ Visible' = (torn' = Part \/ Damaged \in Members(timeline)' \/ errTorn' \/ Garbled \in errors')
    BY <1>2 DEF Visible
<1>4. /\ ToldNow = {r \in Records : r \in Members(Canonical) \/ r \in errors \/ Visible}
      /\ ToldNow' = {r \in Records : r \in Members(Canonical)' \/ r \in errors' \/ Visible'}
    BY DEF ToldNow, Members
<1>5. Params /\ torn \in Records \cup {NoLine, Part}
    BY DEF IngestTyped
<1>6. CASE Visible'
    BY <1>4, <1>6
<1>7. CASE ~Visible'
  <2>1. ~Visible /\ (torn \in Records => torn' = torn)
    BY <1>3, <1>5, <1>7 DEF Params, NoLine, Part
  <2>2. Members(Canonical) \subseteq Members(Canonical)'
    BY <1>1, <2>1
  <2> QED BY <1>3, <1>4, <1>7, <2>1, <2>2
<1> QED BY <1>6, <1>7

(* What is appended to the timeline is in it, or the timeline is damaged. *)
LEMMA JoinedKept ==
    ASSUME IngestTyped, NEW new \in Seq(Records), timeline' = timeline \o Joined(new)
    PROVE  /\ Members(timeline) \subseteq Members(timeline)'
           /\ torn # NoLine /\ new # <<>> => Damaged \in Members(timeline)'
           /\ torn = NoLine => Members(new) \subseteq Members(timeline)'
<1> DEFINE tail == Joined(new)
           X == Records \cup {Damaged}
<1>1. timeline \in Seq(X) /\ tail \in Seq(X) /\ (torn = NoLine => tail = new)
      /\ (torn # NoLine /\ new # <<>> => tail[1] = Damaged /\ 1 \in 1 .. Len(tail))
    BY JoinedTyped DEF IngestTyped
<1> HIDE DEF tail, X
<1>2. Members(timeline \o tail) = Members(timeline) \cup Members(tail)
    BY <1>1, JoinMembers
<1>3. Members(timeline)' = Members(timeline \o tail)
    BY DEF Members, tail
<1>4. torn # NoLine /\ new # <<>> => Damaged \in Members(tail)
    BY <1>1 DEF Members
<1> QED BY <1>1, <1>2, <1>3, <1>4

LEMMA AccountedTimeline == Accounted /\ IngestTyped' /\ (WriteTimeline \/ TearTimeline) => Accounted'
<1> SUFFICES ASSUME Accounted, IngestTyped', WriteTimeline \/ TearTimeline PROVE Accounted'
    OBVIOUS
<1>1. IngestTyped /\ poll \in PollState /\ poll.new \in Seq(Records) /\ Params
    BY DEF Accounted, IngestTyped, PollState
<1>2. CASE WriteTimeline
  <2>1. /\ poll.pc = "timeline" /\ timeline' = timeline \o Joined(poll.new)
        /\ torn' = IF poll.new = <<>> THEN torn ELSE NoLine
        /\ UNCHANGED <<src, place, errors, errTorn, intact>>
        /\ poll'.pc = "errors" /\ poll'.whole = poll.whole /\ poll'.next = poll.next
        /\ poll'.new = poll.new /\ poll'.err = poll.err
    BY <1>1, <1>2 DEF WriteTimeline, PollState
  <2>2. /\ Members(timeline) \subseteq Members(timeline)'
        /\ torn # NoLine /\ poll.new # <<>> => Damaged \in Members(timeline)'
        /\ torn = NoLine => Members(poll.new) \subseteq Members(timeline)'
    BY <1>1, <2>1, JoinedKept
  <2>3. ToldNow \subseteq ToldNow' /\ (Damaged \in Members(timeline)' => Records \subseteq ToldNow')
    BY <1>1, <2>1, <2>2, ToldGrows
  <2>4. Members(poll.new) \subseteq ToldNow'
    <3>1. Members(poll.new) \subseteq Records
      BY <1>1 DEF Members
    <3>2. CASE torn = NoLine
      <4>1. timeline' \in Seq(Records \cup {Damaged})
        BY DEF IngestTyped
      <4>2. Canonical' = timeline'
        <5>1. torn' \notin Records
          BY <1>1, <2>1, <3>2 DEF Params, NoLine
        <5>2. timeline' \o <<>> = timeline'
          BY <4>1
        <5> QED BY <5>1, <5>2 DEF Canonical
      <4>3. Members(poll.new) \subseteq Members(Canonical)'
        BY <2>2, <3>2, <4>2 DEF Members
      <4> QED BY <3>1, <4>3 DEF ToldNow, Members
    <3>3. CASE torn # NoLine /\ poll.new # <<>>
      BY <2>2, <2>3, <3>1, <3>3
    <3>4. CASE poll.new = <<>>
      BY <3>4 DEF Members
    <3> QED BY <3>2, <3>3, <3>4
  <2>5. Pending = ToldNow \cup Members(poll.new) \cup poll.err
        /\ Pending' = ToldNow' \cup {} \cup poll'.err
    BY <2>1 DEF Pending
  <2>6. Pending \cap Records \subseteq Pending'
    BY <2>1, <2>3, <2>4, <2>5
  <2> QED BY <2>1, <2>3, <2>6, FilesGrow
<1>3. CASE TearTimeline
  <2>1. PICK k \in DOMAIN poll.new :
           /\ timeline' = timeline \o Joined(SubSeq(poll.new, 1, k - 1))
           /\ torn' \in {Part} \cup (IF k = 1 /\ torn # NoLine THEN {} ELSE {poll.new[k]})
    BY <1>3 DEF TearTimeline
  <2>2. UNCHANGED <<src, place, errors, errTorn, intact>> /\ poll'.pc = "idle"
    BY <1>3 DEF TearTimeline, PollIdle
  <2> DEFINE head == SubSeq(poll.new, 1, k - 1)
  <2>3. head \in Seq(Records) /\ (k # 1 => head # <<>>)
    <3>1. k \in 1 .. Len(poll.new)
      BY <1>1
    <3>2. head \in Seq(Records) /\ Len(head) = k - 1
      BY <1>1, <3>1
    <3> QED BY <3>1, <3>2
  <2> HIDE DEF head
  <2>4. timeline' = timeline \o Joined(head)
    BY <2>1 DEF head
  <2>5. /\ Members(timeline) \subseteq Members(timeline)'
        /\ torn # NoLine /\ head # <<>> => Damaged \in Members(timeline)'
    BY <1>1, <2>3, <2>4, JoinedKept
  <2>6. torn = NoLine \/ torn' = Part \/ Damaged \in Members(timeline)'
    BY <2>1, <2>3, <2>5
  <2>7. ToldNow \subseteq ToldNow'
    BY <1>1, <2>2, <2>5, <2>6, ToldGrows
  <2> QED BY <2>2, <2>7, FilesGrow
<1> QED BY <1>2, <1>3

LEMMA AccountedErrors == Accounted /\ IngestTyped' /\ (WriteErrors \/ TearErrors) => Accounted'
<1> SUFFICES ASSUME Accounted, IngestTyped', WriteErrors \/ TearErrors PROVE Accounted'
    OBVIOUS
<1>1. IngestTyped /\ poll \in PollState
    BY DEF Accounted, IngestTyped
<1>2. UNCHANGED <<src, place, timeline, torn, intact>> /\ Members(timeline)' = Members(timeline)
    BY DEF WriteErrors, TearErrors, Members
<1>3. CASE WriteErrors
  <2>1. /\ poll.pc = "errors" /\ poll'.pc = "cursor" /\ poll'.whole = poll.whole /\ poll'.next = poll.next
    BY <1>1, <1>3 DEF WriteErrors, PollState
  <2>2. CASE errTorn /\ poll.err # {}
    <3>1. Garbled \in errors' /\ errors \subseteq errors'
      BY <1>3, <2>2 DEF WriteErrors
    <3>2. ToldNow \subseteq ToldNow'
      BY <1>1, <1>2, <3>1, ToldGrows
    <3>3. Pending \cap Records \subseteq Pending'
      <4>1. Records \subseteq ToldNow'
        BY <3>1 DEF ToldNow, Visible
      <4> QED BY <4>1 DEF Pending
    <3> QED BY <1>2, <2>1, <3>2, <3>3, FilesGrow
  <2>3. CASE ~ (errTorn /\ poll.err # {})
    <3>1. errors' = errors \cup poll.err /\ errTorn' = (errTorn /\ poll.err = {})
      BY <1>3, <2>3 DEF WriteErrors
    <3>2. ToldNow \subseteq ToldNow'
      BY <1>1, <1>2, <2>3, <3>1, ToldGrows
    <3>3. Pending \cap Records \subseteq Pending'
      <4>1. poll.err \cap Records \subseteq ToldNow'
        BY <3>1 DEF ToldNow
      <4>2. Pending = ToldNow \cup poll.err
        BY <2>1 DEF Pending
      <4> QED BY <3>2, <4>1, <4>2 DEF Pending
    <3> QED BY <1>2, <2>1, <3>2, <3>3, FilesGrow
  <2> QED BY <2>2, <2>3
<1>4. CASE TearErrors
  <2>1. errors' = errors /\ errTorn' = TRUE /\ poll'.pc = "idle"
    BY <1>4 DEF TearErrors, PollIdle
  <2>2. ToldNow \subseteq ToldNow'
    BY <1>1, <1>2, <2>1, ToldGrows
  <2> QED BY <1>2, <2>1, <2>2, FilesGrow
<1> QED BY <1>3, <1>4

LEMMA AccountedNext == Accounted /\ [IngestNext]_ingestVars => Accounted'
<1> SUFFICES ASSUME Accounted, [IngestNext]_ingestVars PROVE Accounted'
    OBVIOUS
<1>0. IngestTyped /\ IngestTyped' /\ poll \in PollState
    BY IngestNextTyped DEF Accounted, IngestTyped
<1>1. ASSUME UNCHANGED files PROVE ToldNow' = ToldNow
    BY <1>1 DEF files, ToldNow, Canonical, Visible, Members
<1>2. ASSUME NEW r \in Records, AppendRecord(r) PROVE Accounted'
  <2>1. Line(r) \in Seq(SourceCell)
    BY LineTyped
  <2> QED BY <1>0, <1>2, <2>1, SourceGrows DEF AppendRecord
<1>3. CASE AppendTears
  <2>1. <<Torn>> \in Seq(SourceCell)
    <3>1. Torn \in SourceCell
      BY DEF Torn, SourceCell, Cell
    <3> QED BY <3>1
  <2>2. Append(src.cells, Torn) = src.cells \o <<Torn>>
    BY <1>0 DEF IngestTyped
  <2>3. src' = [src EXCEPT !.cells = @ \o <<Torn>>]
    BY <1>3, <2>2 DEF AppendTears
  <2> QED BY <1>0, <1>3, <2>1, <2>3, SourceGrows DEF AppendTears
<1>4. CASE SourceRotates \/ Cut
  <2>1. intact' = FALSE /\ poll' = [poll EXCEPT !.whole = FALSE]
    BY <1>4 DEF SourceRotates, Cut, Replace
  <2>2. ~poll'.whole
    BY <1>0, <2>1 DEF PollState
  <2> QED BY <1>0, <2>1, <2>2 DEF Accounted, CursorTold, StatTold, NextTold
<1>5. CASE Begin
  <2>1. /\ UNCHANGED <<src, place, files, intact>>
        /\ poll'.pc = "read" /\ poll'.id = src.id /\ poll'.size = Len(src.cells)
        /\ poll'.whole = (intact \/ Replaced(src.id, Len(src.cells)))
    BY <1>5 DEF Begin, PollIdle
  <2>2. CursorTold'
    BY <1>1, <2>1 DEF Accounted, CursorTold
  <2>3. Len(src.cells) <= Len(src.cells)
    BY <1>0 DEF IngestTyped
  <2>4. StatTold' /\ NextTold'
    BY <2>1, <2>3 DEF StatTold, NextTold, Replaced
  <2> QED BY <1>0, <2>2, <2>4 DEF Accounted
<1>6. CASE Read
    BY <1>0, <1>6, AccountedRead
<1>7. CASE WriteTimeline \/ TearTimeline
    BY <1>0, <1>7, AccountedTimeline
<1>8. CASE WriteErrors \/ TearErrors
    BY <1>0, <1>8, AccountedErrors
<1>9. CASE WriteCursor
  <2>1. /\ poll.pc = "cursor" /\ place' = poll.next /\ intact' = poll.whole
        /\ poll'.pc = "idle" /\ UNCHANGED <<src, files>>
    BY <1>9 DEF WriteCursor, PollIdle
  <2>2. Pending = ToldNow
    BY <2>1 DEF Pending
  <2>3. CursorTold'
    BY <1>1, <2>1, <2>2 DEF Accounted, CursorTold, NextTold
  <2>4. StatTold' /\ NextTold'
    BY <2>1 DEF StatTold, NextTold
  <2> QED BY <1>0, <2>3, <2>4 DEF Accounted
<1>10. CASE Die
  <2>1. UNCHANGED <<src, place, files, intact>> /\ poll'.pc = "idle"
    BY <1>10 DEF Die, PollIdle
  <2>2. ToldNow \subseteq ToldNow'
    BY <1>1, <2>1
  <2> QED BY <1>0, <2>1, <2>2, FilesGrow
<1>11. CASE UNCHANGED ingestVars
  <2>1. ToldNow' = ToldNow /\ UNCHANGED <<src, place, poll, intact>>
    BY <1>1, <1>11 DEF ingestVars
  <2>2. Pending' = Pending
    BY <2>1 DEF Pending, Members
  <2> QED BY <1>0, <2>1, <2>2 DEF Accounted, CursorTold, StatTold, NextTold, Replaced
<1> QED BY <1>2, <1>3, <1>4, <1>5, <1>6, <1>7, <1>8, <1>9, <1>10, <1>11 DEF IngestNext

LEMMA AccountedInit == Params /\ IngestInit => Accounted
<1> SUFFICES ASSUME Params, IngestInit PROVE Accounted
    OBVIOUS
<1>1. IngestTyped
    BY IngestInitTyped
<1>2. place.id # src.id /\ poll.pc = "idle"
    BY DEF IngestInit, NoCursor, PollIdle
<1> QED BY <1>1, <1>2 DEF Accounted, CursorTold, StatTold, NextTold

LEMMA AccountedShown == Accounted => NoSilentLoss
<1> SUFFICES ASSUME Accounted, place.id = src.id, intact,
                    NEW r \in Records, Passed(r)
             PROVE  InTimeline(r) \/ r \in errors \/ Visible
    BY DEF NoSilentLoss
<1>1. src.cells \in Seq(SourceCell) /\ Canonical \in Seq(Records \cup {Damaged})
    BY CanonicalTyped DEF Accounted, IngestTyped
<1>2. r \in Passing(src.cells, place.offset)
    BY <1>1 DEF Passed, Passing
<1>3. r \in ToldNow
    BY <1>2 DEF Accounted, CursorTold, Follows
<1>4. ToSet(Canonical) = Members(Canonical)
    BY <1>1, ToSetIsMembers
<1> QED BY <1>3, <1>4 DEF ToldNow, InTimeline

(* What the saved attention cursor has passed is in the timeline, or there is *)
(* evidence of it, or a line of one of the files is visibly damaged           *)
(* (attention.py, ingest_attention, which replaces the cursor last): for the  *)
(* same sources, reads and faults.                                            *)
THEOREM NoSilentLossHolds == IngestSpec => []NoSilentLoss
<1> QED BY AccountedInit, AccountedNext, AccountedShown, ParamsHold, PTL DEF IngestSpec
=============================================================================

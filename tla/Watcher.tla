------------------------------ MODULE Watcher ------------------------------
(***************************************************************************)
(* The optional watcher: the service commands start, stop and serve of      *)
(* __main__.py, and the polls of poller.py that the service makes.  A poll  *)
(* reads what is new in its log sources, hides the watcher's own records,   *)
(* quarantines a STALE_STATUS until it matured without recovery, saves the  *)
(* cursor, and only then asks the evaluator.  A file is a sequence of       *)
(* records; the stale and recovery records are about one identity.          *)
(***************************************************************************)
EXTENDS Naturals, Sequences, SequencesExt, FiniteSets

CONSTANTS Sources,      \* observed_log_roots, in order: 1 .. n
          MaxWrites,    \* bound: records of a source, over all its files
          MaxFiles,     \* bound: files that are a source in turn
          MaxStarts,    \* bound: services started
          Limit,        \* records of one read (max_tail_bytes)
          Patient,      \* is the operator patient (see Waits)
          Readable      \* can every source be read at each poll

ASSUME BoundAssumption == {MaxWrites, MaxFiles, MaxStarts, Limit} \subseteq Nat \ {0}
ASSUME ModeAssumption == {Patient, Readable} \subseteq BOOLEAN
ASSUME SourcesAssumption == IsFiniteSet(Sources) /\ Sources = 1 .. Cardinality(Sources)

VARIABLES log,          \* the sources: file id and records
          cursor,       \* cursor.json: per source the file id, offset, last text, no-progress mark
          held,         \* its stale_quarantine
          serve,        \* the service processes, with the poll each is in
          svc,          \* service.json
          starts,       \* the services started so far; a service is named by its number
          claim,        \* does service.claim exist
          starter,      \* the start that runs: the service it starts, and whether it has spawned it
          stopper,      \* the service.json that a stop read
          shown,        \* history: per source the last record, and the last idle mark, that was shown as new
          again,        \* history: it was shown something a second time
          cleared       \* history: of the stale and recovery records that the polls took, was the last a recovery

disk == <<cursor, held>>
service == <<svc, starts, claim, starter, stopper>>
history == <<shown, again, cleared>>
vars == <<log, disk, serve, service, history>>

None == "none"
Kinds == {"work", "own", "stale", "clear"}
Services == 1 .. MaxStarts

Off == [pc |-> "off", cursor |-> <<>>, held |-> None, news |-> {}, clr |-> FALSE, rec |-> <<>>]
NoStart == [k |-> 0, up |-> FALSE]
NoRecord == [tok |-> 0, w |-> 0, stop |-> FALSE, exit |-> FALSE]

Init == /\ log = [s \in Sources |-> [id |-> 1, base |-> 0, recs |-> <<>>]]
        /\ cursor = <<>> /\ held = None
        /\ serve = [k \in Services |-> Off]
        /\ svc = NoRecord /\ starts = 0 /\ claim = FALSE /\ starter = NoStart /\ stopper = NoRecord
        /\ shown = [m \in Sources \X {"record", "idle"} |-> 0] /\ again = FALSE /\ cleared = FALSE

Alive(k) == k # 0 /\ serve[k].pc # "off"
Goto(k, pc) == serve' = [serve EXCEPT ![k].pc = pc]
Ends(k) == serve' = [serve EXCEPT ![k] = [Off EXCEPT !.pc = "ending"]]

-----------------------------------------------------------------------------
(* The harness writes its logs. *)

Write(s, kind) == /\ log[s].base + Len(log[s].recs) < MaxWrites
                  /\ log' = [log EXCEPT ![s].recs = Append(@, kind)]
                  /\ UNCHANGED <<disk, serve, service, history>>

Rotate(s) == /\ log[s].id < MaxFiles
             /\ log' = [log EXCEPT ![s] = [id |-> @.id + 1, base |-> @.base + Len(@.recs), recs |-> <<>>]]
             /\ UNCHANGED <<disk, serve, service, history>>

-----------------------------------------------------------------------------
(* start, stop *)

StartAlways == TRUE
Startable == Alive(svc.w) => svc.stop

(* Not the code's: a patient operator runs one command at a time, and starts  *)
(* a service again only when the one that was asked to stop has ended.        *)
Waits == Patient => stopper = NoRecord /\ (svc.stop => ~Alive(svc.w))

StartClaims == /\ starter = NoStart /\ Startable /\ Waits /\ ~claim /\ starts < MaxStarts
               /\ starts' = starts + 1 /\ claim' = TRUE
               /\ starter' = [k |-> starts + 1, up |-> FALSE]
               /\ UNCHANGED <<log, disk, serve, svc, stopper, history>>

StartSpawns == /\ starter.k # 0 /\ ~starter.up
               /\ svc' = [NoRecord EXCEPT !.tok = starter.k]
               /\ Goto(starter.k, "boot")
               /\ starter' = [starter EXCEPT !.up = TRUE]
               /\ UNCHANGED <<log, disk, starts, claim, stopper, history>>

StartSees == /\ starter.up /\ svc.tok = starter.k /\ svc.w = starter.k /\ Alive(starter.k)
             /\ starter' = NoStart /\ claim' = FALSE
             /\ UNCHANGED <<log, disk, serve, svc, starts, stopper, history>>

(* The child ended, or it took too long and is terminated. *)
StartFails == /\ starter.up
              /\ serve' = [serve EXCEPT ![starter.k] = Off]
              /\ starter' = NoStart /\ claim' = FALSE
              /\ UNCHANGED <<log, disk, svc, starts, stopper, history>>

(* Nobody removes the claim. *)
StartDies == /\ starter # NoStart /\ starter' = NoStart
             /\ UNCHANGED <<log, disk, serve, svc, starts, claim, stopper, history>>

StopReads == /\ stopper = NoRecord /\ Alive(svc.w) /\ (Patient => starter = NoStart)
             /\ stopper' = svc
             /\ UNCHANGED <<log, disk, serve, svc, starts, claim, starter, history>>

StopWrites == /\ stopper # NoRecord
              /\ svc' = [stopper EXCEPT !.stop = TRUE]
              /\ stopper' = NoRecord
              /\ UNCHANGED <<log, disk, serve, starts, claim, starter, history>>

-----------------------------------------------------------------------------
(* One poll *)

NoEntry == [id |-> 0, offset |-> 0, text |-> <<>>, np |-> TRUE]
Prior(s) == IF cursor = <<>> THEN NoEntry ELSE cursor[s]

(* _read: the text that is new, from the tail if it is long, or the text of   *)
(* the last change once more.                                                 *)
Old(s) == IF Prior(s).id = log[s].id /\ Prior(s).offset <= Len(log[s].recs)
          THEN Prior(s).offset ELSE 0
Size(s) == Len(log[s].recs)
Changed(s) == Size(s) > Old(s)
From(s) == IF Old(s) + Limit < Size(s) THEN Size(s) - Limit ELSE Old(s)
NewText(s) == [i \in 1 .. Size(s) - From(s) |->
                 [kind |-> log[s].recs[From(s) + i], at |-> <<s, log[s].base + From(s) + i>>]]

(* With the sources that raise an OSError: they have no text and no offset.   *)
News(s, unread) == IF Changed(s) /\ s \notin unread THEN NewText(s) ELSE <<>>
Text(s, unread) == CASE s \in unread -> <<>>
                     [] s \notin unread /\ Changed(s) -> NewText(s)
                     [] OTHER -> Prior(s).text
InOrder(seqs) == FlattenSeq([n \in 1 .. Cardinality(Sources) |-> seqs[n]])
AllNews(unread) == InOrder([s \in Sources |-> News(s, unread)])
AllText(unread) == InOrder([s \in Sources |-> Text(s, unread)])

NoRecovery(acc, r) ==
    CASE r.kind = "own" -> acc
      [] r.kind = "stale" -> IF acc.held = None THEN [acc EXCEPT !.held = "new"] ELSE acc
      [] OTHER -> [acc EXCEPT !.visible = @ \cup {r.at}]

(* _evaluator_item, for one record: "kept" was quarantined by an earlier poll  *)
(* an interval ago, "new" by this one or just before.                          *)
Judge(acc, r) ==
    CASE r.kind = "own" -> acc
      [] r.kind = "stale" -> IF acc.held = None THEN [acc EXCEPT !.held = "new"] ELSE acc
      [] r.kind = "clear" /\ acc.held \in {"new", "kept"} -> [acc EXCEPT !.held = None]
      [] OTHER -> [acc EXCEPT !.visible = @ \cup {r.at}]

SeenNow(mature) == held             \* mutant of Quarantined
Quarantined(mature) == IF held = "new" /\ mature THEN "kept" ELSE held

Judged(mature, recs) ==
    LET after[i \in 0 .. Len(recs)] ==
            IF i = 0 THEN [held |-> Quarantined(mature), visible |-> {}]
                     ELSE Judge(after[i - 1], recs[i])
    IN after[Len(recs)]

(* _matured_stale_observations *)
Matured == <<0, "stale", 0>>
Released(h) == h = "kept"
Saved(h) == IF Released(h) THEN "released" ELSE h

(* Whether the last stale or recovery record is a recovery, after these. *)
Calm(recs, i) == \A j \in DOMAIN recs : j > i => recs[j].kind # "stale"
Recovers(was, recs) == \/ was /\ Calm(recs, 0)
                       \/ \E i \in DOMAIN recs : recs[i].kind = "clear" /\ Calm(recs, i)

(* The sources that have not changed for no_progress_seconds, once for each   *)
(* generation.                                                                *)
Idle(s) == ~Changed(s) /\ ~Prior(s).np
IdleMark(s, text) == <<s, "idle", IF text = <<>> THEN 0 ELSE text[Len(text)].at[2]>>

FromOffset(s, idle) == [id |-> log[s].id, offset |-> From(s), text |-> Text(s, {}),
                        np |-> ~Changed(s) /\ (s \in idle \/ Prior(s).np)]
NextEntry(s, idle) == [id |-> log[s].id, offset |-> Size(s), text |-> Text(s, {}),
                       np |-> ~Changed(s) /\ (s \in idle \/ Prior(s).np)]

(* What is shown as new: the records that were read first by this poll, and   *)
(* the idle sources, by the last record of their text.                         *)
RecordMarks(visible, unread) ==
    UNION {{<<s, "record", r.at[2]>> : r \in {q \in ToSet(News(s, unread)) : q.at \in visible}} :
           s \in Sources}
IdleMarks(visible, unread, idle) ==
    {IdleMark(s, Text(s, unread)) :
        s \in {i \in idle : \E r \in ToSet(Text(i, unread)) : r.at \in visible}}

(* What the poll of a service has come to when it saves the cursor. *)
Observed(mature, unread, idle) ==
    LET got == Judged(mature, AllText(unread))
    IN [pc |-> "observed",
        cursor |-> [s \in Sources |-> IF s \in unread THEN NoEntry ELSE NextEntry(s, idle)],
        held |-> Saved(got.held),
        news |-> RecordMarks(got.visible, unread) \cup IdleMarks(got.visible, unread, idle)
                    \cup (IF Released(got.held) THEN {Matured} ELSE {}),
        clr |-> Recovers(cleared, AllNews(unread)),
        rec |-> <<>>]

Observe(k, mature) ==
    /\ \E unread \in SUBSET (IF Readable THEN {} ELSE Sources) :
       \E idle \in SUBSET {s \in Sources \ unread : Idle(s)} :
          serve' = [serve EXCEPT ![k] = Observed(mature, unread, idle)]
    /\ UNCHANGED <<log, disk, service, history>>

(* The first poll of a service comes as soon as it starts, the others a poll  *)
(* interval after the last.                                                   *)
FirstPoll(k) == serve[k].pc = "first" /\ \E mature \in BOOLEAN : Observe(k, mature)
Poll(k) == serve[k].pc = "poll" /\ Observe(k, TRUE)

SaveCursor(k) == /\ serve[k].pc = "observed"
                 /\ cursor' = serve[k].cursor /\ held' = serve[k].held
                 /\ serve' = [serve EXCEPT ![k] =
                       [Off EXCEPT !.pc = IF serve[k].news = {} THEN "sleep" ELSE "evaluate",
                                   !.news = serve[k].news]]
                 /\ cleared' = serve[k].clr
                 /\ UNCHANGED <<log, service, shown, again>>

(* A verdict, a verdict that is rejected, or an evaluator that fails, which   *)
(* ends the service.                                                          *)
Evaluate(k) == /\ serve[k].pc = "evaluate"
               /\ LET marks(s, what) == {m[3] : m \in {n \in serve[k].news : n[1] = s /\ n[2] = what}}
                  IN /\ shown' = [m \in DOMAIN shown |-> Max({shown[m]} \cup marks(m[1], m[2]))]
                     /\ again' = (again \/ \E m \in DOMAIN shown :
                                               \E n \in marks(m[1], m[2]) : n <= shown[m])
               /\ \E pc \in {"sleep", "ending"} : serve' = [serve EXCEPT ![k] = [Off EXCEPT !.pc = pc]]
               /\ UNCHANGED <<log, disk, service, cleared>>

-----------------------------------------------------------------------------
(* serve *)

AtEnd(s) == [id |-> log[s].id, offset |-> Size(s), text |-> <<>>, np |-> TRUE]

Boot(k) == /\ serve[k].pc = "boot" /\ svc.tok = k
           /\ svc' = [svc EXCEPT !.w = k]
           /\ cursor' = IF cursor = <<>> THEN [s \in Sources |-> AtEnd(s)] ELSE cursor
           /\ Goto(k, "first")
           /\ UNCHANGED <<log, held, starts, claim, starter, stopper, history>>

BootFails(k) == /\ serve[k].pc = "boot"      \* another token, or the owner is gone
                /\ Ends(k)
                /\ UNCHANGED <<log, disk, service, history>>

(* _sleep_until *)
Wakes(k) == /\ serve[k].pc = "sleep"
            /\ Goto(k, IF svc.stop THEN "ending" ELSE "poll")
            /\ UNCHANGED <<log, disk, service, history>>

OwnerLost(k) == /\ serve[k].pc \in {"first", "poll", "sleep"}
                /\ Ends(k)
                /\ UNCHANGED <<log, disk, service, history>>

(* _terminal reads service.json, and writes it back if it is its own. *)
Terminal(k) == /\ serve[k].pc = "ending"
               /\ serve' = [serve EXCEPT ![k] =
                     IF svc.tok = k THEN [Off EXCEPT !.pc = "exit", !.rec = svc] ELSE Off]
               /\ UNCHANGED <<log, disk, service, history>>

TerminalWrites(k) == /\ serve[k].pc = "exit"
                     /\ svc' = [serve[k].rec EXCEPT !.exit = TRUE]
                     /\ serve' = [serve EXCEPT ![k] = Off]
                     /\ UNCHANGED <<log, disk, starts, claim, starter, stopper, history>>

Dies(k) == /\ Alive(k)
           /\ serve' = [serve EXCEPT ![k] = Off]
           /\ UNCHANGED <<log, disk, service, history>>

Serves(k) == \/ Boot(k) \/ FirstPoll(k) \/ Poll(k) \/ SaveCursor(k) \/ Evaluate(k) \/ Wakes(k)
             \/ Terminal(k) \/ TerminalWrites(k)

Next == \/ \E s \in Sources : Rotate(s) \/ \E kind \in Kinds : Write(s, kind)
        \/ StartClaims \/ StartSpawns \/ StartSees \/ StartFails \/ StartDies
        \/ StopReads \/ StopWrites
        \/ \E k \in Services : Serves(k) \/ BootFails(k) \/ OwnerLost(k) \/ Dies(k)

Spec == Init /\ [][Next]_vars /\ \A k \in Services : WF_vars(Serves(k))
-----------------------------------------------------------------------------
Running(k) == serve[k].pc \in {"first", "poll", "observed", "evaluate", "sleep"}

TypeOK == /\ \A s \in Sources : log[s].id \in 1 .. MaxFiles /\ log[s].recs \in Seq(Kinds)
          /\ held \in {None, "new", "released"}
          /\ \A k \in Services : serve[k].pc \in {"off", "boot", "ending", "exit"} \/ Running(k)
          /\ svc \in [tok : 0 .. MaxStarts, w : 0 .. MaxStarts, stop : BOOLEAN, exit : BOOLEAN]
          /\ starts \in 0 .. MaxStarts /\ starter \in [k : 0 .. starts, up : BOOLEAN]
          /\ {again, cleared, claim} \subseteq BOOLEAN

(* SPEC.md: the service CLI "starts, inspects, and cooperatively stops one    *)
(* watcher process".                                                          *)
OneService == \A j, k \in Services : Running(j) /\ Running(k) => j = k

(* The cursor is saved before the evaluator is asked: whatever dies between,  *)
(* the records are shown to it as new in order and at most once, and a source *)
(* that stopped growing only once.                                            *)
EvaluatedOnce == ~again

(* STALE_STATUS_QUARANTINE_RULE: only an identity that is still stale after a *)
(* full interval is released; one whose recovery was read is not.             *)
ClearedNotReleased == \A k \in Services : serve[k].pc = "observed" /\ Matured \in serve[k].news => ~serve[k].clr

(* _matured_stale_observations releases "each unrecovered exact identity      *)
(* once, after one complete watcher interval": while a service goes on, a     *)
(* quarantined record is released or recovers, provided that the text which   *)
(* the polls read again has no recovery before it.                            *)
Goes == \E k \in Services : Running(k)
Rereads == cursor # <<>> /\ \E s \in Sources : \E r \in ToSet(cursor[s].text) : r.kind = "clear"
MaturesAlone == <>[](Goes /\ ~Rereads) => (held = "new" ~> held # "new")
=============================================================================

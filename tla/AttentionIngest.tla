-------------------------- MODULE AttentionIngest --------------------------
(***************************************************************************)
(* attention.py: a producer appends attention records to its JSONL source,  *)
(* and each poll of the watcher (ingest_attention) reads the source on from *)
(* its cursor, appends the valid new records to the canonical timeline and  *)
(* evidence of the rest to the error file, and then replaces the cursor.    *)
(* Poll and producer may die at any point, in the midst of an append too;   *)
(* the source may be rotated or cut.                                        *)
(*                                                                         *)
(* A line of the source is abstracted to two cells, the second with the     *)
(* newline: a torn append is the first cell alone, and a read may end       *)
(* between the two.  A line is valid if it is the two cells of one record.  *)
(***************************************************************************)
EXTENDS Naturals, Sequences, SequencesExt, FiniteSets

CONSTANTS Records,
          Id,         \* the record_id of a record
          MaxCells,   \* bound: cells of a source
          MaxFaults,  \* bound: rotations, cuts and torn appends
          Chunk,      \* cells of one read (max_tail_bytes)
          MaxCarry    \* cells of a partial line that are kept

ASSUME IngestBounds == {MaxCells, MaxFaults, Chunk, MaxCarry} \subseteq Nat \ {0}
ASSUME RecordsAssumption == Records \cap {"none", "part", "damaged", "malformed", "garbled"} = {}

VARIABLES src,        \* the source: file id and cells
          place,      \* attention-cursor.json
          timeline,   \* attention-timeline.jsonl: records and damaged lines
          torn,       \* the end of the timeline after its last newline
          errors,     \* attention-observation-errors.jsonl: what its lines tell
          errTorn,    \* does that file end without a newline
          poll,       \* ingest_attention
          faults,     \* their number so far
          intact      \* history: since the source was stat'ed for the cursor, it only grew

files == <<timeline, torn, errors, errTorn>>
ingestVars == <<src, place, files, poll, faults, intact>>

NoLine == "none"
Part == "part"              \* a torn line
Damaged == "damaged"        \* a line of the timeline that is no record
Malformed == "malformed"    \* evidence of a source line that is no record
Garbled == "garbled"        \* a line of the error file that nobody can read
Evidence == Records \cup {Malformed, Damaged}

Torn == [rec |-> NoLine, nl |-> FALSE]
Line(r) == <<[rec |-> r, nl |-> FALSE], [rec |-> r, nl |-> TRUE]>>
Cell == [rec : Records \cup {NoLine}, nl : BOOLEAN]

NoCursor == [id |-> 0, offset |-> 0, carry |-> <<>>]
PollIdle == [pc |-> "idle", id |-> 0, size |-> 0, next |-> NoCursor,
             new |-> <<>>, err |-> {}, whole |-> FALSE]

IngestInit == /\ src = [id |-> 1, cells |-> <<>>]
              /\ place = NoCursor
              /\ timeline = <<>> /\ torn = NoLine
              /\ errors = {} /\ errTorn = FALSE
              /\ poll = PollIdle
              /\ faults = 0 /\ intact = TRUE

-----------------------------------------------------------------------------
(* Lines *)

(* Whether a line starts at i, and what the line says that ends at i. *)
Starts(cells, i) == i = 1 \/ cells[i - 1].nl
Parsed(cells, i) ==
    LET r == cells[i].rec
    IN IF i > 1 /\ Starts(cells, i - 1) /\ <<cells[i - 1], cells[i]>> = Line(r) THEN r ELSE Malformed

-----------------------------------------------------------------------------
(* append_producer_record, under the advisory lock of its source *)

Fault == faults < MaxFaults /\ faults' = faults + 1

InSource(r) == \E i \in DOMAIN src.cells : Parsed(src.cells, i) = r
Collides(r) == \E q \in Records : Id[q] = Id[r] /\ InSource(q)

AppendRecord(r) == /\ ~Collides(r) /\ Len(src.cells) + 2 <= MaxCells
                   /\ src' = [src EXCEPT !.cells = @ \o Line(r)]
                   /\ UNCHANGED <<place, files, poll, faults, intact>>

(* A producer dies in its write. *)
AppendTears == /\ Fault /\ Len(src.cells) < MaxCells
               /\ src' = [src EXCEPT !.cells = Append(@, Torn)]
               /\ UNCHANGED <<place, files, poll, intact>>

(* The source is rotated or cut, by others. *)
Replace(new) == /\ Fault
                /\ src' = new
                /\ intact' = FALSE
                /\ poll' = [poll EXCEPT !.whole = FALSE]
                /\ UNCHANGED <<place, files>>

SourceRotates == Replace([id |-> src.id + 1, cells |-> <<>>])
Cut == src.cells # <<>> /\ Replace([src EXCEPT !.cells = <<>>])

-----------------------------------------------------------------------------
(* ingest_attention *)

(* A last line that only lacks its newline is read as a record. *)
Canonical == timeline \o (IF torn \in Records THEN <<torn>> ELSE <<>>)
Damage == IF torn = Part \/ \E i \in DOMAIN timeline : timeline[i] = Damaged
          THEN {Damaged} ELSE {}

Replaced(id, size) == place.id # id \/ place.offset > size

(* Damage of the timeline that the error file does not tell of yet. *)
Unnoticed == {}                 \* mutant of Unreported
Unreported == Damage \ errors

(* Cursor, timeline and errors are read and the source is stat'ed. *)
Begin == /\ poll.pc = "idle"
         /\ poll' = [PollIdle EXCEPT !.pc = "read", !.id = src.id, !.size = Len(src.cells),
                        !.err = Unreported,
                        !.whole = intact \/ Replaced(src.id, Len(src.cells))]
         /\ UNCHANGED <<src, place, files, faults, intact>>

KeptCarry == place.carry          \* mutant of Carry
Carry == IF Replaced(poll.id, poll.size) THEN <<>> ELSE place.carry

Offset == IF Replaced(poll.id, poll.size) THEN 0 ELSE place.offset

(* _timeline_dedup, continued through the lines of this poll: a line whose    *)
(* record_id is known is a replay, or a collision if its bytes differ.        *)
OnlyThisPoll(new, r) == \E q \in ToSet(new) : Id[q] = Id[r]           \* mutant of Known
Known(new, r) == \E q \in ToSet(Canonical \o new) \cap Records : Id[q] = Id[r]

Take(acc, x) ==
    IF x = Malformed THEN [acc EXCEPT !.err = @ \cup {Malformed}]
    ELSE IF ~Known(acc.new, x) THEN [acc EXCEPT !.new = Append(@, x)]
    ELSE IF x \in ToSet(Canonical \o acc.new) THEN acc
    ELSE [acc EXCEPT !.err = @ \cup {x}]

(* The cells are read one by one after the carry; a newline ends the line. *)
Eat(acc, cell) ==
    LET line == Append(acc.line, cell)
        said == IF line = Line(cell.rec) THEN cell.rec ELSE Malformed
    IN IF cell.nl THEN [Take(acc, said) EXCEPT !.line = <<>>] ELSE [acc EXCEPT !.line = line]

Eaten(data) ==
    LET eaten[i \in 0 .. Len(data)] ==
            IF i = 0 THEN [line |-> Carry, new |-> <<>>, err |-> poll.err]
                     ELSE Eat(eaten[i - 1], data[i])
    IN eaten[Len(data)]

TooLong(rest) == Len(rest) > MaxCarry
UpTo == IF Offset + Chunk < Len(src.cells) THEN Offset + Chunk ELSE Len(src.cells)

(* Whatever file has the path by now is read from the offset. *)
Read == /\ poll.pc = "read"
        /\ LET data == SubSeq(src.cells, Offset + 1, UpTo)
               got == Eaten(data)
               over == TooLong(got.line)
           IN poll' = [poll EXCEPT !.pc = "timeline",
                          !.new = got.new,
                          !.err = got.err \cup (IF over THEN {Malformed} ELSE {}),
                          !.next = [id |-> poll.id, offset |-> Offset + Len(data),
                                    carry |-> IF over THEN <<>> ELSE got.line]]
        /\ UNCHANGED <<src, place, files, faults, intact>>

(* The first line that is appended joins what follows the last newline. *)
Joined(new) == IF torn # NoLine /\ new # <<>> THEN <<Damaged>> \o SubSeq(new, 2, Len(new)) ELSE new

WriteTimeline == /\ poll.pc = "timeline"
                 /\ timeline' = timeline \o Joined(poll.new)
                 /\ torn' = IF poll.new = <<>> THEN torn ELSE NoLine
                 /\ poll' = [poll EXCEPT !.pc = "errors"]
                 /\ UNCHANGED <<src, place, errors, errTorn, faults, intact>>

WriteErrors == /\ poll.pc = "errors"
               /\ IF errTorn /\ poll.err # {}
                  THEN \E e \in poll.err : errors' = errors \cup (poll.err \ {e}) \cup {Garbled}
                  ELSE errors' = errors \cup poll.err
               /\ errTorn' = (errTorn /\ poll.err = {})
               /\ poll' = [poll EXCEPT !.pc = "cursor"]
               /\ UNCHANGED <<src, place, timeline, torn, faults, intact>>

WriteCursor == /\ poll.pc = "cursor"
               /\ place' = poll.next /\ intact' = poll.whole
               /\ poll' = PollIdle
               /\ UNCHANGED <<src, files, faults>>

Die == /\ poll.pc # "idle"
       /\ poll' = PollIdle
       /\ UNCHANGED <<src, place, files, faults, intact>>

(* The append of the k-th new line breaks off. *)
TearTimeline == /\ poll.pc = "timeline" /\ Fault
                /\ \E k \in DOMAIN poll.new :
                      /\ timeline' = timeline \o Joined(SubSeq(poll.new, 1, k - 1))
                      /\ torn' \in {Part} \cup (IF k = 1 /\ torn # NoLine THEN {} ELSE {poll.new[k]})
                /\ poll' = PollIdle
                /\ UNCHANGED <<src, place, errors, errTorn, intact>>

TearErrors == /\ poll.pc = "errors" /\ Fault /\ poll.err # {}
              /\ errTorn' = TRUE /\ poll' = PollIdle
              /\ UNCHANGED <<src, place, timeline, torn, errors, intact>>

IngestNext == \/ \E r \in Records : AppendRecord(r)
              \/ AppendTears \/ SourceRotates \/ Cut
              \/ Begin \/ Read \/ WriteTimeline \/ WriteErrors \/ WriteCursor
              \/ Die \/ TearTimeline \/ TearErrors

(* The service goes on polling. *)
IngestSpec == IngestInit /\ [][IngestNext]_ingestVars
                   /\ WF_ingestVars(Begin \/ Read \/ WriteTimeline \/ WriteErrors \/ WriteCursor)
-----------------------------------------------------------------------------
IngestTypeOK == /\ src.id \in Nat \ {0} /\ src.cells \in Seq(Cell)
                /\ place.offset \in Nat /\ place.carry \in Seq(Cell) /\ Len(place.carry) <= MaxCarry
                /\ timeline \in Seq(Records \cup {Damaged})
                /\ torn \in Records \cup {NoLine, Part}
                /\ errors \subseteq Evidence \cup {Garbled}
                /\ poll.pc \in {"idle", "read", "timeline", "errors", "cursor"}
                /\ faults \in 0 .. MaxFaults
                /\ {errTorn, intact, poll.whole} \subseteq BOOLEAN

(* "A crash after its fsync but before cursor replacement must replay without *)
(* manufacturing a second canonical record": no record_id is twice in the     *)
(* timeline, whatever is replayed, rotated or cut.  _timeline_dedup would     *)
(* refuse a contradictory timeline for ever.                                  *)
OnceInTimeline == \A i, j \in DOMAIN Canonical :
                     Canonical[i] \in Records /\ Canonical[j] \in Records
                        /\ Id[Canonical[i]] = Id[Canonical[j]] => i = j

InTimeline(r) == r \in ToSet(Canonical)
Visible == torn = Part \/ Damaged \in ToSet(timeline) \/ errTorn \/ Garbled \in errors

(* What the cursor has passed is in the timeline, or there is evidence of it, *)
(* or a line of one of the files is visibly damaged: a record is never lost   *)
(* without a trace.                                                           *)
Passed(r) == \E i \in DOMAIN src.cells : i <= place.offset /\ Parsed(src.cells, i) = r
NoSilentLoss == place.id = src.id /\ intact =>
                   \A r \in Records : Passed(r) => InTimeline(r) \/ r \in errors \/ Visible

(* Records that were appended are taken up in the end, and damage of the      *)
(* timeline is reported, once polls stop dying (the other faults are bounded). *)
Undisturbed == poll'.pc = "idle" => poll.pc = "idle" \/ (poll.pc = "cursor" /\ place' = poll.next)
AllTakenUp ==
    /\ intact => \A r \in Records : InSource(r) => InTimeline(r) \/ r \in errors \/ Visible
    /\ Damage # {} => Damaged \in errors
TakenUp == <>[][Undisturbed]_ingestVars => []<>AllTakenUp
=============================================================================

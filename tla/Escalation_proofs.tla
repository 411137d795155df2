-------------------------- MODULE Escalation_proofs --------------------------
(***************************************************************************)
(* Proofs about module Escalation, for every set of notices, of monitor     *)
(* processes and of processes of watch: a notice is archived only when its  *)
(* event is in the manager queue, it has one event though several monitors  *)
(* read the same outbox, and watch reports an event once to a session.      *)
(* Also, at the end, about module Inbox, by which root messages a lane.     *)
(***************************************************************************)
EXTENDS Escalation, Inbox, WellFoundedInduction, TLAPS

(* A set of naturals has a least element: what WatchFinds chooses exists.   *)
LEMMA LeastExists ==
    ASSUME NEW S, S \subseteq Nat, S # {}
    PROVE  \E i \in S : \A j \in S : i <= j
<1> DEFINE Less == {p \in Nat \X Nat : p[1] < p[2]}
<1>1. IsWellFoundedOn(Less, Nat)
    BY NatLessThanWellFounded DEF OpToRel
<1>2. \A i, j \in Nat : i < j => <<i, j>> \in Less
    OBVIOUS
<1> HIDE DEF Less
<1>3. PICK i \in S : \A j \in S : ~(<<j, i>> \in Less)
    BY <1>1, WFMin
<1>4. ASSUME NEW j \in S PROVE i <= j
  <2>1. i \in Nat /\ j \in Nat
    OBVIOUS
  <2>2. ~(j < i)
    BY <1>2, <1>3, <2>1
  <2> QED BY <2>1, <2>2
<1> QED BY <1>4

-----------------------------------------------------------------------------
(* Type correctness, in two parts: the notices on their way, the services.  *)

QueueTyped == /\ outbox \subseteq Notices /\ archived \subseteq Notices
              /\ events \in Seq(Event)
              /\ receipts \subseteq DOMAIN events /\ known \subseteq DOMAIN events
              /\ reports \in Seq(Nat) /\ Len(reports) = Len(events)
              /\ watch \in [Watchers -> 0 .. Len(events)]

Pcs == {"off", "loop", "pass", "archive", "stopping", "hung"}
Processes == [pc : Pcs, n : Notices \cup {None}]
RecordType == [m : Monitors, stop : BOOLEAN, stopped : BOOLEAN, fresh : BOOLEAN]

ServiceTyped == /\ rt \in {"OPEN", "SHUTTING_DOWN", "CLOSED"}
                /\ rec \in RecordType
                /\ mon \in [Monitors -> Processes]
                /\ starter \in Monitors \cup {None}
                /\ shutdown \in {"idle", "ask", "wait"}
                /\ alarmed \in BOOLEAN

LEMMA TwoParts == TypeOK <=> QueueTyped /\ ServiceTyped
BY DEF TypeOK, QueueTyped, ServiceTyped, RecordType, Processes, Pcs

LEMMA QueueFrame == QueueTyped /\ UNCHANGED <<queue, root>> => QueueTyped'
BY DEF QueueTyped, queue, root

LEMMA ServiceFrame == ServiceTyped /\ UNCHANGED service => ServiceTyped'
BY DEF ServiceTyped, service

LEMMA IdleProcesses ==
    /\ Off \in Processes /\ Loop \in Processes
    /\ [Loop EXCEPT !.pc = "hung"] \in Processes
    /\ Off.pc = "off" /\ Loop.pc = "loop" /\ [Loop EXCEPT !.pc = "hung"].pc = "hung"
BY DEF Off, Loop, Processes, Pcs

LEMMA FreshTyped == \A m \in Monitors : Fresh(m) \in RecordType
BY DEF Fresh, RecordType

LEMMA GotoTyped ==
    ASSUME ServiceTyped, NEW m \in Monitors, NEW pc \in Pcs, Goto(m, pc)
    PROVE  mon' \in [Monitors -> Processes]
BY DEF ServiceTyped, Goto, Processes

LEMMA ServiceNext == ServiceTyped /\ [Next]_vars => ServiceTyped'
<1> SUFFICES ASSUME ServiceTyped, [Next]_vars PROVE ServiceTyped'
    OBVIOUS
<1> USE DEF ServiceTyped
<1>1. ASSUME NEW m \in Monitors, PassStarts(m) \/ Heartbeat(m) PROVE ServiceTyped'
  <2>1. \E pc \in Pcs : Goto(m, pc)
    BY <1>1 DEF PassStarts, Heartbeat, Pcs
  <2>2. rec' \in RecordType
    BY <1>1 DEF PassStarts, Heartbeat, RecordType
  <2>3. mon' \in [Monitors -> Processes]
    BY <2>1, GotoTyped
  <2> QED BY <1>1, <2>2, <2>3 DEF PassStarts, Heartbeat
<1>2. ASSUME NEW m \in Monitors, NEW n \in Notices, Promote(m, n) PROVE ServiceTyped'
  <2>1. mon' \in [Monitors -> Processes]
    BY <1>2 DEF Promote, Processes, Pcs
  <2> QED BY <1>2, <2>1 DEF Promote
<1>3. ASSUME NEW m \in Monitors, Archive(m) PROVE ServiceTyped'
  <2>1. mon' \in [Monitors -> Processes]
    BY <1>3 DEF Archive, Processes, Pcs
  <2> QED BY <1>3, <2>1 DEF Archive
<1>4. ASSUME NEW m \in Monitors, Stops(m) \/ Dies(m) \/ Hangs(m) PROVE ServiceTyped'
  <2>1. mon' \in [Monitors -> Processes]
    BY <1>4, IdleProcesses DEF Stops, Dies, Hangs
  <2>2. rec' \in RecordType
    BY <1>4 DEF Stops, Dies, Hangs, RecordType
  <2> QED BY <1>4, <2>1, <2>2 DEF Stops, Dies, Hangs
<1>5. CASE Setup \/ RecoverStarts
  <2>1. PICK cleared \in [Monitors -> Processes] : Spawn(cleared)
    BY <1>5, IdleProcesses DEF Setup, RecoverStarts
  <2>2. mon' \in [Monitors -> Processes] /\ starter' \in Monitors
    BY <2>1, IdleProcesses DEF Spawn
  <2> QED BY <1>5, <2>2 DEF Setup, RecoverStarts
<1>6. CASE Ages \/ StarterRecords \/ StarterDies \/ RecoverNothing
  <2>1. rec' \in RecordType
    BY <1>6, FreshTyped DEF Ages, StarterRecords, StarterDies, RecoverNothing, RecordType
  <2> QED BY <1>6, <2>1 DEF Ages, StarterRecords, StarterDies, RecoverNothing
<1>7. CASE ShutdownStarts \/ ShutdownAsks \/ ShutdownCloses \/ ShutdownGivesUp
  <2>1. rec' \in RecordType
    BY <1>7 DEF ShutdownStarts, ShutdownAsks, ShutdownCloses, ShutdownGivesUp, RecordType
  <2> QED BY <1>7, <2>1 DEF ShutdownStarts, ShutdownAsks, ShutdownCloses, ShutdownGivesUp
<1>8. CASE Hook
    BY <1>8 DEF Hook, Unhealthy, Alive, Deliberate, RecordType
<1>9. CASE UNCHANGED service
    BY <1>9, ServiceFrame
<1>10. ASSUME \/ \E n \in Notices : Notify(n)
              \/ \E w \in Watchers : WatchFinds(w) \/ WatchDelivers(w) \/ WatchTooLate(w)
              \/ HandleAny \/ UNCHANGED vars
       PROVE  UNCHANGED service
    BY <1>10 DEF Notify, WatchFinds, WatchDelivers, WatchTooLate, HandleAny, Handle, vars
<1> QED BY <1>1, <1>2, <1>3, <1>4, <1>5, <1>6, <1>7, <1>8, <1>9, <1>10 DEF Next, MonitorStep

LEMMA QueueNext == QueueTyped /\ ServiceTyped /\ [Next]_vars => QueueTyped'
<1> SUFFICES ASSUME QueueTyped, ServiceTyped, [Next]_vars PROVE QueueTyped'
    OBVIOUS
<1>1. ASSUME NEW n \in Notices, Notify(n) PROVE QueueTyped'
    BY <1>1 DEF Notify, QueueTyped, root
<1>2. ASSUME NEW m \in Monitors, NEW n \in Notices, Promote(m, n) PROVE QueueTyped'
  <2>1. UNCHANGED <<outbox, archived, receipts, known, watch>>
    BY <1>2 DEF Promote
  <2>2. CASE Admitted(n)
    BY <1>2, <2>1, <2>2 DEF Promote, QueueTyped
  <2>3. CASE ~Admitted(n)
    <3> DEFINE e == [n |-> n, st |-> "PENDING"]
    <3>1. e \in Event /\ events' = Append(events, e) /\ reports' = Append(reports, 0)
      BY <1>2, <2>3 DEF Promote, Event, Open
    <3> HIDE DEF e
    <3>2. /\ events' \in Seq(Event) /\ Len(events') = Len(events) + 1
          /\ reports' \in Seq(Nat) /\ Len(reports') = Len(reports) + 1
          /\ DOMAIN events \subseteq DOMAIN events'
      BY <3>1 DEF QueueTyped
    <3>3. 0 .. Len(events) \subseteq 0 .. Len(events')
      BY <3>2 DEF QueueTyped
    <3> QED BY <2>1, <3>2, <3>3 DEF QueueTyped
  <2> QED BY <2>2, <2>3
<1>3. ASSUME NEW m \in Monitors, Archive(m) PROVE QueueTyped'
    BY <1>3 DEF Archive, QueueTyped, root
<1>4. CASE Hook
    BY <1>4 DEF Hook, QueueTyped, queue, OpenEvents
<1>5. ASSUME NEW w \in Watchers, WatchFinds(w) PROVE QueueTyped'
  <2> DEFINE S == OpenEvents \ receipts
             first == CHOOSE i \in S : \A j \in S : i <= j
  <2>1. S # {} /\ S \subseteq 0 .. Len(events) /\ S \subseteq Nat
    BY <1>5 DEF WatchFinds, OpenEvents, QueueTyped
  <2>2. watch' = [watch EXCEPT ![w] = first] /\ UNCHANGED <<queue, receipts, reports, known>>
    BY <1>5 DEF WatchFinds
  <2> HIDE DEF S
  <2>3. \E i \in S : \A j \in S : i <= j
    BY <2>1, LeastExists
  <2>4. first \in S
    BY <2>3
  <2> HIDE DEF first
  <2> QED BY <2>1, <2>2, <2>4 DEF QueueTyped, queue
<1>6. ASSUME NEW w \in Watchers, WatchDelivers(w) PROVE QueueTyped'
  <2>1. watch[w] \in DOMAIN events
    BY <1>6 DEF WatchDelivers, QueueTyped
  <2>2. reports' \in Seq(Nat) /\ Len(reports') = Len(events)
    <3>1. reports[watch[w]] + 1 \in Nat
      BY <2>1 DEF QueueTyped
    <3> QED BY <1>6, <3>1 DEF WatchDelivers, QueueTyped
  <2>3. receipts' \subseteq DOMAIN events /\ known' \subseteq DOMAIN events
    BY <1>6, <2>1 DEF WatchDelivers, QueueTyped
  <2> QED BY <1>6, <2>2, <2>3 DEF WatchDelivers, QueueTyped, queue
<1>7. ASSUME NEW w \in Watchers, WatchTooLate(w) PROVE QueueTyped'
    BY <1>7 DEF WatchTooLate, QueueTyped, queue
<1>8. ASSUME NEW i \in DOMAIN events, Handle(i) PROVE QueueTyped'
  <2>1. PICK to \in Allowed(events[i].st) : events' = [events EXCEPT ![i].st = to]
    BY <1>8 DEF Handle
  <2>2. to \in Open \cup {"CLOSED"}
    BY <2>1 DEF Allowed, Open
  <2>3. [events[i] EXCEPT !.st = to] \in Event
    <3>1. events[i] \in Event
      BY DEF QueueTyped
    <3> QED BY <2>2, <3>1 DEF Event
  <2>4. events' \in Seq(Event) /\ Len(events') = Len(events) /\ DOMAIN events' = DOMAIN events
    BY <2>1, <2>3 DEF QueueTyped
  <2> QED BY <1>8, <2>4 DEF Handle, QueueTyped, root
<1>9. CASE UNCHANGED <<queue, root>>
    BY <1>9, QueueFrame
<1>10. ASSUME \/ \E m \in Monitors : PassStarts(m) \/ Heartbeat(m) \/ Stops(m) \/ Dies(m) \/ Hangs(m)
              \/ Ages \/ Setup \/ StarterRecords \/ StarterDies \/ RecoverNothing \/ RecoverStarts
              \/ ShutdownStarts \/ ShutdownAsks \/ ShutdownCloses \/ ShutdownGivesUp
              \/ UNCHANGED vars
       PROVE  UNCHANGED <<queue, root>>
    BY <1>10 DEF PassStarts, Heartbeat, Stops, Dies, Hangs, Ages, Setup, StarterRecords, StarterDies,
                 RecoverNothing, RecoverStarts, ShutdownStarts, ShutdownAsks, ShutdownCloses,
                 ShutdownGivesUp, vars
<1> QED BY <1>1, <1>2, <1>3, <1>4, <1>5, <1>6, <1>7, <1>8, <1>9, <1>10
        DEF Next, MonitorStep, HandleAny

LEMMA TypeInit == Init => TypeOK
<1> SUFFICES ASSUME Init PROVE QueueTyped /\ ServiceTyped
    BY TwoParts
<1>1. QueueTyped
    BY DEF Init, QueueTyped
<1>2. mon \in [Monitors -> Processes]
    BY IdleProcesses DEF Init
<1>3. ServiceTyped
    BY <1>2, MonitorAssumption, FreshTyped DEF Init, ServiceTyped
<1> QED BY <1>1, <1>3

LEMMA TypeNext == TypeOK /\ [Next]_vars => TypeOK'
<1> SUFFICES ASSUME TypeOK, [Next]_vars PROVE QueueTyped' /\ ServiceTyped'
    BY DEF TypeOK, QueueTyped, ServiceTyped, RecordType, Processes, Pcs
<1> QED BY TwoParts, QueueNext, ServiceNext

THEOREM EscalationTypeCorrect == Spec => []TypeOK
BY TypeInit, TypeNext, PTL DEF Spec

-----------------------------------------------------------------------------
(* A notice once *)

\* A monitor that is about to archive a notice has found or made its event; an
\* event that watch has not delivered has not been reported.
NoticeInv ==
    /\ NoticesOnce
    /\ \A m \in Monitors : mon[m].pc = "archive" => Admitted(mon[m].n)
    /\ \A i \in DOMAIN reports : i \notin receipts => reports[i] = 0

LEMMA NoticesFrame ==
    ASSUME TypeOK, NoticeInv, UNCHANGED <<events, reports, receipts>>,
           \A n \in archived' \ archived : Admitted(n),
           \A m \in Monitors : mon'[m].pc = "archive" => mon'[m] = mon[m]
    PROVE  NoticeInv'
BY DEF NoticeInv, NoticesOnce, Admitted

LEMMA NoticesByPromote ==
    ASSUME TypeOK, NoticeInv, NEW m \in Monitors, NEW n \in Notices, Promote(m, n)
    PROVE  NoticeInv'
<1>1. /\ UNCHANGED <<archived, receipts>>
      /\ mon' = [mon EXCEPT ![m].pc = "archive", ![m].n = n]
    BY DEF Promote
<1>2. /\ mon'[m].pc = "archive" /\ mon'[m].n = n
      /\ \A d \in Monitors : d # m => mon'[d] = mon[d]
    BY <1>1 DEF TypeOK
<1>3. CASE Admitted(n)
  <2>1. UNCHANGED <<events, reports>>
    BY <1>3 DEF Promote
  <2>2. \A d \in Monitors : (mon[d].pc = "archive" => Admitted(mon[d].n))'
    BY <1>2, <1>3, <2>1 DEF NoticeInv, Admitted
  <2> QED BY <1>1, <2>1, <2>2 DEF NoticeInv, NoticesOnce
<1>4. CASE ~Admitted(n)
  <2> DEFINE e == [n |-> n, st |-> "PENDING"]
             new == Len(events) + 1
  <2>1. events' = Append(events, e) /\ reports' = Append(reports, 0)
    BY <1>4 DEF Promote
  <2>2. /\ DOMAIN events' = 1 .. new /\ DOMAIN events = 1 .. new - 1
        /\ events'[new].n = n /\ \A i \in DOMAIN events : events'[i] = events[i]
        /\ DOMAIN reports' = 1 .. new /\ DOMAIN reports = 1 .. new - 1
        /\ reports'[new] = 0 /\ \A i \in DOMAIN reports : reports'[i] = reports[i]
        /\ new \in Nat \ {0}
    BY <2>1 DEF TypeOK
  <2> HIDE DEF e, new
  <2>3. \A k : Admitted(k) \/ k = n => Admitted(k)'
    <3>1. ASSUME NEW k, Admitted(k) PROVE Admitted(k)'
      <4>1. PICK i \in DOMAIN events : events[i].n = k
        BY <3>1 DEF Admitted
      <4>2. i \in DOMAIN events' /\ events'[i].n = k
        BY <2>2, <4>1
      <4> QED BY <4>2 DEF Admitted
    <3>2. Admitted(n)'
      BY <2>2 DEF Admitted
    <3> QED BY <3>1, <3>2
  <2>4. \A k \in archived' : \E i \in DOMAIN events' : events'[i].n = k
    BY <1>1, <2>3 DEF NoticeInv, NoticesOnce, Admitted
  <2>5. \A i, j \in DOMAIN events' : events'[i].n = events'[j].n => i = j
    <3>1. \A i \in DOMAIN events : events'[i].n # n /\ events'[i].n = events[i].n
      BY <1>4, <2>2 DEF Admitted
    <3>2. \A i \in DOMAIN events' : i \in DOMAIN events \/ i = new
      BY <2>2
    <3> QED BY <2>2, <3>1, <3>2 DEF NoticeInv, NoticesOnce
  <2>6. \A i \in DOMAIN reports' : i \in DOMAIN reports \/ i = new
    BY <2>2
  <2>7. /\ \A i \in DOMAIN reports' : reports'[i] <= 1
        /\ \A i \in DOMAIN reports' : i \notin receipts' => reports'[i] = 0
    BY <1>1, <2>2, <2>6 DEF NoticeInv, NoticesOnce
  <2>8. \A d \in Monitors : (mon[d].pc = "archive" => Admitted(mon[d].n))'
    BY <1>2, <2>2, <2>3 DEF NoticeInv, Admitted
  <2> QED BY <2>4, <2>5, <2>7, <2>8 DEF NoticeInv, NoticesOnce
<1> QED BY <1>3, <1>4

LEMMA NoticesByDelivery ==
    ASSUME TypeOK, NoticeInv, NEW w \in Watchers, WatchDelivers(w)
    PROVE  NoticeInv'
<1>1. /\ watch[w] \in DOMAIN reports /\ watch[w] \notin receipts
      /\ UNCHANGED <<archived, events, mon>> /\ receipts' = receipts \cup {watch[w]}
      /\ reports' = reports \/ reports' = [reports EXCEPT ![watch[w]] = @ + 1]
    BY DEF WatchDelivers, MayDeliver, TypeOK, queue, service
<1>2. /\ DOMAIN reports' = DOMAIN reports /\ reports'[watch[w]] <= 1
      /\ \A i \in DOMAIN reports : i # watch[w] => reports'[i] = reports[i]
    BY <1>1 DEF NoticeInv, TypeOK
<1>3. /\ \A i \in DOMAIN reports' : reports'[i] <= 1
      /\ \A i \in DOMAIN reports' : i \notin receipts' => reports'[i] = 0
    BY <1>1, <1>2 DEF NoticeInv, NoticesOnce
<1> QED BY <1>1, <1>3 DEF NoticeInv, NoticesOnce, Admitted

LEMMA NoticesByHandle ==
    ASSUME TypeOK, NoticeInv, NEW i \in DOMAIN events, Handle(i)
    PROVE  NoticeInv'
<1>1. UNCHANGED <<archived, reports, receipts, mon>>
    BY DEF Handle, root, service
<1>2. PICK to : events' = [events EXCEPT ![i].st = to]
    BY DEF Handle
<1>3. DOMAIN events' = DOMAIN events /\ \A j \in DOMAIN events : events'[j].n = events[j].n
    BY <1>2 DEF TypeOK, Event
<1> QED BY <1>1, <1>3 DEF NoticeInv, NoticesOnce, Admitted

LEMMA NoticesNext == TypeOK /\ NoticeInv /\ [Next]_vars => NoticeInv'
<1> SUFFICES ASSUME TypeOK, NoticeInv, [Next]_vars PROVE NoticeInv'
    OBVIOUS
<1>1. ASSUME NEW m \in Monitors, Archive(m) PROVE NoticeInv'
  <2>1. /\ UNCHANGED <<events, reports, receipts>> /\ Admitted(mon[m].n)
        /\ \A n \in archived' \ archived : n = mon[m].n
        /\ mon' = [mon EXCEPT ![m].pc = "pass", ![m].n = None]
    BY <1>1 DEF Archive, root, NoticeInv
  <2>2. \A d \in Monitors : mon'[d].pc = "archive" => mon'[d] = mon[d]
    BY <2>1 DEF TypeOK
  <2> QED BY <2>1, <2>2, NoticesFrame
<1>2. ASSUME NEW m \in Monitors, PassStarts(m) \/ Heartbeat(m) \/ Stops(m) \/ Dies(m) \/ Hangs(m)
      PROVE  NoticeInv'
  <2>1. UNCHANGED <<events, reports, receipts, archived>>
    BY <1>2 DEF PassStarts, Heartbeat, Stops, Dies, Hangs, queue, root
  <2>2. \A d \in Monitors : mon'[d].pc = "archive" => mon'[d] = mon[d]
    <3>1. CASE PassStarts(m) \/ Heartbeat(m)
      BY <3>1 DEF PassStarts, Heartbeat, Goto, TypeOK
    <3>2. CASE Stops(m) \/ Dies(m) \/ Hangs(m)
      BY <3>2, IdleProcesses DEF Stops, Dies, Hangs, TypeOK
    <3> QED BY <1>2, <3>1, <3>2
  <2> QED BY <2>1, <2>2, NoticesFrame
<1>3. CASE Setup \/ RecoverStarts
  <2>1. UNCHANGED <<events, reports, receipts, archived>>
    BY <1>3 DEF Setup, RecoverStarts, queue, root
  <2>2. \A d \in Monitors : mon'[d].pc = "archive" => mon'[d] = mon[d]
    BY <1>3, IdleProcesses DEF Setup, RecoverStarts, Spawn, TypeOK
  <2> QED BY <2>1, <2>2, NoticesFrame
<1>4. CASE UNCHANGED <<events, reports, receipts, archived, mon>>
    BY <1>4, NoticesFrame
<1>5. ASSUME \/ \E n \in Notices : Notify(n)
             \/ Ages \/ StarterRecords \/ StarterDies \/ RecoverNothing
             \/ ShutdownStarts \/ ShutdownAsks \/ ShutdownCloses \/ ShutdownGivesUp
             \/ Hook \/ (\E w \in Watchers : WatchFinds(w) \/ WatchTooLate(w)) \/ UNCHANGED vars
      PROVE  UNCHANGED <<events, reports, receipts, archived, mon>>
    BY <1>5 DEF Notify, Ages, StarterRecords, StarterDies, RecoverNothing, ShutdownStarts,
                ShutdownAsks, ShutdownCloses, ShutdownGivesUp, Hook, WatchFinds, WatchTooLate,
                vars, queue, root, service
<1> QED BY <1>1, <1>2, <1>3, <1>4, <1>5, NoticesByPromote, NoticesByDelivery, NoticesByHandle
        DEF Next, MonitorStep, HandleAny

(* A worker's notice is archived only once its event is in the queue, adds one *)
(* event whichever monitors read it and wherever they die, and is reported at  *)
(* most once to a session by however many processes of watch (NoticesOnce).    *)
THEOREM NoticesAreOnce == Spec => []NoticesOnce
<1>1. Init => TypeOK /\ NoticeInv
  <2>1. ASSUME Init PROVE NoticeInv
    BY <2>1, IdleProcesses DEF Init, NoticeInv, NoticesOnce
  <2> QED BY <2>1, TypeInit
<1>2. (TypeOK /\ NoticeInv) /\ [Next]_vars => (TypeOK /\ NoticeInv)'
    BY TypeNext, NoticesNext
<1>3. NoticeInv => NoticesOnce
    BY DEF NoticeInv
<1> QED BY <1>1, <1>2, <1>3, PTL DEF Spec

-----------------------------------------------------------------------------
(* The inbox of a lane (module Inbox): whatever copies of the inbox the       *)
(* sender and the worker write back over a reset that takes no lock, an inbox *)
(* holds assignments of its own run only.                                     *)

(* Each copy that may still be written back holds its own run's assignments, *)
(* and the sender's is a copy of the inbox of the run it sends to.           *)
Own(box) == \A a \in Assignments : box.items[a].st # "none" => box.items[a].run = box.run

CopiesOwn ==
    /\ send.pc = "write" => Own(send.copy) /\ send.copy.run = send.run
    /\ worker.pc = "write" => Own(worker.copy)

InboxInv == OwnAssignments /\ CopiesOwn

LEMMA EmptyRecord ==
    ASSUME NEW r \in Runs
    PROVE  Empty(r) \in Record /\ Own(Empty(r))
BY MaxRunAssumption DEF Empty, Record, NoItem, Item, States, Runs, Own

LEMMA AppendedOwn ==
    ASSUME InboxTypeOK, CopiesOwn, send.pc = "write", NEW a \in Assignments
    PROVE  Appended(a) \in Record /\ Own(Appended(a))
BY DEF InboxTypeOK, CopiesOwn, Own, Appended, Record, Item, States

LEMMA AdvancedOwn ==
    ASSUME inbox \in Record, Own(inbox), NEW a \in Assignments, NEW to \in States,
           inbox.items[a].st # "none"
    PROVE  /\ [inbox EXCEPT !.items[a].st = to] \in Record
           /\ Own([inbox EXCEPT !.items[a].st = to])
BY DEF Own, Record, Item

LEMMA InboxInitInv == InboxInit => InboxTypeOK /\ InboxInv
<1> SUFFICES ASSUME InboxInit PROVE InboxTypeOK /\ InboxInv
    OBVIOUS
<1>1. 1 \in Runs
    BY MaxRunAssumption DEF Runs
<1>2. Empty(1) \in Record /\ Own(Empty(1))
    BY <1>1, EmptyRecord
<1>3. InboxTypeOK
    BY <1>1, <1>2 DEF InboxInit, InboxTypeOK, SendIdle, WorkerIdle, Nobody
<1>4. InboxInv
    BY <1>2 DEF InboxInit, InboxInv, OwnAssignments, CopiesOwn, SendIdle, WorkerIdle, Own
<1> QED BY <1>3, <1>4

LEMMA InboxNextInv == InboxTypeOK /\ InboxInv /\ [InboxNext]_inboxVars => InboxTypeOK' /\ InboxInv'
<1> SUFFICES ASSUME InboxTypeOK, InboxInv, [InboxNext]_inboxVars PROVE InboxTypeOK' /\ InboxInv'
    OBVIOUS
<1> USE DEF Nobody
<1>1. SendIdle \in [pc : {"idle", "append", "write"}, run : Runs, copy : Record]
    BY EmptyRecord, MaxRunAssumption DEF SendIdle, Runs
<1>2. WorkerIdle \in [pc : {"idle", "write"}, copy : Record]
    BY EmptyRecord, MaxRunAssumption DEF WorkerIdle, Runs
<1>3. Own(inbox)
    BY DEF InboxInv, OwnAssignments, Own
<1>4. CASE Send
  <2>1. InboxTypeOK'
    BY <1>1, <1>4 DEF Send, SendIdle, InboxTypeOK
  <2>2. InboxInv'
    BY <1>4 DEF Send, SendIdle, InboxInv, OwnAssignments, CopiesOwn, Own
  <2> QED BY <2>1, <2>2
<1>5. CASE SendStale \/ SendDies
  <2>1. InboxTypeOK'
    BY <1>1, <1>5 DEF SendStale, SendDies, InboxTypeOK
  <2>2. InboxInv'
    BY <1>5 DEF SendStale, SendDies, SendIdle, InboxInv, OwnAssignments, CopiesOwn, Own
  <2> QED BY <2>1, <2>2
<1>6. CASE SendRead
  <2>1. InboxTypeOK'
    BY <1>6 DEF SendRead, LockInbox, InboxTypeOK
  <2>2. InboxInv'
    BY <1>3, <1>6 DEF SendRead, SendRuns, InboxTypeOK, InboxInv, OwnAssignments, CopiesOwn, Own
  <2> QED BY <2>1, <2>2
<1>7. CASE SendWrite
  <2>1. inbox' \in Record /\ Own(inbox')
    BY <1>3, <1>7, AppendedOwn DEF SendWrite, InboxTypeOK, InboxInv
  <2>2. InboxTypeOK'
    BY <1>1, <1>7, <2>1 DEF SendWrite, InboxTypeOK
  <2>3. InboxInv'
    BY <1>7, <2>1 DEF SendWrite, SendIdle, InboxInv, OwnAssignments, CopiesOwn, Own
  <2> QED BY <2>2, <2>3
<1>8. ASSUME NEW a \in Assignments, NEW to \in States, Advance(a, to)
      PROVE  InboxTypeOK' /\ InboxInv'
  <2>1. inbox.items[a].st # "none"
    BY <1>8 DEF Advance, AllowedFrom
  <2> DEFINE moved == [inbox EXCEPT !.items[a].st = to]
  <2>2. moved \in Record /\ Own(moved)
    BY <1>3, <2>1, AdvancedOwn DEF InboxTypeOK
  <2>3. worker' = [pc |-> "write", copy |-> moved]
    BY <1>8 DEF Advance
  <2> HIDE DEF moved
  <2>4. InboxTypeOK'
    BY <1>8, <2>2, <2>3 DEF Advance, LockInbox, InboxTypeOK
  <2>5. InboxInv'
    BY <1>8, <2>2, <2>3 DEF Advance, InboxInv, OwnAssignments, CopiesOwn, Own
  <2> QED BY <2>4, <2>5
<1>9. CASE AdvanceWrite
  <2>1. inbox' \in Record /\ Own(inbox')
    BY <1>9 DEF AdvanceWrite, InboxTypeOK, InboxInv, CopiesOwn
  <2>2. InboxTypeOK'
    BY <1>2, <1>9, <2>1 DEF AdvanceWrite, InboxTypeOK
  <2>3. InboxInv'
    BY <1>9, <2>1 DEF AdvanceWrite, WorkerIdle, InboxInv, OwnAssignments, CopiesOwn, Own
  <2> QED BY <2>2, <2>3
<1>10. CASE Stop \/ LaneDies \/ Launch
  <2>1. InboxTypeOK'
    BY <1>2, <1>10 DEF Stop, LaneDies, Launch, InboxTypeOK
  <2>2. InboxInv'
    BY <1>10 DEF Stop, LaneDies, Launch, WorkerIdle, InboxInv, OwnAssignments, CopiesOwn, Own
  <2> QED BY <2>1, <2>2
<1>11. CASE ResumeReset
  <2>1. inbox' \in Record /\ Own(inbox')
    BY <1>11, EmptyRecord DEF ResumeReset, InboxTypeOK
  <2>2. InboxTypeOK'
    BY <1>11, <2>1 DEF ResumeReset, InboxTypeOK
  <2>3. InboxInv'
    BY <1>11, <2>1 DEF ResumeReset, InboxInv, OwnAssignments, CopiesOwn, Own
  <2> QED BY <2>2, <2>3
<1>12. CASE ResumeMark \/ ResumeBind \/ ResumeReplace \/ ResumeDies
  <2>1. resume.run \in Runs /\ (resume.run < MaxRun => resume.run + 1 \in Runs)
    BY MaxRunAssumption DEF InboxTypeOK, Runs
  <2>2. InboxTypeOK'
    <3>1. CASE ResumeMark
      BY <2>1, <3>1 DEF ResumeMark, InboxTypeOK
    <3>2. CASE ResumeBind \/ ResumeDies
      BY <3>2 DEF ResumeBind, ResumeDies, InboxTypeOK
    <3>3. CASE ResumeReplace
      BY <3>3 DEF ResumeReplace, InboxTypeOK
    <3> QED BY <1>12, <3>1, <3>2, <3>3
  <2>3. InboxInv'
    BY <1>12 DEF ResumeMark, ResumeBind, ResumeReplace, ResumeDies, InboxInv,
                 OwnAssignments, CopiesOwn, Own
  <2> QED BY <2>2, <2>3
<1>13. CASE UNCHANGED inboxVars
    BY <1>13 DEF inboxVars, InboxTypeOK, InboxInv, OwnAssignments, CopiesOwn, Own
<1> QED BY <1>4, <1>5, <1>6, <1>7, <1>8, <1>9, <1>10, <1>11, <1>12, <1>13 DEF InboxNext

-----------------------------------------------------------------------------
(* The assignments of an inbox are for its run, though resume-lane resets the *)
(* inbox without its lock while a sender or a worker still holds a copy of    *)
(* the one before: ROOT's assignment to a run never turns up in the next.     *)
THEOREM OwnAssignmentsOnly == InboxSpec => [](InboxTypeOK /\ OwnAssignments)
<1>1. InboxInit => InboxTypeOK /\ InboxInv
    BY InboxInitInv
<1>2. (InboxTypeOK /\ InboxInv) /\ [InboxNext]_inboxVars => (InboxTypeOK /\ InboxInv)'
    BY InboxNextInv
<1>3. InboxInv => OwnAssignments
    BY DEF InboxInv
<1> QED BY <1>1, <1>2, <1>3, PTL DEF InboxSpec
=============================================================================

---------------------------- MODULE Escalation ----------------------------
(***************************************************************************)
(* How a worker's notice reaches ROOT, with the monitor that carries it.    *)
(* manager-notify.py writes a notice to the lane's outbox; a pass of a      *)
(* monitor process promotes it to an event of the manager queue and then    *)
(* archives the file; ROOT learns of open events from `watch` (once for a   *)
(* session) and from its PostToolUse hook, which also tells it of a monitor *)
(* that is dead or hung, and runs `health monitor-recover`.  Setup and      *)
(* recovery start a monitor and record it under the lock of MONITOR.json;   *)
(* shutdown asks the recorded one to stop.  One run of one lane in one      *)
(* epoch: a runtime that reopens has a new queue (module Runtime).          *)
(***************************************************************************)
EXTENDS Naturals, Sequences, FiniteSets

CONSTANTS Notices,
          Monitors,   \* monitor processes
          First,      \* the one that setup started
          Watchers    \* processes of `watch`, all of one ROOT session

ASSUME MonitorAssumption == First \in Monitors

VARIABLES rt,         \* RUNTIME_STATE.json
          outbox, archived,
          events,     \* events of the manager queue
          receipts,   \* events with a "watch" receipt of the session
          reports,    \* how often watch reported each event
          known,      \* events ROOT was shown
          watch,      \* per process: the event it found, or 0
          rec,        \* MONITOR.json
          mon,        \* the monitor processes
          starter,    \* what holds the record's lock to record the process it spawned
          shutdown,   \* harness shutdown
          alarmed     \* the hook told ROOT to recover the monitor

queue == <<outbox, archived, events>>
root == <<receipts, reports, known, watch>>
service == <<rt, rec, mon, starter, shutdown, alarmed>>
vars == <<queue, root, service>>

(* CLOSED stands for COMPLETE and BLOCKED. *)
Open == {"PENDING", "ACKNOWLEDGED"}
Event == [n : Notices, st : Open \cup {"CLOSED"}]
None == "none"

Off == [pc |-> "off", n |-> None]
Loop == [Off EXCEPT !.pc = "loop"]
Fresh(m) == [m |-> m, stop |-> FALSE, stopped |-> FALSE, fresh |-> TRUE]

Init == /\ rt = "OPEN"
        /\ outbox = {} /\ archived = {} /\ events = <<>>
        /\ receipts = {} /\ reports = <<>> /\ known = {}
        /\ watch = [w \in Watchers |-> 0]
        /\ rec = Fresh(First)
        /\ mon = [m \in Monitors |-> IF m = First THEN Loop ELSE Off]
        /\ starter = None /\ shutdown = "idle" /\ alarmed = FALSE

-----------------------------------------------------------------------------
(* The lane *)

Notify(n) == /\ rt = "OPEN" /\ n \notin outbox \cup archived
             /\ outbox' = outbox \cup {n}
             /\ UNCHANGED <<archived, events, root, service>>

-----------------------------------------------------------------------------
(* One monitor process: main, run_monitor_once, _consume_outbox, _heartbeat *)

Goto(m, pc) == mon' = [mon EXCEPT ![m].pc = pc]

PassStarts(m) == /\ mon[m].pc = "loop"
                 /\ Goto(m, "pass")
                 /\ UNCHANGED <<queue, root, rt, rec, starter, shutdown, alarmed>>

(* dedup_key: the lane, its run, the signal. *)
NeverAdmitted(n) == FALSE       \* mutant of Admitted

Admitted(n) == \E i \in DOMAIN events : events[i].n = n

Promote(m, n) ==
    /\ mon[m].pc = "pass" /\ n \in outbox
    /\ LET new == ~Admitted(n)
       IN /\ events' = IF new THEN Append(events, [n |-> n, st |-> "PENDING"])
                       ELSE events
          /\ reports' = IF new THEN Append(reports, 0) ELSE reports
    /\ mon' = [mon EXCEPT ![m].pc = "archive", ![m].n = n]
    /\ UNCHANGED <<outbox, archived, receipts, known, watch, rt, rec, starter, shutdown, alarmed>>

(* The move works or fails: a file that stays is met again by a later pass. *)
Archive(m) ==
    /\ mon[m].pc = "archive"
    /\ \/ /\ mon[m].n \in outbox
          /\ outbox' = outbox \ {mon[m].n} /\ archived' = archived \cup {mon[m].n}
       \/ UNCHANGED <<outbox, archived>>
    /\ mon' = [mon EXCEPT ![m].pc = "pass", ![m].n = None]
    /\ UNCHANGED <<events, root, rt, rec, starter, shutdown, alarmed>>

(* A pass may leave notices it could not read or promote.  The heartbeat     *)
(* does not ask whose record it refreshes.                                   *)
Heartbeat(m) == /\ mon[m].pc = "pass" /\ starter = None
                /\ rec' = [rec EXCEPT !.stopped = FALSE, !.fresh = TRUE]
                /\ Goto(m, IF rec.stop THEN "stopping" ELSE "loop")
                /\ UNCHANGED <<queue, root, rt, starter, shutdown, alarmed>>

Stops(m) == /\ mon[m].pc = "stopping" /\ starter = None
            /\ rec' = IF rec.stop THEN [rec EXCEPT !.stopped = TRUE] ELSE rec
            /\ mon' = [mon EXCEPT ![m] = Off]
            /\ UNCHANGED <<queue, root, rt, starter, shutdown, alarmed>>

Dies(m) == /\ mon[m].pc # "off"
           /\ mon' = [mon EXCEPT ![m] = Off]
           /\ UNCHANGED <<queue, root, rt, rec, starter, shutdown, alarmed>>

Hangs(m) == /\ mon[m].pc \in {"loop", "pass", "archive"}
            /\ mon' = [mon EXCEPT ![m] = [Loop EXCEPT !.pc = "hung"]]
            /\ UNCHANGED <<queue, root, rt, rec, starter, shutdown, alarmed>>

(* HEARTBEAT_STALENESS_SECONDS pass. *)
Ages == /\ rec.fresh
        /\ rec' = [rec EXCEPT !.fresh = FALSE]
        /\ UNCHANGED <<queue, root, rt, mon, starter, shutdown, alarmed>>

MonitorStep(m) == \/ PassStarts(m) \/ (\E n \in Notices : Promote(m, n)) \/ Archive(m)
                  \/ Heartbeat(m) \/ Stops(m)

-----------------------------------------------------------------------------
(* Starting a monitor *)

Alive(m) == mon[m].pc # "off"

(* A process id stands for a pid with its creation time: the id of a process *)
(* that is gone is taken again, at once recorded if the record names it.      *)
Spawn(cleared) ==
    \E m \in Monitors :
       /\ cleared[m].pc = "off"
       /\ mon' = [cleared EXCEPT ![m] = Loop]
       /\ starter' = m

(* _start_monitor of a second `harness setup` *)
Setup == /\ rt \in {"OPEN", "SHUTTING_DOWN"} /\ starter = None
         /\ Alive(rec.m) => rec.stop
         /\ Spawn(mon)
         /\ UNCHANGED <<queue, root, rt, rec, shutdown, alarmed>>

StarterRecords == /\ starter # None
                  /\ rec' = Fresh(starter) /\ starter' = None
                  /\ UNCHANGED <<queue, root, rt, mon, shutdown, alarmed>>

StarterDies == /\ starter \notin {None, rec.m}
               /\ starter' = None
               /\ UNCHANGED <<queue, root, rt, rec, mon, shutdown, alarmed>>

(* run_monitor_recover *)
Deliberate == rec.stop \/ rec.stopped

HealthyOnly == TRUE         \* mutant of RecoverLeaves
RecoverLeaves == Deliberate \/ (Alive(rec.m) /\ rec.fresh) \/ rt # "OPEN"

RecoverNothing == /\ alarmed /\ starter = None /\ RecoverLeaves
                  /\ alarmed' = FALSE
                  /\ UNCHANGED <<queue, root, rt, rec, mon, starter, shutdown>>

RecoverStarts == /\ alarmed /\ starter = None /\ ~RecoverLeaves
                 /\ Spawn([mon EXCEPT ![rec.m] = Off])
                 /\ alarmed' = FALSE
                 /\ UNCHANGED <<queue, root, rt, rec, shutdown>>

-----------------------------------------------------------------------------
(* shutdown: the obligations, the state, then _stop_monitor *)

OpenEvents == {i \in DOMAIN events : events[i].st \in Open}

ShutdownStarts == /\ shutdown = "idle" /\ rt # "CLOSED"
                  /\ rt = "OPEN" => OpenEvents = {}
                  /\ rt' = "SHUTTING_DOWN" /\ shutdown' = "ask"
                  /\ UNCHANGED <<queue, root, rec, mon, starter, alarmed>>

ShutdownAsks == /\ shutdown = "ask" /\ starter = None
                /\ rec' = [rec EXCEPT !.stop = TRUE] /\ shutdown' = "wait"
                /\ UNCHANGED <<queue, root, rt, mon, starter, alarmed>>

ShutdownCloses == /\ shutdown = "wait" /\ (rec.stopped \/ ~Alive(rec.m))
                  /\ rt' = "CLOSED" /\ shutdown' = "idle"
                  /\ UNCHANGED <<queue, root, rec, mon, starter, alarmed>>

(* The wait window is over, or shutdown dies. *)
ShutdownGivesUp == /\ shutdown # "idle" /\ shutdown' = "idle"
                   /\ UNCHANGED <<queue, root, rt, rec, mon, starter, alarmed>>

-----------------------------------------------------------------------------
(* ROOT *)

(* _monitor_health *)
Unhealthy == IF Alive(rec.m) THEN ~rec.fresh ELSE ~Deliberate

(* The PostToolUse hook: NOTICE with the open events and the monitor's health. *)
Hook == /\ rt = "OPEN"
        /\ ~(OpenEvents \subseteq known) \/ (Unhealthy /\ ~alarmed)
        /\ known' = known \cup OpenEvents
        /\ alarmed' = (alarmed \/ Unhealthy)
        /\ UNCHANGED <<queue, receipts, reports, watch, rt, rec, mon, starter, shutdown>>

(* _watch_event: the first open event without a receipt of this session. *)
WatchFinds(w) == /\ watch[w] = 0 /\ OpenEvents \ receipts # {}
                 /\ watch' = [watch EXCEPT ![w] =
                        CHOOSE i \in OpenEvents \ receipts : \A j \in OpenEvents \ receipts : i <= j]
                 /\ UNCHANGED <<queue, receipts, reports, known, service>>

(* append_watch_delivery looks again under the queue's lock. *)
MayDeliver(i) == events[i].st \in Open /\ i \notin receipts

(* The receipt, then the report, which a watch that dies never makes. *)
WatchDelivers(w) == /\ watch[w] # 0 /\ MayDeliver(watch[w])
                    /\ receipts' = receipts \cup {watch[w]}
                    /\ \/ /\ reports' = [reports EXCEPT ![watch[w]] = @ + 1]
                          /\ known' = known \cup {watch[w]}
                       \/ UNCHANGED <<reports, known>>
                    /\ watch' = [watch EXCEPT ![w] = 0]
                    /\ UNCHANGED <<queue, service>>

WatchTooLate(w) == /\ watch[w] # 0 /\ ~MayDeliver(watch[w])
                   /\ watch' = [watch EXCEPT ![w] = 0]
                   /\ UNCHANGED <<queue, receipts, reports, known, service>>

(* acknowledge and close of an event that ROOT knows of *)
Allowed(from) == CASE from = "PENDING" -> {"ACKNOWLEDGED"}
                   [] from = "ACKNOWLEDGED" -> {"CLOSED"}
                   [] OTHER -> {}

Handle(i) == /\ i \in known
             /\ \E to \in Allowed(events[i].st) : events' = [events EXCEPT ![i].st = to]
             /\ UNCHANGED <<outbox, archived, root, service>>

HandleAny == \E i \in DOMAIN events : Handle(i)

-----------------------------------------------------------------------------
Next == \/ \E n \in Notices : Notify(n)
        \/ \E m \in Monitors : MonitorStep(m) \/ Dies(m) \/ Hangs(m)
        \/ Ages \/ Setup \/ StarterRecords \/ StarterDies \/ RecoverNothing \/ RecoverStarts
        \/ ShutdownStarts \/ ShutdownAsks \/ ShutdownCloses \/ ShutdownGivesUp
        \/ Hook \/ HandleAny
        \/ \E w \in Watchers : WatchFinds(w) \/ WatchDelivers(w) \/ WatchTooLate(w)

(* A pass goes through the whole outbox; a heartbeat that nobody renews gets *)
(* old; ROOT goes on using its tools and does what its hooks tell it.        *)
Fairness == /\ \A m \in Monitors : WF_vars(MonitorStep(m))
            /\ \A m \in Monitors, n \in Notices : SF_vars(Promote(m, n))
            /\ WF_vars(Ages) /\ WF_vars(StarterRecords)
            /\ WF_vars(RecoverNothing \/ RecoverStarts)
            /\ WF_vars(Hook) /\ WF_vars(HandleAny)

Spec == Init /\ [][Next]_vars /\ Fairness
-----------------------------------------------------------------------------
TypeOK == /\ rt \in {"OPEN", "SHUTTING_DOWN", "CLOSED"}
          /\ outbox \subseteq Notices /\ archived \subseteq Notices
          /\ events \in Seq(Event)
          /\ receipts \subseteq DOMAIN events /\ known \subseteq DOMAIN events
          /\ reports \in Seq(Nat) /\ Len(reports) = Len(events)
          /\ watch \in [Watchers -> 0 .. Len(events)]
          /\ rec \in [m : Monitors, stop : BOOLEAN, stopped : BOOLEAN, fresh : BOOLEAN]
          /\ mon \in [Monitors -> [pc : {"off", "loop", "pass", "archive", "stopping", "hung"},
                                   n : Notices \cup {None}]]
          /\ starter \in Monitors \cup {None}
          /\ shutdown \in {"idle", "ask", "wait"}
          /\ alarmed \in BOOLEAN

(* promote, then archive: an archived notice has its event, whenever a        *)
(* monitor dies; a notice adds one event, though two monitors may read the    *)
(* same outbox; and watch reports an event once to a session, though two      *)
(* processes of the session may watch at the same time.                       *)
NoticesOnce ==
    /\ \A n \in archived : \E i \in DOMAIN events : events[i].n = n
    /\ \A i, j \in DOMAIN events : events[i].n = events[j].n => i = j
    /\ \A i \in DOMAIN reports : reports[i] <= 1

(* A worker's notice reaches ROOT and is handled unless the runtime shuts     *)
(* down, though monitors die, hang, or are lost on the way to their record:   *)
(* it is enough that this ends.                                               *)
Fault == \/ \E m \in Monitors : Dies(m) \/ Hangs(m)
         \/ StarterDies
         \/ Ages /\ \E m \in Monitors : mon[m].pc \notin {"off", "hung"}
NoticeHandled ==
    <>[][~Fault]_vars =>
        \A n \in Notices : n \in outbox ~>
            \/ rt # "OPEN"
            \/ \E i \in DOMAIN events : events[i].n = n /\ events[i].st \notin Open
=============================================================================

---------------------------- MODULE ManagerQueue ----------------------------
(***************************************************************************)
(* manager_queue.py: the manager queue of one epoch.  The queue is one     *)
(* record; each operation reads, checks and replaces it under the queue    *)
(* lock and is therefore one step.  An event is never removed, and nothing *)
(* depends on the order of events: the queue is a function from event ids  *)
(* to states.                                                              *)
(***************************************************************************)
EXTENDS Naturals, FiniteSets

CONSTANTS
    MaxRun     \* bound: run ids of the lane

ASSUME MaxRunAssumption == MaxRun \in Nat \ {0}

VARIABLES events    \* manager/QUEUE.json

Runs == 0 .. MaxRun

\* What the monitor reports of a lane; the status fixes the event type.
Statuses == {"review_pending", "resume_required", "provider_exited_no_result",
             "controller_exited"}

\* CLOSED stands for COMPLETE and BLOCKED, which nothing modelled here tells apart.
EventStates == {"PENDING", "ACKNOWLEDGED", "CLOSED"}

\* The family of the dedup_key, which also names the lane, the run and, for
\* "lane-status", the status.
Keys == {"lane-status", "review", "none"}

\* An event: what it is about, its dedup_key, and its number among the events
\* that share both (only events without a key can share them).
EventId == [status : Statuses, run : Runs, key : Keys, nth : Nat]

Ids == DOMAIN events
Open(e) == events[e] \in {"PENDING", "ACKNOWLEDGED"}

\* The events ROOT reviews (COMPLETION_REVIEW_REQUIRED).
IsReviewEvent(e) == e.status = "review_pending"

Same(status, run, key) == {e \in Ids : e.status = status /\ e.run = run /\ e.key = key}

\* An event with this dedup_key was admitted before, in whatever state it is now.
Duplicate(status, run, key) == key # "none" /\ Same(status, run, key) # {}

promote_event(status, run, key) ==
    events' = IF Duplicate(status, run, key) THEN events
              ELSE LET e == [status |-> status, run |-> run, key |-> key,
                             nth |-> Cardinality(Same(status, run, key))]
                   IN [x \in Ids \cup {e} |-> IF x = e THEN "PENDING" ELSE events[x]]

acknowledge_event(e) ==
    /\ events[e] = "PENDING"
    /\ events' = [events EXCEPT ![e] = "ACKNOWLEDGED"]

close_event(e) ==
    /\ events[e] = "ACKNOWLEDGED"
    /\ events' = [events EXCEPT ![e] = "CLOSED"]
=============================================================================

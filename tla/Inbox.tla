------------------------------- MODULE Inbox -------------------------------
(***************************************************************************)
(* The inbox of one managed lane (QUEUE.json of its worktree).              *)
(* send-lane-notification appends an assignment of ROOT, lane-queue.py of   *)
(* the worker advances it, the worker's Stop hook refuses an end while one  *)
(* is unresolved, and resume-lane gives the lane a new run with a new       *)
(* inbox.  The first two read and write the inbox under its record lock;    *)
(* resume-lane writes it without the lock.                                  *)
(***************************************************************************)
EXTENDS Naturals

CONSTANTS Assignments,
          MaxRun      \* bound: run ids given to the lane

ASSUME MaxRunAssumption == MaxRun \in Nat \ {0}

VARIABLES lane,       \* lane.json: run, lifecycle, and whether its controller lives
          binding,    \* the run in the worker's harness-hook-binding.json
          inbox,      \* its run, and the assignments with the run each is for
          lock,       \* holder of the inbox's record lock
          send,       \* send-lane-notification
          worker,     \* the worker's lane-queue.py
          resume      \* resume-lane, and the last run id that was made

inboxVars == <<lane, binding, inbox, lock, send, worker, resume>>

Runs == 1 .. MaxRun
States == {"none", "PENDING", "ACKNOWLEDGED", "COMPLETE", "BLOCKED"}
OpenStates == {"PENDING", "ACKNOWLEDGED"}
NoItem == [st |-> "none", run |-> 1]
Item == [st : States, run : Runs]
Empty(r) == [run |-> r, items |-> [a \in Assignments |-> NoItem]]
Record == [run : Runs, items : [Assignments -> Item]]
Nobody == "none"

SendIdle == [pc |-> "idle", run |-> 1, copy |-> Empty(1)]
WorkerIdle == [pc |-> "idle", copy |-> Empty(1)]

InboxInit == /\ lane = [run |-> 1, st |-> "running", live |-> FALSE]
             /\ binding = 1
             /\ inbox = Empty(1)
             /\ lock = Nobody
             /\ send = SendIdle /\ worker = WorkerIdle
             /\ resume = [pc |-> "idle", run |-> 1]

-----------------------------------------------------------------------------
(* send-lane-notification: the lane must be running; append_assignment      *)
(* compares the inbox's run with the run it read before, under the lock.    *)

Live == lane.st = "running" /\ lane.live

Send == /\ send.pc = "idle" /\ Live
        /\ send' = [SendIdle EXCEPT !.pc = "append", !.run = lane.run]
        /\ UNCHANGED <<lane, binding, inbox, lock, worker, resume>>

(* mutant of SendRuns *)
AnyRun == TRUE

SendRuns == inbox.run = send.run

LockInbox(who) == lock = Nobody /\ lock' = who

SendStale == /\ send.pc = "append" /\ lock = Nobody /\ ~SendRuns
             /\ send' = SendIdle
             /\ UNCHANGED <<lane, binding, inbox, lock, worker, resume>>

SendRead == /\ send.pc = "append" /\ LockInbox("send") /\ SendRuns
            /\ send' = [send EXCEPT !.pc = "write", !.copy = inbox]
            /\ UNCHANGED <<lane, binding, inbox, worker, resume>>

Appended(a) == [send.copy EXCEPT !.items[a] = [st |-> "PENDING", run |-> send.run]]

SendWrite == /\ send.pc = "write"
             /\ \/ \E a \in Assignments :
                      send.copy.items[a].st = "none" /\ inbox' = Appended(a)
                \/ /\ \A a \in Assignments : send.copy.items[a].st # "none"   \* bound: Assignments
                   /\ UNCHANGED inbox
             /\ lock' = Nobody /\ send' = SendIdle
             /\ UNCHANGED <<lane, binding, worker, resume>>

SendDies == /\ send.pc # "idle" /\ send' = SendIdle
            /\ lock' = IF lock = "send" THEN Nobody ELSE lock
            /\ UNCHANGED <<lane, binding, inbox, worker, resume>>

-----------------------------------------------------------------------------
(* lane-queue.py: _advance along _ALLOWED_TRANSITIONS *)

AllowedFrom(from) == CASE from = "PENDING" -> {"ACKNOWLEDGED"}
                       [] from = "ACKNOWLEDGED" -> {"COMPLETE", "BLOCKED"}
                       [] OTHER -> {}

Advance(a, to) == /\ worker.pc = "idle" /\ lane.live
                  /\ LockInbox("worker") /\ to \in AllowedFrom(inbox.items[a].st)
                  /\ worker' = [pc |-> "write", copy |-> [inbox EXCEPT !.items[a].st = to]]
                  /\ UNCHANGED <<lane, binding, inbox, send, resume>>

AdvanceWrite == /\ worker.pc = "write"
                /\ inbox' = worker.copy
                /\ lock' = Nobody /\ worker' = WorkerIdle
                /\ UNCHANGED <<lane, binding, send, resume>>

(* hook-dispatch.py at the Stop boundary: ALLOW ends the provider. *)
InboxFits == inbox.run = binding
Unresolved == {a \in Assignments : inbox.items[a].st \in OpenStates}
StopAllowed == InboxFits /\ Unresolved = {}

Stop == /\ worker.pc = "idle" /\ Live /\ StopAllowed
        /\ lane' = [lane EXCEPT !.live = FALSE]
        /\ UNCHANGED <<binding, inbox, lock, send, worker, resume>>

(* The lane's processes are gone: killed, stopped by force, out of time. *)
LaneDies == /\ lane.live
            /\ lane' = [lane EXCEPT !.live = FALSE]
            /\ worker' = WorkerIdle
            /\ lock' = IF lock = "worker" THEN Nobody ELSE lock
            /\ UNCHANGED <<binding, inbox, send, resume>>

-----------------------------------------------------------------------------
(* resume-lane: mark the lane, clear the prior run and reset its inbox,      *)
(* rewrite the binding, replace the run.  One that dies is started again,    *)
(* with another new run id.                                                  *)

ResumeMark == /\ resume.pc = "idle" /\ ~lane.live /\ resume.run < MaxRun
              /\ lane' = [lane EXCEPT !.st = "resuming"]
              /\ resume' = [pc |-> "reset", run |-> resume.run + 1]
              /\ UNCHANGED <<binding, inbox, lock, send, worker>>

(* _reset_worker_inbox, which takes no lock *)
ResumeReset == /\ resume.pc = "reset"
               /\ inbox' = Empty(resume.run)
               /\ resume' = [resume EXCEPT !.pc = "bind"]
               /\ UNCHANGED <<lane, binding, lock, send, worker>>

ResumeBind == /\ resume.pc = "bind"
              /\ binding' = resume.run
              /\ resume' = [resume EXCEPT !.pc = "replace"]
              /\ UNCHANGED <<lane, inbox, lock, send, worker>>

ResumeReplace == /\ resume.pc = "replace"
                 /\ lane' = [lane EXCEPT !.run = resume.run, !.st = "running"]
                 /\ resume' = [resume EXCEPT !.pc = "idle"]
                 /\ UNCHANGED <<binding, inbox, lock, send, worker>>

ResumeDies == /\ resume.pc # "idle"
              /\ resume' = [resume EXCEPT !.pc = "idle"]
              /\ UNCHANGED <<lane, binding, inbox, lock, send, worker>>

(* lane launch starts the run. *)
Launch == /\ lane.st = "running" /\ ~lane.live /\ resume.pc = "idle"
          /\ lane' = [lane EXCEPT !.live = TRUE]
          /\ UNCHANGED <<binding, inbox, lock, send, worker, resume>>

-----------------------------------------------------------------------------
InboxNext == \/ Send \/ SendStale \/ SendRead \/ SendWrite \/ SendDies
             \/ \E a \in Assignments, to \in States : Advance(a, to)
             \/ AdvanceWrite \/ Stop \/ LaneDies
             \/ ResumeMark \/ ResumeReset \/ ResumeBind \/ ResumeReplace \/ ResumeDies \/ Launch

InboxSpec == InboxInit /\ [][InboxNext]_inboxVars
-----------------------------------------------------------------------------
InboxTypeOK == /\ lane \in [run : Runs, st : {"running", "resuming"}, live : BOOLEAN]
               /\ binding \in Runs
               /\ inbox \in Record
               /\ lock \in {Nobody, "send", "worker"}
               /\ send \in [pc : {"idle", "append", "write"}, run : Runs, copy : Record]
               /\ worker \in [pc : {"idle", "write"}, copy : Record]
               /\ resume \in [pc : {"idle", "reset", "bind", "replace"}, run : Runs]

(* The assignments of an inbox are for its run: one that ROOT sent to a run   *)
(* never turns up in the inbox of the next, whatever the sender read before.  *)
OwnAssignments == \A a \in Assignments :
                     inbox.items[a].st # "none" => inbox.items[a].run = inbox.run
=============================================================================

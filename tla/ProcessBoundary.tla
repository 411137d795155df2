--------------------------- MODULE ProcessBoundary ---------------------------
(***************************************************************************)
(* The boundary a controller keeps around its provider (processes.py).     *)
(*                                                                         *)
(* The operating system moves on its own: processes fork, exit and leave   *)
(* the provider's session, and a freed PID is given to somebody else.  The *)
(* boundary looks at it through a snapshot and, PID by PID, through        *)
(* queries of the live identity (PID and creation time) made later.  It    *)
(* retains the identities it can attribute to the provider, kills them,    *)
(* and claims at the end that the boundary is gone.                        *)
(*                                                                         *)
(* A session and a process group with the root's number are one thing      *)
(* here: leaving both is what takes a process out of the POSIX boundary.   *)
(* Reading the creation time of a live PID and signalling it               *)
(* (terminate_process) is one step, and so are the queries of a child and  *)
(* its parent.  Every way in which the system can refuse an answer         *)
(* (permission, a process gone while /proc is listed, an unreadable        *)
(* identity) is one outcome: the observation records an error.             *)
(***************************************************************************)
EXTENDS Integers, Sequences, FiniteSets

CONSTANTS
    Pids,        \* the PIDs the system hands out
    Root,        \* the PID of the provider
    MaxBirths    \* bound: processes that ever exist

ASSUME BoundaryAssumption ==
    /\ Pids \subseteq Nat \ {0} /\ IsFiniteSet(Pids) /\ Root \in Pids
    /\ MaxBirths \in Nat \ {0}

VARIABLES
    kind,        \* boundary_kind
    procs,       \* what runs under each PID
    born,        \* every process there ever was; its index is its creation time
    handle,      \* _job_handle is open (and the provider tree is in the job)
    owned,       \* _owned: <<pid, creation time>>
    err,         \* errors is not empty (_last_observation_complete is FALSE)
    record,      \* the identities in the process_boundary of the status record
    route,       \* who works on the boundary
    pc,          \* where it is
    why,         \* what the observation under way is for
    snap,        \* the snapshot of the observation under way
    todo,        \* PIDs still to be examined
    targets,     \* members still to be killed
    captured,    \* captured: the identity selected for a PID, 0 if none
    proven       \* the answer of the last cleanup or process_boundary_is_gone

system == <<kind, procs, born>>
vars == <<kind, procs, born, handle, owned, err, record, route, pc, why,
          snap, todo, targets, captured, proven>>

Ids == 1..MaxBirths
None == [id |-> 0, parent |-> 0, inside |-> FALSE]
\* A running process; inside: its session has the root's number.
Process == [id : Ids, parent : Pids \cup {0}, inside : BOOLEAN]
Nothing == [p \in Pids |-> None]
Nobody == [p \in Pids |-> 0]
Posix == kind = "posix-process-group"

\* process_identity: the creation time of what runs under the PID now.
Identity(p) == procs[p].id
Ours(i) == born[i].ours
OurPids == {p \in Pids : Identity(p) # 0 /\ Ours(Identity(p))}
\* _remaining: the retained identities that are still running.
Remaining == {m \in owned : Identity(m[1]) = m[2]}

-----------------------------------------------------------------------------
(* The operating system.                                                   *)

\* The PID is free, and is not the number of a session still in use.
Free(p) == /\ procs[p] = None
           /\ Posix /\ p = Root => \A q \in Pids : ~procs[q].inside

Enter(p, ours, parent, inside) ==
    /\ Len(born) < MaxBirths /\ Free(p)
    /\ procs' = [procs EXCEPT ![p] = [id |-> Len(born) + 1, parent |-> parent,
                                      inside |-> inside]]
    /\ born' = Append(born, [pid |-> p, ours |-> ours, inside |-> inside])

\* What is left when the processes of a set of PIDs end.  POSIX orphans are
\* adopted; on Windows they keep the number of the parent they had.
Without(gone) ==
    [p \in Pids |-> IF p \in gone THEN None
                    ELSE IF Posix /\ procs[p].parent \in gone
                         THEN [procs[p] EXCEPT !.parent = 0] ELSE procs[p]]

internal == <<handle, owned, err, record, route, pc, why, snap, todo,
              targets, captured, proven>>

Fork(p, q) == /\ procs[p] # None
              /\ Enter(q, Ours(Identity(p)), p, procs[p].inside)
              /\ UNCHANGED <<kind, internal>>

\* A process of somebody else; under the root's PID it may lead a session.
Stranger(q) == /\ \E inside \in {FALSE, q = Root} : Enter(q, FALSE, 0, inside)
               /\ UNCHANGED <<kind, internal>>

Exit(p) == /\ procs[p] # None /\ procs' = Without({p})
           /\ UNCHANGED <<kind, born, internal>>

\* setsid by a descendant of the provider.
Escape(p) == /\ Posix /\ p \in OurPids /\ p # Root /\ procs[p].inside
             /\ procs' = [procs EXCEPT ![p].inside = FALSE]
             /\ UNCHANGED <<kind, born, internal>>

-----------------------------------------------------------------------------
(* The end of a cleanup, or of process_boundary_is_gone.                   *)

Reset == /\ snap' = Nothing /\ todo' = {} /\ captured' = Nobody

Answer(ok) ==
    /\ pc' = "ended" /\ proven' = ok /\ why' = "none" /\ Reset /\ targets' = {}

\* _close_job: the last handle of a kill-on-close job.
CloseJob == /\ handle' = FALSE
            /\ procs' = IF handle THEN Without(OurPids) ELSE procs

-----------------------------------------------------------------------------
(* observe                                                                 *)

\* What the caller does once observe() returned, complete or not.
Continue(ok, members) ==
    \/ /\ why = "watch"
       /\ pc' = "watch" /\ why' = "none" /\ Reset
       /\ UNCHANGED <<procs, handle, targets, proven>>
    \/ /\ why # "watch" /\ ~ok
       /\ CloseJob /\ Answer(FALSE)
    \/ /\ why # "watch" /\ ok
       /\ \/ handle /\ pc' = "job-kill" /\ UNCHANGED targets
          \/ ~handle /\ why = "cleanup" /\ pc' = "kill" /\ targets' = members
          \/ ~handle /\ why # "cleanup" /\ pc' = "check" /\ UNCHANGED targets
       /\ UNCHANGED <<procs, handle, proven, why, snap, todo, captured>>

\* A snapshot, or a list of the job's members, that could not be completed.
NoSnapshot ==
    /\ pc = "observe"
    /\ err' = TRUE /\ Continue(FALSE, {})
    /\ UNCHANGED <<kind, born, owned, record, route>>

\* What a snapshot says belongs to the session, and PIDs known from before.
Relevant(shot, p) ==
    /\ shot[p] # None
    /\ (Posix /\ shot[p].inside) \/ (\E m \in owned : m[1] = p)

Snapshot ==
    /\ pc = "observe" /\ ~handle
    /\ snap' = procs /\ captured' = Nobody
    /\ todo' = {p \in Pids : Relevant(procs, p)}
    /\ pc' = "root"
    /\ UNCHANGED <<system, handle, owned, err, record, route, why, targets, proven>>

\* A root PID in the snapshot must still be the provider when it is queried.
RootIs(i) == i = 1

CheckRoot ==
    /\ pc = "root"
    /\ IF snap[Root] # None /\ ~RootIs(Identity(Root))
       THEN /\ err' = TRUE /\ Continue(FALSE, {})
       ELSE /\ pc' = "select"
            /\ UNCHANGED <<procs, handle, err, why, snap, todo, targets,
                         captured, proven>>
    /\ UNCHANGED <<kind, born, owned, record, route>>

\* Mutant: any live process of the PID stands for the snapshot's.
BoundAnyway(p) == TRUE
\* _snapshot_identity_bound: the live process is the one of the snapshot.
Bound(p) == Identity(p) = snap[p].id

\* One item of the selection loop, in the order of the PIDs.
Select(p) ==
    /\ pc = "select" /\ p \in todo /\ \A q \in todo : p <= q
    /\ todo' = todo \ {p}
    /\ LET i == Identity(p)
           known == <<p, i>> \in owned
           inside == Posix /\ snap[p].inside
       IN /\ err' = (err \/ (i # 0 /\ ~known /\ inside /\ ~Bound(p)))
          /\ captured' = IF i # 0 /\ (known \/ (inside /\ Bound(p)))
                         THEN [captured EXCEPT ![p] = i] ELSE captured
    /\ UNCHANGED <<system, handle, owned, record, route, pc, why, snap, targets, proven>>

SelectEnds ==
    /\ pc = "select" /\ todo = {}
    /\ pc' = "follow"
    /\ todo' = {p \in Pids : snap[p] # None /\ captured[p] = 0}
    /\ UNCHANGED <<system, handle, owned, err, record, route, why, snap,
                   targets, captured, proven>>

\* Mutant: membership by session only.
NoChildren == {}
\* Items whose parent was captured.
Children == {p \in todo : snap[p].parent # 0 /\ captured[snap[p].parent] # 0}

\* One item of the descendant loop: a child is a member by its snapshot
\* parent, which must still be the process that was captured.  A later pass
\* of the loop asks again for an item that was gone.
Follow(p) ==
    /\ pc = "follow" /\ p \in Children
    /\ LET i == Identity(p)
           parent == snap[p].parent
       IN IF i # 0 /\ Identity(parent) # captured[parent]
          THEN /\ err' = TRUE /\ Continue(FALSE, {})
          ELSE /\ todo' \in IF i = 0 THEN {todo, todo \ {p}} ELSE {todo \ {p}}
               /\ err' = (err \/ (i # 0 /\ ~Bound(p)))
               /\ captured' = IF i # 0 /\ Bound(p) THEN [captured EXCEPT ![p] = i]
                              ELSE captured
               /\ UNCHANGED <<procs, handle, pc, why, snap, targets, proven>>
    /\ UNCHANGED <<kind, born, owned, record, route>>

\* The captured identities are retained, whether or not there were errors.
Retain ==
    /\ pc = "follow" /\ Children = {}
    /\ LET members == owned \cup {<<p, captured[p]>> : p \in {q \in Pids : captured[q] # 0}}
       IN owned' = members /\ Continue(~err, members)
    /\ UNCHANGED <<kind, born, err, record, route>>

\* _observe_job: the members' PIDs are listed first ...
ListJob ==
    /\ pc = "observe" /\ handle
    /\ pc' = "job" /\ todo' = OurPids
    /\ UNCHANGED <<system, handle, owned, err, record, route, why, snap,
                   targets, captured, proven>>

\* ... and then each PID is queried for its identity.
JobMember(p) ==
    /\ pc = "job" /\ p \in todo /\ \A q \in todo : p <= q
    /\ todo' = todo \ {p}
    /\ LET i == Identity(p)
       IN /\ owned' = IF i = 0 THEN owned ELSE owned \cup {<<p, i>>}
          /\ err' = (err \/ (p = Root /\ i \notin {0, 1}))
    /\ UNCHANGED <<system, handle, record, route, pc, why, snap, targets, captured, proven>>

JobListed ==
    /\ pc = "job" /\ todo = {}
    /\ Continue(~err, {})
    /\ UNCHANGED <<kind, born, owned, err, record, route>>

-----------------------------------------------------------------------------
(* cleanup                                                                 *)

\* Whether the process under a member's PID is the one to terminate.
IsMember(m) == Identity(m[1]) = m[2]

\* terminate_process of one member, the root last.  The signal may take
\* effect later: a zombie is alive until its parent waits for it.
Kill(m) ==
    /\ pc = "kill" /\ m \in targets
    /\ m[1] = Root => \A n \in targets : n[1] = Root
    /\ targets' = targets \ {m}
    /\ \/ procs' = IF IsMember(m) THEN Without({m[1]}) ELSE procs
       \/ procs' = procs
    /\ UNCHANGED <<kind, born, handle, owned, err, record, route, pc, why,
                   snap, todo, captured, proven>>

Observe(purpose) ==
    /\ pc' = "observe" /\ why' = purpose /\ Reset /\ targets' = {}

\* Every member was signalled: look again.
Killed ==
    /\ pc = "kill" /\ targets = {}
    /\ Observe("again")
    /\ UNCHANGED <<system, handle, owned, err, record, route, proven>>

\* Nothing retained is alive: proven.  Otherwise kill what remains, unless
\* the deadline has passed (process_boundary_is_gone only looks).  FALSE is
\* also the answer when an identity cannot be read.
Check ==
    /\ pc = "check"
    /\ \/ Remaining = {} /\ Answer(TRUE)
       \/ Answer(FALSE)
       \/ /\ Remaining # {} /\ why = "again"
          /\ pc' = "kill" /\ targets' = Remaining
          /\ UNCHANGED <<why, snap, todo, captured, proven>>
    /\ UNCHANGED <<system, handle, owned, err, record, route>>

\* TerminateJobObject, the wait until the job is empty, and its handle closed
\* whether or not that succeeded.
TerminateJob ==
    /\ pc = "job-kill"
    /\ CloseJob
    /\ \/ /\ pc' = "check"
          /\ UNCHANGED <<why, snap, todo, targets, captured, proven>>
       \/ Answer(FALSE)
    /\ UNCHANGED <<kind, born, owned, err, record, route>>

-----------------------------------------------------------------------------
(* Who works on the boundary.                                              *)

\* The controller observes while the provider runs.
Watch ==
    /\ route = "run" /\ pc = "watch"
    /\ Observe("watch")
    /\ UNCHANGED <<system, handle, owned, err, record, route, proven>>

\* The provider exited: the identities are saved, then cleaned up.
ProviderExited ==
    /\ route = "run" /\ pc = "watch" /\ Identity(Root) # 1
    /\ record' = owned /\ route' = "exit" /\ Observe("cleanup")
    /\ UNCHANGED <<system, handle, owned, err, proven>>

\* The runtime is shutting down: cleanup first, ...
ShutdownStop ==
    /\ route = "run" /\ pc = "watch"
    /\ route' = "shutdown" /\ Observe("cleanup")
    /\ UNCHANGED <<system, handle, owned, err, record, proven>>

\* ... then the child is waited for, or killed, and cleaned up as on exit.
ShutdownReap ==
    /\ route = "shutdown" /\ pc = "ended"
    /\ procs' = IF Identity(Root) = 1 THEN Without({Root}) ELSE procs
    /\ record' = owned /\ route' = "exit" /\ Observe("cleanup")
    /\ UNCHANGED <<kind, born, handle, owned, err, proven>>

\* The last cleanup is not proven: the controller records what it knows now.
SaveUnproven ==
    /\ route = "exit" /\ pc = "ended" /\ ~proven /\ record # owned
    /\ record' = owned
    /\ UNCHANGED <<system, handle, owned, err, route, pc, why, snap, todo,
                   targets, captured, proven>>

\* The controller dies: its boundary object is lost, its job is closed.
ControllerDies ==
    /\ route \in {"run", "shutdown", "exit"}
    /\ route' = "dead" /\ pc' = "ended" /\ why' = "none" /\ proven' = FALSE
    /\ owned' = {} /\ err' = FALSE /\ CloseJob /\ Reset /\ targets' = {}
    /\ UNCHANGED <<kind, born, record>>

\* from_record: a new boundary of what the status record holds.
FromRecord(who, purpose) ==
    /\ route \in {"exit", "dead", "force", "retire"} /\ pc = "ended"
    /\ owned' = record /\ err' = FALSE /\ handle' = FALSE
    /\ route' = who /\ Observe(purpose)
    /\ UNCHANGED <<system, record, proven>>

\* cleanup_recorded_process_boundary (force-stop).
ForceStop == ~proven /\ FromRecord("force", "cleanup")
\* process_boundary_is_gone (retire, shutdown), after a proven cleanup.
Retire == proven /\ FromRecord("retire", "gone")

-----------------------------------------------------------------------------
Init ==
    /\ kind \in {"windows-job", "posix-process-group"}
    /\ procs = [Nothing EXCEPT ![Root] = [id |-> 1, parent |-> 0, inside |-> TRUE]]
    /\ born = <<[pid |-> Root, ours |-> TRUE, inside |-> TRUE]>>
    /\ handle = ~Posix
    /\ owned = {<<Root, 1>>} /\ record = {<<Root, 1>>} /\ err = FALSE
    /\ route = "run" /\ pc = "watch" /\ why = "none" /\ proven = FALSE
    /\ snap = Nothing /\ todo = {} /\ targets = {} /\ captured = Nobody

SystemStep ==
    \E p \in Pids : \/ \E q \in Pids : Fork(p, q)
                    \/ Stranger(p)
                    \/ Exit(p)
                    \/ Escape(p)

ObserveStep ==
    \/ NoSnapshot \/ Snapshot \/ CheckRoot \/ SelectEnds \/ Retain
    \/ ListJob \/ JobListed
    \/ \E p \in Pids : Select(p) \/ Follow(p) \/ JobMember(p)

CleanupStep ==
    \/ Killed \/ Check \/ TerminateJob
    \/ \E m \in owned : Kill(m)

RouteStep ==
    \/ Watch \/ ProviderExited \/ ShutdownStop \/ ShutdownReap
    \/ SaveUnproven \/ ControllerDies \/ ForceStop \/ Retire

Next == SystemStep \/ ObserveStep \/ CleanupStep \/ RouteStep

Spec == Init /\ [][Next]_vars

-----------------------------------------------------------------------------
(* Properties                                                              *)

\* The type invariant: identities are complete, targets are members.
TypeOK ==
    /\ kind \in {"windows-job", "posix-process-group"}
    /\ procs \in [Pids -> Process \cup {None}]
    /\ born \in Seq([pid : Pids, ours : BOOLEAN, inside : BOOLEAN])
    /\ Len(born) \in Ids
    /\ handle \in BOOLEAN /\ err \in BOOLEAN /\ proven \in BOOLEAN
    /\ owned \subseteq Pids \X Ids /\ record \subseteq Pids \X Ids
    /\ route \in {"run", "shutdown", "exit", "dead", "force", "retire"}
    /\ pc \in {"watch", "observe", "root", "select", "follow", "job", "kill",
              "job-kill", "check", "ended"}
    /\ why \in {"none", "watch", "cleanup", "again", "gone"}
    /\ snap \in [Pids -> Process \cup {None}]
    /\ todo \subseteq Pids /\ targets \subseteq owned
    /\ captured \in [Pids -> 0..MaxBirths]

\* A process of the provider's tree, or of a later session with its number.
Belongs(i) == born[i].ours \/ born[i].inside

\* KillsOnlyOurs: on POSIX no step of cleanup() ends a process that is not of
\* the provider's tree, also when a member's PID was given to somebody else
\* after it was retained, or between two attempts.
KillsOnlyOurs ==
    [][Posix /\ pc = "kill" /\ targets' # targets =>
         \A p \in Pids : procs[p] # None /\ procs'[p] = None => Belongs(Identity(p))]_vars

\* What the last snapshot could not show as a member: a process forked after
\* it, or one outside the session whose parent was not identified.
Unseen(p) ==
    \/ Identity(p) # snap[p].id
    \/ ~snap[p].inside /\ (snap[p].parent = 0 \/ captured[snap[p].parent] = 0)

\* ProvenMeansGone: when cleanup() or process_boundary_is_gone() answers TRUE,
\* nothing of the provider's tree runs in a Windows job, and on POSIX only
\* what the last snapshot could not attribute: a process forked after it, or
\* one that left the session and has no identified parent.
ProvenMeansGone ==
    [][proven' /\ pc = "check" /\ pc' = "ended" =>
         \A p \in OurPids : Posix /\ Unseen(p)]_vars

=============================================================================

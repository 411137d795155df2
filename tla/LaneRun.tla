------------------------------ MODULE LaneRun ------------------------------
(***************************************************************************)
(* One epoch of lanes: the controllers and their providers, the operator's *)
(* commands, and crashes of both, over the records they share.             *)
(***************************************************************************)
EXTENDS Controller, LaneCommands

Next ==
    \/ \E c \in Controllers : ControllerStep(c)
    \/ \E c \in Controllers : DieWhileAcquiring(c)
    \/ \E c \in Controllers : Crash(c)
    \/ \E c \in Controllers : ProviderExits(c)
    \/ \E k \in Commands : CommandStep(k)
    \/ \E k \in Commands : CommandDies(k)
    \/ \E k \in Commands : ClearInterrupted(k)
    \/ \E r \in Resources : ForceReleaseLease(r)
    \/ \E l \in Lanes : CompletionReview(l)

Spec == Init /\ [][Next]_vars

\* Controllers are scheduled and providers end; a command that runs gets on; the
\* operator keeps retrying `harness shutdown' and, as its error tells, `lane
\* force-stop', and from some time on no command dies half-way.
ControllerFairness ==
    \A c \in Controllers : WF_vars(ControllerStep(c)) /\ WF_vars(ProviderExits(c))

\* The command dies; a step in which it ends by itself looks the same but is none.
Interrupted(k) == (CommandDies(k) \/ ClearInterrupted(k)) /\ ~CommandStep(k)

OperatorFairness ==
    \A k \in Commands :
        /\ WF_vars(CommandStep(k))
        /\ SF_vars(RunShutdown(k))
        /\ \A l \in Lanes : SF_vars(RunForceStop(k, l))
        /\ <>[][~Interrupted(k)]_vars

FairSpec == Spec /\ ControllerFairness /\ OperatorFairness

----------------------------------------------------------------------------
\* Every record keeps its shape: the lane, status, lease, controller and
\* command records of the epoch.
TypeOK ==
    /\ runtime \in {"OPEN", "SHUTTING_DOWN", "CLOSED"}
    /\ epochOpen \in BOOLEAN
    /\ issued \in [Lanes -> Runs]
    /\ lane \in [Lanes -> LaneRecord]
    /\ invocation \in [Lanes -> Runs]
    /\ status \in [Lanes -> StatusRecord]
    /\ lease \in [Resources -> Controllers \cup {None}]
    /\ result \in [Lanes -> Runs]
    /\ chain \in [Lanes -> ChainRecord]
    /\ failEvent \in [Lanes -> FailEvents]
    /\ ctl \in [Controllers -> CtlRecord]
    /\ prov \in [Controllers -> ProvStates]
    /\ cmd \in [Commands -> CmdRecord]

\* The controller has taken its leases and not yet given them back.
Supervising(c) ==
    ctl[c].pc \in {"leased", "attempt", "created", "recorded", "raised", "streaming",
                   "ended", "judge", "proven", "relValid", "noResult", "failed"}

\* From the moment a controller has acquired its leases (controller.py:712) until
\* it releases them itself, every resource its lane declared is leased to that
\* very controller: no command, and no other controller, takes one away while a
\* provider may still be using it.
SupervisedLeasesHeld ==
    \A c \in Controllers :
        Supervising(c) => \A r \in Declared[ctl[c].lane] : lease[r] = c

\* Two providers whose lanes declare a common resource never run at the same
\* time under live controllers.
ExclusiveUse ==
    \A c, d \in Controllers :
        /\ c # d /\ Live(c) /\ Live(d) /\ ProviderLive(c) /\ ProviderLive(d)
        => Declared[ctl[c].lane] \cap Declared[ctl[d].lane] = {}

\* One coding worker runs in each lane: no two provider trees, of live or dead
\* controllers, work in one worktree (controller.py:457 spawns without looking).
OneWorkerPerLane ==
    \A c, d \in Controllers :
        c # d /\ ProviderLive(c) /\ ProviderLive(d) => ctl[c].lane # ctl[d].lane

\* A lease disappears from r in this step although a process of its holder's
\* provider tree is still there.
LostUnderProvider(r) ==
    lease[r] # None /\ lease'[r] # lease[r] /\ prov'[lease[r]] \in {"running", "helpers"}

\* Cleanup (by the controller, retire, shutdown or force-stop) and `lease
\* force-release' give a claim up only after the provider tree of the controller
\* that holds it is gone.
ReleasesWhenGone ==
    [][\A r \in Resources : ~LostUnderProvider(r)]_vars

\* A retired lane stays retired: no late controller write revives it.
RetiredIsFinal ==
    [][\A l \in Lanes : lane[l].lifecycle = "retired" => lane'[l].lifecycle = "retired"]_vars

\* The status file never describes a superseded run: whoever reads it without
\* comparing run ids (shutdown.py:84) still reads about the lane's own run.
StatusOfCurrentRun ==
    \A l \in Lanes : status[l].present => status[l].run = lane[l].run

\* Supervision ends: with at most MaxCorrections corrections per run, a
\* controller that holds its leases eventually gives them up or is gone.
SupervisionEnds ==
    \A c \in Controllers : Supervising(c) ~> ~Supervising(c)

\* Neither shutdown nor force-stop can judge this lane: a controller touched it,
\* but nothing recorded says what became of a provider.
Unjudgeable(l) ==
    LET s == StatusOf(l, lane[l].run) IN
    /\ lane[l].lifecycle # "retired"
    /\ lane[l].lifecycle = "prepared" => lane[l].process # None \/ s.present
    /\ ~s.present \/ (s.boundary.ctl = None /\ ~(s.proven /\ s.pstate = "not_started"))

\* Unless some lane is left in that condition, a shutdown that has begun, and is
\* retried with force-stop, ends in CLOSED.
ShutdownSettles ==
    runtime = "SHUTTING_DOWN" ~> runtime = "CLOSED" \/ \E l \in Lanes : Unjudgeable(l)
----------------------------------------------------------------------------
(* The strengthening that makes SupervisedLeasesHeld inductive when commands *)
(* neither overlap nor relaunch a lane whose controller is live.             *)

\* A controller knows its lane; a command at work on a lane names that lane, and
\* a launch that has created its child names the child.
Known ==
    /\ \A c \in Controllers : ctl[c].pc # "absent" => ctl[c].lane \in Lanes
    /\ \A k \in Commands :
          /\ cmd[k].pc \notin {"idle", "lane"} => cmd[k].lane \in Lanes
          /\ cmd[k].pc \in {"record", "handshake"}
                => cmd[k].child \in Controllers /\ ctl[cmd[k].child].pc # "absent"

\* Of lane l's controllers only p may be live.
OnlyLive(l, p) == \A c \in Controllers : Live(c) /\ ctl[c].lane = l => c = p

UniqueSupervisor ==
    \A c, d \in Controllers : Live(c) /\ Live(d) /\ ctl[c].lane = ctl[d].lane => c = d

\* The lane record names the live controller, except in the window between its
\* creation and the launch's own write.
RecordedProcess ==
    \A c \in Controllers :
        Live(c) => \/ lane[ctl[c].lane].process = c
                   \/ \E k \in Commands : Step(k, "launch", "record") /\ cmd[k].child = c

SerialCommands ==
    \A j, k \in Commands :
        j # k /\ cmd[j].pc # "idle" /\ cmd[k].pc # "idle"
        => cmd[j].kind # "shutdown" /\ cmd[j].lane # cmd[k].lane

\* What command k knows of the live controllers of its lane.
View(k) ==
    /\ Step(k, "launch", "spawn") => OnlyLive(cmd[k].lane, None)
    /\ Step(k, "launch", "record") => OnlyLive(cmd[k].lane, cmd[k].child)
                                      /\ ctl[cmd[k].child].lane = cmd[k].lane
    /\ Step(k, "launch", "handshake") => OnlyLive(cmd[k].lane, cmd[k].child)
    /\ cmd[k].pc \in {"kill", "check"} => OnlyLive(cmd[k].lane, cmd[k].snap.process)
    /\ cmd[k].pc \in {"clean", "release", "retire", "mark", "clear", "invocation", "replace"}
          => OnlyLive(cmd[k].lane, None)

CommandView == \A k \in Commands : View(k)

\* The inductive invariant.
SupervisionInv ==
    /\ Known
    /\ UniqueSupervisor
    /\ RecordedProcess
    /\ SerialCommands
    /\ CommandView
    /\ SupervisedLeasesHeld
=============================================================================

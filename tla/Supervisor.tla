------------------------------ MODULE Supervisor ------------------------------
(***************************************************************************)
(* campd's supervisor (cmd/campd/src/runtime.rs): it launches the declared *)
(* processes in order, gates each launch on the previous one, aggregates   *)
(* readiness, reaps children, cleans up process groups and shuts down on a *)
(* signal.  The supervisor is one thread; it interleaves with              *)
(*   - the processes it started (exit, fork, die of SIGKILL),              *)
(*   - one probe worker thread per probed Service, which sends on an       *)
(*     unbounded channel,                                                  *)
(*   - the signal handler, and the passing of deadlines and timers.        *)
(*                                                                         *)
(* Declaration i leads the process group i.  A group is its leader and     *)
(* `kids', the other processes of the group taken together: "live" while   *)
(* one of them runs, "zombie" when all that is left of them is unreaped.   *)
(* Process ids are not reused, and a process that leaves its group is not  *)
(* modelled: campd does not track it either.                               *)
(***************************************************************************)
EXTENDS ProbeState, Sequences

CONSTANTS
    MaxProcs,           \* bound on the number of declared processes
    Declarations,       \* the declaration lists a run may start from
    MaxQueue,           \* bound on the events waiting in the probe channel
    Forkers,            \* bound: the groups whose leader forks descendants
    Signals             \* the signals the environment may deliver

SIGKILL == 9
SIGTERM == 15
Procs == 1..MaxProcs

\* What spec.rs lets through: a job has no probe.
Declared == {d \in [kind : {"Service", "RunToCompletion"}, probed : BOOLEAN] :
                d.kind = "RunToCompletion" => ~d.probed}

ASSUME BoundsAssumption ==
    /\ MaxProcs \in Nat \ {0}
    /\ MaxQueue \in Nat \ {0}
    /\ Forkers \subseteq Procs

\* INT, TERM, HUP and QUIT have handlers; SIGKILL cannot have one.
ASSUME SignalsAssumption == Signals \subseteq {1, 2, 3, 15}

ASSUME DeclarationsAssumption ==
    \A d \in Declarations : d \in Seq(Declared) /\ Len(d) \in Procs

VARIABLES
    decl,       \* the flattened declarations: Sidecars first, then Main
    \* the operating system's view
    leader,     \* leader[i]: "none", "running", zombie "ok" or "bad", "reaped"
    kids,       \* kids[i]: "none", "live" or "zombie"
    sent,       \* sent[i]: the signals campd has sent to group i
    \* the supervisor's thread
    pc,         \* where it is
    pass,       \* which half of drive() it is in
    stage,      \* who called drive()
    index,      \* processes.len(): declarations 1..index are managed
    alive, status, residual,    \* fields of ManagedProcess
    probe,      \* ManagedProcess.probe
    cleanup,    \* cleanup[i]: "none", "termed" or "killed" (a PendingCleanup)
    timer,      \* timer[i]: 1 once kill_at has passed, 2 once give_up_at has
    complete,   \* initialization_complete
    failure,    \* startup_failure.is_some()
    expired,    \* the deadline of the current wait has passed
    exit,       \* the exit code, 0 until a signal is taken
    remaining,  \* the groups terminate_groups still waits for
    late,       \* the deadline of the current shutdown phase has passed
    \* shared with other threads
    ready,      \* ReadyState, read by the readiness endpoint
    signal,     \* RECEIVED_SIGNAL
    chan,       \* the probe events on their way
    cancel, worker,     \* probe_cancel and the state of the probe threads
    everReady   \* history: the processes whose probe has been Ready

osVars      == <<leader, kids>>
tableVars   == <<index, alive, status, residual>>
probeVars   == <<probe, everReady>>
workerVars  == <<cancel, worker>>
cleanupVars == <<sent, cleanup, timer>>
driveVars   == <<pass, stage, expired>>
startVars   == <<complete, failure>>
shutVars    == <<exit, remaining, late>>
bookVars    == <<decl, tableVars, startVars, shutVars>>
dataVars    == <<bookVars, probeVars, cleanupVars>>
outerVars   == <<osVars, workerVars, signal, chan>>
\* What no gate of run() changes, and all that belongs to the supervisor.
runVars     == <<outerVars, decl, tableVars, probeVars, shutVars, expired>>
supervisorVars == <<dataVars, pc, driveVars, ready>>
vars == <<decl, leader, kids, sent, pc, pass, stage, index, alive, status,
          residual, probe, cleanup, timer, complete, failure, expired, exit,
          remaining, late, ready, signal, chan, cancel, worker, everReady>>

IsService(i) == decl[i].kind = "Service"
IsJob(i)     == decl[i].kind = "RunToCompletion"
Probed(i)    == decl[i].probed
Managed      == 1..index

Zombie == {"ok", "bad"}
Driving == {"reap", "drain", "settle", "recv", "gate"}
Stages == {"next", "service", "job", "final", "supervise"}

TypeOK ==
    /\ decl \in Declarations
    /\ leader \in [Procs -> {"none", "running", "ok", "bad", "reaped"}]
    /\ kids \in [Procs -> {"none", "live", "zombie"}]
    /\ sent \in [Procs -> SUBSET (Signals \cup {SIGTERM, SIGKILL})]
    /\ pc \in Driving \cup {"reap_pid", "shutdown", "term", "kill", "exited"}
    /\ pass \in 1..2
    /\ stage \in Stages
    /\ index \in 0..Len(decl)
    /\ alive \in [Procs -> BOOLEAN]
    /\ status \in [Procs -> {"none", "ok", "bad"}]
    /\ residual \in [Procs -> BOOLEAN]
    /\ probe \in [Procs -> ProbeStates]
    /\ cleanup \in [Procs -> {"none", "termed", "killed"}]
    /\ timer \in [Procs -> 0..2]
    /\ complete \in BOOLEAN
    /\ failure \in BOOLEAN
    /\ expired \in BOOLEAN
    /\ exit \in {0} \cup {128 + s : s \in Signals}
    /\ remaining \in SUBSET Procs
    /\ late \in BOOLEAN
    /\ ready \in BOOLEAN
    /\ signal \in Signals \cup {0}
    /\ chan \in Seq([proc : Procs, success : BOOLEAN])
    /\ cancel \in [Procs -> BOOLEAN]
    /\ worker \in [Procs -> {"none", "idle", "probing", "stopped"}]
    /\ everReady \in SUBSET Procs

Init ==
    /\ decl \in Declarations
    /\ leader = [i \in Procs |-> "none"]
    /\ kids = [i \in Procs |-> "none"]
    /\ sent = [i \in Procs |-> {}]
    /\ pc = "reap" /\ pass = 1 /\ stage = "next"
    /\ index = 0
    /\ alive = [i \in Procs |-> FALSE]
    /\ status = [i \in Procs |-> "none"]
    /\ residual = [i \in Procs |-> FALSE]
    /\ probe = [i \in Procs |-> NewProbe]
    /\ cleanup = [i \in Procs |-> "none"]
    /\ timer = [i \in Procs |-> 0]
    /\ complete = FALSE /\ failure = FALSE /\ expired = FALSE
    /\ exit = 0 /\ remaining = {} /\ late = FALSE
    /\ ready = FALSE /\ signal = 0 /\ chan = <<>>
    /\ cancel = [i \in Procs |-> FALSE]
    /\ worker = [i \in Procs |-> "none"]
    /\ everReady = {}

-----------------------------------------------------------------------------
(* Helpers of the supervisor. *)

\* kill(-group, 0): a group exists until its last zombie has been reaped.
GroupExists(i) == leader[i] \in {"running"} \cup Zombie \/ kids[i] # "none"

\* A zombie that waitpid(-1) can return: descendants are campd's children, as
\* it is their subreaper, once their leader has exited.
OrphanZombie(i) == kids[i] = "zombie" /\ leader[i] # "running"

\* What is left of group i when its leader is reaped.
LiveResidual(i) == kids[i] = "live"     \* mutant: overlooks zombies
Residual(i) == kids[i] # "none"

ServicesReady == \A i \in Managed :
    IsService(i) => alive[i] /\ (Probed(i) => probe[i].health = "Ready")

\* Mutant: overlooks exits.
ProbesReady == complete /\ ~failure /\ \A i \in Managed :
    IsService(i) => (Probed(i) => probe[i].health = "Ready")

Aggregate == complete /\ ~failure /\ ServicesReady

UpdateReadyUpwards == ready' = (ready \/ Aggregate')     \* mutant: sticks
UpdateReady == ready' = Aggregate'

\* schedule_cleanup(i), where `exists' tells whether group i still does.
ScheduleCleanup(i, exists) ==
    IF exists /\ cleanup[i] = "none"
    THEN /\ sent' = [sent EXCEPT ![i] = @ \cup {SIGTERM}]
         /\ cleanup' = [cleanup EXCEPT ![i] = "termed"]
         /\ timer' = [timer EXCEPT ![i] = 0]
    ELSE UNCHANGED cleanupVars

KillDueAtOnce(i) == cleanup[i] = "termed" /\ GroupExists(i)     \* mutant: no grace
KillDueOnTime(i) ==                                              \* mutant: misses
    cleanup[i] = "termed" /\ GroupExists(i) /\ timer[i] = 1      \* a late poll
KillDue(i) == cleanup[i] = "termed" /\ GroupExists(i) /\ timer[i] >= 1
Dropped(i) == ~GroupExists(i) \/ timer[i] = 2

ProcessCleanups ==
    /\ sent' = [i \in Procs |-> IF KillDue(i) THEN sent[i] \cup {SIGKILL} ELSE sent[i]]
    /\ cleanup' = [i \in Procs |-> IF cleanup[i] = "none" \/ Dropped(i) THEN "none"
                                   ELSE IF KillDue(i) THEN "killed" ELSE cleanup[i]]
    /\ timer' = [i \in Procs |-> IF cleanup[i] = "none" \/ Dropped(i) THEN 0 ELSE timer[i]]

\* The caller calls drive() (again).
Drive(caller) == pc' = "reap" /\ pass' = 1 /\ stage' = caller

\* run() goes on with the declaration after i, or leaves its loop.
Proceed(i) == Drive(IF i < Len(decl) THEN "next" ELSE "final")

\* fail_startup(), then the break to supervise() and its update_ready().
FailStartup ==
    /\ failure' = TRUE
    /\ complete' = FALSE
    /\ UpdateReady
    /\ Drive("supervise")

-----------------------------------------------------------------------------
(* drive(): reap, drain, settle; receive; drain, reap, settle. *)

ReapLeader(i) ==
    /\ pc = "reap"
    /\ i \in Managed /\ alive[i] /\ leader[i] \in Zombie
    /\ leader' = [leader EXCEPT ![i] = "reaped"]
    /\ alive' = [alive EXCEPT ![i] = FALSE]
    /\ status' = [status EXCEPT ![i] = leader[i]]
    /\ residual' = [residual EXCEPT ![i] = Residual(i)]
    /\ cancel' = [cancel EXCEPT ![i] = @ \/ Probed(i)]
    /\ failure' = (failure \/ (IsService(i) /\ ~complete))
    /\ ScheduleCleanup(i, Residual(i))
    /\ UNCHANGED <<driveVars, shutVars, probeVars, decl, kids, pc, index,
                   complete, ready, signal, chan, worker>>

ReapOrphan(i) ==
    /\ pc = "reap"
    /\ OrphanZombie(i)
    /\ kids' = [kids EXCEPT ![i] = "none"]
    /\ UNCHANGED <<supervisorVars, workerVars, leader, signal, chan>>

ReapNone ==
    /\ pc = "reap"
    /\ \A i \in Managed : ~(alive[i] /\ leader[i] \in Zombie)
    /\ \A i \in Procs : ~OrphanZombie(i)
    /\ pc' = IF pass = 1 THEN "drain" ELSE "settle"
    /\ UNCHANGED <<runVars, cleanupVars, startVars, pass, stage, ready>>

\* apply_probe_event() on the oldest event; a dead process ignores it.
ApplyEvent ==
    LET i == Head(chan).proc
        p == IF alive[i] THEN Observe(probe[i], Head(chan).success) ELSE probe[i]
    IN /\ chan # <<>>
       /\ chan' = Tail(chan)
       /\ probe' = [probe EXCEPT ![i] = p]
       /\ everReady' = IF p.health = "Ready" THEN everReady \cup {i} ELSE everReady

Drain ==
    /\ pc = "drain"
    /\ ApplyEvent
    /\ UNCHANGED <<bookVars, cleanupVars, driveVars, osVars, workerVars, pc,
                   ready, signal>>

DrainDone ==
    /\ pc = "drain"
    /\ chan = <<>>
    /\ pc' = IF pass = 1 THEN "settle" ELSE "reap"
    /\ UNCHANGED <<runVars, cleanupVars, startVars, pass, stage, ready>>

\* process_cleanups(), update_ready() and received_signal().
Settle ==
    /\ pc = "settle"
    /\ ProcessCleanups
    /\ IF signal # 0
       THEN pc' = "shutdown" /\ exit' = 128 + signal
       ELSE pc' = (IF pass = 1 THEN "recv" ELSE "gate") /\ exit' = exit
    /\ UNCHANGED <<outerVars, tableVars, driveVars, probeVars, startVars, decl,
                   remaining, late>>
    /\ UpdateReady

Receive ==
    /\ pc = "recv"
    /\ ApplyEvent
    /\ pc' = "drain"
    /\ pass' = 2
    /\ UNCHANGED <<bookVars, cleanupVars, osVars, workerVars, stage, expired,
                   ready, signal>>

\* recv_timeout() or try_recv() returns no event.
ReceiveNothing ==
    /\ pc = "recv"
    /\ chan = <<>>
    /\ pc' = "reap"
    /\ pass' = 2
    /\ UNCHANGED <<runVars, cleanupVars, startVars, stage, ready>>

-----------------------------------------------------------------------------
(* What run(), wait_for_service(), wait_for_job() and supervise() do when    *)
(* drive() returns no signal.                                                *)

\* run() reaches the declaration after the managed ones and launches it.
LaunchingAnyway(i) == pc = "gate" /\ stage = "next"      \* mutant: despite failure
                        /\ i = index + 1 /\ i <= Len(decl)
Launching(i) == pc = "gate" /\ stage = "next" /\ ~failure
                  /\ i = index + 1 /\ i <= Len(decl)

\* The next declaration starts: spawn() and, for an unprobed Service, on.
Spawn(i) ==
    /\ Launching(i)
    /\ leader' = [leader EXCEPT ![i] = "running"]
    /\ index' = i
    /\ alive' = [alive EXCEPT ![i] = TRUE]
    /\ worker' = [worker EXCEPT ![i] = IF Probed(i) THEN "idle" ELSE "none"]
    /\ expired' = FALSE
    /\ CASE IsJob(i) -> Drive("job")
         [] IsService(i) /\ Probed(i) -> Drive("service")
         [] IsService(i) /\ ~Probed(i) -> Proceed(i)
    /\ UNCHANGED <<cleanupVars, shutVars, probeVars, startVars, decl, kids,
                   status, residual, signal, chan, cancel>>
    /\ UpdateReady

\* command.spawn() fails: nothing runs.
SpawnError(i) ==
    /\ Launching(i)
    /\ FailStartup
    /\ UNCHANGED <<runVars, cleanupVars>>

\* The process runs but its probe thread cannot be created.
ProbeThreadError(i) ==
    /\ Launching(i) /\ Probed(i)
    /\ leader' = [leader EXCEPT ![i] = "running"]
    /\ sent' = [sent EXCEPT ![i] = @ \cup {SIGKILL}]
    /\ pc' = "reap_pid"
    /\ UNCHANGED <<bookVars, driveVars, probeVars, workerVars, kids, cleanup,
                   timer, ready, signal, chan>>

ReapPid(i) ==
    /\ pc = "reap_pid"
    /\ i = index + 1 /\ leader[i] \in Zombie
    /\ leader' = [leader EXCEPT ![i] = "reaped"]
    /\ FailStartup
    /\ UNCHANGED <<tableVars, cleanupVars, shutVars, probeVars, workerVars, decl,
                   kids, expired, signal, chan>>

\* run() finds that a Service exited during the last drive().
LoopFails ==
    /\ pc = "gate" /\ stage = "next" /\ failure
    /\ FailStartup
    /\ UNCHANGED <<runVars, cleanupVars>>

ProbeAnswered(i) == probe[i].health # "Starting"     \* mutant: any answer will do
ProbePassed(i) == probe[i].health = "Ready"

ServiceGate(i) ==
    /\ pc = "gate" /\ stage = "service" /\ i = index
    /\ \/ /\ failure \/ (~ProbePassed(i) /\ expired)
          /\ FailStartup
       \/ /\ ~failure /\ ProbePassed(i)
          /\ Proceed(i)
          /\ UNCHANGED <<startVars, ready>>
       \/ /\ ~failure /\ ~ProbePassed(i) /\ ~expired
          /\ Drive("service")
          /\ UNCHANGED <<startVars, ready>>
    /\ UNCHANGED <<runVars, cleanupVars>>

\* Only exit code 0 with an empty group lets run() go on.
JobExitedWithZero(i) == status[i] = "ok"     \* mutant: overlooks descendants
JobSucceeded(i) == status[i] = "ok" /\ ~residual[i]

\* The job has exited.
JobGate(i) ==
    /\ pc = "gate" /\ stage = "job" /\ i = index
    /\ ~failure /\ status[i] # "none"
    /\ IF JobSucceeded(i)
       THEN Proceed(i) /\ UNCHANGED <<startVars, ready>>
       ELSE FailStartup
    /\ UNCHANGED <<runVars, cleanupVars>>

\* Whether a job that is given up is still there to be cleaned up.
TimedOutOnly(i) == GroupExists(i) /\ ~failure     \* mutant: only after a timeout
LeftBehind(i) == GroupExists(i) /\ (failure => alive[i])

\* The job is given up: a Service exited, or its time is over.
JobAbandoned(i) ==
    /\ pc = "gate" /\ stage = "job" /\ i = index
    /\ \/ failure
       \/ status[i] = "none" /\ expired
    /\ ScheduleCleanup(i, LeftBehind(i))
    /\ UNCHANGED runVars
    /\ FailStartup

\* Mutant: waits for the job past its deadline.
JobRunsOn(i) ==
    /\ pc = "gate" /\ stage = "job" /\ i = index
    /\ ~failure /\ status[i] = "none"
    /\ Drive("job")
    /\ UNCHANGED <<runVars, cleanupVars, startVars, ready>>

JobRuns(i) ==
    /\ pc = "gate" /\ stage = "job" /\ i = index
    /\ ~failure /\ status[i] = "none" /\ ~expired
    /\ Drive("job")
    /\ UNCHANGED <<runVars, cleanupVars, startVars, ready>>

\* Mutant: completes even though a Service exited during the last drive().
FinishStartupAnyway ==
    /\ pc = "gate" /\ stage = "final"
    /\ complete' = TRUE
    /\ Drive("supervise")
    /\ UNCHANGED <<runVars, cleanupVars, failure>>
    /\ UpdateReady

\* The end of run(): initialization is complete unless a Service has exited.
FinishStartup ==
    /\ pc = "gate" /\ stage = "final"
    /\ complete' = ~failure
    /\ Drive("supervise")
    /\ UNCHANGED <<runVars, cleanupVars, failure>>
    /\ UpdateReady

Supervise ==
    /\ pc = "gate" /\ stage = "supervise"
    /\ Drive("supervise")
    /\ UNCHANGED <<runVars, cleanupVars, startVars, ready>>

-----------------------------------------------------------------------------
(* shutdown() and terminate_groups(). *)

LiveGroups == {i \in Managed : alive[i]}     \* mutant: forgets residual groups
ShutdownGroups == {i \in Managed : alive[i] \/ residual[i]}
                    \cup {i \in Procs : cleanup[i] # "none"}

Shutdown ==
    /\ pc = "shutdown"
    /\ ready' = FALSE
    /\ cancel' = [i \in Procs |-> cancel[i] \/ (i \in Managed /\ Probed(i))]
    /\ remaining' = ShutdownGroups
    /\ sent' = [i \in Procs |-> IF i \in ShutdownGroups THEN sent[i] \cup {exit - 128}
                                                         ELSE sent[i]]
    /\ late' = FALSE
    /\ pc' = "term"
    /\ UNCHANGED <<tableVars, driveVars, osVars, probeVars, startVars, decl,
                   cleanup, timer, exit, signal, chan, worker>>

\* terminate_groups() goes on waiting for what remains.
WaitingForAll == pc \in {"term", "kill"} /\ remaining # {}     \* mutant: no deadline
Waiting == pc \in {"term", "kill"} /\ remaining # {} /\ ~late

\* reap_any_available() and the retain() of the groups that still exist.
Sweep ==
    /\ Waiting
    /\ leader' = [i \in Procs |-> IF leader[i] \in Zombie THEN "reaped" ELSE leader[i]]
    /\ kids' = [i \in Procs |-> IF OrphanZombie(i) THEN "none" ELSE kids[i]]
    /\ remaining' = {i \in remaining : GroupExists(i)'}
    /\ UNCHANGED <<tableVars, cleanupVars, driveVars, probeVars, workerVars,
                   startVars, decl, pc, exit, late, ready, signal, chan>>

KillRemaining ==
    /\ pc = "term" /\ ~Waiting
    /\ sent' = [i \in Procs |-> IF i \in remaining THEN sent[i] \cup {SIGKILL}
                                                   ELSE sent[i]]
    /\ late' = FALSE
    /\ pc' = "kill"
    /\ UNCHANGED <<outerVars, tableVars, driveVars, probeVars, startVars, decl,
                   cleanup, timer, exit, remaining, ready>>

Exit ==
    /\ pc = "kill" /\ ~Waiting
    /\ pc' = "exited"
    /\ UNCHANGED <<runVars, cleanupVars, startVars, pass, stage, ready>>

-----------------------------------------------------------------------------
(* The processes, the probe threads, the signal handler and the clock. *)

Up == pc # "exited"

\* A process that was sent SIGKILL does not exit with status 0.
LeaderExit(i) ==
    /\ Up /\ leader[i] = "running"
    /\ \E z \in Zombie : /\ SIGKILL \in sent[i] => z = "bad"
                         /\ leader' = [leader EXCEPT ![i] = z]
    /\ UNCHANGED <<supervisorVars, workerVars, kids, signal, chan>>

Fork(i) ==
    /\ Up /\ i \in Forkers
    /\ leader[i] = "running" /\ kids[i] = "none" /\ SIGKILL \notin sent[i]
    /\ kids' = [kids EXCEPT ![i] = "live"]
    /\ UNCHANGED <<supervisorVars, workerVars, leader, signal, chan>>

KidsExit(i) ==
    /\ Up /\ kids[i] = "live"
    /\ kids' = [kids EXCEPT ![i] = "zombie"]
    /\ UNCHANGED <<supervisorVars, workerVars, leader, signal, chan>>

\* The leader waits for its own children.
LeaderWaits(i) ==
    /\ Up /\ kids[i] = "zombie" /\ leader[i] = "running"
    /\ kids' = [kids EXCEPT ![i] = "none"]
    /\ UNCHANGED <<supervisorVars, workerVars, leader, signal, chan>>

\* The head of the probe thread's loop; http_probe() then takes its time.
WorkerChecks(i) ==
    /\ Up /\ worker[i] = "idle"
    /\ worker' = [worker EXCEPT ![i] = IF cancel[i] THEN "stopped" ELSE "probing"]
    /\ UNCHANGED <<supervisorVars, osVars, signal, chan, cancel>>

WorkerSends(i) ==
    /\ Up /\ worker[i] = "probing" /\ Len(chan) < MaxQueue
    /\ \E ok \in BOOLEAN : chan' = Append(chan, [proc |-> i, success |-> ok])
    /\ worker' = [worker EXCEPT ![i] = "idle"]
    /\ UNCHANGED <<supervisorVars, osVars, signal, cancel>>

SignalArrives ==
    /\ Up
    /\ \E s \in Signals : signal' = s
    /\ UNCHANGED <<supervisorVars, osVars, workerVars, chan>>

DeadlinePasses ==
    /\ pc \in Driving /\ stage \in {"service", "job"} /\ ~expired
    /\ expired' = TRUE
    /\ UNCHANGED <<dataVars, outerVars, pc, pass, stage, ready>>

TimerPasses(i) ==
    /\ pc \in Driving /\ cleanup[i] # "none" /\ timer[i] < 2
    /\ timer' = [timer EXCEPT ![i] = @ + 1]
    /\ UNCHANGED <<runVars, startVars, sent, pc, pass, stage, cleanup, ready>>

GracePasses ==
    /\ pc \in {"term", "kill"} /\ ~late
    /\ late' = TRUE
    /\ UNCHANGED <<outerVars, tableVars, cleanupVars, driveVars, probeVars,
                   startVars, decl, pc, exit, remaining, ready>>

\* campd has exited: nothing happens any more.
Exited == pc = "exited" /\ UNCHANGED vars

-----------------------------------------------------------------------------
DriveStep ==
    \/ \E i \in Procs : ReapLeader(i) \/ ReapOrphan(i)
    \/ ReapNone \/ Drain \/ DrainDone \/ Settle \/ Receive \/ ReceiveNothing

GateStep ==
    \/ \E i \in Procs : \/ Spawn(i) \/ SpawnError(i) \/ ProbeThreadError(i) \/ ReapPid(i)
                        \/ ServiceGate(i) \/ JobGate(i) \/ JobAbandoned(i) \/ JobRuns(i)
    \/ LoopFails \/ FinishStartup \/ Supervise

ShutdownStep == Shutdown \/ Sweep \/ KillRemaining \/ Exit

ProcessStep == \E i \in Procs :
    LeaderExit(i) \/ Fork(i) \/ KidsExit(i) \/ LeaderWaits(i)

WorkerStep == \E i \in Procs : WorkerChecks(i) \/ WorkerSends(i)

ClockStep == DeadlinePasses \/ GracePasses \/ \E i \in Procs : TimerPasses(i)

SupervisorStep == DriveStep \/ GateStep \/ ShutdownStep

Next == SupervisorStep \/ ProcessStep \/ WorkerStep \/ SignalArrives \/ ClockStep \/ Exited

Spec == Init /\ [][Next]_vars

\* A process that was sent SIGKILL dies.
Dies(i) == SIGKILL \in sent[i] /\ (LeaderExit(i) \/ KidsExit(i))

(***************************************************************************)
(* The supervisor's thread runs, the clock advances and SIGKILL works.     *)
(* Strong fairness of DrainDone: the channel is found empty again and      *)
(* again, as a worker sleeps period_ms between two events and applying one *)
(* takes microseconds.                                                     *)
(***************************************************************************)
Fairness ==
    /\ WF_vars(SupervisorStep)
    /\ SF_vars(DrainDone)
    /\ WF_vars(DeadlinePasses)
    /\ WF_vars(GracePasses)
    /\ \A i \in Procs : WF_vars(TimerPasses(i)) /\ WF_vars(Dies(i))

FairSpec == Spec /\ Fairness

-----------------------------------------------------------------------------
(* Safety. *)

\* While the supervisor waits for probe events or decides what to do next, the
\* endpoint shows the aggregate of what has been reaped and probed: a change
\* seen by either half of drive() is published by that half.
ReadyIsCurrent == pc \in {"recv", "gate"} => (ready <=> Aggregate)

\* campd reports ready only if every declaration was launched, every job
\* exited with 0 and left no process behind, and every probe has passed once.
ReadyMeansStarted ==
    ready => /\ index = Len(decl)
             /\ \A i \in Managed : /\ IsJob(i) => status[i] = "ok" /\ ~GroupExists(i)
                                   /\ Probed(i) => i \in everReady

\* A failed initialization (a Service that exits, a job that fails, a wait
\* that times out, a process that cannot start) is never reported ready.
FailedStartupNeverReady == failure => ~complete /\ ~ready

\* Launch order: when process j has been started, every job before it has
\* exited with 0 and its group is empty, and every probe before it has passed.
GatedStart == \A j \in Managed : \A i \in 1..(j - 1) :
    /\ IsJob(i) => status[i] = "ok" /\ ~GroupExists(i)
    /\ Probed(i) => i \in everReady

\* No process group is lost: until shutdown() has collected the groups, each
\* one that exists belongs to a live or residual process or has been killed.
GroupsTracked == pc \in Driving \cup {"reap_pid", "shutdown"} =>
    \A i \in Procs : GroupExists(i) =>
        \/ i \in Managed /\ (alive[i] \/ residual[i])
        \/ SIGKILL \in sent[i]

\* Shutdown reaches everything: the signal behind the exit code was forwarded
\* to each group that is left, and campd exits only after killing those.
NoSurvivorUnsignalled == \A i \in Procs : GroupExists(i) =>
    /\ pc \in {"term", "kill"} => sent[i] \cap {exit - 128, SIGKILL} # {}
    /\ pc = "exited" => SIGKILL \in sent[i]

\* A Service that runs is left alone, whatever failed around it, until campd
\* itself is told to stop.
ServicesSpared == pc \in Driving \cup {"reap_pid"} =>
    \A i \in Managed : IsService(i) /\ alive[i] => sent[i] = {}

\* When run() has moved on to supervise(), a job that is still running is one
\* that was given up and told to terminate.
NoJobLeftRunning == pc \in Driving /\ stage = "supervise" =>
    \A i \in Managed : IsJob(i) /\ alive[i] => SIGTERM \in sent[i]

\* A failed initialization ends its job and leaves the Services as they are.
OnlyJobsAreEnded == ServicesSpared /\ NoJobLeftRunning

\* SIGKILL follows SIGTERM, or the forwarded signal, and its grace period.
KillsAreGraceful == [][\A i \in Managed :
    SIGKILL \in sent'[i] \ sent[i] =>
        \/ SIGTERM \in sent[i] /\ timer[i] >= 1
        \/ pc = "term" /\ exit - 128 \in sent[i] /\ late]_vars

\* A cleanup is forgotten only when its group is gone or has been killed.
CleanupsEscalate == [][\A i \in Procs :
    cleanup[i] # "none" /\ cleanup'[i] = "none" =>
        ~GroupExists(i) \/ SIGKILL \in sent'[i]]_vars

\* run() launches nothing once a Service is known to have exited, nor while a
\* cleanup is under way.
LaunchesNeedHealth == [][index' # index =>
    \A i \in Managed : cleanup[i] = "none" /\ (IsService(i) => alive[i])]_vars

-----------------------------------------------------------------------------
(* Liveness, under FairSpec. *)

\* Once a Service has exited campd becomes unready, and stays so: there is no
\* restart.
ExitIsPublished == \A i \in Procs :
    (i \in Managed /\ IsService(i) /\ leader[i] # "running") ~> [](~ready)

\* A signal that arrived leads to campd's exit, whatever the processes do.
SignalEndsRun == (signal # 0) ~> (pc = "exited")

\* A group being cleaned up disappears, even if it ignores SIGTERM.
CleanedGroupsVanish == \A i \in Procs :
    (cleanup[i] # "none") ~> (~GroupExists(i) \/ signal # 0)

-----------------------------------------------------------------------------
(* The supervisor implements the life cycle campd promises. *)

phase == IF pc = "exited" THEN "stopped"
         ELSE IF exit # 0 THEN "stopping"
         ELSE IF failure THEN "failed"
         ELSE IF complete THEN "serving" ELSE "initializing"

lost == \E i \in Managed : IsService(i) /\ ~alive[i]

L == INSTANCE Lifecycle WITH code <- exit

\* Every step of the supervisor is a step of Lifecycle or leaves it unchanged.
ImplementsLifecycle == L!Spec

\* Initialization completes, fails or is cut short by a signal; a lost Service is
\* published; and a stop is carried out.
ImplementsFairLifecycle == L!FairSpec
=============================================================================

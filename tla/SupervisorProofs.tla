--------------------------- MODULE SupervisorProofs ---------------------------
(***************************************************************************)
(* Theorems about Supervisor, for every list of declarations, every        *)
(* threshold and every bound: what is launched and when campd is ready;    *)
(* that no process group escapes it; and what all of it amounts to, the    *)
(* life cycle of campd.                                                    *)
(***************************************************************************)
EXTENDS Supervisor, SequenceTheorems, TLAPS

\* The signal being handled is known as soon as shutdown begins.
Stopping == pc \in {"shutdown", "term", "kill", "exited"}
ExitKnown == Stopping => exit # 0

TypeInv == TypeOK /\ ExitKnown

\* The declarations are records of the declared kinds.
LEMMA DeclFacts ==
    ASSUME decl \in Declarations
    PROVE  /\ Len(decl) \in Procs /\ Len(decl) \in Nat /\ Len(decl) <= MaxProcs
           /\ \A i \in 1..Len(decl) : /\ i \in Procs
                                      /\ decl[i] \in Declared
                                      /\ IsJob(i) <=> ~IsService(i)
                                      /\ Probed(i) \in BOOLEAN
                                      /\ IsJob(i) => ~Probed(i)
<1>1. decl \in Seq(Declared) /\ Len(decl) \in Procs
  BY DeclarationsAssumption
<1>2. \A i \in 1..Len(decl) : decl[i] \in Declared
  BY <1>1
<1>3. QED
  BY <1>1, <1>2, BoundsAssumption DEF Declared, Procs, IsJob, IsService, Probed

\* observe() stays within the states of a probe.
LEMMA ObserveType ==
    ASSUME NEW p \in ProbeStates, NEW success \in BOOLEAN
    PROVE  Observe(p, success) \in ProbeStates
  BY ThresholdsAssumption DEF Observe, ProbeStates, Saturated

LEMMA NewProbeType == NewProbe \in ProbeStates
  BY ThresholdsAssumption DEF NewProbe, ProbeStates

\* schedule_cleanup() preserves the types of what it changes.
LEMMA CleanupTypes ==
    ASSUME TypeOK, NEW i \in Procs, NEW exists, ScheduleCleanup(i, exists)
    PROVE  /\ sent' \in [Procs -> SUBSET (Signals \cup {SIGTERM, SIGKILL})]
           /\ cleanup' \in [Procs -> {"none", "termed", "killed"}]
           /\ timer' \in [Procs -> 0..2]
<1>1. CASE exists /\ cleanup[i] = "none"
  <2>1. sent[i] \cup {SIGTERM} \in SUBSET (Signals \cup {SIGTERM, SIGKILL})
    BY DEF TypeOK
  <2>2. QED
    BY <1>1, <2>1 DEF ScheduleCleanup, TypeOK
<1>2. CASE ~(exists /\ cleanup[i] = "none")
  BY <1>2 DEF ScheduleCleanup, cleanupVars, TypeOK
<1>3. QED
  BY <1>1, <1>2

\* A step of the supervisor's drive() preserves the types.
LEMMA DriveTypes == TypeInv /\ DriveStep => TypeInv'
<1> SUFFICES ASSUME TypeInv, DriveStep PROVE TypeInv'
  OBVIOUS
<1> USE DEF TypeInv, TypeOK, ExitKnown, Stopping
<1> USE DEF supervisorVars, dataVars, bookVars, outerVars, runVars, osVars, tableVars,
        probeVars, workerVars, cleanupVars, driveVars, startVars, shutVars
<1>1. ASSUME NEW i \in Procs, ReapLeader(i) PROVE TypeInv'
  <2>1. /\ leader' \in [Procs -> {"none", "running", "ok", "bad", "reaped"}]
        /\ status' \in [Procs -> {"none", "ok", "bad"}]
    BY <1>1 DEF ReapLeader, Zombie
  <2>2. sent' \in [Procs -> SUBSET (Signals \cup {SIGTERM, SIGKILL})]
        /\ cleanup' \in [Procs -> {"none", "termed", "killed"}]
        /\ timer' \in [Procs -> 0..2]
    BY <1>1, CleanupTypes DEF ReapLeader
  <2>3. alive' \in [Procs -> BOOLEAN] /\ residual' \in [Procs -> BOOLEAN]
    BY <1>1 DEF ReapLeader, Residual
  <2>4. cancel' \in [Procs -> BOOLEAN] /\ failure' \in BOOLEAN
    <3>1. (cancel[i] \/ Probed(i)) \in BOOLEAN /\ (failure \/ (IsService(i) /\ ~complete)) \in BOOLEAN
      BY Zenon
    <3>2. QED
      BY <1>1, <3>1 DEF ReapLeader
  <2>q. QED
    BY <1>1, <2>1, <2>2, <2>3, <2>4 DEF ReapLeader
<1>2. ASSUME NEW i \in Procs, ReapOrphan(i) PROVE TypeInv'
  BY <1>2 DEF ReapOrphan
<1>3. CASE ReapNone
  BY <1>3 DEF ReapNone, Driving
<1>4. ASSUME ApplyEvent PROVE
        /\ chan' \in Seq([proc : Procs, success : BOOLEAN])
        /\ probe' \in [Procs -> ProbeStates]
        /\ everReady' \in SUBSET Procs
  <2>1. /\ chan # <<>> /\ Head(chan) \in [proc : Procs, success : BOOLEAN]
        /\ Tail(chan) \in Seq([proc : Procs, success : BOOLEAN])
    BY <1>4, HeadTailProperties DEF ApplyEvent
  <2>2. DEFINE i == Head(chan).proc
               p == IF alive[i] THEN Observe(probe[i], Head(chan).success) ELSE probe[i]
  <2>3. i \in Procs /\ Head(chan).success \in BOOLEAN
    BY <2>1
  <2>4. p \in ProbeStates
    BY <2>3, ObserveType
  <2>q. QED
    BY <1>4, <2>1, <2>3, <2>4 DEF ApplyEvent
<1>5. CASE Drain
  BY <1>4, <1>5 DEF Drain
<1>6. CASE DrainDone
  BY <1>6 DEF DrainDone, Driving
<1>7. CASE Settle
  <2>1. sent' \in [Procs -> SUBSET (Signals \cup {SIGTERM, SIGKILL})]
        /\ cleanup' \in [Procs -> {"none", "termed", "killed"}]
        /\ timer' \in [Procs -> 0..2]
    BY <1>7 DEF Settle, ProcessCleanups
  <2>2. ready' \in BOOLEAN
    BY <1>7 DEF Settle, UpdateReady, Aggregate
  <2>q. QED
    BY <1>7, <2>1, <2>2, SignalsAssumption DEF Settle, Driving
<1>8. CASE Receive
  BY <1>4, <1>8 DEF Receive, Driving
<1>9. CASE ReceiveNothing
  BY <1>9 DEF ReceiveNothing, Driving
<1>q. QED
  BY <1>1, <1>2, <1>3, <1>5, <1>6, <1>7, <1>8, <1>9 DEF DriveStep

\* So does a step of run() or of one of the waits it calls.
LEMMA GateTypes == TypeInv /\ GateStep => TypeInv'
<1> SUFFICES ASSUME TypeInv, GateStep PROVE TypeInv'
  OBVIOUS
<1> USE DEF TypeInv, TypeOK, ExitKnown, Stopping, Driving, Stages
<1> USE DEF supervisorVars, dataVars, bookVars, outerVars, runVars, osVars, tableVars,
        probeVars, workerVars, cleanupVars, driveVars, startVars, shutVars
<1>1. ASSUME UpdateReady PROVE ready' \in BOOLEAN
  BY <1>1 DEF UpdateReady, Aggregate
<1>2. ASSUME FailStartup
      PROVE  /\ failure' \in BOOLEAN /\ complete' \in BOOLEAN /\ ready' \in BOOLEAN
             /\ pc' = "reap" /\ pass' \in 1..2 /\ stage' \in Stages
  <2>1. ready' \in BOOLEAN
    BY <1>1, <1>2 DEF FailStartup
  <2>2. failure' \in BOOLEAN /\ complete' \in BOOLEAN
    BY <1>2 DEF FailStartup
  <2>3. pc' = "reap" /\ pass' \in 1..2 /\ stage' \in Stages
    BY <1>2 DEF FailStartup, Drive
  <2>4. QED
    BY <2>1, <2>2, <2>3
<1>3. ASSUME NEW i \in Procs, Proceed(i)
      PROVE  pc' = "reap" /\ pass' \in 1..2 /\ stage' \in Stages
  BY <1>3 DEF Proceed, Drive
<1>4. ASSUME NEW i \in Procs, Spawn(i) PROVE TypeInv'
  <2>1. i \in 1..Len(decl) /\ index' \in 0..Len(decl)
    BY <1>4, DeclFacts DEF Spawn, Launching
  <2>2. pc' = "reap" /\ pass' \in 1..2 /\ stage' \in Stages
    <3>1. IsJob(i) \/ (IsService(i) /\ Probed(i)) \/ (IsService(i) /\ ~Probed(i))
      BY <2>1, DeclFacts
    <3>2. Drive("job") \/ Drive("service") \/ Proceed(i)
      BY <1>4, <3>1, Zenon DEF Spawn
    <3>3. QED
      BY <3>2, <1>3 DEF Drive
  <2>3. ready' \in BOOLEAN
    BY <1>1, <1>4 DEF Spawn
  <2>4. QED
    BY <1>4, <2>1, <2>2, <2>3 DEF Spawn
<1>5. ASSUME NEW i \in Procs, SpawnError(i) PROVE TypeInv'
  BY <1>2, <1>5 DEF SpawnError
<1>6. ASSUME NEW i \in Procs, ProbeThreadError(i) PROVE TypeInv'
  <2>1. sent[i] \cup {SIGKILL} \in SUBSET (Signals \cup {SIGTERM, SIGKILL})
    OBVIOUS
  <2>2. QED
    BY <1>6, <2>1 DEF ProbeThreadError, Launching
<1>7. ASSUME NEW i \in Procs, ReapPid(i) PROVE TypeInv'
  BY <1>2, <1>7 DEF ReapPid
<1>8. ASSUME NEW i \in Procs, ServiceGate(i) PROVE TypeInv'
  <2>1. CASE FailStartup
    BY <1>2, <1>8, <2>1 DEF ServiceGate
  <2>2. CASE Proceed(i) /\ UNCHANGED <<startVars, ready>>
    BY <1>3, <1>8, <2>2 DEF ServiceGate
  <2>3. CASE Drive("service") /\ UNCHANGED <<startVars, ready>>
    BY <1>8, <2>3, SMTT(30) DEF ServiceGate, Drive
  <2>4. QED
    BY <1>8, <2>1, <2>2, <2>3 DEF ServiceGate
<1>9. ASSUME NEW i \in Procs, JobGate(i) PROVE TypeInv'
  BY <1>2, <1>3, <1>9 DEF JobGate
<1>10. ASSUME NEW i \in Procs, JobAbandoned(i) PROVE TypeInv'
  BY <1>2, <1>10, CleanupTypes DEF JobAbandoned
<1>11. ASSUME NEW i \in Procs, JobRuns(i) PROVE TypeInv'
  BY <1>11 DEF JobRuns, Drive
<1>12. CASE LoopFails
  BY <1>2, <1>12 DEF LoopFails
<1>13. CASE FinishStartup
  BY <1>1, <1>13 DEF FinishStartup, Drive
<1>14. CASE Supervise
  BY <1>14 DEF Supervise, Drive
<1>15. QED
  BY <1>4, <1>5, <1>6, <1>7, <1>8, <1>9, <1>10, <1>11, <1>12, <1>13, <1>14 DEF GateStep

\* So does a step of the shutdown.
LEMMA ShutdownTypes == TypeInv /\ ShutdownStep => TypeInv'
<1> SUFFICES ASSUME TypeInv, ShutdownStep PROVE TypeInv'
  OBVIOUS
<1> USE DEF TypeInv, TypeOK, ExitKnown, Stopping
<1> USE DEF supervisorVars, dataVars, bookVars, outerVars, runVars, osVars, tableVars,
        probeVars, workerVars, cleanupVars, driveVars, startVars, shutVars
<1>1. CASE Shutdown
  <2>1. ShutdownGroups \in SUBSET Procs
    BY DeclFacts DEF ShutdownGroups, Managed, Procs
  <2>2. exit - 128 \in Signals
    BY <1>1, SignalsAssumption DEF Shutdown
  <2>3. sent' \in [Procs -> SUBSET (Signals \cup {SIGTERM, SIGKILL})]
    BY <1>1, <2>2 DEF Shutdown
  <2>4. cancel' \in [Procs -> BOOLEAN]
    <3>1. \A i \in Procs : (cancel[i] \/ (i \in Managed /\ Probed(i))) \in BOOLEAN
      BY Zenon
    <3>2. QED
      BY <1>1, <3>1 DEF Shutdown
  <2>5. QED
    BY <1>1, <2>1, <2>3, <2>4 DEF Shutdown
<1>2. CASE Sweep
  BY <1>2 DEF Sweep
<1>3. CASE KillRemaining
  BY <1>3 DEF KillRemaining
<1>4. CASE Exit
  BY <1>4 DEF Exit
<1>5. QED
  BY <1>1, <1>2, <1>3, <1>4 DEF ShutdownStep

\* So does a step of the environment.
LEMMA EnvironmentTypes ==
    TypeInv /\ (ProcessStep \/ WorkerStep \/ SignalArrives \/ ClockStep) => TypeInv'
<1> SUFFICES ASSUME TypeInv, ProcessStep \/ WorkerStep \/ SignalArrives \/ ClockStep
             PROVE  TypeInv'
  OBVIOUS
<1> USE DEF TypeInv, TypeOK, ExitKnown, Stopping
<1> USE DEF supervisorVars, dataVars, bookVars, outerVars, runVars, osVars, tableVars,
        probeVars, workerVars, cleanupVars, driveVars, startVars, shutVars
<1>1. ASSUME NEW i \in Procs, LeaderExit(i) PROVE TypeInv'
  BY <1>1 DEF LeaderExit, Zombie
<1>2. ASSUME NEW i \in Procs, Fork(i) \/ KidsExit(i) \/ LeaderWaits(i) PROVE TypeInv'
  <2>1. kids' \in [Procs -> {"none", "live", "zombie"}]
    BY <1>2 DEF Fork, KidsExit, LeaderWaits
  <2>2. UNCHANGED <<supervisorVars, leader, signal, chan, workerVars>>
    BY <1>2 DEF Fork, KidsExit, LeaderWaits
  <2>3. QED
    BY <2>1, <2>2
<1>3. ASSUME NEW i \in Procs, WorkerChecks(i) PROVE TypeInv'
  BY <1>3 DEF WorkerChecks
<1>4. ASSUME NEW i \in Procs, WorkerSends(i) PROVE TypeInv'
  <2>1. PICK ok \in BOOLEAN : chan' = Append(chan, [proc |-> i, success |-> ok])
    BY <1>4 DEF WorkerSends
  <2>2. chan' \in Seq([proc : Procs, success : BOOLEAN])
    BY <2>1, AppendProperties
  <2>3. QED
    BY <1>4, <2>2 DEF WorkerSends
<1>5. CASE SignalArrives
  BY <1>5 DEF SignalArrives
<1>6. CASE DeadlinePasses \/ GracePasses
  <2>1. CASE DeadlinePasses
    BY <2>1 DEF DeadlinePasses
  <2>2. CASE GracePasses
    BY <2>2 DEF GracePasses
  <2>3. QED
    BY <1>6, <2>1, <2>2
<1>7. ASSUME NEW i \in Procs, TimerPasses(i) PROVE TypeInv'
  BY <1>7 DEF TimerPasses
<1>8. QED
  BY <1>1, <1>2, <1>3, <1>4, <1>5, <1>6, <1>7 DEF ProcessStep, WorkerStep, ClockStep

LEMMA TypeInvariant == Spec => []TypeInv
<1>1. Init => TypeInv
  <2> SUFFICES ASSUME Init PROVE TypeInv
    OBVIOUS
  <2>1. chan \in Seq([proc : Procs, success : BOOLEAN])
    BY DEF Init
  <2>2. index \in 0..Len(decl)
    BY DeclFacts DEF Init
  <2>3. probe \in [Procs -> ProbeStates]
    BY NewProbeType DEF Init
  <2>4. /\ complete \in BOOLEAN /\ failure \in BOOLEAN /\ expired \in BOOLEAN
        /\ late \in BOOLEAN /\ ready \in BOOLEAN
    BY DEF Init
  <2>5. /\ alive \in [Procs -> BOOLEAN] /\ residual \in [Procs -> BOOLEAN]
        /\ cancel \in [Procs -> BOOLEAN]
    BY DEF Init
  <2>6. QED
    BY <2>1, <2>2, <2>3, <2>4, <2>5
       DEF Init, TypeInv, TypeOK, ExitKnown, Stopping, Driving, Stages
<1>2. TypeInv /\ [Next]_vars => TypeInv'
  <2>1. TypeInv /\ UNCHANGED vars => TypeInv'
    BY DEF TypeInv, TypeOK, ExitKnown, Stopping, vars
  <2>2. QED
    BY <2>1, DriveTypes, GateTypes, ShutdownTypes, EnvironmentTypes
       DEF Next, SupervisorStep, Exited
<1>3. QED
  BY <1>1, <1>2, PTL DEF Spec

\* Every variable keeps its type: the states TLC enumerates are of the shape
\* the supervisor's fields allow, for every list of declarations.
THEOREM TypeCorrect == Spec => []TypeOK
  BY TypeInvariant, PTL DEF TypeInv

-----------------------------------------------------------------------------
(***************************************************************************)
(* Launch order and readiness.  None of GatedStart, ReadyMeansStarted and  *)
(* FailedStartupNeverReady is inductive: they follow from what the table   *)
(* of processes records of an exit, and from what each stage of run() has  *)
(* already established.                                                    *)
(***************************************************************************)

\* An exit status is recorded when the leader is reaped, together with whether
\* anything is left of its group; nothing is recorded before the launch.
ExitsRecorded == \A i \in Procs :
    /\ status[i] # "none" => /\ leader[i] = "reaped" /\ ~alive[i]
                             /\ residual[i] \/ kids[i] = "none"
    /\ i > index => status[i] = "none"

\* A probe that is Ready has passed.
PassesRecorded == \A i \in Procs : probe[i].health = "Ready" => i \in everReady

\* What run() requires of process i before it goes on.
GatePassed(i) == /\ IsJob(i) => status[i] = "ok" /\ ~residual[i]
                 /\ Probed(i) => i \in everReady

\* The stages of run(): the gate of the last launched process may still be
\* closed, except before the next launch and at the end.
StageInv ==
    /\ \A i \in Managed : i < index \/ stage \in {"next", "final"} => GatePassed(i)
    /\ stage = "service" => index # 0 /\ IsService(index)
    /\ stage = "job" => index # 0 /\ IsJob(index)
    /\ stage = "final" => index = Len(decl)

\* Only a completed initialization is ever published.
CompleteInv ==
    /\ complete => /\ stage = "supervise" /\ ~failure /\ index = Len(decl)
                   /\ \A i \in Managed : GatePassed(i)
    /\ ready => complete

LaunchInv == ExitsRecorded /\ PassesRecorded /\ StageInv /\ CompleteInv

\* What LaunchInv speaks of, except for the descendants.
launchVars == <<decl, index, stage, status, alive, residual, leader, probe,
                everReady, complete, failure, ready>>

LEMMA LaunchUnchanged ==
    ASSUME TypeInv, LaunchInv, UNCHANGED launchVars,
           \A i \in Procs : leader[i] = "reaped" /\ kids[i] = "none" => kids'[i] = "none"
    PROVE  LaunchInv'
<1> USE DEF launchVars
<1>1. ExitsRecorded'
  BY DEF LaunchInv, ExitsRecorded
<1>2. PassesRecorded' /\ StageInv' /\ CompleteInv'
  BY DEF LaunchInv, PassesRecorded, StageInv, CompleteInv, GatePassed, Managed, IsJob,
         IsService, Probed
<1>3. QED
  BY <1>1, <1>2 DEF LaunchInv

\* Publishing the aggregate keeps `ready => complete'.
LEMMA PublishComplete == UpdateReady => (ready' => complete')
  BY DEF UpdateReady, Aggregate

LEMMA FailStartupLaunch ==
    ASSUME TypeInv, LaunchInv, FailStartup,
           UNCHANGED <<decl, index, status, alive, residual, kids, probe, everReady>>,
           \A i \in Procs : leader[i] = "reaped" => leader'[i] = "reaped"
    PROVE  LaunchInv'
<1>1. ExitsRecorded'
  BY DEF LaunchInv, ExitsRecorded
<1>2. PassesRecorded'
  BY DEF LaunchInv, PassesRecorded
<1>3. StageInv'
  BY DEF LaunchInv, StageInv, FailStartup, Drive, GatePassed, Managed, IsJob, Probed
<1>4. CompleteInv'
  BY PublishComplete DEF FailStartup, CompleteInv
<1>5. QED
  BY <1>1, <1>2, <1>3, <1>4 DEF LaunchInv

LEMMA DriveLaunch == TypeInv /\ LaunchInv /\ DriveStep => LaunchInv'
<1> SUFFICES ASSUME TypeInv, LaunchInv, DriveStep PROVE LaunchInv'
  OBVIOUS
<1> USE DEF supervisorVars, dataVars, bookVars, outerVars, runVars, osVars, tableVars,
        probeVars, workerVars, cleanupVars, driveVars, startVars, shutVars, launchVars
<1> Managed \subseteq Procs
  BY DeclFacts DEF TypeInv, TypeOK, Managed, Procs
<1>1. ASSUME NEW i \in Procs, ReapLeader(i) PROVE LaunchInv'
  <2>1. /\ i \in Managed /\ alive[i] /\ leader[i] \in Zombie
        /\ leader' = [leader EXCEPT ![i] = "reaped"]
        /\ alive' = [alive EXCEPT ![i] = FALSE]
        /\ status' = [status EXCEPT ![i] = leader[i]]
        /\ residual' = [residual EXCEPT ![i] = Residual(i)]
        /\ failure' = (failure \/ (IsService(i) /\ ~complete))
        /\ UNCHANGED <<decl, kids, index, stage, probe, everReady, complete, ready>>
    BY <1>1 DEF ReapLeader
  <2>2. status[i] = "none"
    BY <2>1 DEF LaunchInv, ExitsRecorded
  <2>3. ExitsRecorded'
    BY <2>1 DEF LaunchInv, ExitsRecorded, Residual, TypeInv, TypeOK, Managed
  <2>4. PassesRecorded'
    BY <2>1 DEF LaunchInv, PassesRecorded
  <2>5. ASSUME NEW j \in Managed, GatePassed(j) PROVE GatePassed(j)'
    <3>1. CASE j = i
      BY <2>1, <2>2, <2>5, <3>1 DEF GatePassed, IsJob, Probed
    <3>2. CASE j # i
      BY <2>1, <2>5, <3>2 DEF GatePassed, IsJob, Probed, TypeInv, TypeOK
    <3>3. QED
      BY <3>1, <3>2
  <2>6. StageInv'
    BY <2>1, <2>5 DEF LaunchInv, StageInv, Managed, IsService, IsJob
  <2>7. CompleteInv'
    BY <2>1, <2>5 DEF LaunchInv, CompleteInv, Managed
  <2>8. QED
    BY <2>3, <2>4, <2>6, <2>7 DEF LaunchInv
<1>2. ASSUME NEW i \in Procs, ReapOrphan(i) PROVE LaunchInv'
  <2>1. \A j \in Procs : kids[j] = "none" => kids'[j] = "none"
    BY <1>2 DEF ReapOrphan, TypeInv, TypeOK
  <2>2. UNCHANGED launchVars
    BY <1>2 DEF ReapOrphan
  <2>3. QED
    BY <2>1, <2>2, LaunchUnchanged
<1>3. CASE ReapNone \/ DrainDone \/ ReceiveNothing
  BY <1>3, LaunchUnchanged DEF ReapNone, DrainDone, ReceiveNothing
<1>4. CASE Drain \/ Receive
  <2>1. /\ ApplyEvent
        /\ UNCHANGED <<decl, index, stage, status, alive, residual, leader, kids,
                       complete, failure, ready>>
    BY <1>4 DEF Drain, Receive
  <2>2. PICK i, p : /\ probe' = [probe EXCEPT ![i] = p]
                    /\ everReady' = IF p.health = "Ready" THEN everReady \cup {i}
                                                          ELSE everReady
    BY <2>1 DEF ApplyEvent
  <2>3. PassesRecorded'
    BY <2>2 DEF LaunchInv, PassesRecorded, TypeInv, TypeOK
  <2>4. everReady \subseteq everReady'
    BY <2>2
  <2>5. \A j \in Managed : GatePassed(j) => GatePassed(j)'
    BY <2>1, <2>4 DEF GatePassed, IsJob, Probed
  <2>6. ExitsRecorded' /\ StageInv' /\ CompleteInv'
    BY <2>1, <2>5 DEF LaunchInv, ExitsRecorded, StageInv, CompleteInv, Managed, IsJob, IsService
  <2>7. QED
    BY <2>3, <2>6 DEF LaunchInv
<1>5. CASE Settle
  <2>1. /\ UpdateReady
        /\ UNCHANGED <<decl, index, stage, status, alive, residual, leader, kids, probe,
                       everReady, complete, failure>>
    BY <1>5 DEF Settle
  <2>2. ExitsRecorded' /\ PassesRecorded' /\ StageInv' /\ CompleteInv'
    BY <2>1, PublishComplete DEF LaunchInv, ExitsRecorded, PassesRecorded, StageInv,
       CompleteInv, GatePassed, Managed, IsJob, IsService, Probed
  <2>3. QED
    BY <2>2 DEF LaunchInv
<1>6. QED
  BY <1>1, <1>2, <1>3, <1>4, <1>5 DEF DriveStep

\* Going on after process i, whose gate is open.
LEMMA ProceedLaunch ==
    ASSUME TypeInv, LaunchInv, NEW i \in Procs, i = index, ~failure, Proceed(i),
           GatePassed(i), UNCHANGED <<runVars, startVars, ready>>, ~complete
    PROVE  LaunchInv'
<1> USE DEF outerVars, runVars, osVars, tableVars, probeVars, startVars
<1>1. ExitsRecorded' /\ PassesRecorded'
  BY DEF LaunchInv, ExitsRecorded, PassesRecorded
<1>2. stage' \in {"next", "final"} /\ (stage' = "final" => index = Len(decl))
  BY DeclFacts DEF Proceed, Drive, TypeInv, TypeOK
<1>3. \A j \in Managed : GatePassed(j)'
  BY DEF LaunchInv, StageInv, Managed, GatePassed, IsJob, Probed, TypeInv, TypeOK
<1>4. StageInv' /\ CompleteInv'
  BY <1>2, <1>3 DEF LaunchInv, StageInv, CompleteInv, Managed
<1>5. QED
  BY <1>1, <1>4 DEF LaunchInv

LEMMA GateLaunch == TypeInv /\ LaunchInv /\ GateStep => LaunchInv'
<1> SUFFICES ASSUME TypeInv, LaunchInv, GateStep PROVE LaunchInv'
  OBVIOUS
<1> USE DEF supervisorVars, dataVars, bookVars, outerVars, runVars, osVars, tableVars,
        probeVars, workerVars, cleanupVars, driveVars, startVars, shutVars
<1>1. stage # "supervise" => ~complete
  BY DEF LaunchInv, CompleteInv
<1>2. ASSUME NEW i \in Procs, Spawn(i) PROVE LaunchInv'
  <2>1. /\ stage = "next" /\ ~failure /\ i = index + 1 /\ i \in 1..Len(decl)
        /\ leader' = [leader EXCEPT ![i] = "running"]
        /\ index' = i
        /\ alive' = [alive EXCEPT ![i] = TRUE]
        /\ UpdateReady
        /\ UNCHANGED <<decl, kids, status, residual, probe, everReady, complete, failure>>
    BY <1>2 DEF Spawn, Launching, Procs
  <2>2. ExitsRecorded'
    BY <2>1 DEF LaunchInv, ExitsRecorded, TypeInv, TypeOK
  <2>3. PassesRecorded'
    BY <2>1 DEF LaunchInv, PassesRecorded
  <2>4. \A j \in Managed : GatePassed(j)'
    BY <2>1 DEF LaunchInv, StageInv, GatePassed, IsJob, Probed
  <2>5. i = index' /\ \A j \in Managed' : j = i \/ j \in Managed
    BY <2>1 DEF Managed, TypeInv, TypeOK
  <2>6. \/ IsJob(i) /\ stage' = "job"
        \/ IsService(i) /\ Probed(i) /\ stage' = "service"
        \/ /\ IsService(i) /\ ~Probed(i) /\ stage' \in {"next", "final"}
           /\ stage' = "final" => i = Len(decl)
    <3>1. IsJob(i) \/ (IsService(i) /\ Probed(i)) \/ (IsService(i) /\ ~Probed(i))
      BY <2>1, DeclFacts DEF TypeInv, TypeOK
    <3>2. \/ IsJob(i) /\ Drive("job")
          \/ IsService(i) /\ Probed(i) /\ Drive("service")
          \/ IsService(i) /\ ~Probed(i) /\ Proceed(i)
      BY <1>2, <3>1, Zenon DEF Spawn
    <3>3. Len(decl) \in Nat
      BY DeclFacts DEF TypeInv, TypeOK
    <3>4. QED
      BY <2>1, <3>2, <3>3 DEF Drive, Proceed
  <2>7. stage' \in {"next", "final"} => GatePassed(i)'
    <3>1. IsService(i) => ~IsJob(i)
      BY DEF IsService, IsJob
    <3>2. QED
      BY <2>1, <2>6, <3>1 DEF GatePassed, IsJob, Probed
  <2>8. StageInv'
    <3>1. ASSUME NEW j \in Managed', j < index' \/ stage' \in {"next", "final"}
          PROVE  GatePassed(j)'
      <4>1. CASE j \in Managed
        BY <2>4, <4>1
      <4>2. CASE j = i
        <5>1. ~(j < index')
          BY <2>1, <2>5, <4>2
        <5>2. QED
          BY <2>7, <3>1, <4>2, <5>1
      <4>3. QED
        BY <2>5, <4>1, <4>2
    <3>2. /\ stage' = "service" => index' # 0 /\ IsService(index)'
          /\ stage' = "job" => index' # 0 /\ IsJob(index)'
          /\ stage' = "final" => index' = Len(decl)'
      BY <2>1, <2>6 DEF IsService, IsJob
    <3>3. QED
      BY <3>1, <3>2 DEF StageInv
  <2>9. CompleteInv'
    BY <1>1, <2>1, PublishComplete DEF CompleteInv
  <2>10. QED
    BY <2>2, <2>3, <2>8, <2>9 DEF LaunchInv
<1>3. ASSUME NEW i \in Procs, SpawnError(i) PROVE LaunchInv'
  BY <1>3, FailStartupLaunch DEF SpawnError
<1>4. ASSUME NEW i \in Procs, ProbeThreadError(i) PROVE LaunchInv'
  <2>1. /\ i = index + 1
        /\ leader' = [leader EXCEPT ![i] = "running"]
        /\ UNCHANGED <<decl, index, stage, status, alive, residual, kids, probe,
                       everReady, complete, failure, ready>>
    BY <1>4 DEF ProbeThreadError, Launching
  <2>2. ExitsRecorded'
    BY <2>1 DEF LaunchInv, ExitsRecorded, TypeInv, TypeOK
  <2>3. PassesRecorded' /\ StageInv' /\ CompleteInv'
    BY <2>1 DEF LaunchInv, PassesRecorded, StageInv, CompleteInv, GatePassed, Managed,
       IsJob, IsService, Probed
  <2>4. QED
    BY <2>2, <2>3 DEF LaunchInv
<1>5. ASSUME NEW i \in Procs, ReapPid(i) PROVE LaunchInv'
  <2>1. \A j \in Procs : leader[j] = "reaped" => leader'[j] = "reaped"
    BY <1>5 DEF ReapPid, TypeInv, TypeOK
  <2>2. QED
    BY <1>5, <2>1, FailStartupLaunch DEF ReapPid
<1>6. ASSUME NEW i \in Procs, ServiceGate(i) PROVE LaunchInv'
  <2>1. stage = "service" /\ i = index /\ UNCHANGED runVars
    BY <1>6 DEF ServiceGate
  <2>2. CASE FailStartup
    BY <2>1, <2>2, FailStartupLaunch
  <2>3. CASE ~failure /\ ProbePassed(i) /\ Proceed(i) /\ UNCHANGED <<startVars, ready>>
    <3>1. IsService(i) /\ ~IsJob(i)
      BY <2>1 DEF LaunchInv, StageInv, IsJob, IsService
    <3>2. GatePassed(i)
      BY <2>3, <3>1 DEF ProbePassed, GatePassed, LaunchInv, PassesRecorded
    <3>3. QED
      BY <1>1, <2>1, <2>3, <3>2, ProceedLaunch
  <2>4. CASE Drive("service") /\ UNCHANGED <<startVars, ready>>
    BY <2>1, <2>4, LaunchUnchanged DEF Drive, launchVars
  <2>5. QED
    BY <1>6, <2>2, <2>3, <2>4 DEF ServiceGate
<1>7. ASSUME NEW i \in Procs, JobGate(i) PROVE LaunchInv'
  <2>1. stage = "job" /\ i = index /\ ~failure /\ UNCHANGED runVars
    BY <1>7 DEF JobGate
  <2>2. CASE FailStartup
    BY <2>1, <2>2, FailStartupLaunch
  <2>3. CASE JobSucceeded(i) /\ Proceed(i) /\ UNCHANGED <<startVars, ready>>
    <3>1. i \in 1..Len(decl) /\ IsJob(i)
      BY <2>1 DEF LaunchInv, StageInv, TypeInv, TypeOK
    <3>2. ~Probed(i)
      BY <3>1, DeclFacts DEF TypeInv, TypeOK
    <3>3. GatePassed(i)
      BY <2>3, <3>2 DEF GatePassed, JobSucceeded
    <3>4. QED
      BY <1>1, <2>1, <2>3, <3>3, ProceedLaunch
  <2>4. QED
    BY <1>7, <2>2, <2>3 DEF JobGate
<1>8. ASSUME NEW i \in Procs, JobAbandoned(i) PROVE LaunchInv'
  BY <1>8, FailStartupLaunch DEF JobAbandoned
<1>9. ASSUME NEW i \in Procs, JobRuns(i) PROVE LaunchInv'
  BY <1>9, LaunchUnchanged DEF JobRuns, Drive, launchVars
<1>10. CASE LoopFails
  BY <1>10, FailStartupLaunch DEF LoopFails
<1>11. CASE FinishStartup
  <2>1. /\ stage = "final" /\ stage' = "supervise" /\ complete' = ~failure /\ UpdateReady
        /\ UNCHANGED <<decl, index, status, alive, residual, leader, kids, probe,
                       everReady, failure>>
    BY <1>11 DEF FinishStartup, Drive
  <2>2. ExitsRecorded' /\ PassesRecorded' /\ StageInv'
    BY <2>1 DEF LaunchInv, ExitsRecorded, PassesRecorded, StageInv, GatePassed, Managed,
       IsJob, IsService, Probed
  <2>3. CompleteInv'
    BY <2>1, PublishComplete DEF LaunchInv, CompleteInv, StageInv, GatePassed, Managed,
       IsJob, Probed
  <2>4. QED
    BY <2>2, <2>3 DEF LaunchInv
<1>12. CASE Supervise
  BY <1>12, LaunchUnchanged DEF Supervise, Drive, launchVars
<1>13. QED
  BY <1>2, <1>3, <1>4, <1>5, <1>6, <1>7, <1>8, <1>9, <1>10, <1>11, <1>12 DEF GateStep

LEMMA ShutdownLaunch == TypeInv /\ LaunchInv /\ ShutdownStep => LaunchInv'
<1> SUFFICES ASSUME TypeInv, LaunchInv, ShutdownStep PROVE LaunchInv'
  OBVIOUS
<1> USE DEF supervisorVars, dataVars, bookVars, outerVars, runVars, osVars, tableVars,
        probeVars, workerVars, cleanupVars, driveVars, startVars, shutVars
<1>1. CASE Shutdown
  BY <1>1 DEF Shutdown, LaunchInv, ExitsRecorded, PassesRecorded, StageInv, CompleteInv,
     GatePassed, Managed, IsJob, IsService, Probed
<1>2. CASE Sweep
  <2>1. /\ \A i \in Procs : leader[i] = "reaped" => leader'[i] = "reaped"
        /\ \A i \in Procs : kids[i] = "none" => kids'[i] = "none"
        /\ UNCHANGED <<decl, index, stage, status, alive, residual, probe, everReady,
                       complete, failure, ready>>
    BY <1>2 DEF Sweep, TypeInv, TypeOK, Zombie
  <2>2. QED
    BY <2>1 DEF LaunchInv, ExitsRecorded, PassesRecorded, StageInv, CompleteInv,
       GatePassed, Managed, IsJob, IsService, Probed
<1>3. CASE KillRemaining \/ Exit
  BY <1>3, LaunchUnchanged DEF KillRemaining, Exit, launchVars
<1>4. QED
  BY <1>1, <1>2, <1>3 DEF ShutdownStep

LEMMA EnvironmentLaunch ==
    TypeInv /\ LaunchInv /\ (ProcessStep \/ WorkerStep \/ SignalArrives \/ ClockStep)
      => LaunchInv'
<1> SUFFICES ASSUME TypeInv, LaunchInv, ProcessStep \/ WorkerStep \/ SignalArrives \/ ClockStep
             PROVE  LaunchInv'
  OBVIOUS
<1> USE DEF supervisorVars, dataVars, bookVars, outerVars, runVars, osVars, tableVars,
        probeVars, workerVars, cleanupVars, driveVars, startVars, shutVars, launchVars
<1>1. ASSUME NEW i \in Procs, LeaderExit(i) PROVE LaunchInv'
  <2>1. /\ leader[i] = "running" /\ \A j \in Procs \ {i} : leader'[j] = leader[j]
        /\ UNCHANGED <<decl, index, stage, status, alive, residual, kids, probe,
                       everReady, complete, failure, ready>>
    BY <1>1 DEF LeaderExit, TypeInv, TypeOK
  <2>2. ExitsRecorded'
    BY <2>1 DEF LaunchInv, ExitsRecorded
  <2>3. PassesRecorded' /\ StageInv' /\ CompleteInv'
    BY <2>1 DEF LaunchInv, PassesRecorded, StageInv, CompleteInv, GatePassed, Managed,
       IsJob, IsService, Probed
  <2>4. QED
    BY <2>2, <2>3 DEF LaunchInv
<1>2. ASSUME NEW i \in Procs, Fork(i) \/ KidsExit(i) \/ LeaderWaits(i) PROVE LaunchInv'
  <2>1. \A j \in Procs : leader[j] = "reaped" /\ kids[j] = "none" => kids'[j] = "none"
    BY <1>2 DEF Fork, KidsExit, LeaderWaits, TypeInv, TypeOK
  <2>2. UNCHANGED launchVars
    BY <1>2 DEF Fork, KidsExit, LeaderWaits
  <2>3. QED
    BY <2>1, <2>2, LaunchUnchanged
<1>3. ASSUME NEW i \in Procs, WorkerChecks(i) \/ WorkerSends(i) \/ TimerPasses(i) PROVE LaunchInv'
  BY <1>3, LaunchUnchanged DEF WorkerChecks, WorkerSends, TimerPasses
<1>4. CASE SignalArrives \/ DeadlinePasses \/ GracePasses
  BY <1>4, LaunchUnchanged DEF SignalArrives, DeadlinePasses, GracePasses
<1>5. QED
  BY <1>1, <1>2, <1>3, <1>4 DEF ProcessStep, WorkerStep, ClockStep

LEMMA LaunchInvariant == Spec => [](TypeInv /\ LaunchInv)
<1>1. Init => LaunchInv
  BY DEF Init, LaunchInv, ExitsRecorded, PassesRecorded, StageInv, CompleteInv, Managed, NewProbe
<1>2. TypeInv /\ LaunchInv /\ [Next]_vars => LaunchInv'
  <2>1. TypeInv /\ LaunchInv /\ UNCHANGED vars => LaunchInv'
    BY LaunchUnchanged DEF vars, launchVars
  <2>2. QED
    BY <2>1, DriveLaunch, GateLaunch, ShutdownLaunch, EnvironmentLaunch
       DEF Next, SupervisorStep, Exited
<1>3. QED
  BY <1>1, <1>2, TypeInvariant, PTL DEF Spec

\* A process that succeeded as a job has left nothing behind, for good.
LEMMA SucceededIsGone ==
    ASSUME TypeInv, LaunchInv, NEW i \in Procs, status[i] = "ok", ~residual[i]
    PROVE  ~GroupExists(i)
  BY DEF LaunchInv, ExitsRecorded, GroupExists, Zombie

LEMMA ManagedAreProcs == TypeInv => Managed \subseteq Procs
  BY DeclFacts DEF TypeInv, TypeOK, Managed, Procs

\* Launch order, for every list of declarations: when process j has been
\* started, every job before it is over without a trace, and every probe before
\* it has passed.
THEOREM LaunchOrder == Spec => []GatedStart
<1>1. TypeInv /\ LaunchInv => GatedStart
  <2> SUFFICES ASSUME TypeInv, LaunchInv, NEW j \in Managed, NEW i \in 1..(j - 1)
               PROVE  /\ IsJob(i) => status[i] = "ok" /\ ~GroupExists(i)
                      /\ Probed(i) => i \in everReady
    BY DEF GatedStart
  <2>1. i \in Managed /\ i < index
    BY DEF Managed, TypeInv, TypeOK
  <2>2. GatePassed(i) /\ i \in Procs
    BY <2>1, ManagedAreProcs DEF LaunchInv, StageInv
  <2>3. QED
    BY <2>2, SucceededIsGone DEF GatePassed
<1>2. QED
  BY <1>1, LaunchInvariant, PTL

\* campd is ready only after a complete launch.
THEOREM ReadyAfterLaunch == Spec => []ReadyMeansStarted
<1>1. TypeInv /\ LaunchInv => ReadyMeansStarted
  BY ManagedAreProcs, SucceededIsGone
     DEF LaunchInv, CompleteInv, GatePassed, ReadyMeansStarted
<1>2. QED
  BY <1>1, LaunchInvariant, PTL

\* A failed initialization is never reported as ready.
THEOREM FailureIsNeverReady == Spec => []FailedStartupNeverReady
<1>1. LaunchInv => FailedStartupNeverReady
  BY DEF LaunchInv, CompleteInv, FailedStartupNeverReady
<1>2. QED
  BY <1>1, LaunchInvariant, PTL

-----------------------------------------------------------------------------
(***************************************************************************)
(* What is published, and what a launch finds.                             *)
(***************************************************************************)

\* Only Settle brings drive() to where it waits or returns, and Settle ends
\* with update_ready(); everything else there leaves the aggregate alone.
LEMMA CurrentStep == TypeInv /\ ReadyIsCurrent /\ [Next]_vars => ReadyIsCurrent'
<1> SUFFICES ASSUME TypeInv, ReadyIsCurrent, [Next]_vars PROVE ReadyIsCurrent'
  OBVIOUS
<1> USE DEF supervisorVars, dataVars, bookVars, outerVars, runVars, osVars, tableVars,
        probeVars, workerVars, cleanupVars, driveVars, startVars, shutVars
<1>1. ASSUME pc' \notin {"recv", "gate"} PROVE ReadyIsCurrent'
  BY <1>1 DEF ReadyIsCurrent
<1>2. ASSUME UNCHANGED <<pc, ready, complete, failure, decl, index, alive, probe>>
      PROVE  ReadyIsCurrent'
  BY <1>2 DEF ReadyIsCurrent, Aggregate, ServicesReady, Managed, IsService, Probed
<1>3. CASE Settle
  BY <1>3 DEF Settle, UpdateReady, ReadyIsCurrent
<1>4. CASE DriveStep
  <2>1. ASSUME NEW i \in Procs, ReapLeader(i) \/ ReapOrphan(i) PROVE pc' = "reap"
    BY <2>1 DEF ReapLeader, ReapOrphan
  <2>2. CASE ReapNone \/ Drain \/ DrainDone \/ Receive \/ ReceiveNothing
    BY <1>1, <2>2 DEF ReapNone, Drain, DrainDone, Receive, ReceiveNothing
  <2>3. QED
    BY <1>1, <1>3, <1>4, <2>1, <2>2 DEF DriveStep
<1>5. CASE GateStep
  <2>1. ASSUME NEW i \in Procs, Spawn(i) PROVE pc' = "reap"
    <3>1. i \in 1..Len(decl)
      BY <2>1 DEF Spawn, Launching, Procs
    <3>2. IsJob(i) \/ (IsService(i) /\ Probed(i)) \/ (IsService(i) /\ ~Probed(i))
      BY <3>1, DeclFacts DEF TypeInv, TypeOK
    <3>3. Drive("job") \/ Drive("service") \/ Proceed(i)
      BY <2>1, <3>2, Zenon DEF Spawn
    <3>4. QED
      BY <3>3 DEF Proceed, Drive
  <2>2. ASSUME NEW i \in Procs, ProbeThreadError(i) PROVE pc' = "reap_pid"
    BY <2>2 DEF ProbeThreadError
  <2>3. ASSUME NEW i \in Procs,
               \/ SpawnError(i) \/ ReapPid(i) \/ ServiceGate(i) \/ JobGate(i)
               \/ JobAbandoned(i) \/ JobRuns(i)
        PROVE  pc' = "reap"
    BY <2>3 DEF SpawnError, ReapPid, ServiceGate, JobGate, JobAbandoned, JobRuns, FailStartup,
       Proceed, Drive
  <2>4. CASE LoopFails \/ FinishStartup \/ Supervise
    BY <1>1, <2>4 DEF LoopFails, FinishStartup, Supervise, FailStartup, Drive
  <2>5. QED
    BY <1>1, <1>5, <2>1, <2>2, <2>3, <2>4 DEF GateStep
<1>6. CASE ShutdownStep
  BY <1>1, <1>6 DEF ShutdownStep, Shutdown, Sweep, Waiting, KillRemaining, Exit
<1>7. CASE ProcessStep \/ WorkerStep \/ SignalArrives \/ ClockStep
  BY <1>2, <1>7 DEF ProcessStep, WorkerStep, ClockStep, LeaderExit, Fork, KidsExit,
     LeaderWaits, WorkerChecks, WorkerSends, SignalArrives, DeadlinePasses, GracePasses,
     TimerPasses
<1>8. CASE UNCHANGED vars
  BY <1>2, <1>8 DEF vars
<1>9. QED
  BY <1>4, <1>5, <1>6, <1>7, <1>8 DEF Next, SupervisorStep, Exited

\* Whenever the supervisor waits for an event or decides what to do next, the
\* readiness endpoint shows the aggregate of what it has reaped and probed.
THEOREM PublishedIsCurrent == Spec => []ReadyIsCurrent
<1>1. Init => ReadyIsCurrent
  BY DEF Init, ReadyIsCurrent
<1>2. QED
  BY <1>1, CurrentStep, TypeInvariant, PTL DEF Spec

\* Until the first failure run() keeps what it started: no Service has exited,
\* and a cleanup can only be that of the job being waited for, whose exit left
\* descendants behind, so that its gate will fail.
HealthInv == ~failure /\ stage # "supervise" => \A i \in Procs :
    /\ i \in Managed /\ IsService(i) => alive[i]
    /\ cleanup[i] # "none" => stage = "job" /\ i = index /\ ~alive[i] /\ residual[i]

\* What HealthInv speaks of.
healthVars == <<decl, index, stage, alive, residual, cleanup, failure>>

LEMMA HealthUnchanged == HealthInv /\ UNCHANGED healthVars => HealthInv'
  BY DEF healthVars, HealthInv, Managed, IsService

\* A job that is alive is the last one launched, and run() waits for it.
LEMMA LiveJobIsLast ==
    ASSUME TypeInv, LaunchInv, stage # "supervise", NEW i \in Managed, IsJob(i), alive[i]
    PROVE  i = index /\ stage = "job"
<1>1. i \in Procs /\ status[i] = "none"
  BY ManagedAreProcs DEF LaunchInv, ExitsRecorded
<1>2. ~GatePassed(i)
  BY <1>1 DEF GatePassed
<1>3. i = index /\ stage \notin {"next", "final"}
  BY <1>2 DEF LaunchInv, StageInv, Managed, TypeInv, TypeOK
<1>4. stage # "service"
  BY <1>3 DEF LaunchInv, StageInv, IsJob, IsService
<1>5. QED
  BY <1>3, <1>4 DEF TypeInv, TypeOK, Stages

LEMMA HealthStep == TypeInv /\ LaunchInv /\ HealthInv /\ [Next]_vars => HealthInv'
<1> SUFFICES ASSUME TypeInv, LaunchInv, HealthInv, [Next]_vars PROVE HealthInv'
  OBVIOUS
<1> USE DEF supervisorVars, dataVars, bookVars, outerVars, runVars, osVars, tableVars,
        probeVars, workerVars, cleanupVars, driveVars, startVars, shutVars
<1>1. ASSUME failure' \/ stage' = "supervise" PROVE HealthInv'
  BY <1>1 DEF HealthInv
<1>2. ASSUME NEW i \in Procs, ReapLeader(i) PROVE HealthInv'
  <2> SUFFICES ASSUME ~failure', stage # "supervise" PROVE HealthInv'
    BY <1>1, <1>2 DEF ReapLeader
  <2>1. /\ i \in Managed /\ alive[i] /\ ~failure
        /\ alive' = [alive EXCEPT ![i] = FALSE]
        /\ residual' = [residual EXCEPT ![i] = Residual(i)]
        /\ ScheduleCleanup(i, Residual(i))
        /\ UNCHANGED <<decl, index, stage>>
    BY <1>2 DEF ReapLeader
  <2>2. ~complete /\ ~IsService(i)
    <3>1. ~complete
      BY DEF LaunchInv, CompleteInv
    <3>2. QED
      BY <1>2, <3>1, Zenon DEF ReapLeader
  <2>3. i = index /\ stage = "job"
    <3>1. i \in 1..Len(decl)
      BY <2>1, DeclFacts DEF Managed, TypeInv, TypeOK
    <3>2. IsJob(i)
      BY <2>2, <3>1, DeclFacts DEF TypeInv, TypeOK
    <3>3. QED
      BY <2>1, <3>2, LiveJobIsLast
  <2>4. \A j \in Procs : cleanup'[j] # "none" => j = i /\ Residual(i)
    <3>1. \A j \in Procs : cleanup[j] = "none"
      BY <2>1, <2>3 DEF HealthInv
    <3>2. QED
      BY <2>1, <3>1 DEF ScheduleCleanup, TypeInv, TypeOK
  <2>5. QED
    BY <2>1, <2>2, <2>3, <2>4 DEF HealthInv, Managed, IsService, TypeInv, TypeOK
<1>3. CASE Settle
  <2>1. /\ \A i \in Procs : cleanup'[i] # "none" => cleanup[i] # "none"
        /\ UNCHANGED <<decl, index, stage, alive, residual, failure>>
    BY <1>3 DEF Settle, ProcessCleanups
  <2>2. QED
    BY <2>1 DEF HealthInv, Managed, IsService
<1>4. CASE ReapNone \/ Drain \/ DrainDone \/ Receive \/ ReceiveNothing
  BY <1>4, HealthUnchanged DEF ReapNone, Drain, DrainDone, Receive, ReceiveNothing, healthVars
<1>5. ASSUME NEW i \in Procs, Spawn(i) PROVE HealthInv'
  <2>1. /\ stage = "next" /\ ~failure /\ i = index + 1 /\ index' = i
        /\ alive' = [alive EXCEPT ![i] = TRUE]
        /\ UNCHANGED <<decl, residual, cleanup>>
    BY <1>5 DEF Spawn, Launching
  <2>2. \A j \in Procs : cleanup'[j] = "none"
    BY <2>1 DEF HealthInv
  <2>3. \A j \in Managed' : j = i \/ j \in Managed
    BY <2>1 DEF Managed, TypeInv, TypeOK
  <2>4. QED
    BY <2>1, <2>2, <2>3 DEF HealthInv, IsService, TypeInv, TypeOK
<1>6. ASSUME NEW i \in Procs, JobGate(i), ~failure' PROVE HealthInv'
  <2>1. stage = "job" /\ i = index /\ ~residual[i]
        /\ UNCHANGED <<decl, index, alive, residual, cleanup>>
    BY <1>6 DEF JobGate, JobSucceeded, FailStartup
  <2>2. ~failure
    BY <1>6 DEF JobGate
  <2>3. \A j \in Procs : cleanup[j] = "none"
    BY <2>1, <2>2 DEF HealthInv
  <2>4. QED
    BY <2>1, <2>2, <2>3 DEF HealthInv, Managed, IsService
<1>7. ASSUME NEW i \in Procs, ServiceGate(i), ~failure' PROVE HealthInv'
  <2>1. /\ stage = "service" /\ ~failure
        /\ UNCHANGED <<decl, index, alive, residual, cleanup>>
    BY <1>7 DEF ServiceGate, FailStartup
  <2>2. \A j \in Procs : cleanup[j] = "none"
    BY <2>1 DEF HealthInv
  <2>3. QED
    BY <2>1, <2>2 DEF HealthInv, Managed, IsService
<1>8. ASSUME NEW i \in Procs, SpawnError(i) \/ ReapPid(i) \/ JobAbandoned(i) PROVE HealthInv'
  BY <1>1, <1>8 DEF SpawnError, ReapPid, JobAbandoned, FailStartup
<1>9. ASSUME NEW i \in Procs, ProbeThreadError(i) \/ JobRuns(i) PROVE HealthInv'
  BY <1>9, HealthUnchanged DEF ProbeThreadError, JobRuns, Drive, healthVars
<1>10. CASE LoopFails \/ FinishStartup \/ Supervise
  BY <1>1, <1>10 DEF LoopFails, FinishStartup, Supervise, FailStartup, Drive
<1>11. CASE ShutdownStep
  BY <1>11, HealthUnchanged DEF ShutdownStep, Shutdown, Sweep, KillRemaining, Exit, healthVars
<1>12. CASE ProcessStep \/ WorkerStep \/ SignalArrives \/ ClockStep
  BY <1>12, HealthUnchanged DEF ProcessStep, WorkerStep, ClockStep, LeaderExit, Fork, KidsExit,
     LeaderWaits, WorkerChecks, WorkerSends, SignalArrives, DeadlinePasses, GracePasses,
     TimerPasses, healthVars
<1>13. ASSUME NEW i \in Procs, ReapOrphan(i) PROVE HealthInv'
  BY <1>13, HealthUnchanged DEF ReapOrphan, healthVars
<1>14. CASE UNCHANGED vars
  BY <1>14, HealthUnchanged DEF vars, healthVars
<1>15. QED
  BY <1>1, <1>2, <1>3, <1>4, <1>5, <1>6, <1>7, <1>8, <1>9, <1>10, <1>11, <1>12, <1>13, <1>14
     DEF Next, SupervisorStep, DriveStep, GateStep, Exited

LEMMA HealthInvariant == Spec => [](TypeInv /\ LaunchInv /\ HealthInv)
<1>1. Init => HealthInv
  BY DEF Init, HealthInv, Managed
<1>2. QED
  BY <1>1, HealthStep, LaunchInvariant, PTL DEF Spec

\* run() launches nothing once a Service has exited, nor while the group of a
\* finished job is still being cleaned up.
THEOREM LaunchesAreHealthy == Spec => LaunchesNeedHealth
<1> DEFINE Healthy == index' # index =>
                \A i \in Managed : cleanup[i] = "none" /\ (IsService(i) => alive[i])
<1>1. TypeInv /\ HealthInv /\ [Next]_vars => [Healthy]_vars
  <2> SUFFICES ASSUME TypeInv, HealthInv, Next, index' # index
               PROVE  \A i \in Managed : cleanup[i] = "none" /\ (IsService(i) => alive[i])
    OBVIOUS
  <2>1. PICK i \in Procs : Spawn(i)
    BY DEF Next, SupervisorStep, DriveStep, GateStep, ShutdownStep, ProcessStep, WorkerStep,
       ClockStep, Exited, ReapLeader, ReapOrphan, ReapNone, Drain, DrainDone, Settle, Receive,
       ReceiveNothing, SpawnError, ProbeThreadError, ReapPid, ServiceGate, JobGate,
       JobAbandoned, JobRuns, LoopFails, FinishStartup, Supervise, Shutdown, Sweep,
       KillRemaining, Exit, LeaderExit, Fork, KidsExit, LeaderWaits, WorkerChecks, WorkerSends,
       SignalArrives, DeadlinePasses, GracePasses, TimerPasses, vars, supervisorVars, dataVars,
       bookVars, runVars, outerVars, tableVars
  <2>2. stage = "next" /\ ~failure
    BY <2>1 DEF Spawn, Launching
  <2>3. QED
    BY <2>2, ManagedAreProcs DEF HealthInv
<1>2. QED
  BY <1>1, HealthInvariant, PTL DEF Spec, LaunchesNeedHealth

-----------------------------------------------------------------------------
(* Process groups: cleanup and shutdown. *)

\* Before shutdown() has collected the groups: a managed process that is not
\* alive has been reaped, and what is left of its group is residual; a process
\* outside the table was killed when its probe thread could not be created.
Supervising == pc \in Driving \cup {"reap_pid", "shutdown"}

TableInv == Supervising => \A i \in Procs : leader[i] # "none" =>
    \/ /\ i \in Managed
       /\ ~alive[i] => leader[i] = "reaped" /\ (residual[i] \/ kids[i] = "none")
    \/ SIGKILL \in sent[i]

\* Descendants come from a leader that was launched.
KidsInv == \A i \in Procs : kids[i] # "none" => leader[i] # "none"

\* A pending cleanup has sent what its state says.
CleanupInv == \A i \in Procs : /\ cleanup[i] = "termed" => SIGTERM \in sent[i]
                               /\ cleanup[i] = "killed" => SIGKILL \in sent[i]

\* During shutdown the groups that exist are those that terminate_groups()
\* waits for; after it, only killed ones are left.
ShutdownInv ==
    /\ pc = "term" => /\ \A i \in Procs :
                            GroupExists(i) => i \in remaining \/ SIGKILL \in sent[i]
                      /\ \A i \in remaining : exit - 128 \in sent[i]
    /\ pc \in {"kill", "exited"} => \A i \in Procs : GroupExists(i) => SIGKILL \in sent[i]

GroupInv == TableInv /\ KidsInv /\ CleanupInv /\ ShutdownInv

groupVars == <<leader, kids, sent, pc, index, alive, residual, cleanup, exit, remaining>>

\* A step that stays among the supervising states and changes neither the
\* processes nor the table, and only adds signals.
LEMMA SupervisingUnchanged ==
    ASSUME TypeInv, GroupInv, Supervising,
           pc' \in Driving \cup {"reap_pid", "shutdown"}, CleanupInv',
           \A i \in Procs : sent[i] \subseteq sent'[i],
           UNCHANGED <<leader, kids, index, alive, residual>>
    PROVE  GroupInv'
<1>1. TableInv' /\ KidsInv'
  BY DEF GroupInv, TableInv, KidsInv, Managed
<1>2. ShutdownInv'
  BY DEF ShutdownInv, Driving
<1>3. QED
  BY <1>1, <1>2 DEF GroupInv

LEMMA ScheduleKeeps ==
    ASSUME TypeInv, CleanupInv, NEW i \in Procs, NEW exists, ScheduleCleanup(i, exists)
    PROVE  CleanupInv' /\ \A j \in Procs : sent[j] \subseteq sent'[j]
<1>1. CASE exists /\ cleanup[i] = "none"
  <2>1. /\ sent' = [sent EXCEPT ![i] = @ \cup {SIGTERM}]
        /\ cleanup' = [cleanup EXCEPT ![i] = "termed"]
    BY <1>1 DEF ScheduleCleanup
  <2>2. QED
    BY <2>1 DEF CleanupInv, TypeInv, TypeOK
<1>2. CASE ~(exists /\ cleanup[i] = "none")
  BY <1>2 DEF ScheduleCleanup, cleanupVars, CleanupInv
<1>3. QED
  BY <1>1, <1>2

LEMMA DriveGroups == TypeInv /\ GroupInv /\ DriveStep => GroupInv'
<1> SUFFICES ASSUME TypeInv, GroupInv, DriveStep PROVE GroupInv'
  OBVIOUS
<1> USE DEF supervisorVars, dataVars, bookVars, outerVars, runVars, osVars, tableVars,
        probeVars, workerVars, cleanupVars, driveVars, startVars, shutVars
<1>1. ASSUME NEW i \in Procs, ReapLeader(i) PROVE GroupInv'
  <2>1. CleanupInv' /\ \A j \in Procs : sent[j] \subseteq sent'[j]
    BY <1>1, ScheduleKeeps DEF ReapLeader, GroupInv
  <2>2. /\ pc = "reap" /\ pc' = "reap" /\ i \in Managed
        /\ leader' = [leader EXCEPT ![i] = "reaped"]
        /\ alive' = [alive EXCEPT ![i] = FALSE]
        /\ residual' = [residual EXCEPT ![i] = Residual(i)]
        /\ UNCHANGED <<kids, index>>
    BY <1>1 DEF ReapLeader
  <2>3. TableInv'
    BY <2>1, <2>2 DEF GroupInv, TableInv, Supervising, Driving, Residual, Managed, TypeInv, TypeOK
  <2>4. KidsInv' /\ ShutdownInv'
    BY <2>2 DEF GroupInv, KidsInv, ShutdownInv, TypeInv, TypeOK
  <2>5. QED
    BY <2>1, <2>3, <2>4 DEF GroupInv
<1>2. ASSUME NEW i \in Procs, ReapOrphan(i) PROVE GroupInv'
  BY <1>2 DEF ReapOrphan, GroupInv, TableInv, KidsInv, CleanupInv, ShutdownInv, Supervising,
     Driving, Managed, TypeInv, TypeOK
<1>3. CASE ReapNone \/ Drain \/ DrainDone \/ Receive \/ ReceiveNothing
  <2>1. /\ pc \in Driving /\ pc' \in Driving
        /\ UNCHANGED <<leader, kids, index, alive, residual, sent, cleanup>>
    BY <1>3 DEF ReapNone, Drain, DrainDone, Receive, ReceiveNothing, Driving
  <2>2. QED
    BY <2>1, SupervisingUnchanged DEF GroupInv, CleanupInv, Supervising
<1>4. CASE Settle
  <2>1. /\ pc \in Driving /\ pc' \in Driving \cup {"shutdown"}
        /\ UNCHANGED <<leader, kids, index, alive, residual>>
    BY <1>4 DEF Settle, Driving
  <2>2. CleanupInv' /\ \A j \in Procs : sent[j] \subseteq sent'[j]
    BY <1>4 DEF Settle, ProcessCleanups, KillDue, GroupInv, CleanupInv, TypeInv, TypeOK
  <2>3. QED
    BY <2>1, <2>2, SupervisingUnchanged DEF Supervising
<1>5. QED
  BY <1>1, <1>2, <1>3, <1>4 DEF DriveStep

LEMMA GateGroups == TypeInv /\ GroupInv /\ GateStep => GroupInv'
<1> SUFFICES ASSUME TypeInv, GroupInv, GateStep PROVE GroupInv'
  OBVIOUS
<1> USE DEF supervisorVars, dataVars, bookVars, outerVars, runVars, osVars, tableVars,
        probeVars, workerVars, cleanupVars, driveVars, startVars, shutVars
<1>1. ASSUME NEW i \in Procs, Spawn(i) PROVE GroupInv'
  <2>1. /\ pc = "gate" /\ i = index + 1
        /\ leader' = [leader EXCEPT ![i] = "running"]
        /\ index' = i
        /\ alive' = [alive EXCEPT ![i] = TRUE]
        /\ UNCHANGED <<kids, sent, cleanup, residual>>
    BY <1>1 DEF Spawn, Launching
  <2>2. pc' = "reap"
    <3>1. i \in 1..Len(decl)
      BY <1>1 DEF Spawn, Launching, Procs
    <3>2. IsJob(i) \/ (IsService(i) /\ Probed(i)) \/ (IsService(i) /\ ~Probed(i))
      BY <3>1, DeclFacts DEF TypeInv, TypeOK
    <3>3. Drive("job") \/ Drive("service") \/ Proceed(i)
      BY <1>1, <3>2, Zenon DEF Spawn
    <3>4. QED
      BY <3>3 DEF Proceed, Drive
  <2>3. TableInv'
    BY <2>1, <2>2 DEF GroupInv, TableInv, Supervising, Driving, Managed, TypeInv, TypeOK
  <2>4. KidsInv' /\ CleanupInv' /\ ShutdownInv'
    BY <2>1, <2>2 DEF GroupInv, KidsInv, CleanupInv, ShutdownInv, TypeInv, TypeOK
  <2>5. QED
    BY <2>3, <2>4 DEF GroupInv
<1>2. ASSUME NEW i \in Procs, ProbeThreadError(i) PROVE GroupInv'
  <2>1. /\ pc = "gate" /\ pc' = "reap_pid" /\ i = index + 1
        /\ leader' = [leader EXCEPT ![i] = "running"]
        /\ sent' = [sent EXCEPT ![i] = @ \cup {SIGKILL}]
        /\ UNCHANGED <<kids, index, alive, residual, cleanup>>
    BY <1>2 DEF ProbeThreadError, Launching
  <2>2. TableInv'
    BY <2>1 DEF GroupInv, TableInv, Supervising, Driving, Managed, TypeInv, TypeOK
  <2>3. KidsInv' /\ CleanupInv' /\ ShutdownInv'
    BY <2>1 DEF GroupInv, KidsInv, CleanupInv, ShutdownInv, TypeInv, TypeOK
  <2>4. QED
    BY <2>2, <2>3 DEF GroupInv
<1>3. ASSUME NEW i \in Procs, ReapPid(i) PROVE GroupInv'
  <2>1. /\ pc = "reap_pid" /\ pc' = "reap" /\ i = index + 1
        /\ leader[i] \in Zombie
        /\ leader' = [leader EXCEPT ![i] = "reaped"]
        /\ UNCHANGED <<kids, sent, index, alive, residual, cleanup>>
    BY <1>3 DEF ReapPid, FailStartup, Drive
  <2>2. TableInv'
    BY <2>1 DEF GroupInv, TableInv, Supervising, Driving, Managed, Zombie, TypeInv, TypeOK
  <2>3. KidsInv' /\ CleanupInv' /\ ShutdownInv'
    BY <2>1 DEF GroupInv, KidsInv, CleanupInv, ShutdownInv, TypeInv, TypeOK
  <2>4. QED
    BY <2>2, <2>3 DEF GroupInv
<1>4. ASSUME NEW i \in Procs, JobAbandoned(i) PROVE GroupInv'
  <2>1. CleanupInv' /\ \A j \in Procs : sent[j] \subseteq sent'[j]
    BY <1>4, ScheduleKeeps DEF JobAbandoned, GroupInv
  <2>2. /\ pc = "gate" /\ pc' = "reap"
        /\ UNCHANGED <<leader, kids, index, alive, residual>>
    BY <1>4 DEF JobAbandoned, FailStartup, Drive
  <2>3. QED
    BY <2>1, <2>2, SupervisingUnchanged DEF Supervising, Driving
<1>5. ASSUME NEW i \in Procs,
             SpawnError(i) \/ ServiceGate(i) \/ JobGate(i) \/ JobRuns(i)
      PROVE  GroupInv'
  <2>1. /\ pc = "gate" /\ pc' = "reap"
        /\ UNCHANGED <<leader, kids, index, alive, residual, sent, cleanup>>
    BY <1>5 DEF SpawnError, Launching, ServiceGate, JobGate, JobRuns, FailStartup, Proceed, Drive
  <2>2. QED
    BY <2>1, SupervisingUnchanged DEF GroupInv, CleanupInv, Supervising, Driving
<1>6. CASE LoopFails \/ FinishStartup \/ Supervise
  <2>1. /\ pc = "gate" /\ pc' = "reap"
        /\ UNCHANGED <<leader, kids, index, alive, residual, sent, cleanup>>
    BY <1>6 DEF LoopFails, FinishStartup, Supervise, FailStartup, Drive
  <2>2. QED
    BY <2>1, SupervisingUnchanged DEF GroupInv, CleanupInv, Supervising, Driving
<1>7. QED
  BY <1>1, <1>2, <1>3, <1>4, <1>5, <1>6 DEF GateStep

LEMMA TracksGroups == TypeInv /\ GroupInv => GroupsTracked
  BY DEF GroupInv, TableInv, KidsInv, GroupsTracked, GroupExists, Supervising, Zombie

LEMMA ShutdownGroupsKept == TypeInv /\ GroupInv /\ ShutdownStep => GroupInv'
<1> SUFFICES ASSUME TypeInv, GroupInv, ShutdownStep PROVE GroupInv'
  OBVIOUS
<1> USE DEF supervisorVars, dataVars, bookVars, outerVars, runVars, osVars, tableVars,
        probeVars, workerVars, cleanupVars, driveVars, startVars, shutVars
<1>1. CASE Shutdown
  <2>1. /\ pc = "shutdown" /\ pc' = "term" /\ remaining' = ShutdownGroups
        /\ sent' = [i \in Procs |-> IF i \in ShutdownGroups THEN sent[i] \cup {exit - 128}
                                                             ELSE sent[i]]
        /\ UNCHANGED <<leader, kids, exit, cleanup>>
    BY <1>1 DEF Shutdown
  <2>2. \A i \in Procs : GroupExists(i) => i \in ShutdownGroups \/ SIGKILL \in sent[i]
    BY <2>1, TracksGroups DEF GroupsTracked, ShutdownGroups
  <2>3. ShutdownGroups \subseteq Procs
    BY ManagedAreProcs DEF ShutdownGroups
  <2>4. ShutdownInv'
    BY <2>1, <2>2, <2>3 DEF ShutdownInv, GroupExists
  <2>5. TableInv' /\ KidsInv' /\ CleanupInv'
    BY <2>1 DEF GroupInv, TableInv, KidsInv, CleanupInv, Supervising, Driving, TypeInv, TypeOK
  <2>6. QED
    BY <2>4, <2>5 DEF GroupInv
<1>2. CASE Sweep
  <2>1. /\ pc \in {"term", "kill"}
        /\ leader' = [i \in Procs |-> IF leader[i] \in Zombie THEN "reaped" ELSE leader[i]]
        /\ kids' = [i \in Procs |-> IF OrphanZombie(i) THEN "none" ELSE kids[i]]
        /\ remaining' = {i \in remaining : GroupExists(i)'}
        /\ UNCHANGED <<pc, sent, exit, cleanup>>
    BY <1>2 DEF Sweep, Waiting
  <2>2. \A i \in Procs : GroupExists(i)' => GroupExists(i)
    BY <2>1 DEF GroupExists, Zombie, OrphanZombie
  <2>3. ShutdownInv'
    BY <2>1, <2>2 DEF GroupInv, ShutdownInv
  <2>4. TableInv' /\ KidsInv' /\ CleanupInv'
    BY <2>1 DEF GroupInv, TableInv, KidsInv, CleanupInv, Supervising, Driving, Zombie
  <2>5. QED
    BY <2>3, <2>4 DEF GroupInv
<1>3. CASE KillRemaining
  <2>1. /\ pc = "term" /\ pc' = "kill"
        /\ sent' = [i \in Procs |-> IF i \in remaining THEN sent[i] \cup {SIGKILL} ELSE sent[i]]
        /\ UNCHANGED <<leader, kids, cleanup>>
    BY <1>3 DEF KillRemaining
  <2>2. QED
    BY <2>1 DEF GroupInv, ShutdownInv, TableInv, KidsInv, CleanupInv, Supervising, Driving,
       GroupExists
<1>4. CASE Exit
  BY <1>4 DEF Exit, GroupInv, ShutdownInv, TableInv, KidsInv, CleanupInv, Supervising,
     Driving, GroupExists
<1>5. QED
  BY <1>1, <1>2, <1>3, <1>4 DEF ShutdownStep

LEMMA EnvironmentGroups ==
    TypeInv /\ GroupInv /\ (ProcessStep \/ WorkerStep \/ SignalArrives \/ ClockStep)
      => GroupInv'
<1> SUFFICES ASSUME TypeInv, GroupInv, ProcessStep \/ WorkerStep \/ SignalArrives \/ ClockStep
             PROVE  GroupInv'
  OBVIOUS
<1> USE DEF supervisorVars, dataVars, bookVars, outerVars, runVars, osVars, tableVars,
        probeVars, workerVars, cleanupVars, driveVars, startVars, shutVars
<1>1. ASSUME NEW i \in Procs,
             LeaderExit(i) \/ Fork(i) \/ KidsExit(i) \/ LeaderWaits(i)
      PROVE  GroupInv'
  <2>1. /\ leader' = leader \/ (/\ leader[i] = "running"
                                /\ \E z \in Zombie : leader' = [leader EXCEPT ![i] = z])
        /\ kids' = kids \/ ((leader[i] = "running" \/ kids[i] # "none") /\ leader' = leader
                             /\ \E k \in {"none", "live", "zombie"} :
                                    kids' = [kids EXCEPT ![i] = k])
        /\ UNCHANGED <<pc, sent, index, alive, residual, cleanup, exit, remaining>>
    BY <1>1 DEF LeaderExit, Fork, KidsExit, LeaderWaits
  <2>2. \A j \in Procs : GroupExists(j)' => GroupExists(j)
    BY <2>1 DEF GroupExists, Zombie, TypeInv, TypeOK
  <2>3. ShutdownInv'
    BY <2>1, <2>2 DEF GroupInv, ShutdownInv
  <2>4. TableInv'
    BY <2>1 DEF GroupInv, TableInv, Supervising, Managed, Zombie, TypeInv, TypeOK
  <2>5. KidsInv' /\ CleanupInv'
    BY <2>1 DEF GroupInv, KidsInv, CleanupInv, Zombie, TypeInv, TypeOK
  <2>6. QED
    BY <2>3, <2>4, <2>5 DEF GroupInv
<1>2. ASSUME UNCHANGED groupVars PROVE GroupInv'
  BY <1>2 DEF groupVars, GroupInv, TableInv, KidsInv, CleanupInv, ShutdownInv, Supervising,
     Managed, GroupExists
<1>3. ASSUME NEW i \in Procs, WorkerChecks(i) \/ WorkerSends(i) \/ TimerPasses(i)
      PROVE  GroupInv'
  BY <1>2, <1>3 DEF WorkerChecks, WorkerSends, TimerPasses, groupVars
<1>4. CASE SignalArrives \/ DeadlinePasses \/ GracePasses
  BY <1>2, <1>4 DEF SignalArrives, DeadlinePasses, GracePasses, groupVars
<1>5. QED
  BY <1>1, <1>3, <1>4 DEF ProcessStep, WorkerStep, ClockStep

LEMMA GroupInvariant == Spec => [](TypeInv /\ GroupInv)
<1>1. Init => GroupInv
  BY DEF Init, GroupInv, TableInv, KidsInv, CleanupInv, ShutdownInv
<1>2. TypeInv /\ GroupInv /\ [Next]_vars => GroupInv'
  <2>1. TypeInv /\ GroupInv /\ UNCHANGED vars => GroupInv'
    BY DEF vars, GroupInv, TableInv, KidsInv, CleanupInv, ShutdownInv, Supervising,
       Managed, GroupExists
  <2>2. QED
    BY <2>1, DriveGroups, GateGroups, ShutdownGroupsKept, EnvironmentGroups
       DEF Next, SupervisorStep, Exited
<1>3. QED
  BY <1>1, <1>2, TypeInvariant, PTL DEF Spec

\* No process group is lost before shutdown() has collected them.
THEOREM NoGroupIsLost == Spec => []GroupsTracked
  BY GroupInvariant, TracksGroups, PTL

\* Shutdown reaches every group, and kills what is left before campd exits.
THEOREM ShutdownReachesAll == Spec => []NoSurvivorUnsignalled
<1>1. TypeInv /\ GroupInv => NoSurvivorUnsignalled
  BY DEF GroupInv, ShutdownInv, NoSurvivorUnsignalled
<1>2. QED
  BY <1>1, GroupInvariant, PTL

\* SIGKILL follows SIGTERM, or the forwarded signal, and its grace period.
THEOREM GracefulKills == Spec => KillsAreGraceful
<1> DEFINE Graceful == \A i \in Managed : SIGKILL \in sent'[i] \ sent[i] =>
                \/ SIGTERM \in sent[i] /\ timer[i] >= 1
                \/ pc = "term" /\ exit - 128 \in sent[i] /\ late
<1>1. TypeInv /\ GroupInv /\ [Next]_vars => [Graceful]_vars
  <2> SUFFICES ASSUME TypeInv, GroupInv, Next PROVE Graceful
    OBVIOUS
  <2> USE ManagedAreProcs
  <2>1. ASSUME UNCHANGED sent PROVE Graceful
    BY <2>1
  <2>2. CASE Settle
    BY <2>2 DEF Settle, ProcessCleanups, KillDue, GroupInv, CleanupInv, TypeInv, TypeOK
  <2>3. ASSUME NEW i \in Procs, NEW exists, ScheduleCleanup(i, exists) PROVE Graceful
    <3>1. \/ sent' = [sent EXCEPT ![i] = @ \cup {SIGTERM}]
          \/ UNCHANGED sent
      BY <2>3 DEF ScheduleCleanup, cleanupVars
    <3>2. SIGKILL # SIGTERM
      BY DEF SIGKILL, SIGTERM
    <3>3. ASSUME NEW j \in Procs, SIGKILL \in sent'[j] PROVE SIGKILL \in sent[j]
      BY <3>1, <3>2, <3>3 DEF TypeInv, TypeOK
    <3>4. QED
      BY <3>3
  <2>4. ASSUME NEW i \in Procs, ReapLeader(i) \/ JobAbandoned(i) PROVE Graceful
    BY <2>3, <2>4 DEF ReapLeader, JobAbandoned
  <2>5. ASSUME NEW i \in Procs, ProbeThreadError(i) PROVE Graceful
    <3>1. i \notin Managed /\ sent' = [sent EXCEPT ![i] = @ \cup {SIGKILL}]
      BY <2>5 DEF ProbeThreadError, Launching, Managed, TypeInv, TypeOK
    <3>2. QED
      BY <3>1 DEF TypeInv, TypeOK
  <2>6. CASE Shutdown
    <3>1. exit - 128 \in Signals /\ SIGKILL \notin Signals
      <4>1. exit # 0
        BY <2>6 DEF Shutdown, TypeInv, ExitKnown, Stopping
      <4>2. PICK s \in Signals : exit = 128 + s
        BY <4>1 DEF TypeInv, TypeOK
      <4>3. QED
        BY <4>2, SignalsAssumption DEF SIGKILL
    <3>2. QED
      BY <2>6, <3>1 DEF Shutdown, TypeInv, TypeOK
  <2>7. CASE KillRemaining
    BY <2>7 DEF KillRemaining, Waiting, GroupInv, ShutdownInv, TypeInv, TypeOK
  <2>8. ASSUME NEW i \in Procs,
               \/ ReapOrphan(i) \/ Spawn(i) \/ SpawnError(i) \/ ReapPid(i) \/ ServiceGate(i)
               \/ JobGate(i) \/ JobRuns(i) \/ LeaderExit(i) \/ Fork(i) \/ KidsExit(i)
               \/ LeaderWaits(i) \/ WorkerChecks(i) \/ WorkerSends(i) \/ TimerPasses(i)
        PROVE  Graceful
    BY <2>1, <2>8 DEF ReapOrphan, Spawn, SpawnError, ReapPid, ServiceGate, JobGate, JobRuns,
       LeaderExit, Fork, KidsExit, LeaderWaits, WorkerChecks, WorkerSends, TimerPasses,
       supervisorVars, dataVars, cleanupVars
  <2>9. CASE \/ ReapNone \/ Drain \/ DrainDone \/ Receive \/ ReceiveNothing \/ LoopFails
             \/ FinishStartup \/ Supervise \/ Sweep \/ Exit \/ SignalArrives
             \/ DeadlinePasses \/ GracePasses \/ Exited
    BY <2>1, <2>9 DEF ReapNone, Drain, DrainDone, Receive, ReceiveNothing, LoopFails,
       FinishStartup, Supervise, Sweep, Exit, SignalArrives, DeadlinePasses, GracePasses,
       Exited, vars, supervisorVars, dataVars, cleanupVars
  <2>10. QED
    BY <2>2, <2>4, <2>5, <2>6, <2>7, <2>8, <2>9 DEF Next, SupervisorStep, DriveStep, GateStep,
       ShutdownStep, ProcessStep, WorkerStep, ClockStep
<1>2. QED
  BY <1>1, GroupInvariant, PTL DEF Spec, KillsAreGraceful

\* A cleanup is forgotten only when its group is gone or has been killed: when
\* give_up_at passes in the same poll as kill_at, the kill still comes first.
THEOREM CleanupsDoEscalate == Spec => CleanupsEscalate
<1> DEFINE Escalated == \A i \in Procs : cleanup[i] # "none" /\ cleanup'[i] = "none" =>
                ~GroupExists(i) \/ SIGKILL \in sent'[i]
<1>1. TypeInv /\ GroupInv /\ [Next]_vars => [Escalated]_vars
  <2> SUFFICES ASSUME TypeInv, GroupInv, Next PROVE Escalated
    OBVIOUS
  <2>1. CASE Settle
    <3> SUFFICES ASSUME NEW i \in Procs, cleanup[i] # "none", cleanup'[i] = "none",
                        GroupExists(i)
                 PROVE  SIGKILL \in sent'[i]
      OBVIOUS
    <3>1. timer[i] = 2
      BY <2>1 DEF Settle, ProcessCleanups, Dropped
    <3>2. CASE cleanup[i] = "termed"
      BY <2>1, <3>1, <3>2 DEF Settle, ProcessCleanups, KillDue
    <3>3. CASE cleanup[i] = "killed"
      BY <2>1, <3>3 DEF Settle, ProcessCleanups, GroupInv, CleanupInv
    <3>4. QED
      BY <3>2, <3>3 DEF TypeInv, TypeOK
  <2>2. ASSUME NEW i \in Procs, NEW exists, ScheduleCleanup(i, exists) PROVE Escalated
    BY <2>2 DEF ScheduleCleanup, cleanupVars, TypeInv, TypeOK
  <2>3. ASSUME NEW i \in Procs, ReapLeader(i) \/ JobAbandoned(i) PROVE Escalated
    BY <2>2, <2>3 DEF ReapLeader, JobAbandoned
  <2>4. CASE ~(Settle \/ \E i \in Procs : ReapLeader(i) \/ JobAbandoned(i))
    <3>1. UNCHANGED cleanup
      BY <2>4 DEF Next, SupervisorStep, DriveStep, GateStep, ShutdownStep, ProcessStep,
         WorkerStep, ClockStep, Exited, ReapOrphan, ReapNone, Drain, DrainDone, Receive,
         ReceiveNothing, Spawn, SpawnError, ProbeThreadError, ReapPid, ServiceGate, JobGate,
         JobRuns, LoopFails, FinishStartup, Supervise, Shutdown, Sweep, KillRemaining, Exit,
         LeaderExit, Fork, KidsExit, LeaderWaits, WorkerChecks, WorkerSends, SignalArrives,
         DeadlinePasses, GracePasses, TimerPasses, vars, supervisorVars, dataVars, cleanupVars
    <3>2. QED
      BY <3>1
  <2>5. QED
    BY <2>1, <2>3, <2>4
<1>2. QED
  BY <1>1, GroupInvariant, PTL DEF Spec, CleanupsEscalate

-----------------------------------------------------------------------------
(***************************************************************************)
(* Whom a failed initialization ends.  OnlyJobsAreEnded needs to know that *)
(* no cleanup is ever pending for a Service that runs, nor for a process   *)
(* yet to be launched, and that a job that is alive still has its group.   *)
(***************************************************************************)

\* campd is not stopping.
Running == pc \in Driving \cup {"reap_pid"}

\* Nothing is pending for a running Service, nor for an entry not yet in the
\* table; one of these has been sent a signal only if its launch failed.
PendingInv == Running => \A i \in Procs :
    /\ i \in Managed /\ IsService(i) /\ alive[i] => sent[i] = {} /\ cleanup[i] = "none"
    /\ i > index => /\ cleanup[i] = "none"
                    /\ sent[i] # {} => failure \/ pc = "reap_pid"

\* An entry marked alive has not been waited for.
AliveInv == Running => \A i \in Managed : alive[i] => leader[i] \in {"running"} \cup Zombie

\* A cleanup, in either of its states, has begun with SIGTERM.
TermedInv == \A i \in Procs : cleanup[i] # "none" => SIGTERM \in sent[i]

\* Only a launch ends in the wait for a killed process.
ReapPidInv == pc = "reap_pid" => stage = "next"

EndedInv == PendingInv /\ AliveInv /\ TermedInv /\ ReapPidInv /\ NoJobLeftRunning

\* What EndedInv speaks of, except for the place in the program.
endedVars == <<decl, index, stage, alive, leader, sent, cleanup, failure>>

LEMMA EndedUnchanged ==
    ASSUME TypeInv, EndedInv, Running, UNCHANGED endedVars,
           pc' = pc \/ (pc # "reap_pid" /\ pc' # "reap_pid")
    PROVE  EndedInv'
<1> USE DEF endedVars
<1>1. PendingInv'
  BY DEF EndedInv, PendingInv, Running, Managed, IsService
<1>2. AliveInv' /\ TermedInv' /\ ReapPidInv'
  BY DEF EndedInv, AliveInv, TermedInv, ReapPidInv, Managed
<1>3. NoJobLeftRunning'
  BY DEF EndedInv, NoJobLeftRunning, Managed, IsJob, Running
<1>4. QED
  BY <1>1, <1>2, <1>3 DEF EndedInv

\* Once campd is stopping EndedInv says no more than TermedInv.
LEMMA EndedStopped ==
    ASSUME TermedInv, ~Running', UNCHANGED cleanup, \A i \in Procs : sent[i] \subseteq sent'[i]
    PROVE  EndedInv'
  BY DEF Running, Driving, EndedInv, PendingInv, AliveInv, TermedInv, ReapPidInv,
     NoJobLeftRunning

\* A pending cleanup is begun by SIGTERM, and begins for no other group.
LEMMA ScheduleEnded ==
    ASSUME TypeInv, TermedInv, NEW i \in Procs, NEW exists, ScheduleCleanup(i, exists)
    PROVE  /\ TermedInv'
           /\ \A j \in Procs : sent[j] \subseteq sent'[j]
           /\ \A j \in Procs \ {i} : sent'[j] = sent[j] /\ cleanup'[j] = cleanup[j]
           /\ exists => SIGTERM \in sent'[i]
<1>1. CASE exists /\ cleanup[i] = "none"
  <2>1. /\ sent' = [sent EXCEPT ![i] = @ \cup {SIGTERM}]
        /\ cleanup' = [cleanup EXCEPT ![i] = "termed"]
    BY <1>1 DEF ScheduleCleanup
  <2>2. QED
    BY <2>1 DEF TermedInv, TypeInv, TypeOK
<1>2. CASE ~(exists /\ cleanup[i] = "none")
  BY <1>2 DEF ScheduleCleanup, cleanupVars, TermedInv
<1>3. QED
  BY <1>1, <1>2

LEMMA DriveEnded == TypeInv /\ EndedInv /\ DriveStep => EndedInv'
<1> SUFFICES ASSUME TypeInv, EndedInv, DriveStep PROVE EndedInv'
  OBVIOUS
<1> USE DEF supervisorVars, dataVars, bookVars, outerVars, runVars, osVars, tableVars,
        probeVars, workerVars, cleanupVars, driveVars, startVars, shutVars
<1>1. ASSUME NEW i \in Procs, ReapLeader(i) PROVE EndedInv'
  <2>1. /\ pc = "reap" /\ pc' = "reap" /\ i \in Managed
        /\ leader' = [leader EXCEPT ![i] = "reaped"]
        /\ alive' = [alive EXCEPT ![i] = FALSE]
        /\ failure => failure'
        /\ ScheduleCleanup(i, Residual(i))
        /\ UNCHANGED <<decl, index, stage>>
    BY <1>1 DEF ReapLeader
  <2>2. /\ TermedInv'
        /\ \A j \in Procs \ {i} : sent'[j] = sent[j] /\ cleanup'[j] = cleanup[j]
    BY <2>1, ScheduleEnded DEF EndedInv
  <2>3. i <= index
    BY <2>1 DEF Managed
  <2>4. PendingInv'
    BY <2>1, <2>2, <2>3 DEF EndedInv, PendingInv, Running, Driving, Managed, IsService, TypeInv,
       TypeOK
  <2>5. AliveInv' /\ ReapPidInv'
    BY <2>1, ManagedAreProcs DEF EndedInv, AliveInv, ReapPidInv, Running, Driving, Managed,
       TypeInv, TypeOK
  <2>6. NoJobLeftRunning'
    BY <2>1, <2>2, ManagedAreProcs DEF EndedInv, NoJobLeftRunning, Driving, Managed, IsJob,
       TypeInv, TypeOK
  <2>7. QED
    BY <2>2, <2>4, <2>5, <2>6 DEF EndedInv
<1>2. ASSUME NEW i \in Procs, ReapOrphan(i) PROVE EndedInv'
  BY <1>2, EndedUnchanged DEF ReapOrphan, Running, Driving, endedVars
<1>3. CASE ReapNone \/ Drain \/ DrainDone \/ Receive \/ ReceiveNothing
  <2>1. pc \in Driving /\ pc' \in Driving /\ UNCHANGED endedVars
    BY <1>3 DEF ReapNone, Drain, DrainDone, Receive, ReceiveNothing, Driving, endedVars
  <2>2. QED
    BY <2>1, EndedUnchanged DEF Running, Driving
<1>4. CASE Settle
  <2>1. /\ pc = "settle" /\ pc' \in {"recv", "gate", "shutdown"}
        /\ \A j \in Procs : /\ sent[j] \subseteq sent'[j]
                            /\ cleanup'[j] # "none" => cleanup[j] # "none"
                            /\ cleanup[j] = "none" => sent'[j] = sent[j]
        /\ UNCHANGED <<decl, index, stage, alive, leader, failure>>
    BY <1>4 DEF Settle, ProcessCleanups, KillDue
  <2>2. PendingInv'
    <3>1. PendingInv /\ Running
      BY <2>1 DEF EndedInv, Running, Driving
    <3>2. QED
      BY <2>1, <3>1 DEF PendingInv, Running, Managed, IsService
  <2>3. AliveInv' /\ TermedInv' /\ ReapPidInv'
    BY <2>1 DEF EndedInv, AliveInv, TermedInv, ReapPidInv, Running, Driving, Managed
  <2>4. NoJobLeftRunning'
    BY <2>1, ManagedAreProcs DEF EndedInv, NoJobLeftRunning, Driving, Managed, IsJob
  <2>5. QED
    BY <2>2, <2>3, <2>4 DEF EndedInv
<1>5. QED
  BY <1>1, <1>2, <1>3, <1>4 DEF DriveStep

\* run() gives up while no job is alive, or after having scheduled its cleanup.
LEMMA FailStartupEnded ==
    ASSUME TypeInv, EndedInv, pc = "gate", FailStartup, TermedInv',
           UNCHANGED <<decl, index, alive, leader>>,
           \A i \in Procs : ~IsJob(i) \/ i > index =>
               sent'[i] = sent[i] /\ cleanup'[i] = cleanup[i],
           \A i \in Managed : IsJob(i) /\ alive[i] => SIGTERM \in sent'[i]
    PROVE  EndedInv'
<1>1. pc' = "reap" /\ failure' /\ UNCHANGED <<decl, index, alive, leader>>
  BY DEF FailStartup, Drive
<1>2. PendingInv'
  <2>1. ASSUME NEW i \in Procs, i \in Managed, IsService(i), alive[i]
        PROVE  sent'[i] = {} /\ cleanup'[i] = "none"
    BY <2>1 DEF EndedInv, PendingInv, Running, Driving, IsJob, IsService
  <2>2. ASSUME NEW i \in Procs, i > index PROVE cleanup'[i] = "none"
    BY <2>2 DEF EndedInv, PendingInv, Running, Driving
  <2>3. QED
    BY <1>1, <2>1, <2>2 DEF PendingInv, Managed, IsService
<1>3. AliveInv' /\ ReapPidInv' /\ NoJobLeftRunning'
  BY <1>1 DEF EndedInv, AliveInv, ReapPidInv, NoJobLeftRunning, Running, Driving, Managed, IsJob
<1>4. QED
  BY <1>2, <1>3 DEF EndedInv

LEMMA GateEnded == TypeInv /\ LaunchInv /\ EndedInv /\ GateStep => EndedInv'
<1> SUFFICES ASSUME TypeInv, LaunchInv, EndedInv, GateStep PROVE EndedInv'
  OBVIOUS
<1> USE DEF supervisorVars, dataVars, bookVars, outerVars, runVars, osVars, tableVars,
        probeVars, workerVars, cleanupVars, driveVars, startVars, shutVars
<1>1. ASSUME NEW i \in Procs, Spawn(i) PROVE EndedInv'
  <2>1. /\ pc = "gate" /\ ~failure /\ i = index + 1 /\ index' = i /\ i \in 1..Len(decl)
        /\ leader' = [leader EXCEPT ![i] = "running"]
        /\ alive' = [alive EXCEPT ![i] = TRUE]
        /\ UNCHANGED <<decl, sent, cleanup, failure>>
    BY <1>1 DEF Spawn, Launching, Procs
  <2>2. pc' = "reap" /\ stage' # "supervise"
    <3>1. IsJob(i) \/ (IsService(i) /\ Probed(i)) \/ (IsService(i) /\ ~Probed(i))
      BY <2>1, DeclFacts DEF TypeInv, TypeOK
    <3>2. Drive("job") \/ Drive("service") \/ Proceed(i)
      BY <1>1, <3>1, Zenon DEF Spawn
    <3>3. QED
      BY <3>2 DEF Proceed, Drive
  <2>3. \A j \in Managed' : j = i \/ j \in Managed
    BY <2>1 DEF Managed, TypeInv, TypeOK
  <2>4. sent[i] = {} /\ cleanup[i] = "none"
    BY <2>1 DEF EndedInv, PendingInv, Running, Driving, TypeInv, TypeOK
  <2>5. PendingInv'
    <3>1. PendingInv /\ Running
      BY <2>1 DEF EndedInv, Running, Driving
    <3>2. \A j \in Procs : j > index' => j > index
      BY <2>1 DEF Procs, TypeInv, TypeOK
    <3>3. \A j \in Procs : j # i => alive'[j] = alive[j]
      BY <2>1 DEF TypeInv, TypeOK
    <3>4. QED
      BY <2>1, <2>2, <2>3, <2>4, <3>1, <3>2, <3>3 DEF PendingInv, IsService
  <2>6. AliveInv'
    BY <2>1, <2>3, ManagedAreProcs DEF EndedInv, AliveInv, Running, Driving, TypeInv, TypeOK
  <2>7. TermedInv' /\ ReapPidInv' /\ NoJobLeftRunning'
    BY <2>1, <2>2 DEF EndedInv, TermedInv, ReapPidInv, NoJobLeftRunning
  <2>8. QED
    BY <2>5, <2>6, <2>7 DEF EndedInv
<1>2. ASSUME NEW i \in Procs, ProbeThreadError(i) PROVE EndedInv'
  <2>1. /\ pc = "gate" /\ stage = "next" /\ pc' = "reap_pid" /\ i = index + 1
        /\ leader' = [leader EXCEPT ![i] = "running"]
        /\ sent' = [sent EXCEPT ![i] = @ \cup {SIGKILL}]
        /\ UNCHANGED <<decl, index, stage, alive, cleanup, failure>>
    BY <1>2 DEF ProbeThreadError, Launching
  <2>2. i \notin Managed
    BY <2>1 DEF Managed, TypeInv, TypeOK
  <2>3. PendingInv'
    BY <2>1, <2>2 DEF EndedInv, PendingInv, Running, Driving, Managed, IsService, TypeInv, TypeOK
  <2>4. AliveInv' /\ TermedInv' /\ ReapPidInv' /\ NoJobLeftRunning'
    BY <2>1, <2>2 DEF EndedInv, AliveInv, TermedInv, ReapPidInv, NoJobLeftRunning, Running,
       Driving, Managed, TypeInv, TypeOK
  <2>5. QED
    BY <2>3, <2>4 DEF EndedInv
<1>3. ASSUME stage # "supervise", stage # "job" PROVE \A j \in Managed : ~(IsJob(j) /\ alive[j])
  BY <1>3, LiveJobIsLast
<1>4. ASSUME NEW i \in Procs, ReapPid(i) PROVE EndedInv'
  <2>1. /\ pc = "reap_pid" /\ pc' = "reap" /\ failure' /\ i = index + 1
        /\ leader' = [leader EXCEPT ![i] = "reaped"]
        /\ UNCHANGED <<decl, index, alive, sent, cleanup>>
    BY <1>4 DEF ReapPid, FailStartup, Drive
  <2>2. \A j \in Managed : ~(IsJob(j) /\ alive[j])
    BY <1>3, <2>1 DEF EndedInv, ReapPidInv
  <2>3. i \notin Managed
    BY <2>1 DEF Managed, TypeInv, TypeOK
  <2>4. PendingInv'
    BY <2>1 DEF EndedInv, PendingInv, Running, Driving, Managed, IsService
  <2>5. AliveInv' /\ TermedInv' /\ ReapPidInv' /\ NoJobLeftRunning'
    BY <2>1, <2>2, <2>3 DEF EndedInv, AliveInv, TermedInv, ReapPidInv, NoJobLeftRunning, Running,
       Driving, Managed, IsJob, TypeInv, TypeOK
  <2>6. QED
    BY <2>4, <2>5 DEF EndedInv
<1>5. ASSUME pc = "gate", FailStartup,
             UNCHANGED <<decl, index, alive, leader, sent, cleanup>>,
             \A j \in Managed : ~(IsJob(j) /\ alive[j])
      PROVE  EndedInv'
  <2>1. TermedInv'
    BY <1>5 DEF EndedInv, TermedInv
  <2>2. QED
    BY <1>5, <2>1, FailStartupEnded
<1>6. CASE LoopFails \/ \E i \in Procs : SpawnError(i)
  <2>1. /\ pc = "gate" /\ stage = "next" /\ FailStartup
        /\ UNCHANGED <<decl, index, alive, leader, sent, cleanup>>
    BY <1>6 DEF LoopFails, SpawnError, Launching
  <2>2. QED
    BY <1>3, <1>5, <2>1
<1>7. ASSUME pc = "gate", pc' = "reap", stage' # "supervise",
             UNCHANGED <<decl, index, alive, leader, sent, cleanup, failure>>
      PROVE  EndedInv'
  BY <1>7 DEF EndedInv, PendingInv, AliveInv, TermedInv, ReapPidInv, NoJobLeftRunning, Running,
     Driving, Managed, IsService
<1>8. ASSUME NEW i \in Procs, ServiceGate(i) PROVE EndedInv'
  <2>1. /\ pc = "gate" /\ stage = "service"
        /\ UNCHANGED <<decl, index, alive, leader, sent, cleanup>>
    BY <1>8 DEF ServiceGate
  <2>2. CASE FailStartup
    BY <1>3, <1>5, <2>1, <2>2
  <2>3. CASE (Proceed(i) \/ Drive("service")) /\ UNCHANGED startVars
    BY <1>7, <2>1, <2>3 DEF Proceed, Drive
  <2>4. QED
    BY <1>8, <2>2, <2>3 DEF ServiceGate
<1>9. ASSUME NEW i \in Procs, JobGate(i) PROVE EndedInv'
  <2>1. /\ pc = "gate" /\ stage = "job" /\ i = index /\ status[i] # "none"
        /\ UNCHANGED <<decl, index, alive, leader, sent, cleanup>>
    BY <1>9 DEF JobGate
  <2>2. ~alive[i]
    BY <2>1 DEF LaunchInv, ExitsRecorded
  <2>3. \A j \in Managed : ~(IsJob(j) /\ alive[j])
    BY <2>1, <2>2, LiveJobIsLast
  <2>4. CASE FailStartup
    BY <1>5, <2>1, <2>3, <2>4
  <2>5. CASE Proceed(i) /\ UNCHANGED startVars
    BY <1>7, <2>1, <2>5 DEF Proceed, Drive
  <2>6. QED
    BY <1>9, <2>4, <2>5 DEF JobGate
<1>10. ASSUME NEW i \in Procs, JobAbandoned(i) PROVE EndedInv'
  <2>1. /\ pc = "gate" /\ stage = "job" /\ i = index /\ FailStartup
        /\ ScheduleCleanup(i, LeftBehind(i))
        /\ UNCHANGED <<decl, index, alive, leader>>
    BY <1>10 DEF JobAbandoned
  <2>2. /\ TermedInv'
        /\ \A j \in Procs \ {i} : sent'[j] = sent[j] /\ cleanup'[j] = cleanup[j]
        /\ LeftBehind(i) => SIGTERM \in sent'[i]
    BY <2>1, ScheduleEnded DEF EndedInv
  <2>3. IsJob(i) /\ i <= index
    BY <2>1 DEF LaunchInv, StageInv, TypeInv, TypeOK
  <2>4. \A j \in Procs : ~IsJob(j) \/ j > index => j # i
    BY <2>3 DEF Procs, TypeInv, TypeOK
  <2>5. ASSUME NEW j \in Managed, IsJob(j), alive[j] PROVE SIGTERM \in sent'[j]
    <3>1. j = i
      BY <2>1, <2>5, LiveJobIsLast
    <3>2. LeftBehind(i)
      BY <2>1, <2>5, <3>1 DEF EndedInv, AliveInv, Running, Driving, LeftBehind, GroupExists
    <3>3. QED
      BY <2>2, <3>1, <3>2
  <2>6. QED
    BY <2>1, <2>2, <2>4, <2>5, FailStartupEnded
<1>11. ASSUME NEW i \in Procs, JobRuns(i) PROVE EndedInv'
  BY <1>7, <1>11 DEF JobRuns, Drive
<1>12. CASE FinishStartup
  <2>1. /\ pc = "gate" /\ stage = "final" /\ pc' = "reap"
        /\ UNCHANGED <<decl, index, alive, leader, sent, cleanup, failure>>
    BY <1>12 DEF FinishStartup, Drive
  <2>2. \A j \in Managed : ~(IsJob(j) /\ alive[j])
    BY <1>3, <2>1
  <2>3. PendingInv'
    BY <2>1 DEF EndedInv, PendingInv, Running, Driving, Managed, IsService
  <2>4. AliveInv' /\ TermedInv' /\ ReapPidInv' /\ NoJobLeftRunning'
    BY <2>1, <2>2 DEF EndedInv, AliveInv, TermedInv, ReapPidInv, NoJobLeftRunning, Running,
       Driving, Managed, IsJob
  <2>5. QED
    BY <2>3, <2>4 DEF EndedInv
<1>13. CASE Supervise
  BY <1>13, EndedUnchanged DEF Supervise, Drive, Running, Driving, endedVars
<1>14. QED
  BY <1>1, <1>2, <1>4, <1>6, <1>8, <1>9, <1>10, <1>11, <1>12, <1>13 DEF GateStep

LEMMA ShutdownEnded == TypeInv /\ EndedInv /\ ShutdownStep => EndedInv'
<1> SUFFICES ASSUME TypeInv, EndedInv, ShutdownStep PROVE EndedInv'
  OBVIOUS
<1>1. /\ ~Running' /\ UNCHANGED cleanup
      /\ \A i \in Procs : sent[i] \subseteq sent'[i]
  BY DEF ShutdownStep, Shutdown, Sweep, Waiting, KillRemaining, Exit, Running, Driving,
     cleanupVars
<1>2. QED
  BY <1>1, EndedStopped DEF EndedInv

LEMMA EnvironmentEnded ==
    TypeInv /\ EndedInv /\ (ProcessStep \/ WorkerStep \/ SignalArrives \/ ClockStep)
      => EndedInv'
<1> SUFFICES ASSUME TypeInv, EndedInv, ProcessStep \/ WorkerStep \/ SignalArrives \/ ClockStep
             PROVE  EndedInv'
  OBVIOUS
<1> USE DEF supervisorVars, dataVars, bookVars, outerVars, runVars, osVars, tableVars,
        probeVars, workerVars, cleanupVars, driveVars, startVars, shutVars
<1>1. ASSUME NEW i \in Procs, LeaderExit(i) PROVE EndedInv'
  <2>1. /\ \E z \in Zombie : leader' = [leader EXCEPT ![i] = z]
        /\ UNCHANGED <<decl, index, stage, alive, sent, cleanup, failure, pc>>
    BY <1>1 DEF LeaderExit
  <2>2. AliveInv'
    BY <2>1 DEF EndedInv, AliveInv, Running, Managed, TypeInv, TypeOK
  <2>3. PendingInv' /\ TermedInv' /\ ReapPidInv' /\ NoJobLeftRunning'
    BY <2>1 DEF EndedInv, PendingInv, TermedInv, ReapPidInv, NoJobLeftRunning, Running, Managed,
       IsService, IsJob
  <2>4. QED
    BY <2>2, <2>3 DEF EndedInv
<1>2. ASSUME UNCHANGED <<endedVars, pc>> PROVE EndedInv'
  BY <1>2, EndedUnchanged, EndedStopped DEF EndedInv, Running, endedVars
<1>3. ASSUME NEW i \in Procs,
             \/ Fork(i) \/ KidsExit(i) \/ LeaderWaits(i)
             \/ WorkerChecks(i) \/ WorkerSends(i) \/ TimerPasses(i)
      PROVE  EndedInv'
  BY <1>2, <1>3 DEF Fork, KidsExit, LeaderWaits, WorkerChecks, WorkerSends, TimerPasses, endedVars
<1>4. CASE SignalArrives \/ DeadlinePasses \/ GracePasses
  BY <1>2, <1>4 DEF SignalArrives, DeadlinePasses, GracePasses, endedVars
<1>5. QED
  BY <1>1, <1>3, <1>4 DEF ProcessStep, WorkerStep, ClockStep

\* A Service that runs is left alone until campd is told to stop, whatever has
\* failed around it; a job still running when run() gives up has been told to
\* terminate.
THEOREM FailureEndsOnlyJobs == Spec => []OnlyJobsAreEnded
<1>1. Init => EndedInv
  BY DEF Init, EndedInv, PendingInv, AliveInv, TermedInv, ReapPidInv, NoJobLeftRunning, Managed
<1>2. TypeInv /\ LaunchInv /\ EndedInv /\ [Next]_vars => EndedInv'
  <2>1. EndedInv /\ TypeInv /\ UNCHANGED vars => EndedInv'
    BY EndedUnchanged, EndedStopped DEF EndedInv, Running, endedVars, vars
  <2>2. QED
    BY <2>1, DriveEnded, GateEnded, ShutdownEnded, EnvironmentEnded
       DEF Next, SupervisorStep, Exited
<1>3. TypeInv /\ EndedInv => OnlyJobsAreEnded
  BY ManagedAreProcs
     DEF EndedInv, PendingInv, Running, OnlyJobsAreEnded, ServicesSpared, NoJobLeftRunning
<1>4. QED
  BY <1>1, <1>2, <1>3, LaunchInvariant, PTL DEF Spec

-----------------------------------------------------------------------------
(* Every step of Supervisor is a step of Lifecycle or a stutter. *)

\* What the life cycle sees: a Service lost during initialization has already
\* made it fail, the exit code tells whether campd is stopping, and readiness
\* is withdrawn once shutdown has begun.
LifeInv ==
    /\ lost => complete \/ failure
    /\ ~Stopping => exit = 0
    /\ pc \in {"term", "kill", "exited"} => ~ready
    /\ pc = "reap_pid" => ~complete

\* The phases a step can start from.
LEMMA Phases ==
    ASSUME TypeInv, LaunchInv, LifeInv
    PROVE  /\ complete => ~failure
           /\ ready => complete
           /\ ~Stopping => phase = IF failure THEN "failed"
                                   ELSE IF complete THEN "serving" ELSE "initializing"
           /\ pc \in {"shutdown", "term", "kill"} => phase = "stopping"
           /\ pc = "exited" => phase = "stopped"
  BY DEF TypeInv, ExitKnown, LaunchInv, CompleteInv, LifeInv, phase, Stopping

LifeUnchanged == UNCHANGED <<phase, ready, lost, exit>>

LEMMA FailStartupLife ==
    ASSUME TypeInv, LaunchInv, LifeInv, FailStartup, pc \in {"gate", "reap_pid"},
           UNCHANGED <<decl, index, alive, exit>>, ~complete
    PROVE  LifeInv' /\ (L!Fail \/ LifeUnchanged)
<1>1. failure' = TRUE /\ complete' = FALSE /\ ready' = FALSE /\ pc' = "reap"
  BY DEF FailStartup, UpdateReady, Aggregate, Drive
<1>2. exit = 0 /\ ready = FALSE
  BY Phases DEF LifeInv, Stopping, TypeInv, TypeOK
<1>3. lost' = lost
  BY DEF lost, Managed, IsService
<1>4. LifeInv'
  BY <1>1, <1>2 DEF LifeInv, Stopping
<1>5. phase' = "failed"
  BY <1>1, <1>2 DEF phase
<1>6. CASE failure
  <2>1. phase = "failed"
    BY <1>2, <1>6 DEF phase
  <2>2. QED
    BY <1>1, <1>2, <1>3, <1>4, <1>5, <2>1 DEF LifeUnchanged
<1>7. CASE ~failure
  <2>1. phase = "initializing"
    BY <1>2, <1>7 DEF phase
  <2>2. lost' \in BOOLEAN
    BY DEF lost
  <2>3. L!Fail
    BY <1>1, <1>2, <1>5, <2>1, <2>2 DEF L!Fail
  <2>4. QED
    BY <1>4, <2>3
<1>8. QED
  BY <1>4, <1>6, <1>7

\* A step that changes nothing the life cycle sees.
LEMMA Stutter ==
    ASSUME LifeInv, UNCHANGED <<decl, index, alive, complete, failure, exit, ready>>,
           \/ pc' = pc
           \/ ~Stopping /\ ~Stopping' /\ (pc' = "reap_pid" => ~complete)
           \/ (pc = "term" /\ pc' = "kill")
    PROVE  LifeInv' /\ LifeUnchanged
<1>1. lost' = lost
  BY DEF lost, Managed, IsService
<1>2. LifeInv'
  BY <1>1 DEF LifeInv, Stopping
<1>3. phase' = phase
  BY DEF phase, Stopping
<1>4. QED
  BY <1>1, <1>2, <1>3 DEF LifeUnchanged

LifeStep == LifeInv' /\ (L!Next \/ LifeUnchanged)

LEMMA DriveLife == TypeInv /\ LaunchInv /\ LifeInv /\ DriveStep => LifeStep
<1> SUFFICES ASSUME TypeInv, LaunchInv, LifeInv, DriveStep PROVE LifeStep
  OBVIOUS
<1> USE DEF supervisorVars, dataVars, bookVars, outerVars, runVars, osVars, tableVars,
        probeVars, workerVars, cleanupVars, driveVars, startVars, shutVars
<1>1. ASSUME NEW i \in Procs, ReapLeader(i) PROVE LifeStep
  <2>1. /\ i \in Managed /\ alive[i] /\ pc = "reap" /\ pc' = "reap"
        /\ alive' = [alive EXCEPT ![i] = FALSE]
        /\ failure' = (failure \/ (IsService(i) /\ ~complete))
        /\ UNCHANGED <<decl, index, complete, exit, ready>>
    BY <1>1 DEF ReapLeader
  <2>2. exit = 0
    BY <2>1 DEF LifeInv, Stopping
  <2>3. lost' <=> lost \/ IsService(i)
    BY <2>1 DEF lost, Managed, IsService, TypeInv, TypeOK
  <2>4. LifeInv'
    BY <2>1, <2>2, <2>3 DEF LifeInv, Stopping
  <2>5. lost \in BOOLEAN /\ lost' \in BOOLEAN
    BY DEF lost
  <2>6. CASE ~IsService(i) \/ failure \/ complete
    <3>1. (failure' <=> failure) /\ failure' \in BOOLEAN
      BY <2>1, <2>6 DEF TypeInv, TypeOK
    <3>2. phase' = phase
      BY <2>1, <2>2, <3>1 DEF phase
    <3>3. CASE lost' = lost
      BY <2>1, <2>4, <3>2, <3>3 DEF LifeStep, LifeUnchanged
    <3>4. CASE lost' # lost
      <4>1. ~lost /\ lost' = TRUE
        BY <2>3, <2>5, <3>4
      <4>2. IsService(i)
        BY <2>3, <4>1
      <4>3. phase \in {"serving", "failed"}
        BY <2>1, <2>2, <2>6, <4>2 DEF phase
      <4>4. L!Lose
        BY <2>1, <3>2, <4>1, <4>3 DEF L!Lose
      <4>5. QED
        BY <2>4, <4>4 DEF LifeStep, L!Next
    <3>5. QED
      BY <3>3, <3>4
  <2>7. CASE IsService(i) /\ ~failure /\ ~complete
    <3>1. phase = "initializing" /\ phase' = "failed"
      BY <2>1, <2>2, <2>7 DEF phase
    <3>2. L!Fail
      BY <2>1, <2>5, <3>1 DEF L!Fail
    <3>3. QED
      BY <2>4, <3>2 DEF LifeStep, L!Next
  <2>8. QED
    BY <2>6, <2>7
<1>2. ASSUME NEW i \in Procs, ReapOrphan(i) PROVE LifeStep
  BY <1>2, Stutter DEF ReapOrphan, LifeStep
<1>3. CASE ReapNone \/ Drain \/ DrainDone \/ Receive \/ ReceiveNothing
  <2>1. /\ pc \in Driving /\ pc' \in Driving
        /\ UNCHANGED <<decl, index, alive, complete, failure, exit, ready>>
    BY <1>3 DEF ReapNone, Drain, DrainDone, Receive, ReceiveNothing, Driving
  <2>2. ~Stopping /\ ~Stopping' /\ pc' # "reap_pid"
    BY <2>1 DEF Stopping, Driving
  <2>3. QED
    BY <2>1, <2>2, Stutter DEF LifeStep
<1>4. CASE Settle
  <2>1. /\ pc = "settle" /\ UpdateReady
        /\ UNCHANGED <<decl, index, alive, complete, failure, probe>>
    BY <1>4 DEF Settle
  <2>2. exit = 0 /\ phase # "stopping" /\ phase # "stopped"
    BY <2>1 DEF LifeInv, Stopping, phase
  <2>3. lost' = lost
    BY <2>1 DEF lost, Managed, IsService
  <2>4. ready' \in BOOLEAN /\ (ready' => complete /\ ~failure /\ ~lost)
    BY <2>1 DEF UpdateReady, Aggregate, ServicesReady, lost, Managed, IsService
  <2>5. CASE signal # 0
    <3>1. pc' = "shutdown" /\ exit' = 128 + signal
      BY <1>4, <2>5 DEF Settle
    <3>2. signal \in Signals /\ exit' # 0
      BY <2>5, <3>1, SignalsAssumption DEF TypeInv, TypeOK
    <3>3. phase' = "stopping"
      BY <3>1, <3>2 DEF phase
    <3>4. ready' => phase = "serving"
      BY <2>1, <2>2, <2>4 DEF phase
    <3>5. L!Running
      BY <2>2 DEF L!Running, phase
    <3>6. L!Stop
      BY <2>3, <2>4, <3>1, <3>2, <3>3, <3>4, <3>5 DEF L!Stop
    <3>7. LifeInv'
      BY <2>1, <2>3, <3>1 DEF LifeInv, Stopping
    <3>8. QED
      BY <3>6, <3>7 DEF LifeStep, L!Next
  <2>6. CASE signal = 0
    <3>1. pc' \in {"recv", "gate"} /\ exit' = exit
      BY <1>4, <2>6 DEF Settle
    <3>2. phase' = phase
      BY <2>1, <2>2, <3>1 DEF phase
    <3>3. LifeInv'
      BY <2>1, <2>2, <2>3, <3>1 DEF LifeInv, Stopping
    <3>4. CASE complete /\ ~failure
      <4>1. phase = "serving"
        BY <2>1, <2>2, <3>4 DEF phase
      <4>2. L!Publish
        BY <2>3, <2>4, <3>1, <3>2, <4>1 DEF L!Publish
      <4>3. QED
        BY <3>3, <4>2 DEF LifeStep, L!Next
    <3>5. CASE ~(complete /\ ~failure)
      <4>1. ready = FALSE /\ ready' = FALSE
        BY <2>4, <3>5, Phases DEF TypeInv, TypeOK
      <4>2. QED
        BY <2>3, <3>1, <3>2, <3>3, <4>1 DEF LifeStep, LifeUnchanged
    <3>6. QED
      BY <3>4, <3>5
  <2>7. QED
    BY <2>5, <2>6
<1>5. QED
  BY <1>1, <1>2, <1>3, <1>4 DEF DriveStep

LEMMA GateLife == TypeInv /\ LaunchInv /\ LifeInv /\ GateStep => LifeStep
<1> SUFFICES ASSUME TypeInv, LaunchInv, LifeInv, GateStep PROVE LifeStep
  OBVIOUS
<1> USE DEF supervisorVars, dataVars, bookVars, outerVars, runVars, osVars, tableVars,
        probeVars, workerVars, cleanupVars, driveVars, startVars, shutVars
<1>1. stage # "supervise" => ~complete
  BY DEF LaunchInv, CompleteInv
<1>2. ASSUME FailStartup, pc \in {"gate", "reap_pid"}, ~complete,
             UNCHANGED <<decl, index, alive, exit>>
      PROVE  LifeStep
  BY <1>2, FailStartupLife DEF LifeStep, L!Next
<1>3. ASSUME pc = "gate", pc' = "reap",
             UNCHANGED <<decl, index, alive, complete, failure, exit, ready>>
      PROVE  LifeStep
  BY <1>3, Stutter DEF LifeStep, Stopping
<1>4. ASSUME NEW i \in Procs, Spawn(i) PROVE LifeStep
  <2>1. /\ pc = "gate" /\ stage = "next" /\ ~failure /\ i = index + 1 /\ i \in 1..Len(decl)
        /\ alive' = [alive EXCEPT ![i] = TRUE] /\ index' = i /\ UpdateReady
        /\ UNCHANGED <<decl, complete, failure, exit>>
    BY <1>4 DEF Spawn, Launching, Procs
  <2>2. pc' = "reap"
    <3>1. IsJob(i) \/ (IsService(i) /\ Probed(i)) \/ (IsService(i) /\ ~Probed(i))
      BY <2>1, DeclFacts DEF TypeInv, TypeOK
    <3>2. Drive("job") \/ Drive("service") \/ Proceed(i)
      BY <1>4, <3>1, Zenon DEF Spawn
    <3>3. QED
      BY <3>2 DEF Drive, Proceed
  <2>3. ~complete /\ ready = FALSE /\ ready' = FALSE
    BY <1>1, <2>1, Phases DEF UpdateReady, Aggregate, TypeInv, TypeOK
  <2>4. ~lost /\ ~lost'
    <3>1. ~lost
      BY <2>1, <2>3 DEF LifeInv
    <3>2. \A j \in Managed' : j = i \/ j \in Managed
      BY <2>1 DEF Managed, TypeInv, TypeOK
    <3>3. \A j \in Managed' : IsService(j)' => alive'[j]
      BY <2>1, <3>1, <3>2, ManagedAreProcs DEF lost, IsService, TypeInv, TypeOK
    <3>4. QED
      BY <3>1, <3>3 DEF lost
  <2>5. phase' = phase
    BY <2>1, <2>2 DEF phase
  <2>6. lost' = lost
    BY <2>4 DEF lost
  <2>7. LifeInv'
    BY <2>1, <2>2, <2>4 DEF LifeInv, Stopping
  <2>8. QED
    BY <2>1, <2>3, <2>5, <2>6, <2>7 DEF LifeStep, LifeUnchanged
<1>5. ASSUME NEW i \in Procs, SpawnError(i) PROVE LifeStep
  BY <1>1, <1>2, <1>5 DEF SpawnError, Launching
<1>6. ASSUME NEW i \in Procs, ProbeThreadError(i) PROVE LifeStep
  <2>1. /\ pc = "gate" /\ pc' = "reap_pid"
        /\ UNCHANGED <<decl, index, alive, complete, failure, exit, ready>>
    BY <1>6 DEF ProbeThreadError, Launching
  <2>2. ~complete
    BY <1>1, <1>6 DEF ProbeThreadError, Launching
  <2>3. QED
    BY <2>1, <2>2, Stutter DEF LifeStep, Stopping
<1>7. ASSUME NEW i \in Procs, ReapPid(i) PROVE LifeStep
  <2>1. ~complete
    BY <1>7 DEF ReapPid, LifeInv
  <2>2. QED
    BY <1>2, <1>7, <2>1 DEF ReapPid
<1>8. ASSUME NEW i \in Procs, ServiceGate(i) PROVE LifeStep
  <2>1. /\ pc = "gate" /\ stage = "service" /\ UNCHANGED runVars
        /\ \/ FailStartup
           \/ pc' = "reap" /\ UNCHANGED <<startVars, ready>>
    BY <1>8 DEF ServiceGate, Drive, Proceed
  <2>2. QED
    BY <1>1, <1>2, <1>3, <2>1
<1>9. ASSUME NEW i \in Procs, JobGate(i) PROVE LifeStep
  <2>1. /\ pc = "gate" /\ stage = "job" /\ UNCHANGED runVars
        /\ \/ FailStartup
           \/ pc' = "reap" /\ UNCHANGED <<startVars, ready>>
    BY <1>9 DEF JobGate, Drive, Proceed
  <2>2. QED
    BY <1>1, <1>2, <1>3, <2>1
<1>10. ASSUME NEW i \in Procs, JobAbandoned(i) PROVE LifeStep
  BY <1>1, <1>2, <1>10 DEF JobAbandoned
<1>11. ASSUME NEW i \in Procs, JobRuns(i) PROVE LifeStep
  BY <1>3, <1>11 DEF JobRuns, Drive
<1>12. CASE LoopFails
  BY <1>1, <1>2, <1>12 DEF LoopFails
<1>13. CASE FinishStartup
  <2>1. /\ pc = "gate" /\ pc' = "reap" /\ stage = "final" /\ complete' = ~failure
        /\ UpdateReady /\ UNCHANGED <<decl, index, alive, failure, exit>>
    BY <1>13 DEF FinishStartup, Drive
  <2>2. exit = 0 /\ ~complete /\ ready = FALSE
    BY <1>1, <2>1, Phases DEF LifeInv, Stopping, TypeInv, TypeOK
  <2>3. lost' = lost
    BY <2>1 DEF lost, Managed, IsService
  <2>4. LifeInv'
    BY <2>1, <2>2, <2>3 DEF LifeInv, Stopping
  <2>5. CASE failure
    <3>1. ready' = FALSE /\ phase = "failed" /\ phase' = "failed"
      BY <2>1, <2>2, <2>5 DEF UpdateReady, Aggregate, phase
    <3>2. QED
      BY <2>1, <2>2, <2>3, <2>4, <3>1 DEF LifeStep, LifeUnchanged
  <2>6. CASE ~failure
    <3>1. phase = "initializing" /\ phase' = "serving"
      BY <2>1, <2>2, <2>6 DEF phase
    <3>2. ready' \in BOOLEAN
      BY <2>1 DEF UpdateReady, Aggregate
    <3>3. ~lost
      BY <2>2, <2>6 DEF LifeInv
    <3>4. L!Complete
      BY <2>1, <2>3, <3>1, <3>2, <3>3 DEF L!Complete
    <3>5. QED
      BY <2>4, <3>4 DEF LifeStep, L!Next
  <2>7. QED
    BY <2>5, <2>6
<1>14. CASE Supervise
  BY <1>3, <1>14 DEF Supervise, Drive
<1>15. QED
  BY <1>4, <1>5, <1>6, <1>7, <1>8, <1>9, <1>10, <1>11, <1>12, <1>13, <1>14 DEF GateStep

LEMMA OtherLife ==
    TypeInv /\ LaunchInv /\ LifeInv /\
      (ShutdownStep \/ ProcessStep \/ WorkerStep \/ SignalArrives \/ ClockStep) => LifeStep
<1> SUFFICES ASSUME TypeInv, LaunchInv, LifeInv,
                    ShutdownStep \/ ProcessStep \/ WorkerStep \/ SignalArrives \/ ClockStep
             PROVE  LifeStep
  OBVIOUS
<1> USE DEF supervisorVars, dataVars, bookVars, outerVars, runVars, osVars, tableVars,
        probeVars, workerVars, cleanupVars, driveVars, startVars, shutVars
<1>1. CASE Shutdown
  <2>1. /\ pc = "shutdown" /\ pc' = "term" /\ ready' = FALSE
        /\ UNCHANGED <<decl, index, alive, complete, failure, exit>>
    BY <1>1 DEF Shutdown
  <2>2. lost' = lost
    BY <2>1 DEF lost, Managed, IsService
  <2>3. phase = "stopping" /\ phase' = "stopping"
    BY <2>1 DEF phase, TypeInv, ExitKnown, Stopping
  <2>4. L!Withdraw
    BY <2>1, <2>2, <2>3 DEF L!Withdraw
  <2>5. LifeInv'
    BY <2>1, <2>2 DEF LifeInv, Stopping
  <2>6. QED
    BY <2>4, <2>5 DEF LifeStep, L!Next
<1>2. CASE Exit
  <2>1. /\ pc = "kill" /\ pc' = "exited"
        /\ UNCHANGED <<decl, index, alive, complete, failure, exit, ready>>
    BY <1>2 DEF Exit
  <2>2. lost' = lost
    BY <2>1 DEF lost, Managed, IsService
  <2>3. phase = "stopping" /\ phase' = "stopped"
    BY <2>1 DEF phase, TypeInv, ExitKnown, Stopping
  <2>4. L!Exit
    BY <2>1, <2>2, <2>3 DEF L!Exit, LifeInv
  <2>5. LifeInv'
    BY <2>1, <2>2 DEF LifeInv, Stopping
  <2>6. QED
    BY <2>4, <2>5 DEF LifeStep, L!Next
<1>3. CASE Sweep \/ KillRemaining
  BY <1>3, Stutter DEF Sweep, KillRemaining, LifeStep
<1>4. ASSUME UNCHANGED <<decl, index, alive, complete, failure, exit, ready, pc>>
      PROVE  LifeStep
  BY <1>4, Stutter DEF LifeStep
<1>5. ASSUME NEW i \in Procs,
             \/ LeaderExit(i) \/ Fork(i) \/ KidsExit(i) \/ LeaderWaits(i)
             \/ WorkerChecks(i) \/ WorkerSends(i) \/ TimerPasses(i)
      PROVE  LifeStep
  BY <1>4, <1>5 DEF LeaderExit, Fork, KidsExit, LeaderWaits, WorkerChecks, WorkerSends,
     TimerPasses
<1>6. CASE SignalArrives \/ DeadlinePasses \/ GracePasses
  BY <1>4, <1>6 DEF SignalArrives, DeadlinePasses, GracePasses
<1>7. QED
  BY <1>1, <1>2, <1>3, <1>5, <1>6 DEF ShutdownStep, ProcessStep, WorkerStep, ClockStep

\* The supervisor implements the life cycle campd promises: initialization
\* completes or fails for good, a lost Service ends readiness for good, and a
\* signal is the only way out.
THEOREM Implementation == Spec => ImplementsLifecycle
<1>1. Init => LifeInv /\ L!Init
  BY DEF Init, LifeInv, L!Init, Stopping, lost, phase, Managed
<1>2. TypeInv /\ LaunchInv /\ LifeInv /\ [Next]_vars => LifeInv' /\ [L!Next]_(L!lifeVars)
  <2>1. TypeInv /\ LaunchInv /\ LifeInv /\ UNCHANGED vars => LifeStep
    BY Stutter DEF vars, LifeStep
  <2>2. TypeInv /\ LaunchInv /\ LifeInv /\ [Next]_vars => LifeStep
    BY <2>1, DriveLife, GateLife, OtherLife DEF Next, SupervisorStep, Exited
  <2>3. LifeUnchanged => UNCHANGED L!lifeVars
    BY DEF LifeUnchanged, L!lifeVars
  <2>4. QED
    BY <2>2, <2>3 DEF LifeStep
<1>3. QED
  BY <1>1, <1>2, LaunchInvariant, PTL DEF Spec, ImplementsLifecycle, L!Spec
=============================================================================

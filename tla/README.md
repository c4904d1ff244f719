# Sandcamp: specification, model checking and proofs

Sandcamp starts several processes inside one cloud sandbox: a Go SDK turns a
declaration into the sandbox's start configuration, `campd` runs as the first
process of the sandbox and supervises what was declared, and `sandrun` gives a
Sidecar its own root file system before it becomes the Sidecar. This directory
models the parts of that system which have state that several actors change, or
rules that several programs must agree on. It holds TLA+ modules, the TLC
configurations that check them on small instances, and proofs for TLAPS.

Run a check with `tlc -config X.cfg M`, a proof with `tlapm M.tla`. `PROJECT.json`
maps each definition to the lines it translates, and lists the runs, the mutants
(for each property a plausible bug that breaks it), the hazards, the theorems and
the findings.

## 1. The system

| Part | Source | State it keeps | Operations |
|---|---|---|---|
| Go SDK | `spec.go`, `images.go`, `render.go` | none | `Validate`, `RenderStart`, `RenderMounts` |
| Declaration in campd | `cmd/campd/src/spec.rs` | none | `decode`, `validate` |
| Supervisor | `cmd/campd/src/runtime.rs` | the table of managed processes, pending cleanups, probe states, the outcome of the initialization, the signal received | `run`, `spawn`, `wait_for_service`, `wait_for_job`, `drive` (reap, probe events, readiness, cleanups), `fail_startup`, `supervise`, `shutdown` |
| Probe threads | `runtime.rs` (`spawn_probe_worker`, `http_probe`) | one cancel flag each | check, send, sleep |
| Readiness endpoint | `cmd/campd/src/ready.rs`, `lib.rs` | the readiness flag, the shutdown flag | `serve`, `respond`, `Drop` |
| Identity of Main processes | `runtime.rs` (`resolve_main_users`, `apply_main_identity`) | none | passwd lookup, dropping privileges |
| sandrun's command line | `cmd/sandrun/src/lib.rs` | none | `parse_args` |
| Overlay workspace | `cmd/sandrun/src/linux.rs` | on the device: lock, identity, upper, work and merged directories | `stable_overlay_paths` and its callees, `mount_overlay_rootfs` |
| Launch of a Sidecar | `linux.rs` | the mount namespace of one process | `run`, bind sources and targets, mounts, `enter_rootfs`, `apply_identity` |
| Target resolution | `linux.rs` | none | `resolve_target`, `normalize_inner_path` |
| Launcher | `cmd/campd-launcher/main.c` | none | checks that it is root, takes root's identity, execs campd |

How they meet. The SDK's declaration reaches `campd` as an environment variable.
campd validates it again and starts the processes in order, Sidecars first, each
in a process group of its own; a Sidecar's process is a `sandrun` that execs the
Sidecar. A Service with a probe gets a thread that sends its results over a
channel to the supervisor. The supervisor, a single thread, polls: it reaps
children with `waitpid`, drains the channel, publishes readiness in an atomic flag
and advances the cleanups. The endpoint's thread reads that flag for the
platform's HTTP probe. A signal handler writes one atomic integer. Concurrent
`sandrun` processes meet only in the file system: on the overlay device, and in
the bind sources they share.

What is hard about it, and what makes each part correct:

* **Supervisor.** Processes exit, fork and leave descendants at any moment, probe
  results arrive after the death of the Service they are about, deadlines pass
  while the awaited thing happens, a signal comes in the middle of everything.
  Correct means: nothing is launched before what it depends on; campd is ready
  only if everything was launched, has passed and is alive, and never after a
  failed initialization or a lost Service; every process group is terminated,
  gracefully first; a signal always ends the run; the published flag is current.
* **Endpoint.** One thread, one connection at a time, silent or slow clients, and a
  destructor that waits for the thread. Correct means: no answer is older than its
  connection, and neither clients nor campd's exit wait for ever.
* **Overlay workspace.** Two runs at once, and a run that ends between any two
  system calls while the disk keeps what it did. Correct means: one user of a
  layer at a time, one identity per layer, and metadata that a command changed
  stays changed.
* **Declaration.** Three programs in two languages hold the same rules. Correct
  means: what the SDK renders is accepted by all that read it.
* **Probe client.** A blocking thread that a peer may feed byte by byte, hold up or
  leave alone, and that is cancelled at any moment. Correct means: an attempt ends
  in time and says what the Service answered, events keep their period, and a
  cancelled thread is soon gone.
* **Launch of a Sidecar.** sandrun resolves paths of an image that it does not trust
  from outside of the root, and a path changes its meaning as targets are created
  and mounted over. Correct means: no link leads out of the root, each target shows
  the mount declared for it, what was checked holds when it is used, and nothing of
  it shows outside or changes what was there.
* **Bind sources.** Several sandruns make the same directories at once, next to the
  processes of the main image, and may be killed. Correct means: none makes another
  fail, nothing that exists is changed, and what a declaration waits for is there.
* **Identities.** Each call that changes an identity takes away what later calls
  need; the files that names are looked up in can be rewritten by what runs.
  Correct means: a command runs as what was declared and no more, and a name stays
  one user.

## 2. The modules

### ProbeState

`ProbeState::observe()`: counters of consecutive results that saturate, and the
health that they decide. `Supervisor` and `HttpProbe` both use it.

### Lifecycle, the abstract specification

What campd promises to its platform, with four variables: the phase
(`initializing`, `serving`, `failed`, `stopping`, `stopped`), the readiness, whether a
Service is known to be lost, and the exit code. It has no processes, probes or
queues. Initialization completes only with no Service lost; a lost Service ends
readiness for good; a signal's number decides the exit code; readiness is withdrawn
before the exit. `Supervisor` is shown to implement it, and `ReadyEndpoint` is
built on top of it.

### Supervisor

All of `run()` and of what it calls. The supervisor's thread is a program counter
`pc`; the parts of `drive()` are its steps:

| Code | Model |
|---|---|
| `reap_available()` | `ReapLeader`, `ReapOrphan`, `ReapNone` (one `waitpid` each) |
| `drain_probe_events()`, `apply_probe_event()` | `Drain`, `DrainDone`, `ApplyEvent` |
| `update_ready()` | `Aggregate`, `UpdateReady` |
| `process_cleanups()`, `schedule_cleanup()` | `ProcessCleanups`, `ScheduleCleanup`, and the clock's `TimerPasses` |
| the wait in `drive()` (`recv_timeout`) | `Receive`, `ReceiveNothing`, after `Settle` |
| the loop of `run()` | `Proceed`, `Launching`, `LoopFails`, `FinishStartup`, `Supervise` |
| `spawn()` | `Spawn`, `SpawnError`, `ProbeThreadError` and the `ReapPid` it blocks in |
| `wait_for_service()` | `ServiceGate` |
| `wait_for_job()` | `JobGate`, `JobAbandoned`, `JobRuns` |
| `fail_startup()` | `FailStartup` |
| `shutdown()`, `terminate_groups()` | `Shutdown`, `Sweep`, `KillRemaining`, `Exit` |
| probe thread | `WorkerChecks` (with any result), `WorkerSends` |
| signal handler | `SignalArrives` |
| deadlines and timers | `DeadlinePasses`, `TimerPasses`, `GracePasses` |

Between any two steps of the supervisor the processes act: a leader exits well or
badly, forks, or waits for its children; its descendants exit; a zombie stays until
it is reaped. A process group exists as long as any member does, zombies included,
as `kill(-pgid, 0)` reports. Time is not counted: a deadline may pass at any moment
it is armed, which includes every race between a deadline and what it limits.
A process killed with SIGKILL does not die at once.

### ReadyEndpoint

The endpoint's thread (`Check`, `Accept`, `AcceptNothing`, `Read`, `ReadTimesOut`,
`Write`, `WriteFails`), campd's main thread leaving (`RunReturns`, `Flag`, `WakeUp`,
`Join`) and clients (`Connect`, `Send`, `Close`). Readiness changes as `Lifecycle`
lets it change: what holds here holds over the supervisor, because that implements
`Lifecycle`. `seen` is a history variable with the readiness values since a client
connected.

### OverlayWorkspace

Several `sandrun` runs on one workspace directory. One action per system call that
matters (`Lock`, `Identify`, `WriteIdentity`, `MakeMerged`, `MakeUpper`, `Chown`,
`Chmod`, `MountOverlay`, `Exec`), and `Ends`, which is a failure or a SIGKILL
anywhere. The command that follows keeps the locked descriptor, may close it, may
fork descendants that keep it, and may change its root's metadata. All identities
of an instance have the same hash, which is the case `ensure_identity()` is for.
A killed run leaves the disk as it was: a crash of the whole machine, with writes
lost or reordered, is not modelled, since the disk belongs to one sandbox
instance and goes away with it.

### Declaration and MCDeclaration

The rules of `Spec.Validate()`, `resolveImageSet()`, `validate()` in campd and
`parse_args()` in sandrun, and the conversions between them: defaults, durations
into milliseconds, the default overlay device, options on a command line.
Durations count half milliseconds, so that "a whole millisecond" is a rule with
counterexamples. A path has components and a form, since Go refuses unclean paths
which Rust accepts. Port numbers, ids and times keep their bounds (`MaxId` stands
for `u32::MAX`).

### HttpProbe and MCHttpProbe

The probe thread in detail, where `Supervisor` has one step with any result.

| Code | Model |
|---|---|
| the loop of `spawn_probe_worker()` | `Begin`, `Send`, and what the supervisor makes of an event, `Apply` |
| `http_probe()`: `remaining_until()` and the calls that get its result | `Measure`, then `Enter`; in between the thread may be held up |
| `connect_timeout()`, `write_all()`, `read()` | `Connect`, `Request`, `Read`, `TimeOut` |
| the search for a line end, and what a status line says | `Verdict`, `IsSuccess` |
| `sleep_with_cancel()` | `Nap`, `WakeUp` |
| the Service | `Arrive` (any number of bytes), `Leave` (close or reset) |
| `stop_probe()`, the end of `run()` | `Cancel`, `DropReceiver` |

Time is counted here, unlike in `Supervisor`: `Tick` takes one unit from the
deadline, which is kept as the time that is left. A blocked thread is woken when
its call's time is over; a running one may be held up for `MaxHeld` units in each
round, which stands for a loaded machine. Bytes are counted, in units of which
`Buffer` fill the 128 bytes that are read.

### RootTree, SandrunLaunch and MCSandrunLaunch

`RootTree` has the two lookups of a path: `Resolve`, which is `resolve_target()` with
`normalize_inner_path()`, and `Lookup`, the kernel's. `SandrunLaunch` is `run()` of
sandrun, one action per function it calls, in their order:

| Code | Model |
|---|---|
| `prepare_rootfs`, `resolve_user` | `ReadLower` |
| `prepare_bind_sources` | `PrepareBindSources`, in detail in `BindSources` |
| `unshare_mount_namespace`, `make_mounts_private` | `Unshare`, `MakeMountsPrivate` |
| `prepare_overlay_base`, `mount_overlay_rootfs` | `PrepareOverlayBase`, `MountOverlayRootfs`, in detail in `OverlayWorkspace` |
| `prepare_bind_targets`, the cgroup target | `PrepareBindTargets` |
| `prepare_disk_binds` | `PrepareDiskBinds` |
| `prepare_workdir`, `prepare_executable` | `PrepareWorkdir`, `PrepareExecutable` |
| `validate_resolved_mount_targets` | `ValidateTargets` |
| `prepare_mounts`, `apply_mount` | `PrepareMounts`, `ApplyMount`, `MountDnsFiles` |
| `enter_rootfs`, `change_directory`, `exec` | `EnterRootfs`, `ChangeDirectory`, `Exec` |

Any step may fail (`Fail`), also between two calls that make something, or be killed
there (`FailBetween`): then some of the sources, targets or files are made, and a link at
`resolv.conf` or `hosts` may be removed without the file that replaces it. The state is the merged tree, what the sources are in the
main namespace, the mounts that it sees (`outer`), and the mounts below the root with
the places that they were resolved to. What a path shows in the end is the kernel's
lookup among those mounts (`Seen`), which goes name by name, stops where something is
mounted, and takes `..` as the parent of the directory it has reached.

Two conditions bound what the properties say, and both are needed:

* `LeadingDots`, in `AgreesWithKernel` and `RootIsAsChecked`: a link leads up before it leads
  down, as `../run/r` does. `normalize_inner_path()` drops a name for the `..` behind it
  without looking at it. If `bin` is a link to `usr/bin` and `data` one to `bin/../srv`, sandrun
  resolves `data` to `/srv`, and a process in the root gets to `/usr/srv`.
* `NoLinkIsCovered`, in `TargetsShowTheirMounts`: no mount is made above a link of the image.
  `validate_resolved_mount_targets()` compares where the targets end, not the links on the way.
  If `data` is a link to `/tmp/l` and that one to `/srv`, a bind on `data` goes to
  `/srv`, and then the tmpfs on `/tmp` hides the link that leads there.

The instance has images of both kinds, and TLC refutes the properties without these
conditions.

### BindSources and MCBindSources

`prepare_bind_sources()` of several sandruns at once, one action per system call
(`Resolve`, `Look`, `Mkdir`, `Chmod`, `Verify`, `Return`), started by `Launch` in the
order and behind the gates of campd's `run()`, with `Kill` anywhere in between and
`Appear`, a process of the main namespace that makes any sort of file.

### NamedUsers, ProcessIdentity, IdentitySetup and MCIdentitySetup

`NamedUsers` says which user a name is: `parse_passwd()` line by line, the cache of
`resolve_main_users()`, the lower `/etc/passwd` of a Sidecar, and the processes that
rewrite the files that they see. `ProcessIdentity` follows one process through the
launcher, campd, sandrun and its command; programs are lists of system calls, whose
needs and effects are those of capabilities(7). `IdentitySetup` composes the two:
the identity that a name has got is the one that is applied.

## 3. The runs

| Run | Instance | What it shows |
|---|---|---|
| `supervisor_launch` | three declarations (a job, a probed and a plain Service, in two orders), one signal | launch order, failed initialization, aggregated and current readiness, only jobs are ended, abandoned jobs terminated, refinement of `Lifecycle` |
| `supervisor_groups` | up to two processes, both forking, two different signals | no group is lost, shutdown reaches all, grace before SIGKILL, cleanups escalate |
| `supervisor_liveness` | two declarations, fairness | exits are published, signals end the run, initialization ends, cleaned groups vanish, `Lifecycle` with its fairness |
| `ready_endpoint` | two clients, one signal, fairness | answers are fresh, campd's exit and the clients never wait for ever |
| `http_probe` | six answers, thresholds 2 and 3, fairness | attempts end in time with the right result, events are paced, health is the last decisive run, cancellation is heard |
| `overlay_workspace` | three runs, two identities of one hash, two names | exclusive use, one identity, own merged directories, kept metadata |
| `sandrun_launch` | fifteen command lines on images with links, and every small tree | the lookup agrees with the kernel's, targets show their mounts, checks hold, nothing leaks |
| `bind_sources` | two sandruns and Main, or two that are not waited for; sources that are equal, nested or side by side | sources are there, races are harmless, modes are right |
| `identity_setup` | callers with every set of capabilities, eight contents of `/etc/passwd`, restarts | names are one user, identities are exact, root is never refused, the launcher makes root |
| `declaration` | about 2,500 declarations at and around each bound | SDK, campd and sandrun agree |
| `overlay_identity` | two runs, one identity | a finding, see section 6 |
| `overlay_root` | two runs, one identity | a finding, see section 6 |

Bounds, and why they are enough.

* Three declarations give every kind of predecessor and successor that a gate can
  have (a job before a Service, a Service before a job, something after both).
  Thresholds of 1 are enough in `Supervisor`, whose gates only look at the health;
  `HttpProbe` has thresholds of 2 and 3 with counters that saturate at 3, so that
  both saturate and every shorter run of results occurs after every longer one.
* `MaxQueue = 1` bounds the channel. The hazard of a queue is an event that is
  applied after the death of its sender, and one event is enough for that.
* One forking process in the launch run, two in the group run: groups interact only
  through the supervisor's table and through `waitpid(-1)`, which picks any of two.
* Two clients: one in service and one waiting. A third would wait the same way.
* Three runs of sandrun: a holder, a competitor and a successor; two names make the
  attempts to find a merged directory run out.
* The declarations change one or two fields of a plain one, each to the values on
  both sides of every bound in the code.
* In `HttpProbe` a timeout of two, a period of three and naps of one unit: a timeout
  can be used up by one call or shared by two, an attempt is longer than a nap and
  shorter than a period. A buffer of two units has lines that end before its end, at
  its end, one behind it, and never. One unit of holding up is enough to pass a
  deadline between the moment it is measured and the call.
* `SandrunLaunch` gets two kinds of instances: images that look like images, with links
  at the places where mounts and checks meet (links down and up again and links below `/tmp`
  among them), and all trees of two levels with nine sorts of nodes, with every target of up to three names. At most three
  links are followed, so that circles meet the bound as they do with 40.
* Two sandruns race in `BindSources`: a third one finds what one of the two has made,
  as it would after an `Appear`; the theorems hold for any number of them.
* `IdentitySetup` has three capabilities: one that changes users, one that changes
  groups, one that mounts. No call looks at another.

`CHECK_DEADLOCK FALSE` is set where the system really stops: `OverlayWorkspace` and
`SandrunLaunch` when all runs have ended, `Declaration` when a declaration has been
dealt with, `HttpProbe` when the thread has ended, `BindSources` when every name
exists and every sandrun is done, `IdentitySetup` when a process without a next
step (a failed launcher) has ended.

### Fairness

* `Supervisor`: weak fairness of the supervisor's thread, of the clock, and of the
  death of a process that was sent SIGKILL. Strong fairness of `DrainDone`: the
  loop that drains the channel finds it empty again and again, because a probe
  thread sleeps `period_ms` (at least 100 ms) between two events and applying one
  takes microseconds. Nothing is assumed of processes that were not killed, of
  probes or of signals: a Service may ignore SIGTERM for ever.
* `ReadyEndpoint`: weak fairness of both threads; strong fairness of `Accept`, since
  an accept that fails with a connection waiting is a transient shortage (the code
  logs it, sleeps and tries again). Nothing is assumed of clients. The read and
  write timeouts are steps of the server, so its weak fairness makes them happen.
* `HttpProbe`: weak fairness of time, of the thread unless it is blocked in
  `connect_timeout()`, and of timeouts. The Service need not answer, and no connection
  has to be accepted: a blocked call ends by its timeout if by nothing else.

## 4. The theorems

Proved by TLAPS for every value of the constants (any declarations, thresholds,
number of processes, clients, runs, identities and sandruns, any times and trees),
from the assumptions named in the modules and nothing else.

| Theorem | Statement |
|---|---|
| `SupervisorProofs!TypeCorrect` | `Spec => []TypeOK` |
| `SupervisorProofs!LaunchOrder` | `Spec => []GatedStart` |
| `SupervisorProofs!ReadyAfterLaunch` | `Spec => []ReadyMeansStarted` |
| `SupervisorProofs!FailureIsNeverReady` | `Spec => []FailedStartupNeverReady` |
| `SupervisorProofs!PublishedIsCurrent` | `Spec => []ReadyIsCurrent` |
| `SupervisorProofs!LaunchesAreHealthy` | `Spec => LaunchesNeedHealth` |
| `SupervisorProofs!NoGroupIsLost` | `Spec => []GroupsTracked` |
| `SupervisorProofs!ShutdownReachesAll` | `Spec => []NoSurvivorUnsignalled` |
| `SupervisorProofs!GracefulKills` | `Spec => KillsAreGraceful` |
| `SupervisorProofs!CleanupsDoEscalate` | `Spec => CleanupsEscalate` |
| `SupervisorProofs!FailureEndsOnlyJobs` | `Spec => []OnlyJobsAreEnded` |
| `SupervisorProofs!Implementation` | `Spec => L!Spec`, with `L` the Lifecycle of campd |
| `ReadyEndpointProofs!FreshAnswers` | `Spec => []AnswersAreFresh` |
| `OverlayWorkspaceProofs!LayerIsExclusive` | `Spec => []ExclusiveLayer` |
| `OverlayWorkspaceProofs!LayerHasOneIdentity` | `Spec => []LayerKeepsIdentity` |
| `OverlayWorkspaceProofs!MergedIsUnique` | `Spec => []MergedIsOwn` |
| `OverlayWorkspaceProofs!RootStays` | `Spec => RootIsKept` |
| `HttpProbeProofs!TypeCorrect` | `Spec => []TypeOK` |
| `HttpProbeProofs!AttemptsEnd` | `Spec => []AnswersInTime` |
| `HttpProbeProofs!Paced` | `Spec => EventsArePaced` |
| `HttpProbeProofs!CancelBound` | `Spec => [](EndsSoon /\ after <= 1)`, the safety part of `CancelIsHeard` |
| `HttpProbeProofs!ProbeAnswersRight` | `Spec => []AnswersAreRight` |
| `HttpProbeProofs!HealthFollowsRuns` | `Spec => HealthIsLastRun` |
| `BindSourcesProofs!SourcesExist` | `Spec => []SourcesAreThere` |
| `BindSourcesProofs!NoRaceFails` | `Spec => []RaceIsHarmless` |
| `BindSourcesProofs!MadeOpen` | `Spec => ModesAreRight` |
| `IdentitySetupProofs!NamesAreUsers` | `Spec => []NamesAreRight` |
| `IdentitySetupProofs!DeclaredIdentity` | `Spec => []IdentityIsDeclared` |
| `IdentitySetupProofs!RootMaySetAny` | `Spec => []RootIsNotRefused` |
| `IdentitySetupProofs!LauncherStartsRoot` | `Spec => LauncherMakesRoot` |
| `DeclarationProofs!AcceptedStarts` | `Spec => []AcceptedIsLaunched` |
| `DeclarationProofs!RenderedStarts` | `Spec => []RenderedIsRead` |
| `SandrunLaunchProofs!LaunchInvariant` | `Spec => []LaunchInv`, the inductive invariant |
| `SandrunLaunchProofs!OutsideKeeps` | `Spec => OutsideIsKept` |
| `SandrunLaunchProofs!TargetsStayInside` | `Spec => []StaysInside`, the half of `LookupIsRight` that holds for all links |
| `SandrunLaunchProofs!ResolveIsLookup` | `Resolve(t, target) = Lookup(t, {}, Reports, target)`, for a tree whose links lead up before down |
| `SandrunLaunchProofs!LookupsAreRight` | `Spec => []LookupIsRight` |
| `SandrunLaunchProofs!RootsAreAsChecked` | `Spec => []RootIsAsChecked` |

The inductive invariants, and why the properties need them:

* `TypeInv` adds to `TypeOK` that the exit code is known once shutdown begins:
  without that the signal sent by `Shutdown`, the exit code minus 128, has no type.
* `LaunchInv`. `GatedStart` speaks of all earlier processes, but a gate of `run()`
  looks at the last one only. `StageInv` says what each stage of `run()` already
  knows of the ones before; `ExitsRecorded` ties the recorded exit status to what
  the operating system has reaped and to an empty group; `PassesRecorded` ties the
  health to the history; `CompleteInv` excludes a complete initialization that
  failed, or is ready before it is complete.
* `HealthInv`, for the launches: until the first failure no Service has exited, and a
  cleanup can only be that of the job being waited for, whose gate will fail.
* `GroupInv`. That no group is lost needs the table (`TableInv`: a managed process
  which is not alive was reaped, and what it left is residual), that descendants
  have had a leader (`KidsInv`), that a pending cleanup has sent what its state
  says (`CleanupInv`), and, once `shutdown()` has collected the groups, that
  `remaining` covers what is left (`ShutdownInv`).
* `EndedInv`: until shutdown, nothing is pending for a Service that runs nor for a
  process not yet in the table, neither was sent a signal (`PendingInv`), a process
  marked alive was not waited for (`AliveInv`), and each cleanup began with SIGTERM
  (`TermedInv`).
* `LifeInv`, for the refinement: a Service lost during initialization has made it
  fail by the time any step shows it; readiness is gone before the groups are
  signalled.
* `FreshInv` adds to freshness that the readiness the server holds is in the `seen`
  of the peer it holds it for, as long as that peer is connected.
* `LockInv`: a run past its lock has it, only one does, and a mounted layer is held
  through its command and descendants unless the command closed the descriptor.
  `IdentityInv`: the identity file, once complete, names every run past the check
  and every past user. `MergedInv`: a name that is taken is never given again. `UpperInv`:
  a run fits the upper directory only while no command has changed or is running on it.
* `TimeInv` says of each blocking call what `AnswersInTime` says of the attempt: its
  timeout was measured before the thread was held up, so that it ends at most as much
  after the deadline. `PaceInv` ties the time since the last event to what is left of
  the sleep, and `CancelInv` the time since cancellation to what is left of an attempt
  or a nap. `AnswerInv`: an attempt goes on only while the first line has not been read
  (`UnreadInv`), a call of a thread that is not held up has all the time that its
  attempt has left (`DeadlineInv`), and a good answer was missed only if it came too
  late or was cut short (`MissedInv`). `CountInv` ties each
  saturating counter to the length of the run it counts, as far as a threshold can see.
* `WalkInv`: a sandrun has passed the names above the one it is at, and they are still
  directories, since nothing is removed; what it is about to open was made by a
  sandrun. `ModeInv`: what has the mode of the umask has a maker that is about to open
  it, or was killed. That a lookup which fails meets a file or a link needs the first
  name that cannot be passed, from the well-foundedness of the natural numbers.

* `NamesInv`. A name's identity is what `parse_passwd()` has found in a file that it
  had (`NamesAreResolved`), and a launched process has that of the cache or of the
  lower file (`LaunchedInv`). `ParserIsRight` is about files of any length: the result
  for the first n lines is right for the entries among them, since there is no first
  n for which it is not.
* `SetupInv` says of each program (launcher, campd, sandrun, command), by the number
  of calls it has left, what the calls behind it have done to the credential: which
  ids are set, which groups are gone, which capabilities are still there. A
  failure leaves the process where it was.

* `StagesInv`: what campd gets from the SDK is the rendering of a declaration that
  passed `Validate()`. `ProcessRendered` and `SidecarRendered` compare the rules of the
  SDK with those of campd one by one, `ArgumentsAccepted` those of campd with those of
  sandrun, and `TotalsAgree` carries the waits over to their sum, for lists of any
  length, by induction.
* `SandrunLaunch` has the largest proof, in three parts.

  *What a call does to the tree.* `DescendGrows`, `TargetGrows` and `RegularReplacesLinks` say
  what one call may do, and the induction over the names of a target and over the targets
  (`DirectoriesGrow`, `TargetsGrow`) what all of them may do. `ResolvedIsThere` needs that the
  turns of `resolve_target()` end with a path of names (`TurnIsPath`), and that what it stops at
  is the first link or missing name of it (`StopIsFirst`).

  *The two lookups.* sandrun starts again from the root when it has followed a link and
  normalises the whole path; the kernel goes on from where it is with the names that are
  left. They agree turn by turn: when sandrun has followed n links, the kernel has followed
  the same ones and waits before the same next one, or has reached the same end, found or
  refused (`Agrees`). The names that the kernel has left may begin with `..`, but have none
  behind a name, since every link leads up before it leads down: this is where
  `LeadingDots` is needed. The same argument is made with mounts on the tree (`Overlaid`, `Covers`): sandrun's lookup in the tree t
  in which it prepared the mounts, the kernel's in the root as it is at the end, which differs
  by the mounts and the two DNS files. The kernel either stops at the place that sandrun has
  found, or meets a mount earlier; the comparison of the targets and `NoLinkIsCovered`
  exclude that for a declared target, and `Covered` allows it for the command.

  *The invariant* `LaunchInv`. `BaseInv`: until `prepare_bind_sources()` is done sandrun is in
  the main namespace, from `prepare_overlay_base()` on its mounts are private
  (`NamespaceInv`), and sources have labels that no other mount has (`SourcesInv`).
  `StageInv`: what `prepare_workdir()` and `prepare_executable()` have found still holds, as
  nothing is made between them and the mounts (`HoldsIn`); the queued disk mounts are where
  their targets still resolve to (`DisksInv`); and once mounts are prepared, there is a tree t in
  which all targets resolve, to places none of which is above another, the cgroup mount below
  `/sys` excepted (`Sound`, `Separate`), all that is queued or mounted was prepared in t, and
  the root is t but for `resolv.conf` and `hosts` (`Laid`). That t, which no variable keeps, is
  what the properties need: mounts are made and links replaced one after the other, and what
  is true of a target in the tree at the end does not follow from the tree in between.

The theorems of `Declaration` assume that the fields of a declaration have the types that
Go and JSON give them (`SpecsAssumption`, `WireAssumption`), and that an absent field is
none of their values (`NoneAssumption`). Those of `SandrunLaunch` assume that an image is a
tree, in which what is above a path exists and is a directory, and no name is `..`; that
arguments are what `parse_args()` accepts, paths without `..` whose targets are not the root;
that the sources of an instance have labels, and what is mounted without being declared has
others (all in `LaunchesAssumption`); and that the number of links is a number
(`LinksAssumption`). What the theorems of `IdentitySetup` assume of
constants: a caller's credential has the
shape of one and its ambient capabilities are inheritable, as the kernel keeps them
(`CallersAssumption`); a file is a sequence of lines, or unreadable
(`FilesAssumption`); and no declared name is empty or begins with `#`, which
`valid_user_name()` refuses (`UsersAssumption`).

Only model-checked: liveness (`ExitIsPublished`, `SignalEndsRun`, `CleanedGroupsVanish`,
`ImplementsFairLifecycle`, `DropEnds`, `ClientsAreServed`, and the second half of
`CancelIsHeard`), which is out of the prover's reach. Every invariant and every action property
that a passing run checks is proved.

## 5. What is left out

* *HTTP probes* are one step with any result in `Supervisor`. `HttpProbe` has the
  detail, without the text of the request and without what is in a status line
  besides its protocol and its number.
* *Process ids* are not reused. `residual_group` is never reset in the code, so a
  reuse would matter to `shutdown()`; it takes a whole turn of the pid range.
* *A process that leaves its group* (`setsid`, `setpgid`) is invisible to campd and
  to the model.
* *Character classes* of names, environment variables and probe paths, the payload
  limit, base64 and JSON: `Declaration` takes a valid and an invalid case of each
  where it matters.
* *A sandrun without `--overlay-id`* uses a directory of its own that nobody shares.
* *Mounts*: the flags but read-only, what is below a mount (a target or a command there
  counts as right whatever it is), the link that makes `/sys/fs/cgroup` a mount below
  a mount, the modes of created targets, and the cleaning up of the namespace, which
  the kernel does.
* *A target that leads through `/etc/resolv.conf` or `/etc/hosts`* shows the file that
  is put there: `RootIsAsChecked` allows that, because the code replaces the link after
  it has resolved the other targets.
* *Links that lead down and then up, and links that a mount hides*: what a target that leads
  through them shows in the end need not be its mount. The model has these images and the
  code's behaviour on them; no document of the repository says what should happen (section 2,
  `SandrunLaunch`). What else the properties say holds for hidden links too.
* *A Sidecar with several missing sources* makes them one after the other;
  `BindSources` has one per Sidecar. Nothing is removed in it: a main process that
  removes a shared directory while a sandrun looks at it makes that sandrun fail.
* *A request for readiness that comes in several segments* is judged by the first
  (`ready.rs:95`). The model has that case, and no property excludes it: nothing in
  the repository promises more than a probe that sends its request at once.
* *The launcher's checks of argv and of its process id* fail before anything changes.
* *Examples, scripts, images, workflows, tests*: no state, or evidence rather than
  program.

## 6. Findings

Two disagreements of code and documents have a run of their own. Both concern a
`sandrun` that ends between two system calls (a SIGKILL during campd's shutdown is
enough) and leave a layer that no later run repairs.

1. `overlay_identity`. `ensure_identity()` creates the identity file and writes it
   in two steps. In between the file is empty, and each restart of the same identity
   is refused with `overlay_identity_mismatch`, although
   `docs/troubleshooting.md:100` says that a restarted process can reuse its id.
2. `overlay_root`. `ensure_overlay_upper_directory()` fits the upper directory only
   in the run that created it. Ended before `chmod`, it leaves root's directory of
   mode 0700, which later runs mount, although `docs/design.md:195` has it inherit
   the lower root's owner and mode.

Four more disagreements between code and documents came up while modelling. The models
have the behaviour of the code:

3. `docs/design.md:185` has sandrun check the rootfs, the device, the binds and the
   command before it changes the namespace. `run()` (`linux.rs:92-116`) checks the device
   and the command only after `unshare`, and after it has created targets in the
   layer. `OutsideIsKept` shows that nothing of it is seen outside.
4. `docs/api-reference.md:175` says that a Sidecar's command comes from its image volume.
   `prepare_executable()` (`linux.rs:597`) checks the image's file before the mounts are
   made: a bind, a disk mount or a tmpfs above the command replaces it, unchecked.
   `RootIsAsChecked` therefore excepts what a mount covers.
5. `docs/api-reference.md:250` says that a missing source is created by the first Sidecar
   that uses it, so that the later Sidecars and Main all see the directory. `run()` of
   campd (`runtime.rs:191`) waits for a Service only if it has a probe: a process that
   follows a Sidecar without one may start before the directory exists.
   `SourcesAreThere` therefore speaks of Sidecars that are waited for.
6. `spec.go:91` says that missing sources are created with mode 0777. `create_directory()`
   (`linux.rs:1027`) makes the directory and opens it with a second call; another
   Sidecar may use it in between, and if the sandrun is killed there the mode of the
   umask remains for all later runs. `ModesAreRight` therefore excepts killed sandruns.

## 7. Plan

Done: all components of the system that keep state or decide something are modelled, and
every safety property that a passing run checks is proved. What could be added:

1. A crash of the whole machine in `OverlayWorkspace`, if a layer ever outlives its
   sandbox.
2. The reuse of process ids, for the `residual_group` that `shutdown()` signals long after
   the group is gone.
3. What is below a mount, for a command or a working directory that a mount covers.

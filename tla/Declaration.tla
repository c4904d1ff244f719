----------------------------- MODULE Declaration ------------------------------
(***************************************************************************)
(* The startup declaration on its way from the caller to the processes.    *)
(* The Go SDK validates and renders it (spec.go, images.go, render.go),    *)
(* campd decodes and validates it again (cmd/campd/src/spec.rs) and turns  *)
(* each Sidecar into the arguments of a sandrun (runtime.rs), which        *)
(* validates those (cmd/sandrun/src/lib.rs).  Three programs in two        *)
(* languages hold the same rules: what one lets through too late for the   *)
(* caller to see makes the sandbox fail at its start.                      *)
(*                                                                         *)
(* Durations count half milliseconds.  A path is its components and the    *)
(* form it is written in: "clean", "lax" (a doubled or trailing slash) or  *)
(* "bad" (relative, or with a dot-dot).                                    *)
(***************************************************************************)
EXTENDS Integers, Sequences, SequencesExt

CONSTANTS
    Specs,          \* the declarations callers give to the SDK, with images
    WireSpecs,      \* the runtime declarations campd is started with directly
    MaxId,          \* u32::MAX, the reserved id and the bound on thresholds
    None            \* a field that is absent

Milli == 2
AgsReadyTimeout == 30000 * Milli
MaxStartupBudget == 25000 * Milli
ControlPort == 49982
ReservedPorts == {ControlPort, 32000, 57890}
MaxExposedPorts == 8
MaxPort == 65535
AgsReadyTimeoutMs == 30000
MaxStartupBudgetMs == 25000

\* What the fields of a declaration hold, as the SDK's types and a JSON document have it.
PathTypes == [form : {"clean", "lax", "bad"}, at : Seq(STRING)]
UserTypes == [name : STRING, form : {"clean", "bad"}, uid : Int, gid : Int]
ProbeTypes == [path : {"clean", "bad"}, port : Int, startup : Int, period : Int, timeout : Int,
               failure : Int, success : Int]
ProcessTypes ==
    [name : STRING, kind : STRING, command : PathTypes, workdir : {None} \cup PathTypes,
     user : {None} \cup UserTypes, expose : Seq(Int), overlay : {None} \cup PathTypes,
     disks : Seq(PathTypes), mounts : Seq([source : PathTypes, target : PathTypes]),
     probe : {None} \cup ProbeTypes, timeout : Int]

Path(at) == [form |-> "clean", at |-> at]
Root == Path(<<>>)
OverlayDevice == Path(<<"dev", "vdb">>)

IsList(list) == list \in Seq(Range(list))

ASSUME MaxIdAssumption == MaxId \in Nat
ASSUME NoneAssumption == None \notin Int \cup PathTypes \cup ProbeTypes \cup {OverlayDevice}
ASSUME SpecsAssumption == \A spec \in Specs :
    spec.sidecars \in Seq(ProcessTypes) /\ spec.main \in Seq(ProcessTypes)
ASSUME WireAssumption == \A wire \in WireSpecs : IsList(wire.sidecars) /\ IsList(wire.main)

StandardTargets ==
    {<<"proc">>, <<"dev">>, <<"sys">>, <<"tmp">>, <<"run">>,
     <<"etc", "resolv.conf">>, <<"etc", "hosts">>}

Overlap(s, t) == IsPrefix(s, t) \/ IsPrefix(t, s)

\* The targets of a list are apart from each other and from the standard ones.
Apart(standard, targets) ==
    /\ \A i \in DOMAIN targets : \A s \in standard : ~Overlap(s, targets[i])
    /\ \A i, j \in DOMAIN targets : i # j => ~Overlap(targets[i], targets[j])

Distinct(keys) == \A i, j \in DOMAIN keys : keys[i] = keys[j] => i = j
Names(list) == [i \in DOMAIN list |-> list[i].name]

Targets(p) == [i \in DOMAIN p.disks |-> p.disks[i].at]
                \o [i \in DOMAIN p.mounts |-> p.mounts[i].target.at]

-----------------------------------------------------------------------------
(* The Go SDK. *)

\* validAbsolutePath(): in its clean form, and not "/".
SdkPath(p) == p.form = "clean" /\ p # Root

\* resolveProbe(): zero values get their defaults.
Or(value, default) == IF value = 0 THEN default ELSE value
ResolveProbe(b) ==
    [path |-> b.path, port |-> b.port, startup |-> Or(b.startup, 8000 * Milli),
     period |-> Or(b.period, 500 * Milli), timeout |-> Or(b.timeout, 1000 * Milli),
     failure |-> Or(b.failure, 3), success |-> Or(b.success, 1)]

\* validateProbeDuration(), validateCompletionTimeout(): whole milliseconds.
SdkDuration(d, min) == d >= min /\ d <= AgsReadyTimeout /\ d % Milli = 0

SdkProbe(b) ==
    /\ b.path = "clean" /\ b.port \in 1..MaxPort /\ b.port # ControlPort
    /\ SdkDuration(b.startup, 1000 * Milli)
    /\ SdkDuration(b.period, 100 * Milli)
    /\ SdkDuration(b.timeout, 100 * Milli)
    /\ b.timeout <= b.startup
    /\ b.failure \in 1..MaxId /\ b.success \in 1..MaxId

SdkUser(u) == u = None \/ IF u.name # "" THEN u.form = "clean" /\ u.uid = 0 /\ u.gid = 0
                                         ELSE u.uid # MaxId /\ u.gid # MaxId

SdkKind(p) == IF p.kind = "" THEN "service" ELSE p.kind

\* What a process adds to the startup budget.
SdkWait(p) == CASE SdkKind(p) = "service" /\ p.probe # None -> ResolveProbe(p.probe).startup
                [] SdkKind(p) = "service" /\ p.probe = None -> 0
                [] SdkKind(p) # "service" -> p.timeout

SdkProcess(p) ==
    /\ p.name # "" /\ SdkPath(p.command)
    /\ p.workdir = None \/ p.workdir.form = "clean"
    /\ SdkUser(p.user)
    /\ \A i \in DOMAIN p.expose : p.expose[i] \in 1..MaxPort \ ReservedPorts
    /\ \/ /\ SdkKind(p) = "service"
          /\ p.timeout = 0
          /\ p.probe = None \/ SdkProbe(ResolveProbe(p.probe))
       \/ /\ SdkKind(p) = "run-to-completion"
          /\ p.probe = None /\ p.expose = <<>>
          /\ SdkDuration(p.timeout, 100 * Milli)

SdkSidecar(p) ==
    /\ p.overlay = None \/ SdkPath(p.overlay)
    /\ \A i \in DOMAIN p.disks : SdkPath(p.disks[i])
    /\ \A i \in DOMAIN p.mounts : SdkPath(p.mounts[i].source) /\ SdkPath(p.mounts[i].target)
    /\ Apart(StandardTargets, Targets(p))

SdkMain(p) == p.overlay = None /\ p.mounts = <<>> /\ p.disks = <<>>

Total(waits) ==
    LET total[n \in 0..Len(waits)] == IF n = 0 THEN 0 ELSE total[n - 1] + waits[n]
    IN total[Len(waits)]

SdkWaits(list) == [i \in DOMAIN list |-> SdkWait(list[i])]

\* Spec.Validate()
Validate(spec) ==
    LET all == spec.sidecars \o spec.main
        ports == FlattenSeq([i \in DOMAIN all |-> all[i].expose])
    IN /\ all # <<>>
       /\ \A i \in DOMAIN all : SdkProcess(all[i])
       /\ \A i \in DOMAIN spec.sidecars : SdkSidecar(spec.sidecars[i])
       /\ \A i \in DOMAIN spec.main : SdkMain(spec.main[i])
       /\ Distinct(Names(all))
       /\ Distinct(ports)
       /\ Len(ports) <= MaxExposedPorts
       /\ \E i \in DOMAIN all : SdkKind(all[i]) = "service"
       /\ Total(SdkWaits(all)) <= MaxStartupBudget

\* resolveImageSet(), and the lookup of each Sidecar's image.
ResolveImages(spec) ==
    /\ \A i \in DOMAIN spec.images : spec.images[i].name # "" /\ spec.images[i].valid
    /\ Distinct(Names(spec.images))
    /\ \A i \in DOMAIN spec.sidecars :
           \E k \in DOMAIN spec.images : spec.images[k].name = spec.sidecars[i].name

RenderUser(u) == IF u.name = "" THEN u
                 ELSE [name |-> u.name, form |-> u.form, uid |-> None, gid |-> None]

RenderProbe(b) ==
    [path |-> b.path, port |-> b.port, startup |-> b.startup \div Milli,
     period |-> b.period \div Milli, timeout |-> b.timeout \div Milli,
     failure |-> b.failure, success |-> b.success]

Common(p) ==
    [name |-> p.name, kind |-> SdkKind(p), command |-> p.command, workdir |-> p.workdir,
     user |-> IF p.user = None THEN None ELSE RenderUser(p.user),
     probe |-> IF p.probe = None THEN None ELSE RenderProbe(ResolveProbe(p.probe)),
     timeout |-> IF SdkKind(p) = "run-to-completion" THEN p.timeout \div Milli ELSE None]

\* toRuntimeSidecar(): the overlay device has a default; a mutant forgets it.
NoDevice(p) == p.overlay
Device(p) == IF p.overlay = None THEN OverlayDevice ELSE p.overlay

Sidecar(p) ==
    LET c == Common(p)
    IN [name |-> c.name, kind |-> c.kind, command |-> c.command, workdir |-> c.workdir,
        user |-> c.user, probe |-> c.probe, timeout |-> c.timeout,
        rootfs |-> Path(<<"mnt", "sandcamp-sidecars", p.name>>), device |-> Device(p),
        standard |-> TRUE, disks |-> p.disks, mounts |-> p.mounts]

\* encodeSpec()
Render(spec) ==
    [version |-> 3,
     sidecars |-> [i \in DOMAIN spec.sidecars |-> Sidecar(spec.sidecars[i])],
     main |-> [i \in DOMAIN spec.main |-> Common(spec.main[i])]]

-----------------------------------------------------------------------------
(* campd. *)

\* valid_path(): components only, so that "lax" paths pass.
ValidPath(p) == p.form # "bad" /\ p.at # <<>>
ValidOrRoot(p) == p.form # "bad"

ValidUser(u) == u = None \/ IF u.name # "" THEN u.form = "clean" ELSE u.uid # MaxId /\ u.gid # MaxId

\* validate_probe(), in milliseconds.
ValidProbe(b) ==
    /\ b.path = "clean" /\ b.port # 0 /\ b.port # ControlPort
    /\ b.startup \in 1000..AgsReadyTimeoutMs /\ b.period \in 100..AgsReadyTimeoutMs /\ b.timeout \in 100..AgsReadyTimeoutMs
    /\ b.timeout <= b.startup
    /\ b.failure # 0 /\ b.success # 0

ValidJob(p) == p.probe = None /\ p.timeout # None /\ p.timeout \in 100..AgsReadyTimeoutMs

\* validate_common()
ValidProcess(p) ==
    /\ p.name # "" /\ ValidPath(p.command)
    /\ p.workdir = None \/ ValidOrRoot(p.workdir)
    /\ ValidUser(p.user)
    /\ \/ /\ p.kind = "service"
          /\ p.timeout = None
          /\ p.probe = None \/ ValidProbe(p.probe)
       \/ /\ p.kind = "run-to-completion"
          /\ ValidJob(p)

StandardOf(p) == IF p.standard THEN StandardTargets ELSE {}

\* The Sidecar's paths and targets; a mutant compares disk mounts with nothing.
ValidPaths(p) ==
    /\ ValidPath(p.rootfs)
    /\ p.device = None \/ ValidPath(p.device)
    /\ \A i \in DOMAIN p.disks : ValidPath(p.disks[i])
    /\ \A i \in DOMAIN p.mounts : ValidPath(p.mounts[i].source) /\ ValidPath(p.mounts[i].target)

BindsApart(p) ==
    ValidPaths(p) /\ Apart(StandardOf(p), [i \in DOMAIN p.mounts |-> p.mounts[i].target.at])
ValidSidecar(p) == ValidPaths(p) /\ Apart(StandardOf(p), Targets(p))

\* The deadline of the wait that run() starts after launching p.
Wait(p) == IF p.probe # None THEN p.probe.startup
           ELSE IF p.timeout # None THEN p.timeout ELSE 0

Waits(list) == [i \in DOMAIN list |-> Wait(list[i])]

Processes(wire) == wire.sidecars \o wire.main

\* validate(), on what decode() accepted.
CampdAccepts(wire) ==
    LET all == Processes(wire)
    IN /\ wire.version \in {2, 3}
       /\ all # <<>>
       /\ \A i \in DOMAIN all : ValidProcess(all[i])
       /\ \A i \in DOMAIN wire.sidecars : ValidSidecar(wire.sidecars[i])
       /\ Distinct(Names(all))
       /\ \E i \in DOMAIN all : all[i].kind = "service"
       /\ Total(Waits(all)) <= MaxStartupBudgetMs

\* build_command(): the options of a Sidecar's sandrun.
Arguments(p) ==
    [rootfs |-> p.rootfs, device |-> p.device, id |-> p.name, standard |-> p.standard,
     disks |-> p.disks, mounts |-> p.mounts,
     workdir |-> IF p.workdir = None THEN Root ELSE p.workdir,
     user |-> p.user, command |-> p.command]

-----------------------------------------------------------------------------
(* sandrun: parse_args(). *)

SandrunAccepts(a) ==
    /\ ValidPath(a.rootfs)
    /\ a.device = None \/ ValidPath(a.device)
    /\ a.id # ""
    /\ a.disks # <<>> => a.device # None
    /\ ValidOrRoot(a.workdir) /\ ValidPath(a.command)
    /\ \A i \in DOMAIN a.disks : ValidPath(a.disks[i])
    /\ \A i \in DOMAIN a.mounts : ValidPath(a.mounts[i].source) /\ ValidPath(a.mounts[i].target)
    /\ Apart(StandardOf(a), Targets(a))
    /\ ValidUser(a.user)

-----------------------------------------------------------------------------
VARIABLES
    declared,   \* what the caller gave to the SDK, None for a wire declaration
    wire,       \* the runtime declaration
    stage       \* "declared", "rendered", "accepted", "launched" or refused

vars == <<declared, wire, stage>>

Init ==
    \/ declared \in Specs /\ wire = None /\ stage = "declared"
    \/ declared = None /\ wire \in WireSpecs /\ stage = "rendered"

RenderStart ==
    /\ stage = "declared"
    /\ IF ResolveImages(declared) /\ Validate(declared)
       THEN stage' = "rendered" /\ wire' = Render(declared)
       ELSE stage' = "sdk_refused" /\ wire' = wire
    /\ UNCHANGED declared

Decode ==
    /\ stage = "rendered"
    /\ stage' = IF CampdAccepts(wire) THEN "accepted" ELSE "campd_refused"
    /\ UNCHANGED <<declared, wire>>

\* Every Sidecar's sandrun reads its arguments.
Launch ==
    /\ stage = "accepted"
    /\ stage' = IF \A i \in DOMAIN wire.sidecars : SandrunAccepts(Arguments(wire.sidecars[i]))
                THEN "launched" ELSE "sandrun_refused"
    /\ UNCHANGED <<declared, wire>>

Next == RenderStart \/ Decode \/ Launch

Spec == Init /\ [][Next]_vars

-----------------------------------------------------------------------------
\* What the SDK renders, campd and every sandrun accept: an invalid declaration
\* is an error of RenderStart and never a sandbox that fails to start.
RenderedIsAccepted ==
    declared # None => stage \notin {"campd_refused", "sandrun_refused"}

\* What campd accepts, every sandrun accepts, but for the one rule that campd
\* leaves to sandrun: that disk mounts need an overlay device.
AcceptedIsLaunched == stage = "sandrun_refused" =>
    \E i \in DOMAIN wire.sidecars :
        wire.sidecars[i].disks # <<>> /\ wire.sidecars[i].device = None

\* The waits that campd makes add up to the ones that the SDK counted against the
\* startup budget, defaults included: nothing is lost on the way to milliseconds.
BudgetIsRendered == declared # None /\ wire # None =>
    Total(Waits(Processes(wire))) * Milli = Total(SdkWaits(declared.sidecars \o declared.main))

\* The three programs take a declaration for the same thing.
RenderedIsRead == RenderedIsAccepted /\ BudgetIsRendered
=============================================================================

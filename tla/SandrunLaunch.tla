---------------------------- MODULE SandrunLaunch -----------------------------
(***************************************************************************)
(* One sandrun, from its arguments to the command that takes its place     *)
(* (run() in cmd/sandrun/src/linux.rs).  It makes a root for the command   *)
(* in a mount namespace of its own: what a path means changes as targets   *)
(* are created, mounts are made and the root is entered, while the checks  *)
(* of the targets, the working directory and the command come before.      *)
(***************************************************************************)
EXTENDS RootTree

CONSTANT
    Launches        \* [config, tree, host]: arguments that parse_args() accepts, an
                    \* image with the writable layer on top, and what the sources are

\* What parse_args() accepts (clean_absolute): no target is the root.
Paths == Seq(FileNames)
Targeted == Paths \ {<<>>}
DeclaredBinds == [what : {"bind"}, target : Targeted, source : STRING, readonly : BOOLEAN, at : {<<>>}]

\* What is mounted without being declared has labels that no source has.
Labels == {"proc", "dev", "sys", "cgroup", "tmp", "run", "etc", "tmpfs", "disk"}

ASSUME LaunchesAssumption == \A launch \in Launches :
    LET config == launch.config
    IN /\ IsTree(launch.tree)
       /\ Labels \cap DOMAIN launch.host = {}
       /\ config.binds \in Seq(DeclaredBinds)
       /\ \A i \in DOMAIN config.binds : config.binds[i].source \in DOMAIN launch.host
       /\ config.disks \in Seq(Targeted) /\ config.tmpfs \in Seq(Targeted)
       /\ config.workdir \in Paths /\ config.command \in Targeted

VARIABLES
    step,
    config,
    host,           \* host[s]: "absent", "dir", "file" or "other"
    tree,           \* the merged root
    namespace,      \* "main", "own" (mounts still propagate), "private"
    outer,          \* the mounts that the main namespace sees
    queue,          \* the mounts that are prepared
    mounts          \* the mounts that are made below the root, in order

vars == <<step, config, host, tree, namespace, outer, queue, mounts>>

Steps == {"lower", "sources", "unshare", "private", "device", "overlay", "targets", "disks",
          "workdir", "command", "validate", "prepare", "mount", "chdir", "exec"}
Entered == {"chdir", "exec", "running"}

Points == {mounts[i].at : i \in DOMAIN mounts}

Init ==
    /\ step = "lower"
    /\ \E launch \in Launches :
          config = launch.config /\ tree = launch.tree /\ host = launch.host
    /\ namespace = "main" /\ outer = {}
    /\ queue = <<>> /\ mounts = <<>>

-----------------------------------------------------------------------------
(* What is mounted. *)

Mount(what, target, source) ==
    [what |-> what, target |-> target, source |-> source, readonly |-> FALSE, at |-> <<>>]

Cgroup == Mount("bind", <<"sys", "fs", "cgroup">>, "cgroup")

Standard ==
    IF ~config.standard THEN <<>>
    ELSE <<Mount("proc", <<"proc">>, "proc"), Mount("bind", <<"dev">>, "dev"),
           [Mount("bind", <<"sys">>, "sys") EXCEPT !.readonly = TRUE], Cgroup,
           Mount("tmpfs", <<"tmp">>, "tmp"), Mount("tmpfs", <<"run">>, "run"),
           Mount("dns", <<"etc">>, "etc")>>

Tmpfs == [i \in DOMAIN config.tmpfs |-> Mount("tmpfs", config.tmpfs[i], "tmpfs")]
Disks == [i \in DOMAIN config.disks |-> Mount("bind", config.disks[i], "disk")]

\* The type of what is mounted; all but the declared sources are directories.
SourceKind(sources, m) == IF m.source \in DOMAIN sources THEN sources[m.source] ELSE "dir"

Fits(m, kind) == /\ (SourceKind(host, m) = "dir") = (kind = "dir")
                 /\ (SourceKind(host, m) = "file") = IsFile(kind)

-----------------------------------------------------------------------------
(* Creating the targets. *)

\* One more name of ensure_bind_target_directory(): at is where logical has led.
Reached(t, logical, at) == [error |-> "", tree |-> t, logical |-> logical, at |-> at]
Done(t) == [error |-> "", tree |-> t]
Stuck(t) == [error |-> "failed", tree |-> t]

Descend(s, name) ==
    LET logical == Append(s.logical, name)
        next == Append(s.at, name)
        kind == Kind(s.tree, next)
        led == IF kind = "link" THEN Resolve(s.tree, logical) ELSE Found(next)
    IN IF s.error # "" THEN s
       ELSE IF kind = "absent" THEN Reached(Add(s.tree, next, Dir), logical, next)
       ELSE IF led.error = "" /\ Kind(s.tree, led.at) = "dir" THEN Reached(s.tree, logical, led.at)
       ELSE Stuck(s.tree)

EnsureDirectory(t, path) ==
    LET upTo[i \in 0..Len(path)] == IF i = 0 THEN Reached(t, <<>>, <<>>)
                                    ELSE Descend(upTo[i - 1], path[i])
    IN upTo[Len(path)]

\* ensure_bind_target(): what is there stays, whatever it is.
Place(parent, name, kind) ==
    LET p == Append(parent.at, name)
    IN IF parent.error # "" THEN Stuck(parent.tree)
       ELSE IF Kind(parent.tree, p) # "absent" THEN Done(parent.tree)
       ELSE IF kind = "dir" THEN Done(Add(parent.tree, p, Dir))
       ELSE IF kind = "file" THEN Done(Add(parent.tree, p, File))
       ELSE Stuck(parent.tree)

EnsureTarget(sources, s, m) ==
    IF s.error # "" THEN s
    ELSE IF SourceKind(sources, m) = "absent" THEN Stuck(s.tree)
    ELSE Place(EnsureDirectory(s.tree, Front(m.target)), Last(m.target), SourceKind(sources, m))

Ensure(sources, t, list) ==
    LET upTo[i \in 0..Len(list)] == IF i = 0 THEN Done(t)
                                    ELSE EnsureTarget(sources, upTo[i - 1], list[i])
    IN upTo[Len(list)]

\* prepare_bind(), resolve_directory(): where the mount goes, if its types match.
Prepared(t, m) == [m EXCEPT !.at = Resolve(t, m.target).at]
Ready(t, m, r) == r.error = "" /\ Fits(m, Kind(t, r.at))
CanPrepare(t, m) == Ready(t, m, Resolve(t, m.target))

\* validate_resolved_mount_targets(): a mutant compares the paths as they are written.
Written(path) == Found(path)
Resolved(path) == Resolve(tree, path)

Etc(name) == Found(Append(Resolved(<<"etc">>).at, name))

Targets ==
    (IF config.standard
     THEN [i \in 1..5 |-> Resolved(<<<<"proc">>, <<"dev">>, <<"sys">>, <<"tmp">>, <<"run">>>>[i])]
            \o <<Resolved(<<"etc">>), Etc("resolv.conf"), Etc("hosts")>>
     ELSE <<>>)
    \o [i \in DOMAIN config.disks |-> Resolved(config.disks[i])]
    \o [i \in DOMAIN config.binds |-> Resolved(config.binds[i].target)]
    \o [i \in DOMAIN config.tmpfs |-> Resolved(config.tmpfs[i])]

\* validate_target_paths(); /etc itself, the sixth, is only resolved.
Apart(list) == \A i, j \in DOMAIN list :
    i # j => ~IsPrefix(list[i], list[j])

Valid ==
    LET all == Targets
        compared == IF config.standard THEN RemoveAt(all, 6) ELSE all
    IN /\ \A i \in DOMAIN all : all[i].error = "" /\ all[i].at # <<>>
       /\ Apart([i \in DOMAIN compared |-> compared[i].at])

-----------------------------------------------------------------------------
(* The steps of run(). *)

Goes(from, to) == step = from /\ step' = to

\* An error ends sandrun, and with it its namespace.
Refuse(at) == step = at /\ step' = "failed"

\* A system call fails, or what it looks at is not what it should be.
Fail ==
    /\ \E s \in Steps : Refuse(s)
    /\ UNCHANGED <<config, host, tree, namespace, outer, queue, mounts>>

\* prepare_rootfs() and the identity.
ReadLower ==
    /\ Goes("lower", "sources")
    /\ UNCHANGED <<config, host, tree, namespace, outer, queue, mounts>>

\* A source is made a directory if it is missing.
IfMissing(s) == IF host[s] = "absent" THEN "dir" ELSE host[s]
WithSources(n) == [s \in DOMAIN host |->
    IF \E i \in 1..n : config.binds[i].source = s THEN IfMissing(s) ELSE host[s]]

\* prepare_bind_sources(): in the main namespace, see BindSources.
PrepareBindSources ==
    /\ Goes("sources", "unshare")
    /\ host' = WithSources(Len(config.binds))
    /\ UNCHANGED <<config, tree, namespace, outer, queue, mounts>>

Unshare ==
    /\ Goes("unshare", "private")
    /\ namespace' = "own"
    /\ UNCHANGED <<config, host, tree, outer, queue, mounts>>

\* make_mounts_private(), and a mutant that leaves the mounts shared.
Shared == "own"
Private == "private"
MakeMountsPrivate ==
    /\ Goes("private", "device")
    /\ namespace' = Private
    /\ UNCHANGED <<config, host, tree, outer, queue, mounts>>

\* Where mounts propagate, the main namespace sees them too.
Propagates(what) == outer' = IF namespace = "private" THEN outer ELSE outer \cup {what}

PrepareOverlayBase ==
    /\ Goes("device", "overlay")
    /\ config.device # "bad"
    /\ IF config.device = "none" THEN UNCHANGED outer ELSE Propagates("device")
    /\ UNCHANGED <<config, host, tree, namespace, queue, mounts>>

MountOverlayRootfs ==
    /\ Goes("overlay", "targets")
    /\ Propagates("overlay")
    /\ UNCHANGED <<config, host, tree, namespace, queue, mounts>>

\* prepare_bind_targets(), and the target of the cgroup mount.
Binds == config.binds \o (IF config.standard THEN <<Cgroup>> ELSE <<>>)

PrepareBindTargets ==
    /\ step = "targets"
    /\ \E made \in {Ensure(host, tree, Binds)} :
          /\ step' = IF made.error = "" THEN "disks" ELSE "failed"
          /\ tree' = made.tree
    /\ UNCHANGED <<config, host, namespace, outer, queue, mounts>>

\* prepare_disk_binds(): each one's target is created and resolved in turn.
WithDisks(n) == Ensure(host, tree, SubSeq(Disks, 1, n))
DiskFits(n) == WithDisks(n).error = "" /\ CanPrepare(WithDisks(n).tree, Disks[n])

PrepareDiskBinds ==
    /\ step = "disks"
    /\ \/ /\ \A n \in DOMAIN Disks : DiskFits(n)
          /\ step' = "workdir"
          /\ tree' = WithDisks(Len(Disks)).tree
          /\ queue' = [n \in DOMAIN Disks |-> Prepared(WithDisks(n).tree, Disks[n])]
       \/ \E n \in DOMAIN Disks :
             /\ \A i \in 1..n : DiskFits(i) = (i # n)
             /\ step' = "failed"
             /\ tree' = WithDisks(n).tree
             /\ UNCHANGED queue
    /\ UNCHANGED <<config, host, namespace, outer, mounts>>

\* A check on what a path resolves to.
Holds(path, Good(_)) == LET r == Resolve(tree, path) IN r.error = "" /\ Good(Kind(tree, r.at))

IsWorkdir(kind) == kind = "dir"
IsExecutable(kind) == kind = "tool"

Check(at, condition, next) ==
    /\ step = at
    /\ step' = IF condition THEN next ELSE "failed"
    /\ UNCHANGED <<config, host, tree, namespace, outer, queue, mounts>>

PrepareWorkdir == Check("workdir", Holds(config.workdir, IsWorkdir), "command")
PrepareExecutable == Check("command", Holds(config.command, IsExecutable), "validate")
ValidateTargets == Check("validate", Valid, "prepare")

\* prepare_mounts(); the disk mounts come last.
PrepareMounts ==
    LET all == Standard \o config.binds \o Tmpfs
        ready == \A i \in DOMAIN all : CanPrepare(tree, all[i])
    IN /\ step = "prepare"
       /\ step' = IF ready THEN "mount" ELSE "failed"
       /\ queue' = [i \in DOMAIN all |-> Prepared(tree, all[i])] \o queue
       /\ UNCHANGED <<config, host, tree, namespace, outer, mounts>>

\* ensure_regular_mount_target(): a link is replaced, a directory refused.
DnsNames == <<"resolv.conf", "hosts">>
DnsTarget(m, i) == Append(m.at, DnsNames[i])
DnsFiles(m) == [i \in 1..2 |-> [m EXCEPT !.at = DnsTarget(m, i), !.target = <<"etc", DnsNames[i]>>]]

Regular(t, p) == IF IsFile(Kind(t, p)) THEN t ELSE Add(t, p, File)

MountDnsFiles(m) ==
    LET first == DnsTarget(m, 1)
        second == DnsTarget(m, 2)
    IN IF Kind(tree, first) = "dir" THEN step' = "failed" /\ UNCHANGED <<tree, mounts>>
       ELSE IF Kind(tree, second) = "dir" THEN step' = "failed" /\ tree' = Regular(tree, first) /\ UNCHANGED mounts
       ELSE /\ tree' = Regular(Regular(tree, first), second)
            /\ mounts' = mounts \o DnsFiles(m)
            /\ UNCHANGED step

\* apply_mount(); a read-only bind is remounted before the next mount.
ApplyMount ==
    /\ step = "mount" /\ queue # <<>>
    /\ queue' = Tail(queue)
    /\ Propagates(Head(queue).what)
    /\ IF Head(queue).what = "dns" THEN MountDnsFiles(Head(queue))
       ELSE mounts' = Append(mounts, Head(queue)) /\ UNCHANGED <<step, tree>>
    /\ UNCHANGED <<config, host, namespace>>

\* enter_rootfs(): chdir(), pivot_root() and the detaching of the old root.
EnterRootfs ==
    /\ queue = <<>> /\ Goes("mount", "chdir")
    /\ UNCHANGED <<config, host, tree, namespace, outer, queue, mounts>>

\* What a path is to a process whose root this is; nothing is known of what is
\* below a mount.
Seen(path) == Lookup(tree, Points, Stays, path)
Covered(path) == Seen(path).error = "" /\ Seen(path).at \in Points
Uses(path, Good(_)) == Covered(path) \/ (Seen(path).error = "" /\ Good(Kind(tree, Seen(path).at)))

ChangeDirectory ==
    /\ Goes("chdir", "exec") /\ Uses(config.workdir, IsWorkdir)
    /\ UNCHANGED <<config, host, tree, namespace, outer, queue, mounts>>

\* apply_identity(), see ProcessIdentity, and exec.
Exec ==
    /\ Goes("exec", "running") /\ Uses(config.command, IsExecutable)
    /\ UNCHANGED <<config, host, tree, namespace, outer, queue, mounts>>

\* An error, or a SIGKILL, between the calls of one step: what they have made remains.
\* Of a link at resolv.conf or hosts nothing does, if its file was not created.
Partly(list) == \E n \in DOMAIN list : \E k \in 0..Len(list[n].target) - 1 :
    LET made == Ensure(host, tree, SubSeq(list, 1, n - 1))
    IN made.error = "" /\ tree' = EnsureDirectory(made.tree, SubSeq(list[n].target, 1, k)).tree

Removed(t, p) == IF Kind(t, p) = "link" THEN [q \in DOMAIN t \ {p} |-> t[q]] ELSE t

DnsPartly(m) ==
    LET first == DnsTarget(m, 1)
        second == DnsTarget(m, 2)
    IN /\ Kind(tree, first) # "dir"
       /\ \/ tree' = Removed(tree, first)
          \/ tree' = Removed(Regular(tree, first), second)

FailBetween ==
    /\ \/ Refuse("sources") /\ (\E n \in DOMAIN config.binds : host' = WithSources(n)) /\ UNCHANGED tree
       \/ Refuse("targets") /\ Partly(Binds) /\ UNCHANGED host
       \/ Refuse("disks") /\ Partly(Disks) /\ UNCHANGED host
       \/ /\ Refuse("mount") /\ queue # <<>> /\ Head(queue).what = "dns" /\ DnsPartly(Head(queue))
          /\ UNCHANGED host
    /\ UNCHANGED <<config, namespace, outer, queue, mounts>>

Next ==
    \/ ReadLower \/ PrepareBindSources \/ Unshare \/ MakeMountsPrivate
    \/ PrepareOverlayBase \/ MountOverlayRootfs \/ PrepareBindTargets \/ PrepareDiskBinds
    \/ PrepareWorkdir \/ PrepareExecutable \/ ValidateTargets \/ PrepareMounts
    \/ ApplyMount \/ EnterRootfs \/ ChangeDirectory \/ Exec
    \/ Fail \/ FailBetween

Spec == Init /\ [][Next]_vars

-----------------------------------------------------------------------------
Declared == Standard \o config.binds \o Tmpfs \o Disks
Asked == {Declared[i].target : i \in DOMAIN Declared} \cup {config.workdir, config.command}

\* What sandrun resolves exists, and none of its names is a symbolic link: the kernel,
\* which sandrun gives it to before the root is entered, cannot leave the root.
StaysInside == \A path \in Asked : LET r == Resolve(tree, path) IN
    r.error = "" => \A i \in DOMAIN r.at : Kind(tree, SubSeq(r.at, 1, i)) \notin {"link", "absent"}

\* The dots of a link, if there are any, come before its names.
LeadingDots == \A p \in DOMAIN tree : \A i, j \in DOMAIN tree[p].to :
    tree[p].to[j] = ".." /\ i < j => tree[p].to[i] = ".."

\* What sandrun resolves is what a process in the root finds under the same name before
\* the mounts, and what it refuses the kernel refuses; but where the kernel would go
\* above the root and stay in it, sandrun refuses.  Links that go down and then up
\* differ.
AgreesWithKernel == LeadingDots =>
    \A path \in Asked : Resolve(tree, path) = Lookup(tree, {}, Reports, path)

\* Links of an image cannot lead a mount out of the root or past its target.
LookupIsRight == StaysInside /\ AgreesWithKernel

\* What sandrun looks up before it makes the mounts says nothing of the links that they
\* hide afterwards.
NoLinkIsCovered == \A p \in DOMAIN tree : \A q \in Points :
    tree[p].kind = "link" => ~IsPrefix(q, p)

\* A declared target, through the links of the image, is where its mount is, and only
\* its mount; or it leads through resolv.conf or hosts to the file put there.
Shows(m) ==
    LET r == Seen(m.target)
        on == {i \in DOMAIN mounts : mounts[i].at = r.at \o r.rest}
    IN /\ r.error = ""
       /\ \/ on # {} /\ \A i \in on : [mounts[i] EXCEPT !.at = <<>>] = m
          \/ \E i \in DOMAIN mounts : mounts[i].what = "dns" /\ mounts[i].at = r.at

TargetsShowTheirMounts == step \in Entered /\ NoLinkIsCovered =>
    \A i \in DOMAIN Declared : Declared[i].what # "dns" => Shows(Declared[i])

\* The command and the working directory were checked before anything was mounted;
\* unless a mount covers them they are still what was checked, and sandrun does not
\* fail after it has entered the root.
ChecksHold == step \in Entered =>
    Uses(config.workdir, IsWorkdir) /\ Uses(config.command, IsExecutable)

\* The root that the command enters is what was declared and checked, wherever the
\* links of the image lead, but those that go down and then up.
RootIsAsChecked == LeadingDots => TargetsShowTheirMounts /\ ChecksHold

\* The main namespace gains the directories of missing sources and nothing else, and
\* only while sandrun is in it.
HostOnlyGainsSources == \A s \in DOMAIN host :
    host'[s] # host[s] => host[s] = "absent" /\ host'[s] = "dir" /\ namespace = "main"

\* Nothing that the image or the writable layer holds is changed to make a target, but
\* for the links at resolv.conf and hosts.
ImageIsKept == \A p \in DOMAIN tree :
    \/ p \in DOMAIN tree' /\ tree'[p] = tree[p]
    \/ tree[p].kind = "link" /\ Last(p) \in {"resolv.conf", "hosts"}

\* Whatever step fails, the main namespace sees none of the mounts, keeps what it has,
\* and so does the layer.
OutsideIsKept == [][outer' = {} /\ HostOnlyGainsSources /\ ImageIsKept]_vars
=============================================================================

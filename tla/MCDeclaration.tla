---------------------------- MODULE MCDeclaration -----------------------------
(***************************************************************************)
(* Declarations for TLC: a plain one, changed in one or two respects at a  *)
(* time to the values at and around each rule's boundary.                  *)
(***************************************************************************)
EXTENDS Declaration

Bad(at) == [form |-> "bad", at |-> at]
Lax(at) == [form |-> "lax", at |-> at]

App == Path(<<"app">>)
Paths == {App, Lax(<<"app">>), Bad(<<"app">>), Root}

Probe == [path |-> "clean", port |-> 8080, startup |-> 0, period |-> 0, timeout |-> 0,
          failure |-> 0, success |-> 0]

Plain(name) ==
    [name |-> name, kind |-> "", command |-> App, workdir |-> None, user |-> None,
     expose |-> <<>>, overlay |-> None, disks |-> <<>>, mounts |-> <<>>,
     probe |-> None, timeout |-> 0]

Job(name, timeout) == [Plain(name) EXCEPT !.kind = "run-to-completion", !.timeout = timeout]

\* Durations around the bounds, and one that is not a whole millisecond.
Bounds == {0, 199, 200, 201, 1999, 2000, 50000, 50001, 60000, 60002}

Probes ==
    {[Probe EXCEPT !.startup = d, !.timeout = t] : d \in Bounds, t \in {0, 200, 201, 2000, 60000}}
    \cup {[Probe EXCEPT !.period = d] : d \in Bounds}
    \cup {[Probe EXCEPT !.port = q] : q \in {0, 1, 32000, ControlPort, 65535, 65536}}
    \cup {[Probe EXCEPT !.failure = n, !.success = m] : n, m \in {0, 1, MaxId, MaxId + 1}}
    \cup {[Probe EXCEPT !.path = "bad"]}

Users == {None} \cup [name : {"", "app"}, form : {"clean", "bad"}, uid : {0, 7, MaxId}, gid : {0, MaxId}]

Spots == {Path(<<"data">>), Path(<<"data", "x">>), Path(<<"run", "x">>), Path(<<"etc">>),
          Lax(<<"data">>), Root}

Services ==
    {[Plain("a") EXCEPT !.probe = b] : b \in Probes}
    \cup {[Plain("a") EXCEPT !.user = u] : u \in Users}
    \cup {[Plain("a") EXCEPT !.command = c, !.workdir = w] : c \in Paths, w \in Paths \cup {None}}
    \cup {[Plain("a") EXCEPT !.expose = e] :
             e \in {<<80>>, <<80, 80>>, <<32000>>, <<0>>, <<1, 2, 3, 4, 5, 6, 7, 8>>,
                    <<1, 2, 3, 4, 5, 6, 7, 8, 9>>}}
    \cup {[Plain("a") EXCEPT !.kind = k, !.timeout = d] :
             k \in {"", "service", "run-to-completion", "other"}, d \in Bounds}
    \cup {[Job("a", 200) EXCEPT !.probe = Probe], Plain("")}

Mounting ==
    {[Plain("a") EXCEPT !.overlay = v, !.disks = d, !.mounts = m] :
        v \in {None, Path(<<"dev", "vda">>), Root},
        d \in {<<>>} \cup {<<s>> : s \in Spots},
        m \in {<<>>} \cup {<<[source |-> App, target |-> s]>> : s \in Spots}
                \cup {<<[source |-> Root, target |-> Path(<<"data">>)]>>}}

Image(name) == [name |-> name, valid |-> TRUE]

WithMain(sidecars) == [images |-> <<Image("a"), Image("b")>>, sidecars |-> sidecars,
                       main |-> <<Plain("m")>>]

SomeSpecs ==
    {WithMain(<<p>>) : p \in Services \cup Mounting}
    \cup {[images |-> <<>>, sidecars |-> <<>>, main |-> <<p>>] : p \in Services \cup Mounting}
    \* the startup budget, over several processes
    \cup {WithMain(<<Job("a", d), [Plain("b") EXCEPT !.probe = [Probe EXCEPT !.startup = e]]>>) :
             d, e \in Bounds}
    \* names, images, and no Service at all
    \cup {[images |-> i, sidecars |-> <<Plain(n)>>, main |-> <<Plain("b")>>] :
             i \in {<<>>, <<Image("a")>>, <<Image("a"), Image("a")>>,
                    <<[Image("a") EXCEPT !.valid = FALSE]>>}, n \in {"a", "b"}}
    \cup {[images |-> <<>>, sidecars |-> <<>>, main |-> m] : m \in {<<>>, <<Job("a", 200)>>}}

\* Declarations that no SDK rendered.
WirePlain == Common(Plain("a"))
WireProbe == Common([Plain("a") EXCEPT !.probe = Probe]).probe
WireMain ==
    {[WirePlain EXCEPT !.kind = k, !.timeout = d, !.probe = b] :
        k \in {"service", "run-to-completion"}, d \in {None, 0, 99, 100, 25000, 25001, 30000},
        b \in {None, WireProbe, [WireProbe EXCEPT !.failure = 0], [WireProbe EXCEPT !.success = 0],
               [WireProbe EXCEPT !.startup = 30000], [WireProbe EXCEPT !.startup = 24901]}}
WireSidecar ==
    {[Sidecar(Plain("s")) EXCEPT !.device = v, !.standard = t, !.disks = d, !.mounts = m] :
        v \in {None, Path(<<"dev", "vda">>), Root}, t \in BOOLEAN,
        d \in {<<>>} \cup {<<s>> : s \in Spots},
        m \in {<<>>} \cup {<<[source |-> App, target |-> s]>> : s \in Spots}}
    \cup {[Sidecar(Plain("s")) EXCEPT !.user = u, !.workdir = w, !.command = c] :
            u \in {Common([Plain("s") EXCEPT !.user = v]).user : v \in Users},
            w \in Paths \cup {None}, c \in Paths}

SomeWireSpecs ==
    [version : {1, 2, 3}, sidecars : {<<>>}, main : {<<p>> : p \in WireMain}
                                        \cup {<<p, Common(Job("j", 200))>> : p \in WireMain}]
    \cup [version : {3}, sidecars : {<<p>> : p \in WireSidecar}, main : {<<>>, <<WirePlain>>}]
=============================================================================

--------------------------- MODULE MCSandrunLaunch ----------------------------
(***************************************************************************)
(* Images whose /tmp, /bin, /etc/resolv.conf and /data are what images     *)
(* have there, directories or links to other parts; arguments that mount   *)
(* on them, next to them and through them.                                 *)
(***************************************************************************)
EXTENDS SandrunLaunch

Base == [p \in {<<"proc">>, <<"dev">>, <<"sys">>, <<"run">>, <<"etc">>, <<"srv">>, <<"var">>,
                <<"usr">>, <<"usr", "bin">>} |-> Dir]
        @@ [p \in {<<"etc", "hosts">>, <<"srv", "f">>} |-> File]
        @@ [p \in {<<"usr", "bin", "app">>} |-> Tool]

At(p, nodes) == {[q \in {p} |-> n] : n \in nodes} \cup {<<>>}

SomeTrees ==
    {Base @@ top @@ resolv @@ data :
        top \in {(<<"bin">> :> Link(FALSE, <<"usr", "bin">>)) @@ (<<"tmp">> :> Dir)
                     @@ (<<"tmp", "l">> :> Link(TRUE, <<"srv">>)),
                 (<<"bin">> :> Link(FALSE, <<"usr", "bin">>)) @@ (<<"tmp">> :> Dir),
                 (<<"bin">> :> Dir) @@ (<<"bin", "app">> :> Tool) @@ (<<"tmp">> :> Link(TRUE, <<"var">>))},
        resolv \in At(<<"etc", "resolv.conf">>,
                      {File, Link(FALSE, <<"..", "run", "r">>), Link(TRUE, <<"srv", "f">>), Link(TRUE, <<"srv">>)}),
        data \in At(<<"data">>,
                    {Dir, File, Link(TRUE, <<"srv">>), Link(TRUE, <<"tmp">>), Link(TRUE, <<>>),
                     Link(FALSE, <<"etc">>), Link(TRUE, <<"gone">>),
                     Link(FALSE, <<"etc", "resolv.conf">>), Link(FALSE, <<"bin", "..", "srv">>), Link(TRUE, <<"tmp", "l">>)})}

SomeHosts == {[s \in {"s", "f"} |-> IF s = "f" THEN "file" ELSE kind] :
                 kind \in {"absent", "dir", "file", "other"}}

Bind(source, target) == Mount("bind", target, source)
ReadOnlyBind(source, target) == [Bind(source, target) EXCEPT !.readonly = TRUE]

Plain == [standard |-> TRUE, disks |-> <<>>, binds |-> <<>>, tmpfs |-> <<>>,
          workdir |-> <<>>, command |-> <<"bin", "app">>, device |-> "good"]

SomeConfigs ==
    {Plain,
     [Plain EXCEPT !.device = "none", !.workdir = <<"data">>],
     [Plain EXCEPT !.device = "bad"],
     [Plain EXCEPT !.workdir = <<"srv", "f">>],
     [Plain EXCEPT !.command = <<"srv", "f">>],
     [Plain EXCEPT !.binds = <<Bind("s", <<"data">>)>>, !.workdir = <<"data">>],
     [Plain EXCEPT !.binds = <<ReadOnlyBind("s", <<"data", "x", "y">>)>>],
     [Plain EXCEPT !.binds = <<Bind("s", <<"data">>), ReadOnlyBind("f", <<"srv", "f">>)>>],
     [Plain EXCEPT !.binds = <<Bind("s", <<"data", "f">>)>>, !.tmpfs = <<<<"srv">>>>],
     [Plain EXCEPT !.binds = <<Bind("s", <<"bin">>)>>],
     [Plain EXCEPT !.binds = <<Bind("s", <<"data">>)>>, !.tmpfs = <<<<"srv", "d">>>>],
     [Plain EXCEPT !.disks = <<<<"data">>>>, !.binds = <<Bind("s", <<"srv", "d">>)>>],
     [Plain EXCEPT !.disks = <<<<"data", "a">>, <<"data", "b">>>>],
     [Plain EXCEPT !.standard = FALSE, !.tmpfs = <<<<"data">>>>, !.binds = <<Bind("s", <<"tmp">>)>>],
     [Plain EXCEPT !.standard = FALSE, !.binds = <<Bind("s", <<"data">>), Bind("f", <<"etc", "hosts">>)>>]}

-----------------------------------------------------------------------------
(* All trees of two names with the same names below the first, with links   *)
(* to the root, to a name of it, up, above the root, to themselves, in a      *)
(* circle, and down and up again; every target of up to three names.          *)

Names == {"a", "b"}
Texts == {Link(TRUE, <<>>), Link(TRUE, <<"a">>), Link(TRUE, <<"a", "b">>), Link(FALSE, <<"..">>),
          Link(FALSE, <<"..", "b">>), Link(FALSE, <<"a", "b">>), Link(FALSE, <<"a", "..", "b">>)}

Level(paths) == UNION {[ps -> {Dir, File} \cup Texts] : ps \in SUBSET paths}
SmallTrees == UNION {{top @@ low : low \in IF <<"a">> \in DOMAIN top /\ top[<<"a">>] = Dir
                                           THEN Level({<<"a", n>> : n \in Names}) ELSE {<<>>}} :
                      top \in Level({<<n>> : n \in Names})}

Below(list) == [i \in 1..2 * Len(list) |-> Append(list[(i + 1) \div 2], IF i % 2 = 0 THEN "a" ELSE "b")]
Tops == <<<<"a">>, <<"b">>>>

SmallConfigs == {[Plain EXCEPT !.standard = FALSE, !.command = <<"a">>, !.tmpfs = targets] :
                    targets \in {Tops, Below(Tops), Below(Below(Tops))}}

SomeLaunches ==
    [config : SomeConfigs, tree : SomeTrees, host : SomeHosts]
    \cup [config : SmallConfigs, tree : SmallTrees, host : {<<>>}]
=============================================================================

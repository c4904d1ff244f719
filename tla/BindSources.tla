----------------------------- MODULE BindSources ------------------------------
(***************************************************************************)
(* The missing directories that Sidecars are to share                      *)
(* (prepare_bind_sources in cmd/sandrun/src/linux.rs).  Each sandrun makes *)
(* the sources of its binds in the main namespace, one name after another, *)
(* and a directory that it makes has its mode only after a second call.    *)
(* campd starts the declarations in order, but waits only for those that   *)
(* have a probe or are jobs: the sandruns run at once, next to the         *)
(* processes of the main image, and any of them may be killed.             *)
(***************************************************************************)
EXTENDS Integers, Sequences

CONSTANTS
    Plans,      \* sequences of declarations: [source, gated], Main has no source
    Trees,      \* what there is at the start, a function from Paths
    Paths,      \* the sources and the directories above them
    Main        \* the source of a Main process

VARIABLES
    plan,
    node,       \* node[p]: see Kinds
    mode,       \* mode[p]: what it was made with, see Modes
    step,       \* step[i]: the next step of declaration i
    depth       \* depth[i]: the names that its sandrun has come to

vars == <<plan, node, mode, step, depth>>

Kinds == {"absent", "dir", "file", "dir_link", "file_link", "dangling"}
Directories == {"dir", "dir_link"}
Obstacles == {"file", "file_link", "dangling"}

\* "masked" is 0777 without the bits of the umask, "open" is 0777, "other" what
\* somebody else chose.
Modes == {"none", "masked", "open", "other"}

ASSUME PathsAssumption == Main \notin Paths /\ \A s \in Paths :
    /\ s \in Seq(STRING) \ {<<>>}
    /\ \A k \in 1..Len(s) : SubSeq(s, 1, k) \in Paths
ASSUME PlansAssumption == Plans \subseteq Seq([source : Paths \cup {Main}, gated : BOOLEAN])
ASSUME TreesAssumption == Trees \subseteq [Paths -> Kinds]

Busy == {"resolve", "look", "mkdir", "chmod", "verify", "return"}
Ended == {"running", "failed", "killed"}

All == DOMAIN plan
Source(i) == plan[i].source
Length(i) == IF Source(i) = Main THEN 0 ELSE Len(Source(i))
At(i, k) == SubSeq(Source(i), 1, k)
Here(i) == At(i, depth[i])

TypeOK ==
    /\ plan \in Plans
    /\ node \in [Paths -> Kinds]
    /\ mode \in [Paths -> Modes]
    /\ step \in [All -> {"waiting"} \cup Busy \cup Ended]
    /\ \A i \in All : depth[i] \in 0..Length(i)
    /\ DOMAIN depth = All

Init ==
    /\ plan \in Plans
    /\ node \in Trees
    /\ mode = [p \in Paths |-> IF node[p] = "absent" THEN "none" ELSE "other"]
    /\ step = [i \in All |-> "waiting"]
    /\ depth = [i \in All |-> 0]

-----------------------------------------------------------------------------
(* fs::canonicalize() *)

Passable(i, k) == node[At(i, k)] \in IF k < Len(Source(i)) THEN Directories
                                     ELSE Kinds \ {"absent", "dangling"}

Canonical(i) == \A k \in 1..Len(Source(i)) : Passable(i, k)

\* ENOENT: a missing name or a dangling link comes before anything else that is wrong.
NotFound(i) == \E k \in 1..Len(Source(i)) :
    /\ node[At(i, k)] \in {"absent", "dangling"}
    /\ \A l \in 1..k - 1 : Passable(i, l)

Goes(i, from, to) == step[i] = from /\ step' = [step EXCEPT ![i] = to]

-----------------------------------------------------------------------------
\* campd goes on once a declaration is spawned, and has passed its gate if it has one;
\* a mutant does not wait.
Spawned(j) == step[j] # "waiting"
Passed(j) == step[j] # "waiting" /\ (plan[j].gated => step[j] = "running")

Launch(i) ==
    /\ \A j \in All : j < i => Passed(j)
    /\ Goes(i, "waiting", IF Source(i) = Main THEN "running" ELSE "resolve")
    /\ UNCHANGED <<plan, node, mode, depth>>

\* prepare_bind_sources(); what follows, up to the exec, is in SandrunLaunch.
Resolve(i) ==
    /\ step[i] = "resolve"
    /\ \/ Canonical(i) /\ Goes(i, "resolve", "running") /\ UNCHANGED depth
       \/ NotFound(i) /\ Goes(i, "resolve", "look") /\ depth' = [depth EXCEPT ![i] = 1]
       \/ ~Canonical(i) /\ ~NotFound(i) /\ Goes(i, "resolve", "failed") /\ UNCHANGED depth
    /\ UNCHANGED <<plan, node, mode>>

\* The next name.
Descend(i) ==
    IF depth[i] = Len(Source(i))
    THEN step' = [step EXCEPT ![i] = "return"] /\ UNCHANGED depth
    ELSE step' = [step EXCEPT ![i] = "look"] /\ depth' = [depth EXCEPT ![i] = @ + 1]

\* lstat(), and stat() on a link.
Look(i) ==
    /\ step[i] = "look"
    /\ \/ node[Here(i)] \in Directories /\ Descend(i)
       \/ node[Here(i)] \in Obstacles /\ Goes(i, "look", "failed") /\ UNCHANGED depth
       \/ node[Here(i)] = "absent" /\ Goes(i, "look", "mkdir") /\ UNCHANGED depth
    /\ UNCHANGED <<plan, node, mode>>

\* What follows when another process has been faster; a mutant gives up, another
\* sets the mode of what it finds.
GiveUp == "failed"
SetMode == "chmod"
IfExists == "verify"

\* create_directory(): mkdir() and, if it was this process that made it, chmod().
Mkdir(i) ==
    /\ step[i] = "mkdir"
    /\ IF node[Here(i)] = "absent"
       THEN /\ node' = [node EXCEPT ![Here(i)] = "dir"]
            /\ mode' = [mode EXCEPT ![Here(i)] = "masked"]
            /\ Goes(i, "mkdir", "chmod")
       ELSE Goes(i, "mkdir", IfExists) /\ UNCHANGED <<node, mode>>
    /\ UNCHANGED <<plan, depth>>

Chmod(i) ==
    /\ Goes(i, "chmod", "verify")
    /\ mode' = [mode EXCEPT ![Here(i)] = "open"]
    /\ UNCHANGED <<plan, node, depth>>

\* It has to be a directory by now, and not a link to one.
Verify(i) ==
    /\ step[i] = "verify"
    /\ IF node[Here(i)] = "dir" THEN Descend(i)
       ELSE Goes(i, "verify", "failed") /\ UNCHANGED depth
    /\ UNCHANGED <<plan, node, mode>>

Return(i) ==
    /\ step[i] = "return"
    /\ Goes(i, "return", IF Canonical(i) THEN "running" ELSE "failed")
    /\ UNCHANGED <<plan, node, mode, depth>>

Kill(i) ==
    /\ step[i] \in Busy
    /\ step' = [step EXCEPT ![i] = "killed"]
    /\ UNCHANGED <<plan, node, mode, depth>>

\* A process of the main namespace makes what is missing; none removes anything.
Appear(p) ==
    /\ node[p] = "absent"
    /\ Len(p) > 1 => node[SubSeq(p, 1, Len(p) - 1)] \in Directories
    /\ \E kind \in Kinds \ {"absent"} : node' = [node EXCEPT ![p] = kind]
    /\ mode' = [mode EXCEPT ![p] = "other"]
    /\ UNCHANGED <<plan, step, depth>>

Sandrun(i) == Resolve(i) \/ Look(i) \/ Mkdir(i) \/ Chmod(i) \/ Verify(i) \/ Return(i)

Next == \/ \E i \in All : Launch(i) \/ Sandrun(i) \/ Kill(i)
        \/ \E p \in Paths : Appear(p)

Spec == Init /\ [][Next]_vars

-----------------------------------------------------------------------------
\* A Sidecar whose sandrun has got past its sources finds them, whatever the other
\* sandruns and the main processes do in between; and a declaration that campd starts
\* finds the sources of the earlier ones that it waited for.
SourcesAreThere == \A i \in All : Source(i) # Main =>
    /\ step[i] = "running" => Canonical(i)
    /\ plan[i].gated => \A j \in All : i < j /\ step[j] # "waiting" => Canonical(i)

\* Sandruns that make the same directories at once do not make each other fail: there
\* is a file or a link in the way, which none of them made.
RaceIsHarmless == \A i \in All : step[i] = "failed" =>
    \E k \in 1..Len(Source(i)) : node[At(i, k)] \notin {"absent", "dir"}

\* When the sandruns are done and none was killed, what they made has mode 0777.
MadeIsOpen ==
    (\A i \in All : step[i] \notin Busy \cup {"killed"}) =>
        \A p \in Paths : mode[p] # "masked"

\* What exists is kept: nothing that a sandrun did not make changes, mode included.
ExistingIsKept == [][\A p \in Paths :
    /\ node[p] # "absent" => node'[p] = node[p]
    /\ mode[p] = "other" => mode'[p] = "other"]_vars

\* A directory is opened by the sandrun that made it, and by no other.
ModesAreRight == []MadeIsOpen /\ ExistingIsKept
=============================================================================

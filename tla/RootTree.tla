------------------------------- MODULE RootTree -------------------------------
(***************************************************************************)
(* A Sidecar's root file system, and the two ways in which a path is       *)
(* looked up in it: by sandrun, which stays outside of the root until the  *)
(* mounts are made and so follows symbolic links itself (resolve_target in *)
(* cmd/sandrun/src/linux.rs), and by the kernel for a process whose root   *)
(* it is.                                                                  *)
(*                                                                         *)
(* A tree is a function from the paths that exist below the root to nodes; *)
(* a path is the sequence of its names, and the text of a link may also    *)
(* have ".." among them.                                                   *)
(***************************************************************************)
EXTENDS Integers, Sequences, SequencesExt

CONSTANT MaxLinks       \* the links that one lookup follows, 40

ASSUME LinksAssumption == MaxLinks \in Nat

Node(kind, abs, to) == [kind |-> kind, abs |-> abs, to |-> to]
Dir == Node("dir", FALSE, <<>>)
File == Node("file", FALSE, <<>>)
Tool == Node("tool", FALSE, <<>>)       \* a file with an execute bit
Link(abs, to) == Node("link", abs, to)

\* No file has the name "..".
FileNames == STRING \ {".."}

Kinds == {"dir", "file", "tool", "link"}
IsTree(tree) == \A p \in DOMAIN tree :
    /\ p \in Seq(FileNames) /\ p # <<>>
    /\ Len(p) = 1 \/ (Front(p) \in DOMAIN tree /\ tree[Front(p)].kind = "dir")
    /\ tree[p].kind \in Kinds /\ tree[p].to \in Seq(STRING)

\* lstat()
Kind(tree, p) == IF p = <<>> THEN "dir"
                 ELSE IF p \in DOMAIN tree THEN tree[p].kind ELSE "absent"

Add(tree, p, node) == [q \in DOMAIN tree \cup {p} |-> IF q = p THEN node ELSE tree[q]]

IsFile(kind) == kind \in {"file", "tool"}

-----------------------------------------------------------------------------
(* sandrun's lookup. *)

Found(p) == [at |-> p, error |-> "", rest |-> <<>>]
Refused(error) == [at |-> <<>>, error |-> error, rest |-> <<>>]

\* normalize_inner_path(), one name after the other: a name is dropped by the ".."
\* after it, whatever it is; a path with a ".." too many is refused.
Outside == <<"..">>
Extended(p, name) == IF p = Outside \/ (name = ".." /\ p = <<>>) THEN Outside
                     ELSE IF name = ".." THEN Front(p) ELSE Append(p, name)
Normalize(text) ==
    LET upTo[i \in 0..Len(text)] == IF i = 0 THEN <<>> ELSE Extended(upTo[i - 1], text[i])
    IN upTo[Len(text)]

\* Where a relative link starts from: its directory, in a mutant the link itself.
FromLink(p) == p
FromParent(p) == Front(p)

\* What the path below p becomes when the link at p is followed.
Redirect(tree, p, rest) == (IF tree[p].abs THEN <<>> ELSE FromParent(p)) \o tree[p].to \o rest

\* How far path leads to a link or a missing name; beyond its end if it does not.
Stop(tree, path) ==
    Min({i \in 1..Len(path) + 1 : i > Len(path) \/ Kind(tree, SubSeq(path, 1, i)) \in {"link", "absent"}})

\* One turn of resolve_target(): the first link is followed, the path starts again
\* from the root.
Turn(tree, path) ==
    LET i == Stop(tree, path)
        p == SubSeq(path, 1, i)
    IN IF i <= Len(path) /\ Kind(tree, p) = "link"
       THEN Normalize(Redirect(tree, p, SubSeq(path, i + 1, Len(path)))) ELSE path

Resolve(tree, target) ==
    LET after[n \in 0..MaxLinks] == IF n = 0 THEN Normalize(target) ELSE Turn(tree, after[n - 1])
        path == after[MaxLinks]
        i == Stop(tree, path)
    IN IF path = Outside THEN Refused("escape")
       ELSE IF i > Len(path) THEN Found(path)
       ELSE Refused(IF Kind(tree, SubSeq(path, 1, i)) = "link" THEN "links" ELSE "missing")

-----------------------------------------------------------------------------
(* The kernel's lookup. *)

\* At the path at, with the names of rest to go.
On(at, rest) == [at |-> at, error |-> "", rest |-> rest]

\* Above the root a process stays in it; or the lookup reports that it came there.
Stays == "stays"
Reports == "reports"

\* One name; ".." is the parent of the directory reached.  The lookup goes no further
\* where something is mounted, and waits before a link.
Stepped(tree, points, atRoot, s) ==
    LET name == Head(s.rest)
        next == Append(s.at, name)
    IN IF s.error # "" \/ s.rest = <<>> \/ s.at \in points THEN s
       ELSE IF Kind(tree, s.at) # "dir" THEN Refused("missing")
       ELSE IF name = ".." THEN
            IF s.at # <<>> THEN On(Front(s.at), Tail(s.rest))
            ELSE IF atRoot = Reports THEN Refused("escape") ELSE On(<<>>, Tail(s.rest))
       ELSE IF Kind(tree, next) = "absent" THEN Refused("missing")
       ELSE IF Kind(tree, next) = "link" THEN s
       ELSE On(next, Tail(s.rest))

Walk(tree, points, atRoot, s) ==
    LET upTo[i \in 0..Len(s.rest)] == IF i = 0 THEN s ELSE Stepped(tree, points, atRoot, upTo[i - 1])
    IN upTo[Len(s.rest)]

Waits(points, s) == s.error = "" /\ s.rest # <<>> /\ s.at \notin points

Followed(tree, s) ==
    LET link == tree[Append(s.at, Head(s.rest))]
    IN On(IF link.abs THEN <<>> ELSE s.at, link.to \o Tail(s.rest))

\* The link that the walk waits before is followed by the next walk.
Passed(tree, points, atRoot, s) ==
    IF Waits(points, s) THEN Walk(tree, points, atRoot, Followed(tree, s)) ELSE s

Lookup(tree, points, atRoot, target) ==
    LET after[n \in 0..MaxLinks] == IF n = 0 THEN Walk(tree, points, atRoot, On(<<>>, target))
                                    ELSE Passed(tree, points, atRoot, after[n - 1])
        s == after[MaxLinks]
    IN IF Waits(points, s) THEN Refused("links") ELSE s
=============================================================================

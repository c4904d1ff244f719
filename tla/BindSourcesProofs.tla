--------------------------- MODULE BindSourcesProofs ---------------------------
(* Sandruns that make the same missing sources at once are harmless. *)
EXTENDS BindSources, WellFoundedInduction, TLAPS

\* A sandrun has passed the names above the one that it is at; the one that it opens or
\* looks at again was made by somebody.
WalkOf(i) ==
    /\ Source(i) = Main => step[i] \in {"waiting", "running"}
    /\ step[i] \in {"look", "mkdir", "chmod", "verify"} =>
          /\ depth[i] \in 1..Length(i)
          /\ \A k \in 1..depth[i] - 1 : node[At(i, k)] \in Directories
    /\ step[i] = "return" => \A k \in 1..Length(i) : node[At(i, k)] \in Directories
    /\ step[i] = "verify" => node[Here(i)] # "absent"
    /\ step[i] = "chmod" => node[Here(i)] # "absent" /\ mode[Here(i)] \in {"masked", "open"}

WalkInv == \A i \in All : WalkOf(i)

\* Only what a sandrun made has the mode of its umask, and that sandrun is about to
\* open it, or was killed.
ModeInv ==
    /\ \A p \in Paths : mode[p] = "masked" =>
          \E i \in All : \/ step[i] = "killed"
                         \/ step[i] = "chmod" /\ Here(i) = p
    /\ \A p \in Paths : mode[p] = "other" => node[p] # "absent"

BindInv == TypeOK /\ WalkInv /\ ModeInv /\ SourcesAreThere /\ RaceIsHarmless

-----------------------------------------------------------------------------
LEMMA PlanType ==
  ASSUME TypeOK, NEW i \in All
  PROVE  /\ plan[i].source \in Paths \cup {Main} /\ plan[i].gated \in BOOLEAN
         /\ i \in Nat /\ Length(i) \in Nat
         /\ Source(i) # Main => /\ Length(i) = Len(Source(i)) /\ Length(i) >= 1
                                /\ \A k \in 1..Length(i) : At(i, k) \in Paths
  <1>1. plan \in Seq([source : Paths \cup {Main}, gated : BOOLEAN])
    BY PlansAssumption DEF TypeOK
  <1>2. plan[i] \in [source : Paths \cup {Main}, gated : BOOLEAN] /\ i \in Nat
    <2> DEFINE S == [source : Paths \cup {Main}, gated : BOOLEAN]
    <2>1. plan \in Seq(S) /\ i \in DOMAIN plan
      BY <1>1 DEF All
    <2> HIDE DEF S
    <2>2. i \in 1..Len(plan) /\ Len(plan) \in Nat /\ plan[i] \in S
      BY <2>1
    <2> QED
      BY <2>2 DEF S
  <1>3. ASSUME Source(i) # Main
        PROVE  Len(Source(i)) \in Nat /\ Len(Source(i)) >= 1
    <2>1. Source(i) \in Seq(STRING) \ {<<>>}
      BY <1>2, <1>3, PathsAssumption DEF Source
    <2> QED
      BY <2>1
  <1>4. Source(i) # Main => \A k \in 1..Len(Source(i)) : At(i, k) \in Paths
    BY <1>2, PathsAssumption DEF Source, At
  <1> QED
    BY <1>2, <1>3, <1>4 DEF Length, Source

\* A lookup that fails for anything but a missing name meets a file or a link.
LEMMA Obstacle ==
  ASSUME TypeOK, NEW i \in All, Source(i) # Main, ~Canonical(i), ~NotFound(i)
  PROVE  \E k \in 1..Len(Source(i)) : node[At(i, k)] \notin {"absent", "dir"}
  <1> DEFINE n == Len(Source(i))
             T == {k \in 1..n : ~Passable(i, k)}
  <1>1. n \in Nat /\ T \subseteq Nat
    BY PlanType
  <1>2. T # {}
    BY DEF Canonical
  <1>3. PICK k \in T : \A l \in T : ~(<<l, k>> \in OpToRel(<, Nat))
    <2> HIDE DEF T
    <2> DEFINE R == OpToRel(<, Nat)
    <2>1. IsWellFoundedOn(R, Nat)
      BY NatLessThanWellFounded
    <2> HIDE DEF R
    <2>2. \E k \in T : \A l \in T : ~(<<l, k>> \in R)
      BY <1>1, <1>2, <2>1, WFMin
    <2> QED
      BY <2>2 DEF R
  <1>4. \A l \in 1..k - 1 : Passable(i, l)
    <2> SUFFICES ASSUME NEW l \in 1..k - 1, ~Passable(i, l) PROVE FALSE
      OBVIOUS
    <2>1. l \in T /\ l < k /\ l \in Nat /\ k \in Nat
      BY <1>1
    <2> QED
      BY <1>3, <2>1 DEF OpToRel
  <1>5. node[At(i, k)] \notin {"absent", "dangling"}
    BY <1>4, <1>3 DEF NotFound
  <1>6. node[At(i, k)] # "dir"
    BY <1>3, <1>5 DEF Passable, Directories, Kinds
  <1> QED
    BY <1>3, <1>5, <1>6

LEMMA Walkable ==
  ASSUME TypeOK, NEW i \in All, \A k \in 1..Len(Source(i)) : node[At(i, k)] \in Directories
  PROVE  Canonical(i)
  BY DEF Canonical, Passable, Directories, Kinds

-----------------------------------------------------------------------------
\* Nothing that exists changes what it is.
LEMMA NodesStay ==
  ASSUME TypeOK, [Next]_vars
  PROVE  /\ plan' = plan
         /\ \A p \in Paths : node[p] # "absent" => node'[p] = node[p]
  <1>1. ASSUME NEW i \in All, Mkdir(i)
        PROVE  \A p \in Paths : node[p] # "absent" => node'[p] = node[p]
    BY <1>1 DEF Mkdir, TypeOK
  <1>2. ASSUME NEW q \in Paths, Appear(q)
        PROVE  \A p \in Paths : node[p] # "absent" => node'[p] = node[p]
    BY <1>2 DEF Appear, TypeOK
  <1>3. plan' = plan
    BY DEF Next, Sandrun, Launch, Resolve, Look, Mkdir, Chmod, Verify, Return, Kill, Appear, vars
  <1> QED
    BY <1>1, <1>2, <1>3
       DEF Next, Sandrun, Launch, Resolve, Look, Mkdir, Chmod, Verify, Return, Kill, Appear, vars

LEMMA PathsStay ==
  ASSUME TypeOK, [Next]_vars, NEW i \in All, Source(i) # Main
  PROVE  /\ Source(i)' = Source(i) /\ Length(i)' = Length(i)
         /\ \A k \in 1..Len(Source(i)) :
               /\ At(i, k)' = At(i, k)
               /\ node[At(i, k)] # "absent" => node'[At(i, k)] = node[At(i, k)]
         /\ Canonical(i) => Canonical(i)'
  <1>1. /\ Source(i)' = Source(i) /\ Length(i)' = Length(i)
        /\ \A k : At(i, k)' = At(i, k)
    BY NodesStay DEF Source, Length, At
  <1>2. \A k \in 1..Len(Source(i)) : At(i, k) \in Paths
    BY PlanType
  <1>3. \A k \in 1..Len(Source(i)) :
           node[At(i, k)] # "absent" => node'[At(i, k)] = node[At(i, k)]
    BY <1>2, NodesStay
  <1>4. ASSUME Canonical(i) PROVE Canonical(i)'
    <2>1. \A k \in 1..Len(Source(i)) : Passable(i, k) => Passable(i, k)'
      <3> SUFFICES ASSUME NEW k \in 1..Len(Source(i)), Passable(i, k) PROVE Passable(i, k)'
        OBVIOUS
      <3>1. node[At(i, k)] # "absent"
        BY DEF Passable, Directories
      <3>2. node'[At(i, k)'] = node[At(i, k)]
        BY <1>1, <1>3, <3>1
      <3> QED
        BY <1>1, <3>2 DEF Passable
    <2> QED
      BY <1>1, <1>4, <2>1 DEF Canonical
  <1> QED
    BY <1>1, <1>3, <1>4

LEMMA HereType ==
  ASSUME TypeOK, NEW i \in All, WalkOf(i), step[i] \in {"look", "mkdir", "chmod", "verify"}
  PROVE  /\ Source(i) # Main /\ Length(i) = Len(Source(i)) /\ Length(i) \in Nat
         /\ depth[i] \in 1..Length(i)
         /\ Here(i) \in Paths
  BY PlanType DEF WalkOf, Here

\* Of what exists, the mode changes only when it is opened.
LEMMA ModesStay ==
  ASSUME TypeOK, WalkInv, ModeInv, [Next]_vars, NEW p \in Paths, node[p] # "absent"
  PROVE  /\ mode'[p] \in {mode[p], "open"}
         /\ mode[p] = "other" => mode'[p] = "other"
  <1>1. ASSUME NEW i \in All, Mkdir(i) PROVE mode'[p] = mode[p]
    BY <1>1 DEF Mkdir, TypeOK
  <1>2. ASSUME NEW i \in All, Chmod(i)
        PROVE  mode'[p] \in {mode[p], "open"} /\ (mode[p] = "other" => mode'[p] = "other")
    <2>1. mode[Here(i)] \in {"masked", "open"}
      BY <1>2 DEF Chmod, Goes, WalkInv, WalkOf
    <2>2. mode' = [mode EXCEPT ![Here(i)] = "open"]
      BY <1>2 DEF Chmod
    <2> QED
      BY <2>1, <2>2 DEF TypeOK
  <1>3. ASSUME NEW q \in Paths, Appear(q) PROVE mode'[p] = mode[p]
    BY <1>3 DEF Appear, TypeOK
  <1>4. CASE UNCHANGED mode
    BY <1>4
  <1> QED
    BY <1>1, <1>2, <1>3, <1>4
       DEF Next, Sandrun, Launch, Resolve, Look, Verify, Return, Kill, vars

-----------------------------------------------------------------------------
LEMMA TypeStep == TypeOK /\ WalkInv /\ [Next]_vars => TypeOK'
  <1> SUFFICES ASSUME TypeOK, WalkInv, [Next]_vars PROVE TypeOK'
    OBVIOUS
  <1>0. plan' = plan /\ All' = All /\ \A i \in All : Length(i)' = Length(i)
    BY NodesStay DEF All, Length, Source
  <1> USE DEF TypeOK, Busy, Ended, Goes
  <1>1. CASE UNCHANGED vars
    BY <1>0, <1>1 DEF vars
  <1>2. ASSUME NEW i \in All, Launch(i) \/ Return(i) \/ Kill(i) PROVE TypeOK'
    BY <1>0, <1>2 DEF Launch, Return, Kill
  <1>3. ASSUME NEW i \in All, Resolve(i) PROVE TypeOK'
    <2>1. NotFound(i) /\ step[i] = "resolve" => Length(i) >= 1 /\ Length(i) \in Nat
      BY PlanType DEF WalkInv, WalkOf
    <2> QED
      BY <1>0, <1>3, <2>1 DEF Resolve
  <1>4. ASSUME NEW i \in All, Look(i) \/ Verify(i) PROVE TypeOK'
    <2>1. Length(i) = Len(Source(i)) /\ Length(i) \in Nat /\ depth[i] \in 1..Length(i)
      BY <1>4, HereType DEF Look, Verify, WalkInv
    <2> QED
      BY <1>0, <1>4, <2>1 DEF Look, Verify, Descend
  <1>5. ASSUME NEW i \in All, Mkdir(i) \/ Chmod(i) PROVE TypeOK'
    BY <1>0, <1>5, HereType DEF Mkdir, Chmod, IfExists, Kinds, Modes, WalkInv
  <1>6. ASSUME NEW q \in Paths, Appear(q) PROVE TypeOK'
    BY <1>0, <1>6 DEF Appear, Modes
  <1> HIDE DEF TypeOK
  <1> QED
    BY <1>1, <1>2, <1>3, <1>4, <1>5, <1>6 DEF Next, Sandrun

-----------------------------------------------------------------------------
\* What a sandrun knows of its way stays true while others act.
LEMMA WalkKept ==
  ASSUME TypeOK, WalkInv, ModeInv, [Next]_vars, NEW i \in All,
         step'[i] = step[i], depth'[i] = depth[i]
  PROVE  WalkOf(i)'
  <1>1. CASE Source(i) = Main
    BY <1>1, NodesStay DEF WalkInv, WalkOf, Source
  <1>2. CASE Source(i) # Main
    <2>1. /\ Length(i)' = Length(i) /\ Source(i)' = Source(i) /\ Length(i) = Len(Source(i))
          /\ Length(i) \in Nat
          /\ \A k \in 1..Length(i) :
               /\ At(i, k)' = At(i, k) /\ At(i, k) \in Paths
               /\ node[At(i, k)] # "absent" => node'[At(i, k)] = node[At(i, k)]
      BY <1>2, PathsStay, PlanType
    <2>2. step[i] \in {"look", "mkdir", "chmod", "verify"} =>
            /\ depth[i] \in 1..Length(i)
            /\ \A k \in 1..depth[i] - 1 : node[At(i, k)] \in Directories /\ k \in 1..Length(i)
      BY <2>1 DEF WalkInv, WalkOf
    <2>3. step[i] \in {"look", "mkdir", "chmod", "verify"} =>
            Here(i)' = Here(i) /\ Here(i) \in Paths
      BY <2>1, <2>2 DEF Here
    <2>4. step[i] = "chmod" => mode'[Here(i)] \in {"masked", "open"}
      BY <2>3, ModesStay DEF WalkInv, WalkOf
    <2>5. step[i] = "return" => \A k \in 1..Length(i) : node'[At(i, k)'] \in Directories
      BY <2>1 DEF WalkInv, WalkOf, Directories
    <2>6. step[i] \in {"look", "mkdir", "chmod", "verify"} =>
            \A k \in 1..depth[i] - 1 : node'[At(i, k)'] \in Directories
      BY <2>1, <2>2 DEF Directories
    <2>7. step[i] \in {"chmod", "verify"} => node'[Here(i)'] # "absent"
      BY <2>1, <2>2 DEF WalkInv, WalkOf, Here
    <2> QED
      BY <1>2, <2>1, <2>2, <2>3, <2>4, <2>5, <2>6, <2>7 DEF WalkOf
  <1> QED
    BY <1>1, <1>2

LEMMA WalkStep == TypeOK /\ WalkInv /\ ModeInv /\ [Next]_vars => WalkInv'
  <1> SUFFICES ASSUME TypeOK, WalkInv, ModeInv, [Next]_vars, NEW i \in All PROVE WalkOf(i)'
    BY NodesStay DEF WalkInv, All
  <1>0. /\ plan' = plan /\ Source(i)' = Source(i) /\ Length(i)' = Length(i) /\ WalkOf(i)
        /\ DOMAIN step = All /\ i \in DOMAIN depth /\ DOMAIN depth = All
        /\ \A k : At(i, k)' = At(i, k)
    BY NodesStay DEF Source, Length, At, WalkInv, TypeOK
  <1>1. CASE UNCHANGED vars
    BY <1>1, WalkKept DEF vars
  <1>2. ASSUME NEW q \in Paths, Appear(q) PROVE WalkOf(i)'
    BY <1>2, WalkKept DEF Appear
  <1>3. ASSUME NEW j \in All, j # i, Launch(j) \/ Sandrun(j) \/ Kill(j) PROVE WalkOf(i)'
    <2>1. step'[i] = step[i] /\ depth'[i] = depth[i]
      BY <1>0, <1>3 DEF Launch, Kill, Sandrun, Resolve, Look, Mkdir, Chmod, Verify, Return,
                        Goes, Descend
    <2> QED
      BY <2>1, WalkKept
  <1>4. CASE Launch(i) \/ Kill(i)
    BY <1>0, <1>4 DEF Launch, Kill, Goes, WalkOf, Busy
  <1>5. CASE Resolve(i)
    <2>1. Source(i) # Main
      BY <1>0, <1>5 DEF WalkOf, Resolve
    <2>2. Length(i) \in Nat /\ Length(i) >= 1
      BY <2>1, PlanType
    <2>3. \/ step'[i] \in {"running", "failed"}
          \/ step'[i] = "look" /\ depth'[i] = 1
      BY <1>0, <1>5 DEF Resolve, Goes
    <2> QED
      BY <1>0, <2>1, <2>2, <2>3 DEF WalkOf
  <1>6. ASSUME Look(i) \/ Verify(i), Descend(i), node[Here(i)] \in Directories PROVE WalkOf(i)'
    <2>1. /\ Source(i) # Main /\ Length(i) = Len(Source(i)) /\ Length(i) \in Nat
          /\ depth[i] \in 1..Length(i)
      BY <1>0, <1>6, HereType DEF Look, Verify
    <2>2. \A k \in 1..depth[i] : node'[At(i, k)'] \in Directories
      <3>1. \A k \in 1..depth[i] - 1 : node[At(i, k)] \in Directories
        BY <1>0, <1>6 DEF WalkOf, Look, Verify
      <3>2. UNCHANGED node
        BY <1>6 DEF Look, Verify
      <3> QED
        BY <1>0, <1>6, <2>1, <3>1, <3>2 DEF Here
    <2>3. CASE depth[i] = Length(i) /\ step'[i] = "return"
      BY <1>0, <2>1, <2>2, <2>3 DEF WalkOf
    <2>4. CASE depth[i] # Length(i) /\ step'[i] = "look" /\ depth'[i] = depth[i] + 1
      <3>1. depth'[i] \in 1..Length(i) /\ depth'[i] - 1 = depth[i]
        BY <2>1, <2>4
      <3> QED
        BY <1>0, <2>1, <2>2, <2>4, <3>1 DEF WalkOf
    <2>5. \/ depth[i] = Length(i) /\ step'[i] = "return"
          \/ depth[i] # Length(i) /\ step'[i] = "look" /\ depth'[i] = depth[i] + 1
      BY <1>0, <1>6, <2>1 DEF Descend
    <2> QED
      BY <2>3, <2>4, <2>5
  <1>7. ASSUME Look(i), node[Here(i)] \notin Directories PROVE WalkOf(i)'
    <2>1. step'[i] \in {"failed", "mkdir"} /\ UNCHANGED <<node, depth>> /\ step[i] = "look"
      BY <1>0, <1>7 DEF Look, Goes
    <2> QED
      BY <1>0, <2>1 DEF WalkOf
  <1>8. ASSUME Verify(i), node[Here(i)] # "dir" PROVE WalkOf(i)'
    BY <1>0, <1>8 DEF Verify, Goes, WalkOf
  <1>9. CASE Mkdir(i) \/ Chmod(i)
    <2>1. /\ Source(i) # Main /\ Length(i) = Len(Source(i)) /\ Length(i) \in Nat
          /\ depth[i] \in 1..Length(i) /\ Here(i) \in Paths
          /\ UNCHANGED depth /\ Here(i)' = Here(i)
          /\ step[i] \in {"mkdir", "chmod"} /\ step'[i] \in {"chmod", "verify"}
      BY <1>0, <1>9, HereType DEF Mkdir, Chmod, Goes, IfExists, Here
    <2>2. \A k \in 1..depth[i] - 1 : node'[At(i, k)'] \in Directories
      <3>1. \A k \in 1..depth[i] - 1 : node[At(i, k)] \in Directories /\ k \in 1..Length(i)
        BY <1>0, <2>1 DEF WalkOf
      <3>2. \A k \in 1..Length(i) :
               node[At(i, k)] # "absent" => node'[At(i, k)] = node[At(i, k)]
        BY <2>1, PathsStay
      <3> QED
        BY <1>0, <3>1, <3>2 DEF Directories
    <2>3. node'[Here(i)] # "absent"
      BY <1>0, <1>9, <2>1 DEF Mkdir, Chmod, WalkOf, TypeOK, Goes
    <2>4. step'[i] = "chmod" => mode'[Here(i)] \in {"masked", "open"}
      BY <1>0, <1>9, <2>1 DEF Mkdir, Chmod, TypeOK, Goes, IfExists
    <2> QED
      BY <1>0, <2>1, <2>2, <2>3, <2>4 DEF WalkOf
  <1>10. CASE Return(i)
    BY <1>0, <1>10 DEF Return, Goes, WalkOf
  <1>11. Verify(i) /\ node[Here(i)] = "dir" => Descend(i)
    BY DEF Verify
  <1>12. Look(i) /\ node[Here(i)] \in Directories => Descend(i)
    BY DEF Look, Directories, Obstacles
  <1>13. CASE Sandrun(i)
    <2>1. CASE Look(i)
      BY <1>6, <1>7, <1>12, <2>1
    <2>2. CASE Verify(i)
      BY <1>6, <1>8, <1>11, <2>2 DEF Directories
    <2> QED
      BY <1>5, <1>9, <1>10, <1>13, <2>1, <2>2 DEF Sandrun
  <1> QED
    BY <1>1, <1>2, <1>3, <1>4, <1>13 DEF Next

-----------------------------------------------------------------------------
LEMMA ModeStep == TypeOK /\ WalkInv /\ ModeInv /\ [Next]_vars => ModeInv'
  <1> SUFFICES ASSUME TypeOK, WalkInv, ModeInv, [Next]_vars PROVE ModeInv'
    OBVIOUS
  <1>0. plan' = plan /\ All' = All /\ DOMAIN step = All /\ DOMAIN depth = All
    BY NodesStay DEF All, TypeOK
  <1>1. ASSUME NEW p \in Paths, mode'[p] = "masked"
        PROVE  \E i \in All : step'[i] = "killed" \/ (step'[i] = "chmod" /\ Here(i)' = p)
    <2>1. ASSUME NEW i \in All, Mkdir(i), node[Here(i)] = "absent", Here(i) = p
          PROVE  step'[i] = "chmod" /\ Here(i)' = p
      BY <1>0, <2>1 DEF Mkdir, Goes, Here, At, Source
    <2>2. ASSUME mode[p] = "masked"
          PROVE  \E i \in All : step'[i] = "killed" \/ (step'[i] = "chmod" /\ Here(i)' = p)
      <3>1. PICK o \in All : step[o] = "killed" \/ (step[o] = "chmod" /\ Here(o) = p)
        BY <2>2 DEF ModeInv
      <3>2. CASE step'[o] = step[o] /\ depth'[o] = depth[o]
        BY <1>0, <3>1, <3>2 DEF Here, At, Source
      <3>3. CASE Kill(o)
        BY <1>0, <3>3 DEF Kill
      <3>4. ~Chmod(o) \/ step[o] # "chmod"
        BY <1>1, <3>1 DEF Chmod, TypeOK
      <3>5. \/ step'[o] = step[o] /\ depth'[o] = depth[o]
            \/ Kill(o)
        BY <1>0, <3>1, <3>4 DEF Next, Launch, Kill, Sandrun, Resolve, Look, Mkdir, Chmod, Verify,
                                Return, Appear, Goes, Descend, vars
      <3> QED
        BY <3>2, <3>3, <3>5
    <2>3. \/ mode[p] = "masked"
          \/ \E i \in All : Mkdir(i) /\ node[Here(i)] = "absent" /\ Here(i) = p
      <3>1. ASSUME NEW i \in All, Mkdir(i)
            PROVE  mode[p] = "masked" \/ (node[Here(i)] = "absent" /\ Here(i) = p)
        BY <1>1, <3>1 DEF Mkdir, TypeOK
      <3>2. ASSUME NEW i \in All, Chmod(i) PROVE mode[p] = "masked"
        BY <1>1, <3>2 DEF Chmod, TypeOK
      <3>3. ASSUME NEW q \in Paths, Appear(q) PROVE mode[p] = "masked"
        BY <1>1, <3>3 DEF Appear, TypeOK
      <3>4. UNCHANGED mode => mode[p] = "masked"
        BY <1>1
      <3> QED
        BY <3>1, <3>2, <3>3, <3>4
           DEF Next, Launch, Kill, Sandrun, Resolve, Look, Verify, Return, vars
    <2> QED
      BY <2>1, <2>2, <2>3
  <1>2. ASSUME NEW p \in Paths, mode'[p] = "other" PROVE node'[p] # "absent"
    <2>1. CASE mode[p] = "other"
      BY <2>1, NodesStay DEF ModeInv
    <2>2. CASE mode[p] # "other"
      <3>1. ASSUME NEW q \in Paths, Appear(q) PROVE node'[p] # "absent"
        BY <1>2, <2>2, <3>1 DEF Appear, TypeOK
      <3>2. ASSUME NEW i \in All, Mkdir(i) \/ Chmod(i) PROVE FALSE
        BY <1>2, <2>2, <3>2 DEF Mkdir, Chmod, TypeOK
      <3>3. ~UNCHANGED mode
        BY <1>2, <2>2
      <3> QED
        BY <3>1, <3>2, <3>3
           DEF Next, Launch, Kill, Sandrun, Resolve, Look, Verify, Return, vars
    <2> QED
      BY <2>1, <2>2
  <1> QED
    BY <1>0, <1>1, <1>2 DEF ModeInv

LEMMA ThereStep == TypeOK /\ WalkInv /\ SourcesAreThere /\ [Next]_vars => SourcesAreThere'
  <1> SUFFICES ASSUME TypeOK, WalkInv, SourcesAreThere, [Next]_vars,
                      NEW i \in All, Source(i) # Main
               PROVE  /\ step'[i] = "running" => Canonical(i)'
                      /\ plan[i].gated => \A j \in All : i < j /\ step'[j] # "waiting" => Canonical(i)'
    BY NodesStay DEF SourcesAreThere, All, Source
  <1>0. DOMAIN step = All /\ (Canonical(i) => Canonical(i)')
    BY PathsStay DEF TypeOK
  <1>1. ASSUME step'[i] = "running", step[i] # "running" PROVE Canonical(i)
    <2>1. ASSUME NEW j \in All, j # i, Launch(j) \/ Sandrun(j) \/ Kill(j) PROVE step'[i] = step[i]
      BY <1>0, <2>1 DEF Launch, Kill, Sandrun, Resolve, Look, Mkdir, Chmod, Verify, Return,
                        Goes, Descend
    <2>2. ASSUME Launch(i) \/ Kill(i) \/ Look(i) \/ Mkdir(i) \/ Chmod(i) \/ Verify(i) PROVE FALSE
      BY <1>0, <1>1, <2>2 DEF Launch, Kill, Look, Mkdir, Chmod, Verify, Goes, Descend, IfExists
    <2>3. CASE Resolve(i) \/ Return(i)
      BY <1>0, <1>1, <2>3 DEF Resolve, Return, Goes
    <2> QED
      BY <1>1, <2>1, <2>2, <2>3 DEF Next, Sandrun, Appear, vars
  <1>2. ASSUME NEW j \in All, i < j, plan[i].gated, step[j] = "waiting", step'[j] # "waiting"
        PROVE  Canonical(i)
    <2>1. Launch(j)
      BY <1>0, <1>2 DEF Next, Launch, Kill, Sandrun, Resolve, Look, Mkdir, Chmod, Verify, Return,
                        Appear, Goes, Descend, Busy, vars
    <2> QED
      BY <1>2, <2>1 DEF Launch, Passed, SourcesAreThere
  <1> QED
    BY <1>0, <1>1, <1>2 DEF SourcesAreThere

LEMMA RaceStep == TypeOK /\ WalkInv /\ RaceIsHarmless /\ [Next]_vars => RaceIsHarmless'
  <1> SUFFICES ASSUME TypeOK, WalkInv, RaceIsHarmless, [Next]_vars, NEW i \in All,
                      step'[i] = "failed"
               PROVE  \E k \in 1..Len(Source(i)') : node'[At(i, k)'] \notin {"absent", "dir"}
    BY NodesStay DEF RaceIsHarmless, All
  <1>0. DOMAIN step = All /\ WalkOf(i) /\ Source(i)' = Source(i)
    BY NodesStay DEF TypeOK, WalkInv, Source
  <1>1. Source(i) # Main
    <2>1. Source(i) = Main => step[i] \in {"waiting", "running"}
      BY <1>0 DEF WalkOf
    <2> QED
      BY <1>0, <2>1 DEF Next, Launch, Kill, Sandrun, Resolve, Look, Mkdir, Chmod, Verify, Return,
                        Appear, Goes, Descend, Busy, vars
  <1>2. ASSUME NEW k \in 1..Len(Source(i)), node[At(i, k)] \notin {"absent", "dir"}
        PROVE  node'[At(i, k)'] \notin {"absent", "dir"}
    BY <1>1, <1>2, PathsStay
  <1>3. SUFFICES \E k \in 1..Len(Source(i)) : node[At(i, k)] \notin {"absent", "dir"}
    BY <1>0, <1>2
  <1>4. CASE step[i] = "failed"
    BY <1>4 DEF RaceIsHarmless
  <1>5. CASE step[i] # "failed"
    <2>1. ASSUME NEW j \in All, j # i, Launch(j) \/ Sandrun(j) \/ Kill(j) PROVE FALSE
      BY <1>0, <1>5, <2>1 DEF Launch, Kill, Sandrun, Resolve, Look, Mkdir, Chmod, Verify, Return,
                              Goes, Descend
    <2>2. ASSUME Launch(i) \/ Kill(i) \/ Mkdir(i) \/ Chmod(i) PROVE FALSE
      BY <1>0, <2>2 DEF Launch, Kill, Mkdir, Chmod, Goes, IfExists
    <2>3. CASE Resolve(i)
      <3>1. ~Canonical(i) /\ ~NotFound(i)
        BY <1>0, <2>3 DEF Resolve, Goes
      <3> QED
        BY <1>1, <3>1, Obstacle
    <2>4. CASE Look(i) \/ Verify(i)
      <3>1. Here(i) = At(i, depth[i]) /\ depth[i] \in 1..Len(Source(i))
        BY <1>0, <2>4, HereType DEF Look, Verify, Here
      <3>2. node[Here(i)] \notin {"absent", "dir"}
        BY <1>0, <2>4 DEF Look, Verify, Descend, Goes, WalkOf, Obstacles
      <3> QED
        BY <3>1, <3>2
    <2>5. CASE Return(i)
      <3>1. Canonical(i)
        BY <1>0, <1>1, <2>5, PlanType, Walkable DEF Return, WalkOf
      <3> QED
        BY <1>0, <2>5, <3>1 DEF Return, Goes
    <2> QED
      BY <1>5, <2>1, <2>2, <2>3, <2>4, <2>5 DEF Next, Sandrun, Appear, vars
  <1> QED
    BY <1>4, <1>5

-----------------------------------------------------------------------------
LEMMA InvInit == Init => BindInv
  <1> SUFFICES ASSUME Init PROVE BindInv
    OBVIOUS
  <1>1. node \in [Paths -> Kinds] /\ plan \in Plans
    BY TreesAssumption DEF Init
  <1>2. \A i \in All : step[i] = "waiting" /\ depth[i] = 0
    BY DEF Init
  <1>3. \A i \in All : Length(i) \in Nat
    <2> SUFFICES ASSUME NEW i \in All, Source(i) # Main PROVE Len(Source(i)) \in Nat
      BY DEF Length
    <2>1. plan \in Seq([source : Paths \cup {Main}, gated : BOOLEAN])
      BY <1>1, PlansAssumption
    <2>2. plan[i] \in [source : Paths \cup {Main}, gated : BOOLEAN]
      <3> DEFINE S == [source : Paths \cup {Main}, gated : BOOLEAN]
      <3>1. plan \in Seq(S) /\ i \in DOMAIN plan
        BY <2>1 DEF All
      <3> HIDE DEF S
      <3>2. plan[i] \in S
        BY <3>1
      <3> QED
        BY <3>2 DEF S
    <2>3. Source(i) \in Seq(STRING)
      BY <2>2, PathsAssumption DEF Source
    <2> QED
      BY <2>3
  <1>4. TypeOK
    BY <1>1, <1>2, <1>3 DEF Init, TypeOK, Modes
  <1>5. WalkInv /\ SourcesAreThere /\ RaceIsHarmless
    BY <1>2 DEF WalkInv, WalkOf, SourcesAreThere, RaceIsHarmless
  <1>6. ModeInv
    BY <1>1 DEF Init, ModeInv
  <1> QED
    BY <1>4, <1>5, <1>6 DEF BindInv

LEMMA Invariance == Spec => []BindInv
  <1>1. BindInv /\ [Next]_vars => BindInv'
    BY TypeStep, WalkStep, ModeStep, ThereStep, RaceStep DEF BindInv
  <1> QED
    BY <1>1, InvInit, PTL DEF Spec

\* prepare_bind_sources() and run() of campd: for any declarations and any tree, a
\* Sidecar that has got past its sources finds them, and so does a declaration that
\* campd starts after it has waited for that Sidecar.
THEOREM SourcesExist == Spec => []SourcesAreThere
  BY Invariance, PTL DEF BindInv

\* prepare_bind_sources(): any number of sandruns that make the same directories at once
\* fail only for a file or a link that none of them made.
THEOREM NoRaceFails == Spec => []RaceIsHarmless
  BY Invariance, PTL DEF BindInv

\* create_directory(): what exists keeps its kind and mode, and what sandruns made is
\* open when they are done, if none was killed.
THEOREM MadeOpen == Spec => ModesAreRight
  <1>1. BindInv => MadeIsOpen
    BY DEF BindInv, ModeInv, MadeIsOpen, Busy
  <1> DEFINE Kept == \A p \in Paths :
          /\ node[p] # "absent" => node'[p] = node[p]
          /\ mode[p] = "other" => mode'[p] = "other"
  <1>2. BindInv /\ [Next]_vars => [Kept]_vars
    BY NodesStay, ModesStay DEF BindInv, ModeInv
  <1>3. ExistingIsKept <=> [][Kept]_vars
    BY DEF ExistingIsKept
  <1> HIDE DEF Kept
  <1>4. Spec => ExistingIsKept
    BY <1>2, <1>3, Invariance, PTL DEF Spec
  <1>5. Spec => []MadeIsOpen
    BY <1>1, Invariance, PTL
  <1> QED
    BY <1>4, <1>5 DEF ModesAreRight
=============================================================================

------------------------- MODULE SandrunLaunchProofs --------------------------
(***************************************************************************)
(* What sandrun resolves before it makes the mounts is what a process in   *)
(* the finished root finds: first for any tree, step by step of the two    *)
(* lookups of RootTree; then for the tree that the steps of run() make.    *)
(* Whatever step fails, nothing of it is seen outside, and the layer keeps *)
(* what it has.                                                            *)
(***************************************************************************)
EXTENDS SandrunLaunch, WellFoundedInduction, SequenceTheorems, TLAPS

\* The strings of the model; of a literal the provers do not know that it is one.
Names == STRING \cup {"..", "proc", "dev", "sys", "tmp", "run", "etc", "fs", "cgroup", "hosts",
                      "resolv.conf", "bind", "tmpfs", "dns", "disk"}
Plain == Names \ {".."}

TreeTypes(t) == \A p \in DOMAIN t :
    /\ p \in Seq(Plain) /\ p # <<>> /\ Kind(t, Front(p)) = "dir"
    /\ t[p].kind \in Kinds /\ t[p].to \in Seq(Names)

\* u has what t has.
Keeps(t, u) == \A p \in DOMAIN t : p \in DOMAIN u /\ u[p] = t[p]

LEMMA KeepsAll ==
  ASSUME NEW t, NEW u, NEW v, Keeps(t, u), Keeps(u, v)
  PROVE  Keeps(t, v)
  BY DEF Keeps

LEMMA AbsentIsNew ==
  ASSUME NEW t, NEW p, TreeTypes(t), Kind(t, p) = "absent"
  PROVE  p \notin DOMAIN t
  BY DEF Kind, TreeTypes, Kinds

LEMMA KindsOfAdded ==
  ASSUME NEW t, NEW p, p # <<>>, NEW node
  PROVE  \A q : Kind(Add(t, p, node), q) = IF q = p THEN node.kind ELSE Kind(t, q)
  <1> DEFINE u == Add(t, p, node)
  <1>1. DOMAIN u = DOMAIN t \cup {p} /\ u[p] = node /\ \A q \in DOMAIN t : q # p => u[q] = t[q]
    BY DEF Add
  <1> HIDE DEF u
  <1> QED
    BY <1>1 DEF Kind, u

LEMMA AddKeeps ==
  ASSUME NEW t, NEW p \in Seq(Plain), p # <<>>, NEW node \in {Dir, File}, TreeTypes(t),
         Kind(t, p) = "absent", Kind(t, Front(p)) = "dir"
  PROVE  Keeps(t, Add(t, p, node)) /\ TreeTypes(Add(t, p, node))
  <1> DEFINE u == Add(t, p, node)
  <1>1. DOMAIN u = DOMAIN t \cup {p} /\ u[p] = node /\ \A q \in DOMAIN t : q # p => u[q] = t[q]
    BY DEF Add
  <1>2. node.kind \in Kinds /\ node.to \in Seq(Names)
    <2>1. node.kind \in {"dir", "file"} /\ node.to = <<>>
      BY DEF Dir, File, Node
    <2>2. <<>> \in Seq(Names)
      OBVIOUS
    <2> QED
      BY <2>1, <2>2 DEF Kinds
  <1>3. p \notin DOMAIN t
    BY AbsentIsNew
  <1>4. \A q : q # p => Kind(u, q) = Kind(t, q)
    BY KindsOfAdded
  <1> HIDE DEF u
  <1>5. Keeps(t, u)
    BY <1>1, <1>3 DEF Keeps
  <1>6. Kind(u, Front(p)) = "dir"
    <2>1. Front(p) # p
      BY DEF Front
    <2> QED
      BY <1>4, <2>1
  <1>7. \A q \in DOMAIN t : Kind(t, Front(q)) = "dir"
    BY DEF TreeTypes
  <1>8. \A q \in DOMAIN t : Kind(u, Front(q)) = "dir"
    BY <1>4, <1>7
  <1>9. TreeTypes(u)
    BY <1>1, <1>2, <1>3, <1>6, <1>8 DEF TreeTypes
  <1> QED
    BY <1>5, <1>9 DEF u

-----------------------------------------------------------------------------
(* Induction, and the functions that are defined by it. *)

LEMMA Induction ==
  ASSUME NEW S, 0 \in S, \A n \in Nat : n \in S => n + 1 \in S
  PROVE  \A n \in Nat : n \in S
  <1> SUFFICES ASSUME NEW m \in Nat, m \notin S PROVE FALSE
    OBVIOUS
  <1> DEFINE T == {n \in Nat : n \notin S}
             R == OpToRel(<, Nat)
  <1>1. PICK k \in T : \A l \in T : ~(<<l, k>> \in R)
    <2>1. IsWellFoundedOn(R, Nat)
      BY NatLessThanWellFounded
    <2>2. T \subseteq Nat /\ T # {}
      OBVIOUS
    <2> HIDE DEF R, T
    <2> QED
      BY <2>1, <2>2, WFMin
  <1>2. k # 0 /\ k - 1 \in Nat /\ k - 1 \in S
    <2>1. k # 0 /\ k - 1 \in Nat /\ k - 1 < k
      OBVIOUS
    <2>2. <<k - 1, k>> \in R
      BY <2>1 DEF OpToRel
    <2> QED
      BY <1>1, <2>1, <2>2
  <1>3. k - 1 + 1 = k
    OBVIOUS
  <1> QED
    BY <1>2, <1>3

\* What f has at n, if it has it at 0 and takes it from each number to the next.
LEMMA UpTo ==
  ASSUME NEW X, NEW n \in Nat, NEW f, f[0] \in X,
         \A i \in 1..n : f[i - 1] \in X => f[i] \in X
  PROVE  \A i \in 0..n : f[i] \in X
  <1> DEFINE S == {i \in Nat : i <= n => f[i] \in X}
  <1>1. 0 \in S
    OBVIOUS
  <1>2. ASSUME NEW i \in Nat, i \in S PROVE i + 1 \in S
    <2>1. SUFFICES ASSUME i + 1 <= n PROVE f[i + 1] \in X
      OBVIOUS
    <2>2. i + 1 \in 1..n /\ i + 1 - 1 = i /\ f[i] \in X
      BY <1>2, <2>1
    <2> QED
      BY <2>2
  <1> HIDE DEF S
  <1>3. \A i \in Nat : i \in S
    BY <1>1, <1>2, Induction
  <1> QED
    BY <1>3 DEF S

NormalSteps(text, n, f) == f = [i \in 0..n |-> IF i = 0 THEN <<>> ELSE Extended(f[i - 1], text[i])]

LEMMA NormalStepsExist ==
  ASSUME NEW text, NEW n \in Nat
  PROVE  \E f : NormalSteps(text, n, f)
  <1> DEFINE S == {k \in Nat : \E f : NormalSteps(text, k, f)}
  <1>1. 0 \in S
    <2>1. NormalSteps(text, 0, [i \in 0..0 |-> <<>>])
      BY DEF NormalSteps
    <2> QED
      BY <2>1
  <1>2. ASSUME NEW k \in Nat, k \in S PROVE k + 1 \in S
    <2>1. PICK f : NormalSteps(text, k, f)
      BY <1>2
    <2> DEFINE next == Extended(f[k], text[k + 1])
    <2> HIDE DEF next
    <2> DEFINE g == [i \in 0..k + 1 |-> IF i = k + 1 THEN next ELSE f[i]]
    <2>2. \A i \in 0..k : f[i] = IF i = 0 THEN <<>> ELSE Extended(f[i - 1], text[i])
      BY <2>1 DEF NormalSteps
    <2>3. g[k + 1] = next /\ g[k + 1 - 1] = f[k] /\ \A i \in 0..k : g[i] = f[i] /\ (i # 0 => g[i - 1] = f[i - 1])
      OBVIOUS
    <2>4. g = [i \in 0..k + 1 |-> g[i]]
      OBVIOUS
    <2> HIDE DEF g
    <2>5. \A i \in 0..k + 1 : g[i] = IF i = 0 THEN <<>> ELSE Extended(g[i - 1], text[i])
      BY <2>2, <2>3 DEF next
    <2>6. NormalSteps(text, k + 1, g)
      BY <2>4, <2>5 DEF NormalSteps
    <2>7. \E h : NormalSteps(text, k + 1, h)
      BY <2>6, Zenon
    <2> QED
      BY <2>7
  <1> HIDE DEF S
  <1>3. n \in S
    BY <1>1, <1>2, Induction
  <1> QED
    BY <1>3 DEF S

LEMMA NormalStepsAre ==
  ASSUME NEW text, Len(text) \in Nat
  PROVE  \E f : /\ f[0] = <<>> /\ Normalize(text) = f[Len(text)]
                /\ \A i \in 1..Len(text) : f[i] = Extended(f[i - 1], text[i])
  <1> DEFINE f == CHOOSE g : NormalSteps(text, Len(text), g)
  <1>1. Normalize(text) = f[Len(text)]
    BY DEF Normalize, NormalSteps
  <1>2. NormalSteps(text, Len(text), f)
    BY NormalStepsExist, Zenon
  <1> HIDE DEF f
  <1>3. f[0] = <<>> /\ \A i \in 1..Len(text) : f[i] = Extended(f[i - 1], text[i])
    BY <1>2 DEF NormalSteps
  <1> QED
    BY <1>1, <1>3, Zenon


-----------------------------------------------------------------------------
(* sandrun's lookup. *)

\* What normalize_inner_path() makes of a path: no ".." is left in it.
Normal == Seq(Plain) \cup {Outside}

LEMMA ExtendedIsNormal ==
  ASSUME NEW p \in Normal, NEW name \in Names
  PROVE  Extended(p, name) \in Normal
  <1>1. CASE p = Outside \/ (name = ".." /\ p = <<>>)
    BY <1>1 DEF Extended, Normal
  <1>2. CASE ~(p = Outside \/ (name = ".." /\ p = <<>>)) /\ name = ".."
    <2>1. p \in Seq(Plain) /\ p # <<>>
      BY <1>2 DEF Normal
    <2>2. Front(p) \in Seq(Plain)
      BY <2>1 DEF Front
    <2> QED
      BY <1>2, <2>2 DEF Extended, Normal
  <1>3. CASE ~(p = Outside \/ (name = ".." /\ p = <<>>)) /\ name # ".."
    <2>1. p \in Seq(Plain) /\ name \in Plain
      BY <1>3 DEF Normal, Plain
    <2>2. Append(p, name) \in Seq(Plain)
      BY <2>1
    <2> QED
      BY <1>3, <2>2 DEF Extended, Normal
  <1> QED
    BY <1>1, <1>2, <1>3

LEMMA NormalizedIsNormal ==
  ASSUME NEW text \in Seq(Names)
  PROVE  Normalize(text) \in Normal
  <1>1. Len(text) \in Nat /\ \A i \in 1..Len(text) : text[i] \in Names
    OBVIOUS
  <1>2. PICK f : /\ f[0] = <<>> /\ Normalize(text) = f[Len(text)]
                 /\ \A i \in 1..Len(text) : f[i] = Extended(f[i - 1], text[i])
    BY <1>1, NormalStepsAre
  <1>3. f[0] \in Normal
    BY <1>2 DEF Normal
  <1>4. ASSUME NEW i \in 1..Len(text), f[i - 1] \in Normal PROVE f[i] \in Normal
    BY <1>1, <1>2, <1>4, ExtendedIsNormal
  <1>5. \A i \in 0..Len(text) : f[i] \in Normal
    BY <1>1, <1>3, <1>4, UpTo
  <1> QED
    BY <1>1, <1>2, <1>5

LEMMA PlainIsInside ==
  ASSUME NEW a \in Seq(Plain)
  PROVE  a # Outside
  <1> SUFFICES ASSUME a = Outside PROVE FALSE
    OBVIOUS
  <1>1. Len(a) = 1 /\ a[1] = ".."
    BY DEF Outside
  <1>2. a[1] \in Plain
    BY <1>1
  <1> QED
    BY <1>1, <1>2 DEF Plain

LEMMA FrontIs ==
  ASSUME NEW S, NEW a \in Seq(S), a # <<>>
  PROVE  /\ Len(a) \in Nat /\ Len(a) > 0 /\ Front(a) \in Seq(S) /\ Len(Front(a)) = Len(a) - 1
         /\ \A i \in 1..Len(a) - 1 : Front(a)[i] = a[i]
  <1>1. PICK n \in Nat : Len(a) = n /\ n > 0
    OBVIOUS
  <1>2. Front(a) = SubSeq(a, 1, n - 1)
    BY <1>1 DEF Front
  <1>3. SubSeq(a, 1, n - 1) \in Seq(S)
    BY <1>1
  <1>4. Len(SubSeq(a, 1, n - 1)) = n - 1
    BY <1>1
  <1>5. ASSUME NEW i \in 1..n - 1 PROVE SubSeq(a, 1, n - 1)[i] = a[i]
    BY <1>1
  <1> QED
    BY <1>1, <1>2, <1>3, <1>4, <1>5

\* f goes over the first n names of text; from k names after m and l the texts are the same.
Folds(text, n, f) == f[0] = <<>> /\ \A i \in 1..n : f[i] = Extended(f[i - 1], text[i])
Same(text, m, other, l, k) == \A j \in 1..k : text[m + j] = other[l + j]

\* From a path without ".." nothing is dropped.
LEMMA PlainFolds ==
  ASSUME NEW a \in Seq(Plain), NEW n \in Nat, Len(a) <= n, NEW text, NEW f, Folds(text, n, f),
         Same(text, 0, a, 0, Len(a))
  PROVE  f[Len(a)] = a
  <1> DEFINE S == {i \in Nat : i <= Len(a) => f[i] = SubSeq(a, 1, i)}
  <1>1. 0 \in S
    <2>1. SubSeq(a, 1, 0) = <<>>
      OBVIOUS
    <2> QED
      BY <2>1 DEF Folds
  <1>2. ASSUME NEW i \in Nat, i \in S PROVE i + 1 \in S
    <2>1. SUFFICES ASSUME i + 1 <= Len(a) PROVE f[i + 1] = SubSeq(a, 1, i + 1)
      OBVIOUS
    <2> DEFINE p == SubSeq(a, 1, i)
    <2>2. i + 1 \in 1..Len(a) /\ i + 1 \in 1..n /\ i + 1 - 1 = i /\ 0 + (i + 1) = i + 1 /\ f[i] = p
      BY <1>2, <2>1
    <2>3. p \in Seq(Plain) /\ a[i + 1] \in Plain
      BY <2>2
    <2>4. Append(p, a[i + 1]) = SubSeq(a, 1, i + 1)
      BY <2>2
    <2> HIDE DEF p
    <2>5. f[i + 1] = Extended(f[i + 1 - 1], text[i + 1]) /\ text[0 + (i + 1)] = a[0 + (i + 1)]
      BY <2>2 DEF Folds, Same
    <2>6. f[i + 1] = Extended(p, a[i + 1])
      BY <2>2, <2>5
    <2>7. p # Outside /\ a[i + 1] # ".."
      BY <2>3, PlainIsInside DEF Plain
    <2> QED
      BY <2>4, <2>6, <2>7 DEF Extended
  <1> HIDE DEF S
  <1>3. \A i \in Nat : i \in S
    BY <1>1, <1>2, Induction
  <1>4. f[Len(a)] = SubSeq(a, 1, Len(a))
    BY <1>3 DEF S
  <1> QED
    BY <1>4

LEMMA NormalizedByFolds ==
  ASSUME NEW text, Len(text) \in Nat
  PROVE  \E f : Folds(text, Len(text), f) /\ Normalize(text) = f[Len(text)]
  BY NormalStepsAre DEF Folds

LEMMA PlainIsNormal ==
  ASSUME NEW a \in Seq(Plain)
  PROVE  Normalize(a) = a
  <1>1. Len(a) \in Nat /\ Len(a) <= Len(a)
    OBVIOUS
  <1>2. PICK f : Folds(a, Len(a), f) /\ Normalize(a) = f[Len(a)]
    BY <1>1, NormalizedByFolds
  <1>3. Same(a, 0, a, 0, Len(a))
    BY DEF Same
  <1>4. f[Len(a)] = a
    BY <1>1, <1>2, <1>3, PlainFolds
  <1> QED
    BY <1>2, <1>4

\* From m and l on they do the same.
Meet(text, n, f, other, o, g, m, l, k) ==
    /\ n \in Nat /\ o \in Nat /\ m \in Nat /\ l \in Nat /\ k \in Nat
    /\ Folds(text, n, f) /\ Folds(other, o, g) /\ m + k = n /\ l + k = o
    /\ Same(text, m, other, l, k) /\ f[m] = g[l]

\* Two texts that go on alike from where they have led to the same, lead to the same.
LEMMA SameFolds ==
  ASSUME NEW text, NEW n, NEW f, NEW other, NEW o, NEW g, NEW m, NEW l, NEW k,
         Meet(text, n, f, other, o, g, m, l, k)
  PROVE  f[n] = g[o]
  <1>0. /\ n \in Nat /\ o \in Nat /\ m \in Nat /\ l \in Nat /\ k \in Nat
        /\ Folds(text, n, f) /\ Folds(other, o, g) /\ m + k = n /\ l + k = o
        /\ Same(text, m, other, l, k) /\ f[m] = g[l]
    BY DEF Meet
  <1> DEFINE S == {j \in Nat : j <= k => f[m + j] = g[l + j]}
  <1>1. 0 \in S
    BY <1>0
  <1>2. ASSUME NEW j \in Nat, j \in S PROVE j + 1 \in S
    <2>1. SUFFICES ASSUME j + 1 <= k PROVE f[m + (j + 1)] = g[l + (j + 1)]
      OBVIOUS
    <2>2. /\ j + 1 \in 1..k /\ m + (j + 1) \in 1..n /\ l + (j + 1) \in 1..o
          /\ m + (j + 1) - 1 = m + j /\ l + (j + 1) - 1 = l + j /\ f[m + j] = g[l + j]
      BY <1>0, <1>2, <2>1
    <2>3. /\ f[m + (j + 1)] = Extended(f[m + (j + 1) - 1], text[m + (j + 1)])
          /\ g[l + (j + 1)] = Extended(g[l + (j + 1) - 1], other[l + (j + 1)])
      BY <1>0, <2>2 DEF Folds
    <2>4. text[m + (j + 1)] = other[l + (j + 1)]
      BY <1>0, <2>2 DEF Same
    <2> QED
      BY <2>2, <2>3, <2>4
  <1> HIDE DEF S
  <1>3. \A j \in Nat : j \in S
    BY <1>1, <1>2, Induction
  <1>4. f[m + k] = g[l + k]
    BY <1>0, <1>3 DEF S
  <1> QED
    BY <1>0, <1>4

LEMMA ConcatIs ==
  ASSUME NEW S, NEW a \in Seq(S), NEW b \in Seq(S)
  PROVE  /\ Len(a) \in Nat /\ Len(b) \in Nat
         /\ a \o b \in Seq(S) /\ Len(a \o b) = Len(a) + Len(b)
         /\ \A i \in 1..Len(a) : (a \o b)[i] = a[i]
         /\ \A i \in 1..Len(b) : (a \o b)[Len(a) + i] = b[i]
  OBVIOUS

LEMMA TailIs ==
  ASSUME NEW S, NEW b \in Seq(S), b # <<>>
  PROVE  /\ Len(b) \in Nat /\ Len(b) > 0 /\ Tail(b) \in Seq(S) /\ Len(Tail(b)) = Len(b) - 1
         /\ Head(b) = b[1] /\ Head(b) \in S /\ \A i \in 1..Len(b) - 1 : Tail(b)[i] = b[i + 1]
  OBVIOUS

LEMMA PlainIsNames ==
  ASSUME NEW a \in Seq(Plain)
  PROVE  a \in Seq(Names)
  BY SeqMonotonic DEF Plain

LEMMA UpDrops ==
  ASSUME NEW a \in Seq(Plain), a # <<>>, NEW b \in Seq(Names), b # <<>>, Head(b) = ".."
  PROVE  Normalize(a \o b) = Normalize(Front(a) \o Tail(b))
  <1> DEFINE up == Front(a)
             down == Tail(b)
  <1>1. PICK m \in Nat \ {0} : Len(a) = m
    OBVIOUS
  <1>2. PICK k \in Nat : Len(b) = k + 1
    <2>1. Len(b) \in Nat /\ Len(b) > 0
      BY TailIs
    <2>2. Len(b) - 1 \in Nat /\ Len(b) = (Len(b) - 1) + 1
      BY <2>1
    <2> QED
      BY <2>2
  <1>3. up \in Seq(Plain) /\ Len(up) = m - 1 /\ \A i \in 1..m - 1 : up[i] = a[i]
    BY <1>1, FrontIs
  <1>4. down \in Seq(Names) /\ Len(down) = k /\ \A i \in 1..k : down[i] = b[i + 1]
    <2>1. /\ down \in Seq(Names) /\ Len(down) = Len(b) - 1
          /\ \A i \in 1..Len(b) - 1 : down[i] = b[i + 1]
      BY TailIs
    <2> HIDE DEF down
    <2> QED
      BY <1>2, <2>1
  <1> HIDE DEF up, down
  <1>5. a \in Seq(Names) /\ up \in Seq(Names)
    BY <1>3, PlainIsNames
  <1> DEFINE long == a \o b
             short == up \o down
  <1>0. PICK last \in Nat : last = m + (k + 1)
    OBVIOUS
  <1>20. PICK end \in Nat : end = (m - 1) + k
    OBVIOUS
  <1>6. /\ Len(long) = last /\ \A i \in 1..m : long[i] = a[i]
        /\ \A i \in 1..k + 1 : long[m + i] = b[i]
    <2>1. /\ Len(long) = Len(a) + Len(b) /\ \A i \in 1..Len(a) : long[i] = a[i]
          /\ \A i \in 1..Len(b) : long[Len(a) + i] = b[i]
      BY <1>5, ConcatIs
    <2> HIDE DEF long
    <2> QED
      BY <1>0, <1>1, <1>2, <2>1
  <1>7. /\ Len(short) = end /\ \A i \in 1..m - 1 : short[i] = up[i]
        /\ \A i \in 1..k : short[m - 1 + i] = down[i]
    <2>1. Len(short) = Len(up) + Len(down)
      BY <1>4, <1>5, ConcatIs
    <2>2. \A i \in 1..Len(up) : short[i] = up[i]
      BY <1>4, <1>5, ConcatIs
    <2>3. \A i \in 1..Len(down) : short[Len(up) + i] = down[i]
      BY <1>4, <1>5, ConcatIs
    <2> HIDE DEF short
    <2> QED
      BY <1>3, <1>4, <1>20, <2>1, <2>2, <2>3
  <1> HIDE DEF long, short
  <1>8. last \in Nat /\ end \in Nat /\ m <= last /\ m - 1 <= end /\ m + 1 \in Nat /\ m - 1 \in Nat
        /\ m + 1 + k = last /\ m - 1 + k = end
    BY <1>0, <1>20
  <1>9. PICK f : Folds(long, last, f) /\ Normalize(long) = f[last]
    BY <1>6, <1>8, NormalizedByFolds
  <1>10. PICK g : Folds(short, end, g) /\ Normalize(short) = g[end]
    BY <1>7, <1>8, NormalizedByFolds
  <1>11. f[m] = a
    <2>1. Same(long, 0, a, 0, Len(a))
      BY <1>1, <1>6 DEF Same
    <2> QED
      BY <1>1, <1>8, <1>9, <2>1, PlainFolds
  <1>12. g[m - 1] = up
    <2>1. Same(short, 0, up, 0, Len(up))
      BY <1>3, <1>7 DEF Same
    <2> QED
      BY <1>3, <1>8, <1>10, <2>1, PlainFolds
  <1>13. f[m + 1] = up
    <2>1. m + 1 \in 1..last /\ m + 1 - 1 = m /\ 1 \in 1..k + 1
      BY <1>8
    <2>2. long[m + 1] = ".."
      <3>1. b[1] = ".."
        BY TailIs
      <3> QED
        BY <1>6, <2>1, <3>1
    <2>3. f[m + 1] = Extended(f[m + 1 - 1], long[m + 1])
      BY <1>9, <2>1 DEF Folds
    <2>4. f[m + 1] = Extended(a, "..")
      BY <1>11, <2>1, <2>2, <2>3
    <2>5. a # Outside
      BY PlainIsInside
    <2> QED
      BY <2>4, <2>5 DEF Extended, up
  <1>14. Same(long, m + 1, short, m - 1, k)
    <2> SUFFICES ASSUME NEW j \in 1..k PROVE long[m + 1 + j] = short[m - 1 + j]
      BY DEF Same
    <2>1. j + 1 \in 1..k + 1 /\ m + 1 + j = m + (j + 1)
      OBVIOUS
    <2>2. long[m + 1 + j] = b[j + 1]
      BY <1>6, <2>1
    <2> QED
      BY <1>4, <1>7, <2>2
  <1>15. f[last] = g[end]
    <2>1. PICK l \in Nat : l = m - 1
      BY <1>8
    <2>2. PICK h \in Nat : h = m + 1
      BY <1>8
    <2>3. Meet(long, last, f, short, end, g, h, l, k)
      BY <1>8, <1>9, <1>10, <1>12, <1>13, <1>14, <2>1, <2>2 DEF Meet
    <2> QED
      BY <2>3, SameFolds
  <1> QED
    BY <1>9, <1>10, <1>15 DEF long, short, up, down

LEMMA UpLeaves ==
  ASSUME NEW b \in Seq(Names), b # <<>>, Head(b) = ".."
  PROVE  Normalize(b) = Outside
  <1>1. Len(b) \in Nat /\ Len(b) > 0 /\ b[1] = ".."
    OBVIOUS
  <1>2. PICK f : /\ f[0] = <<>> /\ Normalize(b) = f[Len(b)]
                 /\ \A i \in 1..Len(b) : f[i] = Extended(f[i - 1], b[i])
    BY <1>1, NormalStepsAre
  <1> DEFINE S == {i \in Nat : i + 1 <= Len(b) => f[i + 1] = Outside}
  <1>3. 0 \in S
    <2>1. f[1] = Extended(<<>>, "..")
      BY <1>1, <1>2
    <2> QED
      BY <2>1 DEF Extended
  <1>4. ASSUME NEW i \in Nat, i \in S PROVE i + 1 \in S
    <2>1. SUFFICES ASSUME i + 1 + 1 <= Len(b) PROVE f[i + 1 + 1] = Outside
      OBVIOUS
    <2>2. i + 1 + 1 \in 1..Len(b) /\ i + 1 + 1 - 1 = i + 1 /\ f[i + 1] = Outside
      BY <1>1, <1>4, <2>1
    <2>3. f[i + 1 + 1] = Extended(Outside, b[i + 1 + 1])
      BY <1>2, <2>2
    <2> QED
      BY <2>3 DEF Extended
  <1> HIDE DEF S
  <1>5. \A i \in Nat : i \in S
    BY <1>3, <1>4, Induction
  <1>6. PICK k \in Nat : k + 1 = Len(b)
    <2>1. Len(b) - 1 \in Nat /\ Len(b) - 1 + 1 = Len(b)
      BY <1>1
    <2> QED
      BY <2>1
  <1>7. k \in S
    BY <1>5, <1>6
  <1>8. f[k + 1] = Outside
    BY <1>6, <1>7 DEF S
  <1> QED
    BY <1>2, <1>6, <1>8

LEMMA StopIsFirst ==
  ASSUME NEW t, NEW path \in Seq(Names)
  PROVE  /\ Stop(t, path) \in 1..Len(path) + 1
         /\ Stop(t, path) <= Len(path) =>
               Kind(t, SubSeq(path, 1, Stop(t, path))) \in {"link", "absent"}
         /\ \A i \in 1..Len(path) :
               i < Stop(t, path) => Kind(t, SubSeq(path, 1, i)) \notin {"link", "absent"}
  <1> DEFINE Ends(i) == i > Len(path) \/ Kind(t, SubSeq(path, 1, i)) \in {"link", "absent"}
             T == {i \in 1..Len(path) + 1 : Ends(i)}
  <1>1. Len(path) \in Nat
    OBVIOUS
  <1>2. Len(path) + 1 \in T
    BY <1>1
  <1>3. PICK k \in T : \A l \in T : k <= l
    <2> DEFINE R == OpToRel(<, Nat)
    <2>1. IsWellFoundedOn(R, Nat)
      BY NatLessThanWellFounded
    <2>2. T \subseteq Nat /\ T # {}
      BY <1>1, <1>2
    <2> HIDE DEF R, T
    <2>3. PICK k \in T : \A l \in T : ~(<<l, k>> \in R)
      BY <2>1, <2>2, WFMin
    <2>4. \A l \in T : l < k => <<l, k>> \in R
      BY <2>2 DEF R, OpToRel
    <2>5. \A l \in T : ~(l < k)
      BY <2>3, <2>4
    <2>6. \A l \in T : k <= l
      BY <2>2, <2>5
    <2> QED
      BY <2>6
  <1>4. Stop(t, path) = CHOOSE m \in T : \A l \in T : m <= l
    BY DEF Stop, Min
  <1>5. Stop(t, path) \in T /\ \A l \in T : Stop(t, path) <= l
    <2> HIDE DEF T
    <2> QED
      BY <1>3, <1>4
  <1>6. ASSUME NEW i \in 1..Len(path), i < Stop(t, path) PROVE ~Ends(i)
    BY <1>1, <1>5, <1>6
  <1>7. Stop(t, path) <= Len(path) => Kind(t, SubSeq(path, 1, Stop(t, path))) \in {"link", "absent"}
    <2>1. Ends(Stop(t, path)) /\ Stop(t, path) \in 1..Len(path) + 1
      BY <1>5
    <2> QED
      BY <1>1, <2>1
  <1> QED
    BY <1>5, <1>6, <1>7

Turns(t, target, n, f) == f = [i \in 0..n |-> IF i = 0 THEN Normalize(target) ELSE Turn(t, f[i - 1])]

LEMMA TurnsExist ==
  ASSUME NEW t, NEW target, NEW n \in Nat
  PROVE  \E f : Turns(t, target, n, f)
  <1> DEFINE S == {k \in Nat : \E f : Turns(t, target, k, f)}
  <1>1. 0 \in S
    <2>1. Turns(t, target, 0, [i \in 0..0 |-> Normalize(target)])
      BY DEF Turns
    <2> QED
      BY <2>1
  <1>2. ASSUME NEW k \in Nat, k \in S PROVE k + 1 \in S
    <2>1. PICK f : Turns(t, target, k, f)
      BY <1>2
    <2> DEFINE next == Turn(t, f[k])
    <2> HIDE DEF next
    <2> DEFINE g == [i \in 0..k + 1 |-> IF i = k + 1 THEN next ELSE f[i]]
    <2>2. \A i \in 0..k : f[i] = IF i = 0 THEN Normalize(target) ELSE Turn(t, f[i - 1])
      BY <2>1 DEF Turns
    <2>3. g[k + 1] = next /\ g[k + 1 - 1] = f[k] /\ \A i \in 0..k : g[i] = f[i] /\ (i # 0 => g[i - 1] = f[i - 1])
      OBVIOUS
    <2>4. g = [i \in 0..k + 1 |-> g[i]]
      OBVIOUS
    <2> HIDE DEF g
    <2>5. \A i \in 0..k + 1 : g[i] = IF i = 0 THEN Normalize(target) ELSE Turn(t, g[i - 1])
      BY <2>2, <2>3 DEF next
    <2>6. Turns(t, target, k + 1, g)
      BY <2>4, <2>5 DEF Turns
    <2>7. \E h : Turns(t, target, k + 1, h)
      BY <2>6, Zenon
    <2> QED
      BY <2>7
  <1> HIDE DEF S
  <1>3. n \in S
    BY <1>1, <1>2, Induction
  <1> QED
    BY <1>3 DEF S

LEMMA NormalIsNames ==
  ASSUME NEW path \in Normal
  PROVE  path \in Seq(Names)
  <1>1. Outside \in Seq(Names)
    <2>1. ".." \in Names
      BY DEF Names
    <2> QED
      BY <2>1 DEF Outside
  <1> QED
    BY <1>1, PlainIsNames DEF Normal

LEMMA TurnIsNormal ==
  ASSUME NEW t, TreeTypes(t), NEW path \in Normal
  PROVE  Turn(t, path) \in Normal
  <1> DEFINE i == Stop(t, path)
             p == SubSeq(path, 1, i)
             rest == SubSeq(path, i + 1, Len(path))
  <1>1. path \in Seq(Names)
    BY NormalIsNames
  <1>2. CASE i <= Len(path) /\ Kind(t, p) = "link"
    <2>1. i \in 1..Len(path)
      BY <1>1, <1>2, StopIsFirst
    <2>2. p \in Seq(Names) /\ p # <<>> /\ rest \in Seq(Names)
      BY <1>1, <2>1
    <2>3. p \in DOMAIN t /\ t[p].to \in Seq(Names)
      BY <1>2, <2>2 DEF Kind, TreeTypes
    <2>4. FromParent(p) \in Seq(Names)
      BY <2>2 DEF FromParent, Front
    <2> HIDE DEF p, rest
    <2>5. Redirect(t, p, rest) \in Seq(Names)
      BY <2>2, <2>3, <2>4 DEF Redirect
    <2>6. Turn(t, path) = Normalize(Redirect(t, p, rest))
      BY <1>2 DEF Turn, p, rest
    <2> QED
      BY <2>5, <2>6, NormalizedIsNormal
  <1>3. CASE ~(i <= Len(path) /\ Kind(t, p) = "link")
    BY <1>3 DEF Turn
  <1> QED
    BY <1>2, <1>3

\* The results of a lookup that have no path.
Escapes == Refused("escape")
Missing == Refused("missing")
Exceeds == Refused("links")

LEMMA Results ==
  /\ \A a : Found(a).at = a /\ Found(a).error = "" /\ Found(a) = On(a, <<>>)
  /\ \A a, r : On(a, r).at = a /\ On(a, r).rest = r /\ On(a, r).error = ""
  /\ \A s \in {Escapes, Missing, Exceeds} : s.at = <<>> /\ s.error # ""
  /\ Escapes.error = "escape" /\ Missing.error # "escape" /\ Exceeds.error # "escape"
  BY DEF Found, On, Escapes, Missing, Exceeds, Refused

\* The turns of a lookup, and what it makes of the last one.
LEMMA TurnsAre ==
  ASSUME NEW t, NEW target
  PROVE  \E f :
            /\ f[0] = Normalize(target) /\ \A n \in 1..MaxLinks : f[n] = Turn(t, f[n - 1])
            /\ LET path == f[MaxLinks]
                   i == Stop(t, path)
               IN Resolve(t, target) =
                     IF path = Outside THEN Escapes
                     ELSE IF i > Len(path) THEN Found(path)
                     ELSE IF Kind(t, SubSeq(path, 1, i)) = "link" THEN Exceeds ELSE Missing
  <1> DEFINE f == CHOOSE g : Turns(t, target, MaxLinks, g)
             path == f[MaxLinks]
             i == Stop(t, path)
  <1>1. Resolve(t, target) =
            IF path = Outside THEN Refused("escape")
            ELSE IF i > Len(path) THEN Found(path)
            ELSE Refused(IF Kind(t, SubSeq(path, 1, i)) = "link" THEN "links" ELSE "missing")
    BY DEF Resolve, Turns
  <1>2. Turns(t, target, MaxLinks, f)
    BY TurnsExist, LinksAssumption, Zenon
  <1> HIDE DEF f
  <1>3. f[0] = Normalize(target) /\ \A n \in 1..MaxLinks : f[n] = Turn(t, f[n - 1])
    BY <1>2, LinksAssumption DEF Turns
  <1> HIDE DEF path, i
  <1>4. Resolve(t, target) =
            IF path = Outside THEN Escapes
            ELSE IF i > Len(path) THEN Found(path)
            ELSE IF Kind(t, SubSeq(path, 1, i)) = "link" THEN Exceeds ELSE Missing
    BY <1>1 DEF Escapes, Exceeds, Missing, Refused
  <1> QED
    BY <1>3, <1>4, Zenon DEF path, i

LEMMA TurnsAreNormal ==
  ASSUME NEW t, TreeTypes(t), NEW target \in Seq(Names), NEW f,
         f[0] = Normalize(target), \A n \in 1..MaxLinks : f[n] = Turn(t, f[n - 1])
  PROVE  \A n \in 0..MaxLinks : f[n] \in Normal
  <1>1. f[0] \in Normal
    BY NormalizedIsNormal
  <1>2. ASSUME NEW n \in 1..MaxLinks, f[n - 1] \in Normal PROVE f[n] \in Normal
    <2>1. f[n] = Turn(t, f[n - 1])
      OBVIOUS
    <2> QED
      BY <1>2, <2>1, TurnIsNormal
  <1> QED
    BY <1>1, <1>2, LinksAssumption, UpTo

\* What sandrun resolves is a path without a link, and all of it is there.
LEMMA ResolvedIsThere ==
  ASSUME NEW t, TreeTypes(t), NEW target \in Seq(Names)
  PROVE  LET r == Resolve(t, target)
         IN /\ r.at \in Seq(Plain)
            /\ r.error = "" => \A i \in DOMAIN r.at :
                                  Kind(t, SubSeq(r.at, 1, i)) \notin {"link", "absent"}
  <1> DEFINE r == Resolve(t, target)
  <1>1. PICK f :
            /\ f[0] = Normalize(target) /\ \A n \in 1..MaxLinks : f[n] = Turn(t, f[n - 1])
            /\ LET path == f[MaxLinks]
                   i == Stop(t, path)
               IN r = IF path = Outside THEN Escapes
                      ELSE IF i > Len(path) THEN Found(path)
                      ELSE IF Kind(t, SubSeq(path, 1, i)) = "link" THEN Exceeds ELSE Missing
    BY TurnsAre
  <1> DEFINE path == f[MaxLinks]
             i == Stop(t, path)
  <1>2. path \in Normal
    BY <1>1, TurnsAreNormal, LinksAssumption
  <1> HIDE DEF r, path
  <1>3. CASE path # Outside /\ i > Len(path)
    <2>1. r = Found(path)
      BY <1>1, <1>3 DEF path
    <2>2. r.at = path
      BY <2>1, Results
    <2>3. path \in Seq(Plain) /\ path \in Seq(Names)
      BY <1>2, <1>3, PlainIsNames DEF Normal
    <2>4. \A n \in 1..Len(path) : n < i
      BY <1>3, <2>3, StopIsFirst
    <2>5. \A n \in 1..Len(path) : Kind(t, SubSeq(path, 1, n)) \notin {"link", "absent"}
      BY <2>3, <2>4, StopIsFirst
    <2>6. DOMAIN path = 1..Len(path)
      BY <2>3
    <2> QED
      BY <2>2, <2>3, <2>5, <2>6 DEF r
  <1>4. CASE ~(path # Outside /\ i > Len(path))
    <2>1. r \in {Escapes, Missing, Exceeds}
      BY <1>1, <1>4 DEF path
    <2>2. r.at = <<>> /\ r.error # ""
      BY <2>1, Results
    <2>3. <<>> \in Seq(Plain)
      OBVIOUS
    <2> QED
      BY <2>2, <2>3 DEF r
  <1> QED
    BY <1>3, <1>4

-----------------------------------------------------------------------------
(* The kernel's lookup. *)

\* The dots of r come first.
Dotted(r) == \A i, j \in DOMAIN r : r[j] = ".." /\ i < j => r[i] = ".."
DotsLead(t) == \A p \in DOMAIN t : Dotted(t[p].to)

\* w is t with files put over some of it, where mounts are.
Overlaid(t, w, over) == \A p :
    \/ Kind(w, p) = Kind(t, p) /\ (Kind(t, p) = "link" => w[p] = t[p])
    \/ p \in over /\ Kind(w, p) = "file"

Covers(t, w, points, over) ==
    /\ TreeTypes(t) /\ Overlaid(t, w, over) /\ DotsLead(w)
    /\ points \subseteq Seq(Plain) /\ over \subseteq points

\* No mount hides a link or what is put over the tree.
Open(w, points, over) ==
    /\ <<>> \notin points
    /\ \A p \in DOMAIN w, q \in points : w[p].kind = "link" => ~IsPrefix(q, p)
    /\ \A p \in over, q \in points \ over : ~IsPrefix(q, p)

Free(points, a) == \A q \in points : ~IsPrefix(q, a)

Hidden(points, s) == s.error = "" /\ s.at \in points

\* Where path has led to.
Position(t, path) ==
    LET i == Stop(t, path)
    IN IF path = Outside THEN Escapes
       ELSE IF i > Len(path) THEN Found(path)
       ELSE IF Kind(t, SubSeq(path, 1, i)) = "link"
            THEN On(SubSeq(path, 1, i - 1), SubSeq(path, i, Len(path)))
       ELSE Missing

Settled(w, points, s) == s.error = "" /\ s.rest # <<>> =>
    /\ s.at \notin points /\ Kind(w, s.at) = "dir" /\ Head(s.rest) # ".."
    /\ Kind(w, Append(s.at, Head(s.rest))) = "link"

\* What is below a mount is what path has there.
Below(t, path, s) ==
    /\ s.at \in Seq(Plain) /\ s.rest \in Seq(Plain) /\ s.at \o s.rest = path
    /\ Kind(t, s.at) \notin {"absent", "link"}
Known(t, w, points, over, path, s) ==
    Open(w, points, over) => s.at \in over \/ Below(t, path, s)

Agrees(t, w, points, over, path, s) ==
    \/ Hidden(points, s) /\ Known(t, w, points, over, path, s)
    \/ s = Position(t, path) /\ Settled(w, points, s)

\* At a, with r to go, the way to path.
Way(t, path, a, r) ==
    /\ a \in Seq(Plain) /\ r \in Seq(Names) /\ Kind(t, a) \notin {"absent", "link"}
    /\ Kind(t, a) = "dir" \/ r \in Seq(Plain)
    /\ Dotted(r) /\ Normalize(a \o r) = path

Clear(w, points, over, a, r) == Open(w, points, over) => r \in Seq(Plain) \/ Free(points, a)

LEMMA SteppedIs ==
  ASSUME NEW w, NEW points, NEW mode, NEW a, NEW r
  PROVE  Stepped(w, points, mode, On(a, r)) =
            IF r = <<>> \/ a \in points THEN On(a, r)
            ELSE IF Kind(w, a) # "dir" THEN Missing
            ELSE IF Head(r) = ".." THEN
                 IF a # <<>> THEN On(Front(a), Tail(r))
                 ELSE IF mode = Reports THEN Escapes ELSE On(<<>>, Tail(r))
            ELSE IF Kind(w, Append(a, Head(r))) = "absent" THEN Missing
            ELSE IF Kind(w, Append(a, Head(r))) = "link" THEN On(a, r)
            ELSE On(Append(a, Head(r)), Tail(r))
  <1> DEFINE s == On(a, r)
  <1>1. s.at = a /\ s.rest = r /\ s.error = ""
    BY DEF On
  <1> HIDE DEF s
  <1>2. Stepped(w, points, mode, s) =
            IF r = <<>> \/ a \in points THEN s
            ELSE IF Kind(w, a) # "dir" THEN Missing
            ELSE IF Head(r) = ".." THEN
                 IF a # <<>> THEN On(Front(a), Tail(r))
                 ELSE IF mode = Reports THEN Escapes ELSE On(<<>>, Tail(r))
            ELSE IF Kind(w, Append(a, Head(r))) = "absent" THEN Missing
            ELSE IF Kind(w, Append(a, Head(r))) = "link" THEN s
            ELSE On(Append(a, Head(r)), Tail(r))
    BY <1>1 DEF Stepped, Missing, Escapes
  <1> QED
    BY <1>2 DEF s

LEMMA SettledStays ==
  ASSUME NEW w, NEW points, NEW mode, NEW s, Settled(w, points, s)
  PROVE  Stepped(w, points, mode, s) = s
  BY DEF Settled, Stepped

LEMMA HiddenStays ==
  ASSUME NEW w, NEW points, NEW mode, NEW s, Hidden(points, s)
  PROVE  Stepped(w, points, mode, s) = s
  BY DEF Hidden, Stepped

LEMMA DottedTail ==
  ASSUME NEW r \in Seq(Names), r # <<>>, Dotted(r)
  PROVE  Dotted(Tail(r)) /\ (Head(r) # ".." => r \in Seq(Plain))
  <1>1. PICK n \in Nat : Len(r) = n /\ n > 0
    BY TailIs
  <1>2. \A i, j \in 1..n : r[j] = ".." /\ i < j => r[i] = ".."
    BY <1>1 DEF Dotted
  <1>3. Dotted(Tail(r))
    <2> DEFINE q == Tail(r)
    <2>1. Len(q) = n - 1 /\ \A i \in 1..n - 1 : q[i] = r[i + 1]
      BY <1>1, TailIs
    <2>2. DOMAIN q = 1..n - 1
      BY <1>1
    <2> HIDE DEF q
    <2>3. ASSUME NEW i \in 1..n - 1, NEW j \in 1..n - 1, q[j] = "..", i < j PROVE q[i] = ".."
      <3>1. i + 1 \in 1..n /\ j + 1 \in 1..n /\ i + 1 < j + 1
        BY <2>3
      <3>2. r[j + 1] = ".." /\ q[i] = r[i + 1]
        BY <2>1, <2>3
      <3> QED
        BY <1>2, <3>1, <3>2
    <2> QED
      BY <2>2, <2>3 DEF Dotted, q
  <1>4. ASSUME Head(r) # ".." PROVE r \in Seq(Plain)
    <2>1. \A i \in 1..n : r[i] \in Names
      BY <1>1
    <2>2. r[1] # ".." /\ 1 \in 1..n
      BY <1>1, <1>4
    <2>3. ASSUME NEW i \in 1..n PROVE r[i] # ".."
      <3>1. i = 1 \/ 1 < i
        OBVIOUS
      <3> QED
        BY <1>2, <2>2, <3>1
    <2>4. \A i \in 1..n : r[i] \in Plain
      BY <2>1, <2>3 DEF Plain
    <2> QED
      BY <1>1, <2>4
  <1> QED
    BY <1>3, <1>4

LEMMA JoinedIs ==
  ASSUME NEW S, NEW a \in Seq(S), NEW r \in Seq(S), r # <<>>
  PROVE  /\ Append(a, Head(r)) \in Seq(S) /\ Append(a, Head(r)) # <<>>
         /\ Front(Append(a, Head(r))) = a
         /\ Append(a, Head(r)) \o Tail(r) = a \o r
         /\ Len(a) + 1 \in 1..Len(a \o r)
         /\ SubSeq(a \o r, 1, Len(a) + 1) = Append(a, Head(r))
         /\ SubSeq(a \o r, 1, Len(a)) = a
         /\ SubSeq(a \o r, Len(a) + 1, Len(a \o r)) = r
         /\ \A i \in 1..Len(a) : SubSeq(a \o r, 1, i) = SubSeq(a, 1, i)
  <1> DEFINE p == Append(a, Head(r))
             s == a \o r
             q == Tail(r)
  <1>1. PICK m \in Nat : Len(a) = m
    OBVIOUS
  <1>2. PICK k \in Nat : Len(r) = k + 1
    <2>1. Len(r) \in Nat /\ Len(r) > 0
      BY TailIs
    <2>2. Len(r) - 1 \in Nat /\ Len(r) = (Len(r) - 1) + 1
      BY <2>1
    <2> QED
      BY <2>2
  <1>3. s \in Seq(S) /\ Len(s) = m + (k + 1) /\ (\A i \in 1..m : s[i] = a[i]) /\ (\A i \in 1..k + 1 : s[m + i] = r[i])
    <2>1. /\ s \in Seq(S) /\ Len(s) = Len(a) + Len(r)
          /\ (\A i \in 1..Len(a) : s[i] = a[i]) /\ (\A i \in 1..Len(r) : s[Len(a) + i] = r[i])
      BY ConcatIs
    <2> HIDE DEF s
    <2> QED
      BY <1>1, <1>2, <2>1
  <1>4. Head(r) = r[1] /\ Head(r) \in S /\ q \in Seq(S) /\ Len(q) = k /\ \A i \in 1..k : q[i] = r[i + 1]
    <2>1. Head(r) = r[1] /\ Head(r) \in S /\ q \in Seq(S) /\ Len(q) = Len(r) - 1 /\ \A i \in 1..Len(r) - 1 : q[i] = r[i + 1]
      BY TailIs
    <2> HIDE DEF q
    <2> QED
      BY <1>2, <2>1
  <1> HIDE DEF s, q
  <1>5. p \in Seq(S) /\ p # <<>> /\ Len(p) = m + 1 /\ (\A i \in 1..m : p[i] = a[i]) /\ p[m + 1] = r[1]
    <2>1. \A x \in S : Append(a, x) \in Seq(S) /\ Append(a, x) # <<>> /\ Len(Append(a, x)) = m + 1
      BY <1>1
    <2>2. \A x \in S : (\A i \in 1..m : Append(a, x)[i] = a[i]) /\ Append(a, x)[m + 1] = x
      BY <1>1
    <2> QED
      BY <1>4, <2>1, <2>2
  <1>6. Front(p) = a
    <2>1. \A x \in S : SubSeq(Append(a, x), 1, m) = a
      BY <1>1
    <2>2. Front(p) = SubSeq(p, 1, m)
      BY <1>5 DEF Front
    <2> QED
      BY <1>4, <2>1, <2>2
  <1> HIDE DEF p
  <1>7. p \o q = s
    <2> DEFINE z == p \o q
    <2>1. /\ z \in Seq(S) /\ Len(z) = m + (k + 1) /\ (\A i \in 1..m + 1 : z[i] = p[i])
          /\ (\A i \in 1..k : z[m + 1 + i] = q[i])
      <3>1. /\ z \in Seq(S) /\ Len(z) = Len(p) + Len(q)
            /\ (\A i \in 1..Len(p) : z[i] = p[i]) /\ (\A i \in 1..Len(q) : z[Len(p) + i] = q[i])
        <4>1. p \in Seq(S)
          BY <1>5
        <4>2. q \in Seq(S)
          BY <1>4
        <4> QED
          BY <4>1, <4>2, ConcatIs
      <3> HIDE DEF z
      <3>2. Len(p) = m + 1 /\ Len(q) = k
        BY <1>4, <1>5
      <3>3. z \in Seq(S) /\ Len(z) = m + 1 + k
        BY <3>1, <3>2
      <3>4. m + 1 + k = m + (k + 1)
        OBVIOUS
      <3> QED
        BY <3>1, <3>2, <3>3, <3>4
    <2> HIDE DEF z
    <2>2. ASSUME NEW i \in 1..m + (k + 1) PROVE z[i] = s[i]
      <3>1. CASE i \in 1..m
        BY <1>3, <1>5, <2>1, <3>1
      <3>2. CASE i = m + 1
        <4>1. 1 \in 1..k + 1 /\ m + 1 \in 1..m + 1
          OBVIOUS
        <4>2. s[m + 1] = r[1]
          BY <1>3, <4>1
        <4> QED
          BY <1>5, <2>1, <3>2, <4>1, <4>2
      <3>3. CASE i > m + 1
        <4>1. PICK j \in 1..k : i = m + 1 + j
          <5>1. i - (m + 1) \in 1..k /\ i = m + 1 + (i - (m + 1))
            BY <3>3
          <5> QED
            BY <5>1
        <4>2. j + 1 \in 1..k + 1 /\ m + 1 + j = m + (j + 1)
          OBVIOUS
        <4>3. z[i] = q[j] /\ q[j] = r[j + 1]
          BY <1>4, <2>1, <4>1
        <4>4. s[m + (j + 1)] = r[j + 1]
          BY <1>3, <4>2
        <4> QED
          BY <4>1, <4>2, <4>3, <4>4
      <3> QED
        BY <3>1, <3>2, <3>3
    <2>3. z = s
      BY <1>3, <2>1, <2>2, SeqEqual
    <2> QED
      BY <2>3 DEF z
  <1>8. SubSeq(s, 1, m + 1) = p
    <2> DEFINE z == SubSeq(s, 1, m + 1)
    <2>1. z \in Seq(S) /\ Len(z) = m + 1 /\ \A i \in 1..m + 1 : z[i] = s[i]
      BY <1>3
    <2> HIDE DEF z
    <2>2. 1 \in 1..k + 1
      OBVIOUS
    <2>3. s[m + 1] = r[1]
      BY <1>3, <2>2
    <2>4. ASSUME NEW i \in 1..m + 1 PROVE z[i] = p[i]
      <3>1. i = m + 1 \/ i \in 1..m
        OBVIOUS
      <3> QED
        BY <1>3, <1>5, <2>1, <2>3, <3>1
    <2>5. z = p
      BY <1>5, <2>1, <2>4, SeqEqual
    <2> QED
      BY <2>5 DEF z
  <1>9. \A i \in 0..m : SubSeq(s, 1, i) = SubSeq(a, 1, i)
    <2> SUFFICES ASSUME NEW i \in 0..m PROVE SubSeq(s, 1, i) = SubSeq(a, 1, i)
      OBVIOUS
    <2> DEFINE z == SubSeq(s, 1, i)
               y == SubSeq(a, 1, i)
    <2>1. z \in Seq(S) /\ Len(z) = i /\ \A j \in 1..i : z[j] = s[j]
      BY <1>3
    <2>2. y \in Seq(S) /\ Len(y) = i /\ \A j \in 1..i : y[j] = a[j]
      BY <1>1
    <2> HIDE DEF y, z
    <2>3. \A j \in 1..i : z[j] = y[j]
      BY <1>3, <2>1, <2>2
    <2>4. z = y
      BY <2>1, <2>2, <2>3, SeqEqual
    <2> QED
      BY <2>4 DEF y, z
  <1>10. SubSeq(a, 1, m) = a
    BY <1>1
  <1>11. SubSeq(s, m + 1, m + (k + 1)) = r
    <2> DEFINE z == SubSeq(s, m + 1, m + (k + 1))
    <2>1. z \in Seq(S) /\ Len(z) = k + 1 /\ \A i \in 1..k + 1 : z[i] = s[m + 1 + i - 1]
      BY <1>3
    <2> HIDE DEF z
    <2>2. ASSUME NEW i \in 1..k + 1 PROVE z[i] = r[i]
      <3>1. m + 1 + i - 1 = m + i
        OBVIOUS
      <3> QED
        BY <1>3, <2>1, <3>1
    <2>3. z = r
      BY <1>2, <2>1, <2>2, SeqEqual
    <2> QED
      BY <2>3 DEF z
  <1>12. Len(a) + 1 \in 1..Len(s)
    BY <1>1, <1>3
  <1>13. SubSeq(s, Len(a) + 1, Len(s)) = r
    BY <1>1, <1>3, <1>11
  <1>14. SubSeq(s, 1, Len(a) + 1) = p /\ SubSeq(s, 1, Len(a)) = a
    BY <1>1, <1>8, <1>9, <1>10
  <1>15. \A i \in 1..Len(a) : SubSeq(s, 1, i) = SubSeq(a, 1, i)
    BY <1>1, <1>9
  <1> QED
    BY <1>5, <1>6, <1>7, <1>12, <1>13, <1>14, <1>15 DEF p, q, s

LEMMA PrefixesThere ==
  ASSUME NEW t, TreeTypes(t), NEW a \in Seq(Plain), Kind(t, a) \notin {"absent", "link"}
  PROVE  \A i \in 1..Len(a) : Kind(t, SubSeq(a, 1, i)) \notin {"absent", "link"}
  <1>1. PICK m \in Nat : Len(a) = m
    OBVIOUS
  <1> DEFINE S == {j \in Nat : j <= m => Kind(t, SubSeq(a, 1, m - j)) \notin {"absent", "link"}}
  <1>2. 0 \in S
    <2>1. SubSeq(a, 1, m - 0) = a
      BY <1>1
    <2> QED
      BY <2>1
  <1>3. ASSUME NEW j \in Nat, j \in S PROVE j + 1 \in S
    <2>1. SUFFICES ASSUME j + 1 <= m PROVE Kind(t, SubSeq(a, 1, m - (j + 1))) \notin {"absent", "link"}
      OBVIOUS
    <2>2. PICK k \in Nat : m - j = k + 1 /\ m - (j + 1) = k
      <3>1. m - (j + 1) \in Nat /\ m - j = m - (j + 1) + 1
        BY <2>1
      <3> QED
        BY <3>1
    <2> DEFINE p == SubSeq(a, 1, k + 1)
    <2>3. p \in Seq(Plain) /\ Len(p) = k + 1
      BY <1>1, <2>2
    <2>4. Front(p) = SubSeq(a, 1, k)
      <3>1. SubSeq(p, 1, k) = SubSeq(a, 1, k)
        BY <1>1, <2>2
      <3>2. Len(p) - 1 = k
        BY <2>3
      <3> QED
        BY <3>1, <3>2 DEF Front
    <2>5. Kind(t, p) \notin {"absent", "link"}
      BY <1>3, <2>1, <2>2
    <2> HIDE DEF p
    <2>6. p # <<>> /\ p \in DOMAIN t
      BY <2>3, <2>5 DEF Kind
    <2>7. Kind(t, Front(p)) = "dir"
      BY <2>6 DEF TreeTypes
    <2> QED
      BY <2>2, <2>4, <2>7
  <1> HIDE DEF S
  <1>4. \A j \in Nat : j \in S
    BY <1>2, <1>3, Induction
  <1>5. ASSUME NEW i \in 1..m PROVE Kind(t, SubSeq(a, 1, i)) \notin {"absent", "link"}
    <2>1. PICK j \in Nat : j <= m /\ m - j = i
      <3>1. m - i \in Nat /\ m - i <= m /\ m - (m - i) = i
        OBVIOUS
      <3> QED
        BY <3>1
    <2>2. j \in S
      BY <1>4
    <2> QED
      BY <2>1, <2>2 DEF S
  <1> QED
    BY <1>1, <1>5

LEMMA StopIs ==
  ASSUME NEW t, NEW path \in Seq(Names), NEW k \in 1..Len(path),
         \A i \in 1..Len(path) : i < k => Kind(t, SubSeq(path, 1, i)) \notin {"absent", "link"},
         Kind(t, SubSeq(path, 1, k)) \in {"absent", "link"}
  PROVE  Stop(t, path) = k
  <1>1. Len(path) \in Nat
    OBVIOUS
  <1> DEFINE i == Stop(t, path)
  <1>2. /\ i \in 1..Len(path) + 1
        /\ i <= Len(path) => Kind(t, SubSeq(path, 1, i)) \in {"link", "absent"}
        /\ \A j \in 1..Len(path) : j < i => Kind(t, SubSeq(path, 1, j)) \notin {"link", "absent"}
    BY StopIsFirst
  <1> HIDE DEF i
  <1>3. ~(k < i)
    BY <1>2
  <1>4. i <= k /\ i \in 1..Len(path)
    BY <1>1, <1>2, <1>3
  <1>5. ~(i < k)
    BY <1>2, <1>4
  <1>6. i = k
    BY <1>4, <1>5
  <1> QED
    BY <1>6 DEF i

LEMMA StopIsBehind ==
  ASSUME NEW t, NEW path \in Seq(Names),
         \A i \in 1..Len(path) : Kind(t, SubSeq(path, 1, i)) \notin {"absent", "link"}
  PROVE  Stop(t, path) > Len(path)
  <1>1. Len(path) \in Nat
    OBVIOUS
  <1> DEFINE i == Stop(t, path)
  <1>2. /\ i \in 1..Len(path) + 1
        /\ i <= Len(path) => Kind(t, SubSeq(path, 1, i)) \in {"link", "absent"}
    BY StopIsFirst
  <1> HIDE DEF i
  <1>3. i > Len(path)
    BY <1>1, <1>2
  <1> QED
    BY <1>3 DEF i

\* A way that has no names to go is at its end.
LEMMA WayEnds ==
  ASSUME NEW t, TreeTypes(t), NEW path, NEW a, Way(t, path, a, <<>>)
  PROVE  Position(t, path) = On(a, <<>>)
  <1>1. a \in Seq(Plain) /\ Kind(t, a) \notin {"absent", "link"}
    BY DEF Way
  <1>2. a \o <<>> = a
    BY <1>1
  <1>3. path = a
    BY <1>1, <1>2, PlainIsNormal DEF Way
  <1>4. Stop(t, a) > Len(a)
    BY <1>1, PlainIsNames, PrefixesThere, StopIsBehind
  <1>5. a # Outside
    BY <1>1, PlainIsInside
  <1>6. Position(t, a) = Found(a)
    BY <1>4, <1>5 DEF Position
  <1> QED
    BY <1>3, <1>6, Results

\* Where the next name of a way is a link or missing, the path stops there.
LEMMA WayStops ==
  ASSUME NEW t, TreeTypes(t), NEW path, NEW a, NEW r, Way(t, path, a, r), r # <<>>, r \in Seq(Plain),
         Kind(t, Append(a, Head(r))) \in {"absent", "link"}
  PROVE  Position(t, path) = IF Kind(t, Append(a, Head(r))) = "link" THEN On(a, r) ELSE Missing
  <1> DEFINE p == Append(a, Head(r))
             s == a \o r
             k == Len(a) + 1
  <1>1. a \in Seq(Plain) /\ Kind(t, a) \notin {"absent", "link"}
    BY DEF Way
  <1>2. s \in Seq(Plain)
    BY <1>1
  <1>3. path = s
    BY <1>2, PlainIsNormal DEF Way
  <1>4. /\ k \in 1..Len(s) /\ SubSeq(s, 1, k) = p /\ SubSeq(s, 1, Len(a)) = a
        /\ SubSeq(s, k, Len(s)) = r /\ \A i \in 1..Len(a) : SubSeq(s, 1, i) = SubSeq(a, 1, i)
    BY <1>1, JoinedIs
  <1>5. Len(a) \in Nat /\ k - 1 = Len(a) /\ k \in Nat
    BY <1>1
  <1> HIDE DEF p, s
  <1>6. \A i \in 1..Len(s) : i < k => Kind(t, SubSeq(s, 1, i)) \notin {"absent", "link"}
    <2> SUFFICES ASSUME NEW i \in 1..Len(s), i < k
                 PROVE  Kind(t, SubSeq(s, 1, i)) \notin {"absent", "link"}
      OBVIOUS
    <2>1. i \in 1..Len(a)
      BY <1>5
    <2>2. Kind(t, SubSeq(a, 1, i)) \notin {"absent", "link"}
      BY <1>1, <2>1, PrefixesThere
    <2> QED
      BY <1>4, <2>1, <2>2
  <1>7. Kind(t, SubSeq(s, 1, k)) \in {"absent", "link"}
    BY <1>4 DEF p
  <1>8. s \in Seq(Names) /\ s # Outside
    BY <1>2, PlainIsNames, PlainIsInside
  <1>9. Stop(t, s) = k
    BY <1>4, <1>6, <1>7, <1>8, StopIs
  <1>10. ~(k > Len(s))
    BY <1>4, <1>5
  <1>11. Position(t, s) = IF Kind(t, p) = "link" THEN On(SubSeq(s, 1, k - 1), SubSeq(s, k, Len(s))) ELSE Missing
    <2> HIDE DEF k
    <2> QED
      BY <1>4, <1>8, <1>9, <1>10 DEF Position
  <1> QED
    BY <1>3, <1>4, <1>5, <1>11 DEF p

OnWay(t, w, points, over, path, s, n) == \E a, r :
    s = On(a, r) /\ Way(t, path, a, r) /\ Clear(w, points, over, a, r) /\ Len(r) = n

\* Results without a path are where a path that is not there has led to.
LEMMA ResultsAgree ==
  ASSUME NEW t, NEW w, NEW points, NEW over, NEW path, NEW s \in {Escapes, Missing, Exceeds},
         s = Position(t, path)
  PROVE  Agrees(t, w, points, over, path, s)
  <1>1. s.error # ""
    BY Results
  <1>2. Settled(w, points, s)
    BY <1>1 DEF Settled
  <1> QED
    BY <1>2 DEF Agrees

LEMMA PrefixOfFront ==
  ASSUME NEW S, NEW a \in Seq(S), a # <<>>, NEW q \in Seq(S), IsPrefix(q, Front(a))
  PROVE  IsPrefix(q, a)
  <1>1. PICK n \in Nat : Len(a) = n + 1
    <2>1. Len(a) - 1 \in Nat /\ Len(a) = Len(a) - 1 + 1
      BY FrontIs
    <2> QED
      BY <2>1
  <1>2. PICK m \in Nat : Len(q) = m
    OBVIOUS
  <1>3. Front(a) = SubSeq(a, 1, n)
    BY <1>1 DEF Front
  <1>4. Len(SubSeq(a, 1, n)) = n
    BY <1>1
  <1>5. m <= n /\ SubSeq(q, 1, m) = SubSeq(SubSeq(a, 1, n), 1, m)
    BY <1>2, <1>3, <1>4 DEF IsPrefix
  <1>6. SubSeq(SubSeq(a, 1, n), 1, m) = SubSeq(a, 1, m)
    BY <1>1, <1>5
  <1> QED
    BY <1>1, <1>2, <1>5, <1>6 DEF IsPrefix

LEMMA PrefixOfSelf ==
  ASSUME NEW S, NEW a \in Seq(S)
  PROVE  IsPrefix(a, a)
  BY DEF IsPrefix

LEMMA OnIs ==
  ASSUME NEW s, NEW a, NEW r, s = On(a, r)
  PROVE  s.at = a /\ s.rest = r /\ s.error = ""
  BY DEF On

LEMMA WayBack ==
  ASSUME NEW t, NEW w, NEW points, NEW over, Covers(t, w, points, over),
         NEW path, NEW a, NEW r, Way(t, path, a, r), Clear(w, points, over, a, r), r # <<>>,
         Head(r) = "..", a # <<>>
  PROVE  OnWay(t, w, points, over, path, On(Front(a), Tail(r)), Len(r) - 1)
  <1>1. /\ a \in Seq(Plain) /\ r \in Seq(Names) /\ Kind(t, a) \notin {"absent", "link"}
        /\ Dotted(r) /\ Normalize(a \o r) = path
    BY DEF Way
  <1>2. Front(a) \in Seq(Plain) /\ Tail(r) \in Seq(Names) /\ Len(Tail(r)) = Len(r) - 1
    BY <1>1, FrontIs, TailIs
  <1>3. Kind(t, Front(a)) = "dir"
    BY <1>1 DEF Kind, Covers, TreeTypes
  <1>4. Dotted(Tail(r))
    BY <1>1, DottedTail
  <1>7. Clear(w, points, over, Front(a), Tail(r))
    <2> SUFFICES ASSUME Open(w, points, over) PROVE Free(points, Front(a))
      BY DEF Clear
    <2>1. r \notin Seq(Plain)
      <3> SUFFICES ASSUME r \in Seq(Plain) PROVE FALSE
        OBVIOUS
      <3>1. Head(r) \in Plain
        BY TailIs
      <3> QED
        BY <3>1 DEF Plain
    <2>2. Free(points, a)
      BY <2>1 DEF Clear
    <2> QED
      BY <1>1, <2>2, PrefixOfFront DEF Free, Covers
  <1>5. Normalize(Front(a) \o Tail(r)) = path
    BY <1>1, UpDrops
  <1>6. Way(t, path, Front(a), Tail(r))
    BY <1>2, <1>3, <1>4, <1>5 DEF Way
  <1> QED
    BY <1>2, <1>6, <1>7 DEF OnWay

LEMMA WayOn ==
  ASSUME NEW t, NEW w, NEW points, NEW over, NEW path, NEW a, NEW r, Way(t, path, a, r), r # <<>>,
         r \in Seq(Plain), Kind(t, Append(a, Head(r))) \notin {"absent", "link"}
  PROVE  OnWay(t, w, points, over, path, On(Append(a, Head(r)), Tail(r)), Len(r) - 1)
  <1>1. /\ a \in Seq(Plain) /\ r \in Seq(Names)
        /\ Dotted(r) /\ Normalize(a \o r) = path
    BY DEF Way
  <1> DEFINE p == Append(a, Head(r))
             q == Tail(r)
  <1>2. q \in Seq(Plain) /\ q \in Seq(Names) /\ Len(q) = Len(r) - 1
    BY <1>1, TailIs
  <1>3. p \in Seq(Plain) /\ p \o q = a \o r
    BY <1>1, JoinedIs
  <1>4. Dotted(q)
    BY <1>1, DottedTail
  <1> HIDE DEF p, q
  <1>5. Way(t, path, p, q)
    BY <1>1, <1>2, <1>3, <1>4 DEF Way, p
  <1>6. Clear(w, points, over, p, q)
    BY <1>2 DEF Clear
  <1> QED
    BY <1>2, <1>5, <1>6 DEF OnWay, p, q

\* A way that has come to a mount knows what is below it.
LEMMA WayHidden ==
  ASSUME NEW t, NEW w, NEW points, NEW over, Covers(t, w, points, over),
         NEW path, NEW a, NEW r, Way(t, path, a, r), Clear(w, points, over, a, r), a \in points
  PROVE  Agrees(t, w, points, over, path, On(a, r))
  <1> DEFINE s == On(a, r)
  <1>1. s.at = a /\ s.error = ""
    BY OnIs
  <1>2. s.rest = r
    BY DEF On
  <1>3. /\ a \in Seq(Plain) /\ Kind(t, a) \notin {"absent", "link"} /\ Normalize(a \o r) = path
    BY DEF Way
  <1> HIDE DEF s
  <1>4. ASSUME Open(w, points, over) PROVE Below(t, path, s)
    <2>1. r \in Seq(Plain)
      <3>1. IsPrefix(a, a)
        BY <1>3, PrefixOfSelf
      <3> QED
        BY <1>4, <3>1 DEF Clear, Free
    <2>2. a \o r = path
      <3>1. a \o r \in Seq(Plain)
        BY <1>3, <2>1
      <3> QED
        BY <1>3, <3>1, PlainIsNormal
    <2> QED
      BY <1>1, <1>2, <1>3, <2>1, <2>2 DEF Below
  <1>5. Known(t, w, points, over, path, s)
    BY <1>4 DEF Known
  <1>6. Hidden(points, s)
    BY <1>1 DEF Hidden
  <1> QED
    BY <1>5, <1>6 DEF Agrees, s

\* One name further: the lookup has come to a mount, to where path leads, or it is still
\* on its way.
LEMMA WayGoes ==
  ASSUME NEW t, NEW w, NEW points, NEW over, Covers(t, w, points, over), NEW mode,
         NEW path, path # Outside \/ mode = Reports,
         NEW a, NEW r, Way(t, path, a, r), Clear(w, points, over, a, r), r # <<>>, a \notin points
  PROVE  LET s == Stepped(w, points, mode, On(a, r))
         IN Agrees(t, w, points, over, path, s) \/ OnWay(t, w, points, over, path, s, Len(r) - 1)
  <1> DEFINE s == Stepped(w, points, mode, On(a, r))
             p == Append(a, Head(r))
  <1>1. /\ a \in Seq(Plain) /\ r \in Seq(Names) /\ Kind(t, a) \notin {"absent", "link"}
        /\ Kind(t, a) = "dir" \/ r \in Seq(Plain)
        /\ Dotted(r) /\ Normalize(a \o r) = path
    BY DEF Way
  <1>20. TreeTypes(t) /\ Overlaid(t, w, over) /\ over \subseteq points
    BY DEF Covers
  <1>2. s = IF Kind(w, a) # "dir" THEN Missing
            ELSE IF Head(r) = ".." THEN
                 IF a # <<>> THEN On(Front(a), Tail(r))
                 ELSE IF mode = Reports THEN Escapes ELSE On(<<>>, Tail(r))
            ELSE IF Kind(w, p) = "absent" THEN Missing
            ELSE IF Kind(w, p) = "link" THEN On(a, r)
            ELSE On(p, Tail(r))
    BY SteppedIs
  <1>3. Kind(w, a) = Kind(t, a)
    BY <1>20 DEF Overlaid
  <1>4. Head(r) # ".." => r \in Seq(Plain)
    BY <1>1, DottedTail
  <1> HIDE DEF s
  <1>5. CASE Kind(w, a) # "dir"
    <2>1. r \in Seq(Plain) /\ s = Missing
      BY <1>1, <1>2, <1>3, <1>5
    <2>2. Kind(t, p) = "absent"
      <3>1. p # <<>> /\ Front(p) = a
        BY <1>1, <2>1, JoinedIs
      <3> HIDE DEF p
      <3>2. p \notin DOMAIN t
        BY <1>3, <1>5, <1>20, <3>1 DEF TreeTypes
      <3> QED
        BY <3>1, <3>2 DEF Kind
    <2>3. Position(t, path) = Missing
      BY <1>20, <2>1, <2>2, WayStops
    <2> QED
      BY <2>1, <2>3, ResultsAgree DEF s
  <1>6. CASE Kind(w, a) = "dir" /\ Head(r) = ".." /\ a # <<>>
    BY <1>2, <1>6, WayBack DEF s
  <1>7. CASE Kind(w, a) = "dir" /\ Head(r) = ".." /\ a = <<>>
    <2>1. <<>> \o r = r
      BY <1>1
    <2>2. path = Outside
      BY <1>1, <1>7, <2>1, UpLeaves
    <2>3. s = Escapes
      BY <1>2, <1>7, <2>2
    <2>4. Position(t, path) = Escapes
      BY <2>2 DEF Position
    <2> QED
      BY <2>3, <2>4, ResultsAgree DEF s
  <1>8. CASE Kind(w, a) = "dir" /\ Head(r) # ".."
    <2>1. r \in Seq(Plain)
      BY <1>4, <1>8
    <2>2. CASE p \in over /\ Kind(w, p) = "file"
      <3>1. s = On(p, Tail(r))
        BY <1>2, <1>8, <2>2
      <3>2. s.at = p /\ s.error = ""
        BY <3>1, OnIs
      <3> QED
        BY <1>20, <2>2, <3>2 DEF Agrees, Hidden, Known, s
    <2>3. CASE Kind(w, p) = Kind(t, p) /\ Kind(t, p) = "absent"
      <3>1. s = Missing
        BY <1>2, <1>8, <2>3
      <3>2. Position(t, path) = Missing
        BY <1>20, <2>1, <2>3, WayStops
      <3> QED
        BY <3>1, <3>2, ResultsAgree DEF s
    <2>4. CASE Kind(w, p) = Kind(t, p) /\ Kind(t, p) = "link"
      <3>1. s = On(a, r)
        BY <1>2, <1>8, <2>4
      <3>2. Position(t, path) = On(a, r)
        BY <1>20, <2>1, <2>4, WayStops
      <3>3. s.at = a /\ s.rest = r /\ s.error = ""
        <4>1. s.at = a
          BY <3>1, OnIs
        <4>2. s.rest = r
          BY <3>1 DEF On
        <4>3. s.error = ""
          BY <3>1, OnIs
        <4> QED
          BY <4>1, <4>2, <4>3
      <3>4. Settled(w, points, s)
        BY <1>8, <2>4, <3>3 DEF Settled
      <3> QED
        BY <3>1, <3>2, <3>4 DEF Agrees, s
    <2>5. CASE Kind(w, p) = Kind(t, p) /\ Kind(t, p) \notin {"absent", "link"}
      <3>1. s = On(p, Tail(r))
        BY <1>2, <1>8, <2>5
      <3> QED
        BY <2>1, <2>5, <3>1, WayOn DEF s
    <2> QED
      BY <1>20, <2>2, <2>3, <2>4, <2>5 DEF Overlaid
  <1> QED
    BY <1>5, <1>6, <1>7, <1>8

Walks(w, points, mode, s, n, f) == f = [i \in 0..n |-> IF i = 0 THEN s ELSE Stepped(w, points, mode, f[i - 1])]

LEMMA WalksExist ==
  ASSUME NEW w, NEW points, NEW mode, NEW s, NEW n \in Nat
  PROVE  \E f : Walks(w, points, mode, s, n, f)
  <1> DEFINE S == {k \in Nat : \E f : Walks(w, points, mode, s, k, f)}
  <1>1. 0 \in S
    <2>1. Walks(w, points, mode, s, 0, [i \in 0..0 |-> s])
      BY DEF Walks
    <2> QED
      BY <2>1
  <1>2. ASSUME NEW k \in Nat, k \in S PROVE k + 1 \in S
    <2>1. PICK f : Walks(w, points, mode, s, k, f)
      BY <1>2
    <2> DEFINE next == Stepped(w, points, mode, f[k])
    <2> HIDE DEF next
    <2> DEFINE g == [i \in 0..k + 1 |-> IF i = k + 1 THEN next ELSE f[i]]
    <2>2. \A i \in 0..k : f[i] = IF i = 0 THEN s ELSE Stepped(w, points, mode, f[i - 1])
      BY <2>1 DEF Walks
    <2>3. g[k + 1] = next /\ g[k + 1 - 1] = f[k] /\ \A i \in 0..k : g[i] = f[i] /\ (i # 0 => g[i - 1] = f[i - 1])
      OBVIOUS
    <2>4. g = [i \in 0..k + 1 |-> g[i]]
      OBVIOUS
    <2> HIDE DEF g
    <2>5. \A i \in 0..k + 1 : g[i] = IF i = 0 THEN s ELSE Stepped(w, points, mode, g[i - 1])
      BY <2>2, <2>3 DEF next
    <2>6. Walks(w, points, mode, s, k + 1, g)
      BY <2>4, <2>5 DEF Walks
    <2>7. \E h : Walks(w, points, mode, s, k + 1, h)
      BY <2>6, Zenon
    <2> QED
      BY <2>7
  <1> HIDE DEF S
  <1>3. n \in S
    BY <1>1, <1>2, Induction
  <1> QED
    BY <1>3 DEF S

LEMMA WalksAre ==
  ASSUME NEW w, NEW points, NEW mode, NEW s, Len(s.rest) \in Nat
  PROVE  \E f : /\ f[0] = s /\ Walk(w, points, mode, s) = f[Len(s.rest)]
                /\ \A i \in 1..Len(s.rest) : f[i] = Stepped(w, points, mode, f[i - 1])
  <1> DEFINE f == CHOOSE g : Walks(w, points, mode, s, Len(s.rest), g)
  <1>1. Walk(w, points, mode, s) = f[Len(s.rest)]
    BY DEF Walk, Walks
  <1>2. Walks(w, points, mode, s, Len(s.rest), f)
    BY WalksExist, Zenon
  <1> HIDE DEF f
  <1>3. f[0] = s /\ \A i \in 1..Len(s.rest) : f[i] = Stepped(w, points, mode, f[i - 1])
    BY <1>2 DEF Walks
  <1> QED
    BY <1>1, <1>3, Zenon

\* A walk ends at a mount, at a link, or where there is nothing more.
LEMMA WalkAgrees ==
  ASSUME NEW t, NEW w, NEW points, NEW over, Covers(t, w, points, over), NEW mode,
         NEW path, path # Outside \/ mode = Reports,
         NEW a, NEW r, Way(t, path, a, r), Clear(w, points, over, a, r)
  PROVE  Agrees(t, w, points, over, path, Walk(w, points, mode, On(a, r)))
  <1> DEFINE s == On(a, r)
             Step(x) == Stepped(w, points, mode, x)
             Good(x) == Agrees(t, w, points, over, path, x)
  <1>1. PICK n \in Nat : Len(r) = n
    BY DEF Way
  <1>2. s.rest = r
    BY DEF On
  <1>3. PICK f : /\ f[0] = s /\ Walk(w, points, mode, s) = f[n]
                 /\ \A i \in 1..n : f[i] = Stepped(w, points, mode, f[i - 1])
    <2> HIDE DEF s
    <2> QED
      BY <1>1, <1>2, WalksAre
  <1> DEFINE S == {i \in Nat : i <= n => Good(f[i]) \/ OnWay(t, w, points, over, path, f[i], n - i)}
  <1>4. 0 \in S
    <2>1. OnWay(t, w, points, over, path, s, n)
      BY <1>1 DEF OnWay
    <2>2. n - 0 = n
      OBVIOUS
    <2> HIDE DEF s
    <2> QED
      BY <1>3, <2>1, <2>2
  <1>5. ASSUME NEW i \in Nat, i \in S PROVE i + 1 \in S
    <2>1. SUFFICES ASSUME i + 1 <= n PROVE Good(f[i + 1]) \/ OnWay(t, w, points, over, path, f[i + 1], n - (i + 1))
      OBVIOUS
    <2>2. f[i + 1] = Step(f[i])
      <3>1. i + 1 \in 1..n /\ i + 1 - 1 = i
        BY <2>1
      <3>2. f[i + 1] = Stepped(w, points, mode, f[i + 1 - 1])
        BY <1>3, <3>1
      <3> QED
        BY <3>1, <3>2
    <2>3. CASE Good(f[i])
      <3>1. Step(f[i]) = f[i]
        BY <2>3, HiddenStays, SettledStays DEF Agrees
      <3> QED
        BY <2>2, <2>3, <3>1
    <2>4. CASE ~Good(f[i])
      <3>1. OnWay(t, w, points, over, path, f[i], n - i)
        BY <1>5, <2>1, <2>4
      <3>2. PICK b, q : f[i] = On(b, q) /\ Way(t, path, b, q) /\ Clear(w, points, over, b, q) /\ Len(q) = n - i
        BY <3>1 DEF OnWay
      <3>3. q # <<>> /\ Len(q) - 1 = n - (i + 1)
        BY <2>1, <3>2
      <3>4. b \notin points
        BY <2>4, <3>2, WayHidden
      <3>5. Good(Step(f[i])) \/ OnWay(t, w, points, over, path, Step(f[i]), n - (i + 1))
        BY <3>2, <3>3, <3>4, WayGoes
      <3> QED
        BY <2>2, <3>5
    <2> QED
      BY <2>3, <2>4
  <1> HIDE DEF S
  <1>6. n \in S
    BY <1>4, <1>5, Induction
  <1>7. Good(f[n]) \/ OnWay(t, w, points, over, path, f[n], 0)
    <2>1. n <= n /\ n - n = 0
      OBVIOUS
    <2> QED
      BY <1>6, <2>1 DEF S
  <1>8. ASSUME OnWay(t, w, points, over, path, f[n], 0) PROVE Good(f[n])
    <2>1. PICK b, q : f[n] = On(b, q) /\ Way(t, path, b, q) /\ Len(q) = 0
      BY <1>8 DEF OnWay
    <2>2. q = <<>>
      BY <2>1 DEF Way
    <2>3. f[n] = Position(t, path)
      BY <2>1, <2>2, WayEnds DEF Covers
    <2>4. f[n].rest = <<>>
      BY <2>1, <2>2, OnIs
    <2>5. Settled(w, points, f[n])
      BY <2>4 DEF Settled
    <2> QED
      BY <2>3, <2>5 DEF Agrees
  <1> QED
    BY <1>3, <1>7, <1>8

LEMMA DottedJoin ==
  ASSUME NEW x \in Seq(Names), Dotted(x), NEW y \in Seq(Plain)
  PROVE  Dotted(x \o y)
  <1>1. PICK m \in Nat : Len(x) = m
    OBVIOUS
  <1>2. PICK k \in Nat : Len(y) = k
    OBVIOUS
  <1> DEFINE z == x \o y
  <1>3. z \in Seq(Names) /\ Len(z) = m + k /\ (\A i \in 1..m : z[i] = x[i]) /\ (\A i \in 1..k : z[m + i] = y[i])
    <2>1. /\ z \in Seq(Names) /\ Len(z) = Len(x) + Len(y)
          /\ (\A i \in 1..Len(x) : z[i] = x[i]) /\ (\A i \in 1..Len(y) : z[Len(x) + i] = y[i])
      <3>1. y \in Seq(Names)
        BY PlainIsNames
      <3> QED
        BY <3>1, ConcatIs
    <2> HIDE DEF z
    <2> QED
      BY <1>1, <1>2, <2>1
  <1> HIDE DEF z
  <1>4. DOMAIN z = 1..m + k
    BY <1>3
  <1>5. \A i \in 1..k : y[i] # ".."
    BY <1>2 DEF Plain
  <1>6. ASSUME NEW i \in 1..m + k, NEW j \in 1..m + k, z[j] = "..", i < j PROVE z[i] = ".."
    <2>1. j \in 1..m
      <3> SUFFICES ASSUME j > m PROVE FALSE
        OBVIOUS
      <3>1. PICK l \in 1..k : j = m + l
        <4>1. j - m \in 1..k /\ j = m + (j - m)
          OBVIOUS
        <4> QED
          BY <4>1
      <3> QED
        BY <1>3, <1>5, <1>6, <3>1
    <2>2. i \in 1..m
      BY <1>6, <2>1
    <2>3. x[j] = ".."
      BY <1>3, <1>6, <2>1
    <2>4. x[i] = ".."
      BY <1>1, <1>6, <2>1, <2>2, <2>3 DEF Dotted
    <2> QED
      BY <1>3, <2>2, <2>4
  <1>7. Dotted(z)
    BY <1>4, <1>6 DEF Dotted
  <1> QED
    BY <1>7 DEF z

LEMMA SplitIs ==
  ASSUME NEW S, NEW path \in Seq(S), NEW i \in 1..Len(path)
  PROVE  LET a == SubSeq(path, 1, i - 1)
             r == SubSeq(path, i, Len(path))
             p == SubSeq(path, 1, i)
         IN /\ a \in Seq(S) /\ r \in Seq(S) /\ r # <<>> /\ p \in Seq(S) /\ p # <<>>
            /\ Append(a, Head(r)) = p /\ Front(p) = a
            /\ Tail(r) = SubSeq(path, i + 1, Len(path))
  <1>1. PICK n \in Nat : Len(path) = n
    OBVIOUS
  <1>2. PICK m \in Nat : i = m + 1 /\ m + 1 <= n /\ m = i - 1
    <2>1. i - 1 \in Nat /\ i = i - 1 + 1 /\ i <= n
      BY <1>1
    <2> QED
      BY <2>1
  <1>20. PICK l \in Nat : l = m + 1 + 1
    OBVIOUS
  <1> DEFINE a == SubSeq(path, 1, m)
             r == SubSeq(path, m + 1, n)
             p == SubSeq(path, 1, m + 1)
             rest == SubSeq(path, l, n)
  <1>3. a \in Seq(S) /\ Len(a) = m /\ \A j \in 1..m : a[j] = path[j]
    BY <1>1, <1>2
  <1>4. p \in Seq(S) /\ Len(p) = m + 1 /\ \A j \in 1..m + 1 : p[j] = path[j]
    BY <1>1, <1>2
  <1>5. PICK k \in Nat : n = m + 1 + k
    <2>1. n - (m + 1) \in Nat /\ n = m + 1 + (n - (m + 1))
      BY <1>2
    <2> QED
      BY <2>1
  <1>6. r \in Seq(S) /\ Len(r) = k + 1 /\ \A j \in 1..k + 1 : r[j] = path[m + j]
    <2>1. r \in Seq(S)
      BY <1>1, <1>2
    <2>2. Len(r) = k + 1
      BY <1>1, <1>2, <1>5
    <2>3. ASSUME NEW j \in 1..k + 1 PROVE r[j] = path[m + j]
      <3>1. r[j] = path[m + 1 + j - 1]
        BY <1>1, <1>2, <1>5
      <3>2. m + 1 + j - 1 = m + j
        OBVIOUS
      <3> QED
        BY <3>1, <3>2
    <2> QED
      BY <2>1, <2>2, <2>3
  <1>7. rest \in Seq(S) /\ Len(rest) = k /\ \A j \in 1..k : rest[j] = path[m + 1 + j]
    <2>1. rest \in Seq(S)
      BY <1>1, <1>20
    <2>2. Len(rest) = k
      BY <1>1, <1>2, <1>5, <1>20
    <2>3. ASSUME NEW j \in 1..k PROVE rest[j] = path[m + 1 + j]
      <3>1. rest[j] = path[l + j - 1]
        <4>1. n - l + 1 = k /\ \A x \in l..n : path[x] \in S
          BY <1>1, <1>5, <1>20
        <4> QED
          BY <4>1, SubSeqProperties
      <3>2. l + j - 1 = m + 1 + j
        BY <1>20
      <3> QED
        BY <3>1, <3>2
    <2> QED
      BY <2>1, <2>2, <2>3
  <1>8. SubSeq(p, 1, m) = a
    BY <1>1, <1>2
  <1> HIDE DEF a, r, p, rest
  <1>9. r # <<>> /\ p # <<>> /\ Head(r) = path[m + 1] /\ Head(r) \in S
    <2>1. r # <<>> /\ p # <<>>
      BY <1>4, <1>6
    <2>2. Head(r) = r[1] /\ Head(r) \in S
      BY <1>6, <2>1, TailIs
    <2>3. 1 \in 1..k + 1
      OBVIOUS
    <2> QED
      BY <1>6, <2>1, <2>2, <2>3
  <1>10. Append(a, Head(r)) = p
    <2> DEFINE x == Head(r)
               z == Append(a, x)
    <2>1. z \in Seq(S) /\ Len(z) = m + 1 /\ (\A j \in 1..m : z[j] = a[j]) /\ z[m + 1] = x
      <3> HIDE DEF x
      <3>1. x \in S
        BY <1>9 DEF x
      <3> QED
        BY <1>3, <3>1
    <2> HIDE DEF z
    <2>2. ASSUME NEW j \in 1..m + 1 PROVE z[j] = p[j]
      <3>1. j \in 1..m \/ j = m + 1
        OBVIOUS
      <3> QED
        BY <1>3, <1>4, <1>9, <2>1, <3>1
    <2>3. z = p
      BY <1>4, <2>1, <2>2, SeqEqual
    <2> QED
      BY <2>3 DEF z
  <1>11. Front(p) = a
    <2>1. Len(p) - 1 = m
      BY <1>4
    <2> QED
      BY <1>8, <2>1 DEF Front
  <1>12. Tail(r) = rest
    <2> DEFINE z == Tail(r)
    <2>1. z \in Seq(S) /\ Len(z) = k /\ \A j \in 1..k : z[j] = r[j + 1]
      <3>1. z \in Seq(S) /\ Len(z) = Len(r) - 1 /\ \A j \in 1..Len(r) - 1 : z[j] = r[j + 1]
        BY <1>6, <1>9, TailIs
      <3> HIDE DEF z
      <3>2. Len(r) - 1 = k
        BY <1>6
      <3> QED
        BY <3>1, <3>2
    <2> HIDE DEF z
    <2>2. ASSUME NEW j \in 1..k PROVE z[j] = rest[j]
      <3>1. j + 1 \in 1..k + 1 /\ m + (j + 1) = m + 1 + j
        OBVIOUS
      <3>2. r[j + 1] = path[m + (j + 1)]
        BY <1>6, <3>1
      <3> QED
        BY <1>7, <2>1, <3>1, <3>2
    <2>3. z = rest
      BY <1>7, <2>1, <2>2, SeqEqual
    <2> QED
      BY <2>3 DEF z
  <1> QED
    BY <1>1, <1>2, <1>3, <1>4, <1>6, <1>9, <1>10, <1>11, <1>12, <1>20 DEF a, r, p, rest

LEMMA OutsideStops ==
  ASSUME NEW t, TreeTypes(t)
  PROVE  LET i == Stop(t, Outside)
         IN ~(i <= Len(Outside) /\ Kind(t, SubSeq(Outside, 1, i)) = "link")
  <1> DEFINE i == Stop(t, Outside)
  <1>1. SUFFICES ASSUME i <= Len(Outside) PROVE Kind(t, SubSeq(Outside, 1, i)) # "link"
    OBVIOUS
  <1>2. Outside \in Seq(Names) /\ Len(Outside) = 1
    BY NormalIsNames DEF Outside, Normal
  <1>3. i = 1
    BY <1>1, <1>2, StopIsFirst
  <1>4. SubSeq(Outside, 1, 1) = Outside
    BY <1>2
  <1>5. Outside \notin DOMAIN t /\ Outside # <<>>
    BY PlainIsInside DEF TreeTypes, Outside
  <1> QED
    BY <1>3, <1>4, <1>5 DEF Kind

LEMMA OutsideTurns ==
  ASSUME NEW t, TreeTypes(t)
  PROVE  Turn(t, Outside) = Outside
  BY OutsideStops DEF Turn

LEMMA PrefixOfEmpty ==
  ASSUME NEW S, NEW q \in Seq(S), IsPrefix(q, <<>>)
  PROVE  q = <<>>
  BY DEF IsPrefix

LEMMA PrefixOfLonger ==
  ASSUME NEW S, NEW a \in Seq(S), NEW r \in Seq(S), NEW i \in 1..Len(a \o r), i > Len(a)
  PROVE  IsPrefix(a, SubSeq(a \o r, 1, i))
  <1> DEFINE s == a \o r
  <1>1. PICK m \in Nat : Len(a) = m
    OBVIOUS
  <1>2. s \in Seq(S) /\ i \in Nat /\ i <= Len(s) /\ m < i
    BY <1>1
  <1>3. SubSeq(s, 1, m) = a
    <2>1. CASE r = <<>>
      BY <1>1, <2>1
    <2>2. CASE r # <<>>
      BY <1>1, <2>2, JoinedIs
    <2> QED
      BY <2>1, <2>2
  <1> HIDE DEF s
  <1>4. Len(SubSeq(s, 1, i)) = i /\ SubSeq(SubSeq(s, 1, i), 1, m) = SubSeq(s, 1, m)
    <2>1. Len(s) \in Nat
      BY <1>2
    <2> QED
      BY <1>2, <2>1
  <1>5. SubSeq(a, 1, m) = a
    BY <1>1
  <1> QED
    BY <1>1, <1>2, <1>3, <1>4, <1>5 DEF IsPrefix, s

LEMMA NoLinkBelow ==
  ASSUME NEW t, TreeTypes(t), NEW a \in Seq(Plain), NEW r \in Seq(Plain),
         Kind(t, a) \notin {"absent", "link"},
         \A p \in DOMAIN t : t[p].kind = "link" => ~IsPrefix(a, p)
  PROVE  Turn(t, a \o r) = a \o r
  <1> DEFINE path == a \o r
             i == Stop(t, path)
             p == SubSeq(path, 1, i)
  <1>1. path \in Seq(Plain) /\ path \in Seq(Names) /\ Len(path) \in Nat
    <2>1. path \in Seq(Plain)
      OBVIOUS
    <2> QED
      BY <2>1, PlainIsNames
  <1>2. SUFFICES ASSUME i <= Len(path), Kind(t, p) = "link" PROVE FALSE
    BY DEF Turn
  <1> HIDE DEF path
  <1>3. i \in 1..Len(path)
    BY <1>1, <1>2, StopIsFirst
  <1> HIDE DEF i
  <1>4. p # <<>>
    BY <1>1, <1>3
  <1> HIDE DEF p
  <1>5. Len(a) \in Nat
    OBVIOUS
  <1>6. CASE i <= Len(a)
    <2>1. i \in 1..Len(a)
      BY <1>3, <1>5, <1>6
    <2>2. p = SubSeq(a, 1, i)
      <3>1. CASE r = <<>>
        BY <3>1 DEF p, path
      <3>2. CASE r # <<>>
        BY <2>1, <3>2, JoinedIs DEF p, path
      <3> QED
        BY <3>1, <3>2
    <2>3. Kind(t, SubSeq(a, 1, i)) \notin {"absent", "link"}
      BY <2>1, PrefixesThere
    <2> QED
      BY <1>2, <2>2, <2>3
  <1>7. CASE i > Len(a)
    <2>1. IsPrefix(a, p)
      BY <1>3, <1>7, PrefixOfLonger DEF p, path
    <2>2. p \in DOMAIN t /\ t[p].kind = "link"
      BY <1>2, <1>4 DEF Kind
    <2> QED
      BY <2>1, <2>2
  <1> QED
    BY <1>3, <1>5, <1>6, <1>7

\* Below a mount there is no link to follow.
LEMMA BelowStays ==
  ASSUME NEW t, NEW w, NEW points, NEW over, Covers(t, w, points, over), Open(w, points, over),
         NEW path, NEW s, Below(t, path, s), s.at \in points, s.at \notin over
  PROVE  Turn(t, path) = path
  <1>1. TreeTypes(t) /\ Overlaid(t, w, over)
    BY DEF Covers
  <1>2. ASSUME NEW p \in DOMAIN t, t[p].kind = "link" PROVE ~IsPrefix(s.at, p)
    <2>1. Kind(t, p) = "link" /\ p # <<>>
      BY <1>1, <1>2 DEF Kind, TreeTypes
    <2>2. CASE Kind(w, p) = "link"
      <3>1. p \in DOMAIN w /\ w[p].kind = "link"
        BY <2>1, <2>2 DEF Kind
      <3> QED
        BY <3>1 DEF Open
    <2>3. CASE p \in over
      BY <2>3 DEF Open
    <2> QED
      BY <1>1, <2>1, <2>2, <2>3 DEF Overlaid
  <1>3. /\ s.at \in Seq(Plain) /\ s.rest \in Seq(Plain) /\ path = s.at \o s.rest
        /\ Kind(t, s.at) \notin {"absent", "link"}
    BY DEF Below
  <1> QED
    BY <1>1, <1>2, <1>3, NoLinkBelow

\* Following the link that a walk waits before is a turn of sandrun's.
LEMMA PassAgrees ==
  ASSUME NEW t, NEW w, NEW points, NEW over, Covers(t, w, points, over), NEW mode,
         NEW path \in Normal, Turn(t, path) # Outside \/ mode = Reports,
         NEW s, Agrees(t, w, points, over, path, s)
  PROVE  Agrees(t, w, points, over, Turn(t, path), Passed(w, points, mode, s))
  <1> DEFINE i == Stop(t, path)
             p == SubSeq(path, 1, i)
             a == SubSeq(path, 1, i - 1)
             r == SubSeq(path, i, Len(path))
             rest == SubSeq(path, i + 1, Len(path))
  <1>20. /\ TreeTypes(t) /\ Overlaid(t, w, over) /\ DotsLead(w)
         /\ points \subseteq Seq(Plain) /\ over \subseteq points
    BY DEF Covers
  <1> DEFINE Placed == Hidden(points, s) /\ Known(t, w, points, over, path, s)
  <1>1. CASE Placed
    <2>1. Passed(w, points, mode, s) = s
      BY <1>1 DEF Hidden, Passed, Waits
    <2>2. ASSUME Open(w, points, over), s.at \notin over PROVE Turn(t, path) = path
      BY <1>1, <2>2, BelowStays DEF Known, Hidden
    <2>3. Known(t, w, points, over, Turn(t, path), s)
      BY <1>1, <2>2 DEF Known
    <2> QED
      BY <1>1, <2>1, <2>3 DEF Agrees
  <1>2. CASE ~Placed /\ ~(i <= Len(path) /\ Kind(t, p) = "link")
    <2>1. Turn(t, path) = path
      BY <1>2 DEF Turn
    <2>2. s = Position(t, path)
      BY <1>2 DEF Agrees
    <2>3. s \in {Escapes, Missing} \/ s = Found(path)
      <3>1. Len(path) \in Nat /\ i \in Nat
        BY NormalIsNames, StopIsFirst
      <3> HIDE DEF i
      <3> QED
        BY <1>2, <2>2, <3>1 DEF Position, i
    <2>4. ~Waits(points, s)
      <3>1. CASE s = Found(path)
        BY <3>1 DEF Found, Waits
      <3>2. CASE s \in {Escapes, Missing}
        BY <3>2, Results DEF Waits
      <3> QED
        BY <2>3, <3>1, <3>2
    <2>5. Passed(w, points, mode, s) = s
      BY <2>4 DEF Passed
    <2> QED
      BY <2>1, <2>5
  <1>3. CASE ~Placed /\ i <= Len(path) /\ Kind(t, p) = "link"
    <2>1. path # Outside
      BY <1>3, <1>20, OutsideStops
    <2>2. path \in Seq(Plain)
      BY <2>1 DEF Normal
    <2>3. i \in 1..Len(path)
      BY <1>3, <2>2, PlainIsNames, StopIsFirst
    <2>4. /\ a \in Seq(Plain) /\ r \in Seq(Plain) /\ r # <<>> /\ p \in Seq(Plain) /\ p # <<>>
          /\ Append(a, Head(r)) = p /\ Front(p) = a /\ Tail(r) = rest
      <3> HIDE DEF i
      <3> QED
        BY <2>2, <2>3, SplitIs
    <2>5. s = On(a, r) /\ Settled(w, points, s)
      <3>1. s = Position(t, path) /\ Settled(w, points, s)
        BY <1>3 DEF Agrees
      <3> QED
        BY <1>3, <2>1, <2>3, <3>1 DEF Position
    <2> HIDE DEF i, p, a, r, rest
    <2>6. s.at = a /\ s.error = ""
      BY <2>5 DEF On
    <2>7. s.rest = r
      BY <2>5 DEF On
    <2>8. Waits(points, s)
      BY <2>4, <2>5, <2>6, <2>7 DEF Settled, Waits
    <2>9. Kind(w, p) = "link" /\ Head(r) # ".."
      BY <2>4, <2>5, <2>6, <2>7 DEF Settled
    <2>10. w[p] = t[p]
      BY <1>20, <2>9 DEF Overlaid
    <2>11. p \in DOMAIN t /\ p \in DOMAIN w
      BY <1>3, <2>4, <2>9 DEF Kind
    <2>12. Kind(t, a) = "dir" /\ t[p].to \in Seq(Names) /\ Dotted(t[p].to)
      BY <1>20, <2>4, <2>10, <2>11 DEF TreeTypes, DotsLead
    <2>21. ASSUME Open(w, points, over) PROVE Free(points, <<>>) /\ Free(points, a)
      <3>1. w[p].kind = "link"
        BY <2>4, <2>9 DEF Kind
      <3>2. \A q \in points : q # <<>> /\ ~IsPrefix(q, p)
        BY <2>11, <2>21, <3>1 DEF Open
      <3>3. \A q \in points : ~IsPrefix(q, <<>>)
        BY <1>20, <3>2, PrefixOfEmpty
      <3>4. \A q \in points : ~IsPrefix(q, a)
        BY <1>20, <2>4, <3>2, PrefixOfFront
      <3> QED
        BY <3>3, <3>4 DEF Free
    <2> DEFINE at == IF t[p].abs THEN <<>> ELSE a
               to == t[p].to
    <2>13. Followed(w, s) = On(at, to \o rest)
      BY <2>4, <2>6, <2>7, <2>10 DEF Followed
    <2>14. Turn(t, path) = Normalize((at \o to) \o rest)
      <3>1. Turn(t, path) = Normalize(Redirect(t, p, rest))
        BY <1>3 DEF Turn, i, p, rest
      <3>2. Redirect(t, p, rest) = (at \o to) \o rest
        BY <2>4 DEF Redirect, FromParent
      <3> QED
        BY <3>1, <3>2
    <2>15. at \in Seq(Plain) /\ Kind(t, at) = "dir"
      BY <2>4, <2>12 DEF Kind
    <2>22. Clear(w, points, over, at, to \o rest)
      BY <2>21 DEF Clear
    <2>16. to \in Seq(Names) /\ Dotted(to) /\ rest \in Seq(Plain)
      <3>1. Tail(r) \in Seq(Plain)
        BY <2>4, TailIs
      <3> QED
        BY <2>4, <2>12, <3>1
    <2> HIDE DEF at, to
    <2>17. at \in Seq(Names) /\ rest \in Seq(Names)
      BY <2>15, <2>16, PlainIsNames
    <2>18. (at \o to) \o rest = at \o (to \o rest)
      BY <2>16, <2>17, ConcatAssociative
    <2>19. Way(t, Turn(t, path), at, to \o rest)
      <3>1. to \o rest \in Seq(Names)
        BY <2>16, <2>17
      <3>2. Dotted(to \o rest)
        BY <2>16, DottedJoin
      <3> QED
        BY <2>14, <2>15, <2>18, <3>1, <3>2 DEF Way
    <2>20. Passed(w, points, mode, s) = Walk(w, points, mode, On(at, to \o rest))
      BY <2>8, <2>13 DEF Passed
    <2> QED
      BY <2>19, <2>20, <2>22, WalkAgrees
  <1> QED
    BY <1>1, <1>2, <1>3

Passes(w, points, mode, target, n, f) == f = [i \in 0..n |-> IF i = 0 THEN Walk(w, points, mode, On(<<>>, target)) ELSE Passed(w, points, mode, f[i - 1])]

LEMMA PassesExist ==
  ASSUME NEW w, NEW points, NEW mode, NEW target, NEW n \in Nat
  PROVE  \E f : Passes(w, points, mode, target, n, f)
  <1> DEFINE S == {k \in Nat : \E f : Passes(w, points, mode, target, k, f)}
  <1>1. 0 \in S
    <2>1. Passes(w, points, mode, target, 0, [i \in 0..0 |-> Walk(w, points, mode, On(<<>>, target))])
      BY DEF Passes
    <2> QED
      BY <2>1
  <1>2. ASSUME NEW k \in Nat, k \in S PROVE k + 1 \in S
    <2>1. PICK f : Passes(w, points, mode, target, k, f)
      BY <1>2
    <2> DEFINE next == Passed(w, points, mode, f[k])
    <2> HIDE DEF next
    <2> DEFINE g == [i \in 0..k + 1 |-> IF i = k + 1 THEN next ELSE f[i]]
    <2>2. \A i \in 0..k : f[i] = IF i = 0 THEN Walk(w, points, mode, On(<<>>, target)) ELSE Passed(w, points, mode, f[i - 1])
      BY <2>1 DEF Passes
    <2>3. g[k + 1] = next /\ g[k + 1 - 1] = f[k] /\ \A i \in 0..k : g[i] = f[i] /\ (i # 0 => g[i - 1] = f[i - 1])
      OBVIOUS
    <2>4. g = [i \in 0..k + 1 |-> g[i]]
      OBVIOUS
    <2> HIDE DEF g
    <2>5. \A i \in 0..k + 1 : g[i] = IF i = 0 THEN Walk(w, points, mode, On(<<>>, target)) ELSE Passed(w, points, mode, g[i - 1])
      BY <2>2, <2>3 DEF next
    <2>6. Passes(w, points, mode, target, k + 1, g)
      BY <2>4, <2>5 DEF Passes
    <2>7. \E h : Passes(w, points, mode, target, k + 1, h)
      BY <2>6, Zenon
    <2> QED
      BY <2>7
  <1> HIDE DEF S
  <1>3. n \in S
    BY <1>1, <1>2, Induction
  <1> QED
    BY <1>3 DEF S

LEMMA PassesAre ==
  ASSUME NEW w, NEW points, NEW mode, NEW target
  PROVE  \E f :
            /\ f[0] = Walk(w, points, mode, On(<<>>, target))
            /\ \A n \in 1..MaxLinks : f[n] = Passed(w, points, mode, f[n - 1])
            /\ Lookup(w, points, mode, target) =
                  IF Waits(points, f[MaxLinks]) THEN Exceeds ELSE f[MaxLinks]
  <1> DEFINE f == CHOOSE g : Passes(w, points, mode, target, MaxLinks, g)
  <1>1. Lookup(w, points, mode, target) =
            IF Waits(points, f[MaxLinks]) THEN Refused("links") ELSE f[MaxLinks]
    BY DEF Lookup, Passes
  <1>2. Passes(w, points, mode, target, MaxLinks, f)
    BY PassesExist, LinksAssumption, Zenon
  <1> HIDE DEF f
  <1>3. /\ f[0] = Walk(w, points, mode, On(<<>>, target))
        /\ \A n \in 1..MaxLinks : f[n] = Passed(w, points, mode, f[n - 1])
    BY <1>2, LinksAssumption DEF Passes
  <1> QED
    BY <1>1, <1>3, Zenon DEF Exceeds

\* What sandrun resolves is what the kernel finds, or a mount hides it.
LEMMA LookupAgrees ==
  ASSUME NEW t, NEW w, NEW points, NEW over, Covers(t, w, points, over), NEW mode,
         NEW target \in Seq(Plain), Resolve(t, target).error # "escape" \/ mode = Reports
  PROVE  LET s == Lookup(w, points, mode, target)
             r == Resolve(t, target)
         IN \/ s = r
            \/ /\ Hidden(points, s)
               /\ Open(w, points, over) /\ r.error = "" => s.at \in over \/ s.at \o s.rest = r.at
  <1>1. PICK f :
            /\ f[0] = Normalize(target) /\ \A n \in 1..MaxLinks : f[n] = Turn(t, f[n - 1])
            /\ LET path == f[MaxLinks]
                   i == Stop(t, path)
               IN Resolve(t, target) =
                     IF path = Outside THEN Escapes
                     ELSE IF i > Len(path) THEN Found(path)
                     ELSE IF Kind(t, SubSeq(path, 1, i)) = "link" THEN Exceeds ELSE Missing
    BY TurnsAre
  <1>2. PICK g :
            /\ g[0] = Walk(w, points, mode, On(<<>>, target))
            /\ \A n \in 1..MaxLinks : g[n] = Passed(w, points, mode, g[n - 1])
            /\ Lookup(w, points, mode, target) =
                  IF Waits(points, g[MaxLinks]) THEN Exceeds ELSE g[MaxLinks]
    BY PassesAre
  <1>3. \A n \in 0..MaxLinks : f[n] \in Normal
    BY <1>1, PlainIsNames, TurnsAreNormal DEF Covers
  <1> DEFINE path == f[MaxLinks]
             i == Stop(t, path)
             Stray(n) == f[n] = Outside /\ mode # Reports
             S == {n \in Nat : n <= MaxLinks => Stray(n) \/ Agrees(t, w, points, over, f[n], g[n])}
  <1>4. 0 \in S
    <2>1. f[0] = target /\ target # Outside
      BY <1>1, PlainIsNormal, PlainIsInside
    <2>2. Way(t, target, <<>>, target)
      <3>1. target \in Seq(Names) /\ <<>> \in Seq(Plain) /\ <<>> \o target = target
        BY PlainIsNames
      <3>2. Dotted(target)
        BY DEF Dotted, Plain
      <3>3. Kind(t, <<>>) = "dir"
        BY DEF Kind
      <3> QED
        BY <3>1, <3>2, <3>3, PlainIsNormal DEF Way
    <2>3. Agrees(t, w, points, over, target, g[0])
      <3>1. Clear(w, points, over, <<>>, target)
        BY DEF Clear
      <3> QED
        BY <1>2, <2>1, <2>2, <3>1, WalkAgrees
    <2> QED
      BY <2>1, <2>3
  <1>5. ASSUME NEW n \in Nat, n \in S PROVE n + 1 \in S
    <2>1. SUFFICES ASSUME n + 1 <= MaxLinks
                   PROVE  Stray(n + 1) \/ Agrees(t, w, points, over, f[n + 1], g[n + 1])
      OBVIOUS
    <2>2. n + 1 \in 1..MaxLinks /\ n + 1 - 1 = n /\ n \in 0..MaxLinks /\ n <= MaxLinks
      BY <2>1, LinksAssumption
    <2>3. f[n + 1] = Turn(t, f[n]) /\ g[n + 1] = Passed(w, points, mode, g[n])
      BY <1>1, <1>2, <2>2
    <2>4. CASE Stray(n)
      <3>1. Turn(t, Outside) = Outside
        BY OutsideTurns DEF Covers
      <3> QED
        BY <2>3, <2>4, <3>1
    <2>5. CASE Agrees(t, w, points, over, f[n], g[n]) /\ ~Stray(n + 1)
      <3>1. f[n] \in Normal
        BY <1>3, <2>2
      <3>2. Turn(t, f[n]) # Outside \/ mode = Reports
        BY <2>3, <2>5
      <3> HIDE DEF Stray
      <3>3. Agrees(t, w, points, over, Turn(t, f[n]), Passed(w, points, mode, g[n]))
        BY <2>5, <3>1, <3>2, PassAgrees
      <3> QED
        BY <2>3, <3>3
    <2> QED
      BY <1>5, <2>2, <2>4, <2>5
  <1> HIDE DEF S
  <1>6. MaxLinks \in S
    BY <1>4, <1>5, LinksAssumption, Induction
  <1>7. Stray(MaxLinks) \/ Agrees(t, w, points, over, path, g[MaxLinks])
    BY <1>6, LinksAssumption DEF S
  <1> HIDE DEF path
  <1>8. ~Stray(MaxLinks)
    <2> SUFFICES ASSUME Stray(MaxLinks) PROVE FALSE
      OBVIOUS
    <2>1. Resolve(t, target) = Escapes /\ mode # Reports
      BY <1>1 DEF path
    <2> QED
      BY <2>1, Results
  <1> DEFINE s == g[MaxLinks]
             l == Lookup(w, points, mode, target)
  <1>9. Agrees(t, w, points, over, path, s) /\ l = (IF Waits(points, s) THEN Exceeds ELSE s)
    BY <1>2, <1>7, <1>8
  <1>10. Resolve(t, target) =
            IF path = Outside THEN Escapes
            ELSE IF i > Len(path) THEN Found(path)
            ELSE IF Kind(t, SubSeq(path, 1, i)) = "link" THEN Exceeds ELSE Missing
    BY <1>1 DEF path
  <1> HIDE DEF s, l
  <1> DEFINE Placed == Hidden(points, s) /\ Known(t, w, points, over, path, s)
  <1>11. CASE Placed
    <2>1. ~Waits(points, s)
      BY <1>11 DEF Hidden, Waits
    <2>2. l = s
      BY <1>9, <2>1
    <2>3. ASSUME Open(w, points, over), Resolve(t, target).error = "", s.at \notin over
          PROVE  s.at \o s.rest = Resolve(t, target).at
      <3>1. s.at \o s.rest = path
        BY <1>11, <2>3 DEF Known, Below
      <3>2. Resolve(t, target) \notin {Escapes, Missing, Exceeds}
        BY <2>3, Results
      <3>3. Resolve(t, target) = Found(path)
        BY <1>10, <3>2
      <3>4. Resolve(t, target).at = path
        BY <3>3, Results
      <3> QED
        BY <3>1, <3>4
    <2> QED
      BY <1>11, <2>2, <2>3 DEF l
  <1>12. CASE ~Placed /\ path # Outside /\ i <= Len(path) /\ Kind(t, SubSeq(path, 1, i)) = "link"
    <2>1. path \in Seq(Plain)
      BY <1>3, <1>12, LinksAssumption DEF Normal, path
    <2>2. i \in 1..Len(path)
      BY <1>12, <2>1, PlainIsNames, StopIsFirst
    <2> DEFINE a == SubSeq(path, 1, i - 1)
               r == SubSeq(path, i, Len(path))
    <2>3. s = On(a, r) /\ Settled(w, points, s)
      BY <1>9, <1>12, <2>2 DEF Agrees, Position
    <2>4. r # <<>>
      <3> HIDE DEF i
      <3> QED
        BY <2>1, <2>2, SplitIs
    <2> HIDE DEF a, r
    <2>5. s.at = a /\ s.error = ""
      BY <2>3, OnIs
    <2>6. s.rest = r
      BY <2>3 DEF On
    <2>7. Waits(points, s)
      BY <2>3, <2>4, <2>5, <2>6 DEF Settled, Waits
    <2>8. Resolve(t, target) = Exceeds
      BY <1>10, <1>12, <2>2
    <2> QED
      BY <1>9, <2>7, <2>8 DEF l
  <1>13. CASE ~Placed /\ ~(path # Outside /\ i <= Len(path) /\ Kind(t, SubSeq(path, 1, i)) = "link")
    <2>1. s = Position(t, path)
      BY <1>9, <1>13 DEF Agrees
    <2>2. s = Resolve(t, target) /\ (s \in {Escapes, Missing} \/ s = Found(path))
      <3>1. Len(path) \in Nat /\ i \in Nat
        BY <1>3, LinksAssumption, NormalIsNames, StopIsFirst DEF path
      <3>2. CASE path = Outside
        BY <1>10, <2>1, <3>2 DEF Position
      <3>3. CASE path # Outside /\ i > Len(path)
        BY <1>10, <2>1, <3>3 DEF Position
      <3>4. CASE path # Outside /\ ~(i > Len(path))
        BY <1>10, <1>13, <2>1, <3>1, <3>4 DEF Position
      <3> QED
        BY <3>2, <3>3, <3>4
    <2>3. ~Waits(points, s)
      <3>1. CASE s = Found(path)
        BY <3>1 DEF Found, Waits
      <3>2. CASE s \in {Escapes, Missing}
        BY <3>2, Results DEF Waits
      <3> QED
        BY <2>2, <3>1, <3>2
    <2> QED
      BY <1>9, <2>2, <2>3 DEF l
  <1> QED
    BY <1>11, <1>12, <1>13 DEF l

LEMMA TypesAreNamed ==
  /\ STRING \subseteq Names /\ FileNames \subseteq Plain
  /\ Seq(STRING) \subseteq Seq(Names) /\ Seq(FileNames) \subseteq Seq(Plain)
  <1>1. STRING \subseteq Names /\ FileNames \subseteq Plain
    BY DEF Names, Plain, FileNames
  <1>2. Seq(STRING) \subseteq Seq(Names)
    BY DEF Names
  <1>3. Seq(FileNames) \subseteq Seq(Plain)
    BY <1>1
  <1> QED
    BY <1>1, <1>2, <1>3

\* What is assumed of an image is what the lemmas need of a tree.
LEMMA TreesAreTyped ==
  ASSUME NEW t, IsTree(t)
  PROVE  TreeTypes(t)
  <1> SUFFICES ASSUME NEW p \in DOMAIN t
               PROVE  /\ p \in Seq(Plain) /\ p # <<>> /\ Kind(t, Front(p)) = "dir"
                      /\ t[p].kind \in Kinds /\ t[p].to \in Seq(Names)
    BY DEF TreeTypes
  <1>1. /\ p \in Seq(FileNames) /\ p # <<>>
        /\ Len(p) = 1 \/ (Front(p) \in DOMAIN t /\ t[Front(p)].kind = "dir")
        /\ t[p].kind \in Kinds /\ t[p].to \in Seq(STRING)
    BY DEF IsTree
  <1>2. p \in Seq(Plain)
    BY <1>1, TypesAreNamed
  <1>3. Kind(t, Front(p)) = "dir"
    <2>1. CASE Len(p) = 1
      <3>1. Front(p) \in Seq(Plain) /\ Len(Front(p)) = 0
        BY <1>1, <1>2, <2>1, FrontIs
      <3>2. Front(p) = <<>>
        BY <3>1
      <3> QED
        BY <3>2 DEF Kind
    <2>2. CASE Front(p) \in DOMAIN t /\ t[Front(p)].kind = "dir"
      BY <2>2 DEF Kind
    <2> QED
      BY <1>1, <2>1, <2>2
  <1> QED
    BY <1>1, <1>2, <1>3, TypesAreNamed

\* In any tree whose links lead up before they lead down, resolve_target() finds for any path
\* what a process whose root the tree is finds there before the mounts; it refuses what the
\* kernel would report, and nothing else.
THEOREM ResolveIsLookup ==
  ASSUME NEW t, IsTree(t), DotsLead(t), NEW target \in Seq(FileNames)
  PROVE  Resolve(t, target) = Lookup(t, {}, Reports, target)
  <1>1. target \in Seq(Plain)
    BY TypesAreNamed
  <1>2. Covers(t, t, {}, {})
    BY TreesAreTyped DEF Covers, Overlaid
  <1> DEFINE s == Lookup(t, {}, Reports, target)
  <1>3. s = Resolve(t, target) \/ Hidden({}, s)
    BY <1>1, <1>2, LookupAgrees
  <1> HIDE DEF s
  <1>4. ~Hidden({}, s)
    BY DEF Hidden
  <1> QED
    BY <1>3, <1>4 DEF s

-----------------------------------------------------------------------------
(* What sandrun resolves, when the tree grows, and below a target. *)

\* A path that sandrun goes on with, or is done with.
Firm(t, path) ==
    LET i == Stop(t, path)
    IN path # Outside /\ (i > Len(path) \/ Kind(t, SubSeq(path, 1, i)) = "link")

LEMMA LooseStays ==
  ASSUME NEW t, TreeTypes(t), NEW path \in Normal, ~Firm(t, path)
  PROVE  Turn(t, path) = path
  <1>1. CASE path = Outside
    BY <1>1, OutsideTurns
  <1>2. CASE path # Outside
    BY <1>2 DEF Firm, Turn
  <1> QED
    BY <1>1, <1>2

Outcome(t, path) ==
    IF path = Outside THEN Escapes
    ELSE IF Stop(t, path) > Len(path) THEN Found(path)
    ELSE IF Kind(t, SubSeq(path, 1, Stop(t, path))) = "link" THEN Exceeds ELSE Missing

LEMMA OutcomeIs ==
  ASSUME NEW t, NEW target
  PROVE  \E f : /\ f[0] = Normalize(target) /\ \A n \in 1..MaxLinks : f[n] = Turn(t, f[n - 1])
                /\ Resolve(t, target) = Outcome(t, f[MaxLinks])
  BY TurnsAre DEF Outcome

LEMMA FoundIsFirm ==
  ASSUME NEW t, NEW path, NEW r, r = Outcome(t, path), r.error = ""
  PROVE  Firm(t, path) /\ Stop(t, path) > Len(path) /\ r = Found(path) /\ r.at = path
  <1>1. r \notin {Escapes, Missing, Exceeds}
    BY Results
  <1>2. path # Outside /\ Stop(t, path) > Len(path) /\ r = Found(path)
    BY <1>1 DEF Outcome
  <1> QED
    BY <1>2, Results DEF Firm

\* Of what is there a larger tree knows the same.
LEMMA KeptKind ==
  ASSUME NEW t, NEW v, Keeps(t, v), TreeTypes(t), NEW p, Kind(t, p) # "absent"
  PROVE  Kind(v, p) = Kind(t, p) /\ (Kind(t, p) = "link" => v[p] = t[p])
  BY DEF Kind, Keeps

LEMMA KeptTurn ==
  ASSUME NEW t, NEW v, Keeps(t, v), TreeTypes(t), NEW path \in Normal, Firm(t, path)
  PROVE  Stop(v, path) = Stop(t, path) /\ Turn(v, path) = Turn(t, path)
  <1> DEFINE i == Stop(t, path)
  <1>1. path \in Seq(Names) /\ Len(path) \in Nat
    BY NormalIsNames
  <1>2. /\ i \in 1..Len(path) + 1
        /\ \A j \in 1..Len(path) : j < i => Kind(t, SubSeq(path, 1, j)) \notin {"link", "absent"}
    BY <1>1, StopIsFirst
  <1> HIDE DEF i
  <1>3. \A j \in 1..Len(path) : j < i =>
            /\ Kind(t, SubSeq(path, 1, j)) # "absent"
            /\ Kind(v, SubSeq(path, 1, j)) \notin {"absent", "link"}
    BY <1>2, KeptKind
  <1>4. CASE i > Len(path)
    <2>1. \A j \in 1..Len(path) : j < i
      BY <1>1, <1>2, <1>4
    <2>2. Stop(v, path) > Len(path)
      BY <1>1, <1>3, <2>1, StopIsBehind
    <2>3. Stop(v, path) = i
      BY <1>1, <1>2, <1>4, <2>2, StopIsFirst
    <2>4. ~(i <= Len(path))
      BY <1>1, <1>2, <1>4
    <2> QED
      BY <2>3, <2>4 DEF Turn, i
  <1>5. CASE ~(i > Len(path))
    <2> DEFINE p == SubSeq(path, 1, i)
    <2>1. i \in 1..Len(path)
      BY <1>1, <1>2, <1>5
    <2>2. Kind(t, p) = "link"
      BY <1>5 DEF Firm, i
    <2>3. Kind(v, p) = "link" /\ v[p] = t[p]
      BY <2>2, KeptKind
    <2>4. Stop(v, path) = i
      BY <1>1, <1>3, <2>1, <2>3, StopIs
    <2>5. \A rest : Redirect(v, p, rest) = Redirect(t, p, rest)
      BY <2>3 DEF Redirect
    <2> HIDE DEF p
    <2> QED
      BY <2>2, <2>3, <2>4, <2>5 DEF Turn, i, p
  <1> QED
    BY <1>4, <1>5

LEMMA FirmAlike ==
  ASSUME NEW t, NEW v, Keeps(t, v), TreeTypes(t), NEW f, NEW g, f[0] = g[0],
         \A n \in 0..MaxLinks : f[n] \in Normal,
         \A n \in 1..MaxLinks : f[n] = Turn(t, f[n - 1]),
         \A n \in 1..MaxLinks : g[n] = Turn(v, g[n - 1])
  PROVE  ~Firm(t, f[MaxLinks]) \/ g[MaxLinks] = f[MaxLinks]
  <1> DEFINE S == {n \in Nat : n <= MaxLinks => ~Firm(t, f[n]) \/ g[n] = f[n]}
  <1>1. 0 \in S
    OBVIOUS
  <1>2. ASSUME NEW n \in Nat, n \in S PROVE n + 1 \in S
    <2>1. SUFFICES ASSUME n + 1 <= MaxLinks PROVE ~Firm(t, f[n + 1]) \/ g[n + 1] = f[n + 1]
      OBVIOUS
    <2>2. n + 1 \in 1..MaxLinks /\ n + 1 - 1 = n /\ n \in 0..MaxLinks /\ n <= MaxLinks
      BY <2>1, LinksAssumption
    <2>3. f[n + 1] = Turn(t, f[n]) /\ g[n + 1] = Turn(v, g[n]) /\ f[n] \in Normal
      BY <2>2
    <2>4. CASE ~Firm(t, f[n])
      BY <2>3, <2>4, LooseStays
    <2>5. CASE Firm(t, f[n])
      <3>1. g[n] = f[n]
        BY <1>2, <2>2, <2>5
      <3> QED
        BY <2>3, <2>5, <3>1, KeptTurn
    <2> QED
      BY <2>4, <2>5
  <1> HIDE DEF S
  <1>3. MaxLinks \in S
    BY <1>1, <1>2, LinksAssumption, Induction
  <1> QED
    BY <1>3, LinksAssumption DEF S

\* What was resolved is still there when the tree has grown.
LEMMA ResolvedStays ==
  ASSUME NEW t, NEW v, Keeps(t, v), TreeTypes(t), NEW target \in Seq(Names),
         Resolve(t, target).error = ""
  PROVE  Resolve(v, target) = Resolve(t, target)
  <1>1. PICK f : /\ f[0] = Normalize(target) /\ \A n \in 1..MaxLinks : f[n] = Turn(t, f[n - 1])
                 /\ Resolve(t, target) = Outcome(t, f[MaxLinks])
    BY OutcomeIs
  <1>2. PICK g : /\ g[0] = Normalize(target) /\ \A n \in 1..MaxLinks : g[n] = Turn(v, g[n - 1])
                 /\ Resolve(v, target) = Outcome(v, g[MaxLinks])
    BY OutcomeIs
  <1>3. \A n \in 0..MaxLinks : f[n] \in Normal
    BY <1>1, TurnsAreNormal
  <1>4. ~Firm(t, f[MaxLinks]) \/ g[MaxLinks] = f[MaxLinks]
    <2>1. /\ Keeps(t, v) /\ TreeTypes(t) /\ f[0] = g[0]
          /\ \A n \in 1..MaxLinks : f[n] = Turn(t, f[n - 1])
          /\ \A n \in 1..MaxLinks : g[n] = Turn(v, g[n - 1])
      BY <1>1, <1>2
    <2> QED
      BY ONLY <1>3, <2>1, FirmAlike
  <1>5. MaxLinks \in 0..MaxLinks
    BY ONLY LinksAssumption
  <1> DEFINE path == f[MaxLinks]
  <1>6. path \in Normal
    BY <1>3, <1>5
  <1>7. Resolve(t, target) = Outcome(t, path)
    BY <1>1
  <1>8. ~Firm(t, path) \/ g[MaxLinks] = path
    BY <1>4
  <1> HIDE DEF path
  <1>10. Firm(t, path) /\ Stop(t, path) > Len(path) /\ Resolve(t, target) = Found(path)
    BY <1>7, FoundIsFirm
  <1>11. Stop(v, path) > Len(path)
    BY <1>6, <1>10, KeptTurn
  <1>12. path # Outside
    BY <1>10 DEF Firm
  <1> QED
    BY <1>2, <1>8, <1>10, <1>11, <1>12 DEF Outcome

-----------------------------------------------------------------------------
(* What is below a target. *)

\* Names after a path that stays inside change nothing of what it becomes.
LEMMA NormalizeJoin ==
  ASSUME NEW a \in Seq(Names), NEW y \in Seq(Plain), Normalize(a) # Outside
  PROVE  Normalize(a \o y) = Normalize(a) \o y
  <1> DEFINE b == Normalize(a)
  <1>1. b \in Seq(Plain)
    BY NormalizedIsNormal DEF Normal
  <1>2. y \in Seq(Names) /\ b \in Seq(Names)
    BY <1>1, PlainIsNames
  <1>3. PICK g : Folds(a, Len(a), g) /\ b = g[Len(a)]
    BY NormalizedByFolds
  <1> HIDE DEF b
  <1> DEFINE long == a \o y
             short == b \o y
  <1>4. PICK m \in Nat : Len(a) = m
    OBVIOUS
  <1>5. PICK l \in Nat : Len(b) = l
    BY <1>1
  <1>6. PICK k \in Nat : Len(y) = k
    OBVIOUS
  <1>7. /\ Len(long) = m + k /\ \A i \in 1..m : long[i] = a[i]
        /\ \A i \in 1..k : long[m + i] = y[i]
    <2>1. /\ Len(long) = Len(a) + Len(y) /\ \A i \in 1..Len(a) : long[i] = a[i]
          /\ \A i \in 1..Len(y) : long[Len(a) + i] = y[i]
      BY <1>2, ConcatIs
    <2> HIDE DEF long
    <2> QED
      BY <1>4, <1>6, <2>1
  <1>8. /\ short \in Seq(Plain) /\ Len(short) = l + k /\ \A i \in 1..l : short[i] = b[i]
        /\ \A i \in 1..k : short[l + i] = y[i]
    <2>1. /\ short \in Seq(Plain) /\ Len(short) = Len(b) + Len(y)
          /\ \A i \in 1..Len(b) : short[i] = b[i]
          /\ \A i \in 1..Len(y) : short[Len(b) + i] = y[i]
      BY <1>1, ConcatIs
    <2> HIDE DEF short
    <2>2. Len(short) = l + k /\ \A i \in 1..l : short[i] = b[i]
      BY <1>5, <1>6, <2>1
    <2>3. \A i \in 1..k : short[l + i] = y[i]
      BY <1>5, <1>6, <2>1
    <2> QED
      BY <2>1, <2>2, <2>3
  <1> HIDE DEF long, short
  <1>9. PICK last \in Nat : last = m + k
    OBVIOUS
  <1>10. PICK end \in Nat : end = l + k
    OBVIOUS
  <1>11. PICK f : Folds(long, last, f) /\ Normalize(long) = f[last]
    BY <1>7, <1>9, NormalizedByFolds
  <1>12. PICK h : Folds(short, end, h) /\ Normalize(short) = h[end]
    BY <1>8, <1>10, NormalizedByFolds
  <1>13. f[m] = b
    <2>1. Same(long, 0, a, 0, m)
      BY <1>7 DEF Same
    <2>2. Folds(long, m, f) /\ f[0] = g[0] /\ Folds(a, m, g)
      BY <1>3, <1>4, <1>9, <1>11 DEF Folds
    <2>3. Meet(long, m, f, a, m, g, 0, 0, m)
      BY <2>1, <2>2 DEF Meet
    <2> QED
      BY <1>3, <1>4, <2>3, SameFolds
  <1>14. h[l] = b
    <2>1. Same(short, 0, b, 0, Len(b))
      BY <1>5, <1>8 DEF Same
    <2> QED
      BY <1>1, <1>5, <1>10, <1>12, <2>1, PlainFolds
  <1>15. Same(long, m, short, l, k)
    BY <1>7, <1>8 DEF Same
  <1>16. Meet(long, last, f, short, end, h, m, l, k)
    BY <1>9, <1>10, <1>11, <1>12, <1>13, <1>14, <1>15 DEF Meet
  <1>17. f[last] = h[end]
    BY <1>16, SameFolds
  <1>18. Normalize(short) = short
    BY <1>8, PlainIsNormal
  <1> QED
    BY <1>11, <1>12, <1>17, <1>18 DEF long, short, b

\* What is behind a link stays behind what the link becomes.
LEMMA TurnJoin ==
  ASSUME NEW t, TreeTypes(t), NEW path \in Seq(Plain), NEW y \in Seq(Plain),
         Stop(t, path) <= Len(path), Kind(t, SubSeq(path, 1, Stop(t, path))) = "link",
         Turn(t, path) # Outside
  PROVE  Turn(t, path \o y) = Turn(t, path) \o y
  <1> DEFINE i == Stop(t, path)
             p == SubSeq(path, 1, i)
             rest == SubSeq(path, i + 1, Len(path))
             long == path \o y
  <1>1. CASE y = <<>>
    <2>1. Turn(t, path) \in Seq(Plain)
      BY PlainIsNames, TurnIsNormal DEF Normal
    <2> HIDE DEF i, p, rest
    <2>2. path \o y = path /\ Turn(t, path) \o y = Turn(t, path)
      BY <1>1, <2>1, ConcatEmptySeq
    <2> QED
      BY <2>2
  <1>2. CASE y # <<>>
    <2>1. i \in 1..Len(path) /\ \A j \in 1..Len(path) : j < i => Kind(t, SubSeq(path, 1, j)) \notin {"link", "absent"}
      BY PlainIsNames, StopIsFirst
    <2>2. Kind(t, p) = "link" /\ Turn(t, path) = Normalize(Redirect(t, p, rest))
      BY DEF Turn
    <2> HIDE DEF i
    <2>3. /\ long \in Seq(Plain) /\ Len(long) = Len(path) + Len(y) /\ Len(path) \in Nat /\ Len(y) \in Nat
          /\ \A j \in 1..Len(path) : long[j] = path[j]
          /\ \A j \in 1..Len(y) : long[Len(path) + j] = y[j]
      BY ConcatIs
    <2>4. \A j \in 1..Len(path) : SubSeq(long, 1, j) = SubSeq(path, 1, j)
      BY <1>2, JoinedIs
    <2> HIDE DEF long
    <2>5. i \in 1..Len(long)
      BY <2>1, <2>3
    <2>6. \A j \in 1..Len(long) : j < i => Kind(t, SubSeq(long, 1, j)) \notin {"link", "absent"}
      <3> SUFFICES ASSUME NEW j \in 1..Len(long), j < i
                   PROVE  Kind(t, SubSeq(long, 1, j)) \notin {"link", "absent"}
        OBVIOUS
      <3>1. j \in 1..Len(path)
        BY <2>1, <2>3
      <3> QED
        BY <2>1, <2>4, <3>1
    <2>7. SubSeq(long, 1, i) = p
      BY <2>1, <2>4
    <2>8. Stop(t, long) = i
      <3>1. Kind(t, SubSeq(long, 1, i)) \in {"absent", "link"}
        BY <2>2, <2>7
      <3>2. long \in Seq(Names)
        BY <2>3, PlainIsNames
      <3> HIDE DEF p
      <3> QED
        BY <2>5, <2>6, <3>1, <3>2, StopIs
    <2>9. SubSeq(long, i + 1, Len(long)) = rest \o y /\ rest \in Seq(Plain)
      <3>1. PICK m \in Nat : Len(path) = m
        BY <2>3
      <3>2. PICK k \in Nat : Len(y) = k
        BY <2>3
      <3>3. /\ rest \in Seq(Plain) /\ Len(rest) = m - i
            /\ \A j \in 1..m - i : rest[j] = path[i + j]
        BY <2>1, <3>1
      <3> HIDE DEF rest
      <3>4. /\ rest \o y \in Seq(Plain) /\ Len(rest \o y) = Len(rest) + Len(y)
            /\ \A j \in 1..Len(rest) : (rest \o y)[j] = rest[j]
            /\ \A j \in 1..Len(y) : (rest \o y)[Len(rest) + j] = y[j]
        <4>1. rest \in Seq(Plain)
          BY <3>3
        <4> QED
          BY <4>1, ConcatIs
      <3> DEFINE one == rest \o y
                 two == SubSeq(long, i + 1, Len(long))
      <3>5. /\ two \in Seq(Plain) /\ Len(two) = m + k - i
            /\ \A j \in 1..m + k - i : two[j] = long[i + j]
        BY <2>1, <2>3, <3>1, <3>2
      <3>6. /\ one \in Seq(Plain) /\ Len(one) = m - i + k
            /\ \A j \in 1..m - i : one[j] = rest[j]
            /\ \A j \in 1..k : one[m - i + j] = y[j]
        <4> HIDE DEF one
        <4> QED
          BY <3>2, <3>3, <3>4 DEF one
      <3> HIDE DEF one, two
      <3>7. Len(one) = Len(two)
        BY <2>1, <3>1, <3>5, <3>6
      <3>8. \A j \in 1..Len(one) : one[j] = two[j]
        <4> SUFFICES ASSUME NEW j \in 1..m - i + k PROVE one[j] = two[j]
          BY <3>6
        <4>1. two[j] = long[i + j]
          BY <2>1, <3>1, <3>5
        <4>2. CASE j <= m - i
          <5>1. j \in 1..m - i /\ i + j \in 1..m
            BY <2>1, <3>1, <4>2
          <5>2. one[j] = path[i + j]
            BY <3>3, <3>6, <5>1
          <5>3. long[i + j] = path[i + j]
            BY <2>3, <3>1, <5>1
          <5> QED
            BY <4>1, <5>2, <5>3
        <4>3. CASE j > m - i
          <5>1. PICK o \in 1..k : j = m - i + o
            <6>1. j - (m - i) \in 1..k /\ j = m - i + (j - (m - i))
              BY <2>1, <3>1, <4>3
            <6> QED
              BY <6>1
          <5>2. i + j = m + o
            BY <2>1, <3>1, <5>1
          <5>3. long[m + o] = y[o]
            BY <2>3, <3>1, <3>2
          <5>4. one[m - i + o] = y[o]
            BY <3>6
          <5> QED
            BY <4>1, <5>1, <5>2, <5>3, <5>4
        <4> QED
          BY <2>1, <3>1, <4>2, <4>3
      <3>9. one = two
        BY <3>5, <3>6, <3>7, <3>8, SeqEqual
      <3> QED
        BY <3>3, <3>9 DEF one, two
    <2>10. Turn(t, long) = Normalize(Redirect(t, p, rest \o y))
      <3> HIDE DEF p, rest
      <3>1. i <= Len(long) /\ Kind(t, SubSeq(long, 1, i)) = "link"
        <4>1. Kind(t, p) = "link"
          BY <2>2
        <4>2. Kind(t, SubSeq(long, 1, i)) = "link"
          BY <2>7, <4>1
        <4>3. Len(long) \in Nat
          BY <2>3
        <4> QED
          BY <2>5, <4>2, <4>3
      <3>2. Turn(t, long) = Normalize(Redirect(t, SubSeq(long, 1, i), SubSeq(long, i + 1, Len(long))))
        BY <2>8, <3>1 DEF Turn
      <3> QED
        BY <2>7, <2>9, <3>2
    <2>11. Redirect(t, p, rest) \in Seq(Names) /\ Redirect(t, p, rest \o y) = Redirect(t, p, rest) \o y
      <3>1. p \in Seq(Plain) /\ p # <<>>
        BY <2>1
      <3>2. p \in DOMAIN t
        BY <2>2, <3>1 DEF Kind
      <3>3. t[p].to \in Seq(Names) /\ Front(p) \in Seq(Plain)
        BY <3>1, <3>2, FrontIs DEF TreeTypes
      <3> HIDE DEF p, rest
      <3> DEFINE at == IF t[p].abs THEN <<>> ELSE Front(p)
                 to == t[p].to
      <3>4. at \in Seq(Names) /\ to \in Seq(Names) /\ rest \in Seq(Names) /\ y \in Seq(Names)
        BY <2>9, <3>3, PlainIsNames
      <3>5. /\ Redirect(t, p, rest) = (at \o to) \o rest
            /\ Redirect(t, p, rest \o y) = (at \o to) \o (rest \o y)
        BY DEF Redirect, FromParent
      <3> HIDE DEF at, to
      <3>6. at \o to \in Seq(Names)
        BY <3>4
      <3> DEFINE front == at \o to
      <3> HIDE DEF front
      <3>7. front \o (rest \o y) = (front \o rest) \o y /\ front \o rest \in Seq(Names)
        <4>1. front \in Seq(Names)
          BY <3>6 DEF front
        <4>2. front \o rest \in Seq(Names)
          BY <3>4, <4>1
        <4>3. rest \in Seq(Names) /\ y \in Seq(Names)
          BY <3>4
        <4>4. (front \o rest) \o y = front \o (rest \o y)
          BY ONLY <4>1, <4>3, ConcatAssociative, SMTT(30)
        <4> QED
          BY <4>2, <4>4
      <3> QED
        BY <3>5, <3>7 DEF front
    <2> HIDE DEF p, rest
    <2> QED
      BY <2>2, <2>10, <2>11, NormalizeJoin DEF long
  <1> QED
    BY <1>1, <1>2

\* The turns of a lookup.
Turned(t, f) == \A n \in 1..MaxLinks : f[n] = Turn(t, f[n - 1])

\* A path that a turn leaves alone is where the lookup ends.
LEMMA TurnsEnd ==
  ASSUME NEW t, NEW f, Turned(t, f), NEW n \in 0..MaxLinks, Turn(t, f[n]) = f[n]
  PROVE  f[MaxLinks] = f[n]
  <1> DEFINE S == {k \in Nat : n <= k /\ k <= MaxLinks => f[k] = f[n]}
  <1>1. 0 \in S
    <2>1. n <= 0 => n = 0
      OBVIOUS
    <2> QED
      BY <2>1
  <1>2. ASSUME NEW k \in Nat, k \in S PROVE k + 1 \in S
    <2>1. SUFFICES ASSUME n <= k + 1, k + 1 <= MaxLinks PROVE f[k + 1] = f[n]
      OBVIOUS
    <2>2. CASE n = k + 1
      BY <2>2
    <2>3. CASE n # k + 1
      <3>1. n <= k /\ k <= MaxLinks /\ k + 1 \in 1..MaxLinks /\ k + 1 - 1 = k
        BY <2>1, <2>3, LinksAssumption
      <3>2. f[k] = f[n]
        BY <1>2, <3>1
      <3>3. f[k + 1] = Turn(t, f[k])
        BY <3>1 DEF Turned
      <3> QED
        BY <3>2, <3>3
    <2> QED
      BY <2>2, <2>3
  <1> HIDE DEF S
  <1>3. MaxLinks \in S
    BY <1>1, <1>2, LinksAssumption, Induction
  <1> QED
    BY <1>3, LinksAssumption DEF S

\* A lookup that ends firmly is firm all the way.
LEMMA TurnsAreFirm ==
  ASSUME NEW t, NEW f, Turned(t, f), TreeTypes(t), \A n \in 0..MaxLinks : f[n] \in Normal,
         Firm(t, f[MaxLinks])
  PROVE  \A n \in 0..MaxLinks : Firm(t, f[n])
  <1> SUFFICES ASSUME NEW n \in 0..MaxLinks, ~Firm(t, f[n]) PROVE FALSE
    OBVIOUS
  <1>1. Turn(t, f[n]) = f[n]
    BY LooseStays
  <1>2. f[MaxLinks] = f[n]
    BY <1>1, TurnsEnd
  <1> QED
    BY <1>2

NoLinkUnder(t, a) == \A p \in DOMAIN t : t[p].kind = "link" => ~IsPrefix(a, p)

LEMMA TurnBelow ==
  ASSUME NEW t, TreeTypes(t), NEW a \in Seq(Plain), NEW y \in Seq(Plain), NoLinkUnder(t, a),
         NEW path \in Normal, Firm(t, path), Firm(t, Turn(t, path)),
         Turn(t, path) = path => path = a,
         Kind(t, a) \notin {"absent", "link"}
  PROVE  Turn(t, path \o y) = Turn(t, path) \o y
  <1>1. path \in Seq(Plain)
    BY DEF Normal, Firm
  <1>2. CASE Turn(t, path) = path
    <2>1. Turn(t, a \o y) = a \o y
      BY NoLinkBelow DEF NoLinkUnder
    <2> QED
      BY <1>2, <2>1
  <1>3. CASE Turn(t, path) # path
    <2>1. Stop(t, path) <= Len(path) /\ Kind(t, SubSeq(path, 1, Stop(t, path))) = "link"
      BY <1>3 DEF Turn
    <2>2. Turn(t, path) # Outside
      BY DEF Firm
    <2> QED
      BY <1>1, <2>1, <2>2, TurnJoin
  <1> QED
    BY <1>2, <1>3

Leads(t, x, f, a) ==
    /\ f[0] = x /\ Turned(t, f) /\ f[MaxLinks] = a
    /\ \A n \in 0..MaxLinks : f[n] \in Normal /\ Firm(t, f[n])

Beneath(t, x, a, y, f, g) ==
    /\ TreeTypes(t) /\ a \in Seq(Plain) /\ y \in Seq(Plain) /\ NoLinkUnder(t, a)
    /\ Kind(t, a) \notin {"absent", "link"}
    /\ Leads(t, x, f, a) /\ Turned(t, g) /\ g[0] = x \o y

\* What is below a target, where there are no links, is below what the target resolves to.
LEMMA TurnsBelow ==
  ASSUME NEW t, NEW x, NEW a, NEW y, NEW f, NEW g, Beneath(t, x, a, y, f, g)
  PROVE  g[MaxLinks] = a \o y
  <1>6. /\ TreeTypes(t) /\ a \in Seq(Plain) /\ y \in Seq(Plain) /\ NoLinkUnder(t, a)
        /\ Kind(t, a) \notin {"absent", "link"}
        /\ Leads(t, x, f, a) /\ Turned(t, g) /\ g[0] = x \o y
    BY DEF Beneath
  <1> DEFINE S == {n \in Nat : n <= MaxLinks => g[n] = f[n] \o y}
  <1>5. /\ f[0] = x /\ Turned(t, f) /\ f[MaxLinks] = a
        /\ \A n \in 0..MaxLinks : f[n] \in Normal /\ Firm(t, f[n])
    BY <1>6 DEF Leads
  <1>1. 0 \in S
    BY <1>5, <1>6
  <1>2. ASSUME NEW n \in Nat, n \in S PROVE n + 1 \in S
    <2>1. SUFFICES ASSUME n + 1 <= MaxLinks PROVE g[n + 1] = f[n + 1] \o y
      OBVIOUS
    <2>2. /\ n + 1 \in 1..MaxLinks /\ n + 1 - 1 = n /\ n \in 0..MaxLinks /\ n + 1 \in 0..MaxLinks
          /\ n <= MaxLinks
      BY <2>1, LinksAssumption
    <2>3. f[n + 1] = Turn(t, f[n]) /\ g[n + 1] = Turn(t, g[n])
      BY <1>5, <1>6, <2>2 DEF Turned
    <2>4. g[n] = f[n] \o y /\ f[n] \in Normal /\ Firm(t, f[n]) /\ Firm(t, Turn(t, f[n]))
      BY <1>2, <1>5, <2>2, <2>3
    <2>5. Turn(t, f[n]) = f[n] => f[n] = a
      BY <1>5, <2>2, TurnsEnd
    <2> DEFINE path == f[n]
    <2>6. path \in Normal /\ Firm(t, path) /\ Firm(t, Turn(t, path)) /\ (Turn(t, path) = path => path = a)
      BY <2>4, <2>5
    <2> HIDE DEF path
    <2>7. Turn(t, path \o y) = Turn(t, path) \o y
      BY <1>6, <2>6, TurnBelow
    <2> QED
      BY <2>3, <2>4, <2>7 DEF path
  <1> HIDE DEF S
  <1>3. MaxLinks \in S
    BY <1>1, <1>2, LinksAssumption, Induction
  <1>4. MaxLinks <= MaxLinks => g[MaxLinks] = f[MaxLinks] \o y
    BY <1>3 DEF S
  <1> QED
    BY <1>4, <1>5, LinksAssumption

LEMMA ResolvedTurns ==
  ASSUME NEW t, TreeTypes(t), NEW x \in Seq(Plain), Resolve(t, x).error = ""
  PROVE  \E f : Leads(t, x, f, Resolve(t, x).at)
  <1>1. PICK f : /\ f[0] = Normalize(x) /\ \A n \in 1..MaxLinks : f[n] = Turn(t, f[n - 1])
                 /\ Resolve(t, x) = Outcome(t, f[MaxLinks])
    BY OutcomeIs
  <1>2. x \in Seq(Names) /\ Normalize(x) = x
    BY PlainIsNames, PlainIsNormal
  <1>3. \A n \in 0..MaxLinks : f[n] \in Normal
    BY <1>1, <1>2, TurnsAreNormal
  <1> DEFINE path == f[MaxLinks]
  <1>4. Resolve(t, x) = Outcome(t, path)
    BY <1>1
  <1> HIDE DEF path
  <1>5. Firm(t, path) /\ Resolve(t, x).at = path
    BY <1>4, FoundIsFirm
  <1>6. Turned(t, f) /\ TreeTypes(t) /\ Firm(t, f[MaxLinks])
    BY <1>1, <1>5 DEF Turned, path
  <1>7. \A n \in 0..MaxLinks : Firm(t, f[n])
    BY ONLY <1>3, <1>6, TurnsAreFirm
  <1>8. f[0] = x /\ f[MaxLinks] = Resolve(t, x).at
    BY <1>1, <1>2, <1>5 DEF path
  <1> QED
    BY <1>3, <1>6, <1>7, <1>8 DEF Leads

Resolves(t, path) == Resolve(t, path).error = ""

\* What is resolved is there itself.
LEMMA ResolvedKind ==
  ASSUME NEW t, TreeTypes(t), NEW x \in Seq(Names), Resolves(t, x)
  PROVE  LET a == Resolve(t, x).at
         IN a \in Seq(Plain) /\ Kind(t, a) \notin {"absent", "link"}
  <1> DEFINE a == Resolve(t, x).at
  <1>1. a \in Seq(Plain) /\ \A i \in DOMAIN a : Kind(t, SubSeq(a, 1, i)) \notin {"link", "absent"}
    BY ResolvedIsThere DEF Resolves
  <1> HIDE DEF a
  <1>2. Kind(t, a) \notin {"absent", "link"}
    <2>1. CASE a = <<>>
      BY <2>1 DEF Kind
    <2>2. CASE a # <<>>
      <3>1. Len(a) \in DOMAIN a /\ SubSeq(a, 1, Len(a)) = a
        BY <1>1, <2>2
      <3> QED
        BY <1>1, <3>1
    <2> QED
      BY <2>1, <2>2
  <1> QED
    BY <1>1, <1>2 DEF a

\* Where no link is below a path that resolves, what is below it is where its names say.
LEMMA BelowResolves ==
  ASSUME NEW t, TreeTypes(t), NEW x \in Seq(Plain), NEW y \in Seq(Plain),
         Resolves(t, x), Resolves(t, x \o y), NoLinkUnder(t, Resolve(t, x).at)
  PROVE  Resolve(t, x \o y).at = Resolve(t, x).at \o y
  <1> DEFINE a == Resolve(t, x).at
             b == Resolve(t, x \o y).at
             long == x \o y
  <1>1. long \in Seq(Plain)
    OBVIOUS
  <1>2. a \in Seq(Plain) /\ Kind(t, a) \notin {"absent", "link"}
    BY PlainIsNames, ResolvedKind
  <1>3. PICK f : Leads(t, x, f, a)
    BY ResolvedTurns DEF Resolves
  <1> HIDE DEF long
  <1>4. PICK g : Leads(t, long, g, b)
    BY <1>1, ResolvedTurns DEF Resolves, long
  <1>5. Turned(t, g) /\ g[MaxLinks] = b /\ g[0] = x \o y
    BY <1>4 DEF Leads, long
  <1> HIDE DEF b
  <1>6. NoLinkUnder(t, a)
    OBVIOUS
  <1> HIDE DEF a
  <1>7. g[MaxLinks] = a \o y
    <2>1. Beneath(t, x, a, y, f, g)
      BY <1>2, <1>3, <1>5, <1>6 DEF Beneath
    <2> QED
      BY <2>1, TurnsBelow
  <1> QED
    BY <1>5, <1>7 DEF a, b

-----------------------------------------------------------------------------
(* Creating the targets. *)

LEMMA ReachedIs ==
  ASSUME NEW e, NEW t, NEW p, NEW q, e = Reached(t, p, q)
  PROVE  e.tree = t /\ e.at = q /\ e.logical = p
  BY DEF Reached

LEMMA StuckIs ==
  ASSUME NEW e, NEW t, e = Stuck(t)
  PROVE  e.tree = t /\ e.error # ""
  BY DEF Stuck

LEMMA DoneIs ==
  ASSUME NEW e, NEW t, e = Done(t)
  PROVE  e.tree = t
  BY DEF Done

Grown(t, v) == Keeps(t, v) /\ TreeTypes(v)

LEMMA NoneGrown ==
  ASSUME NEW t, TreeTypes(t)
  PROVE  Grown(t, t)
  BY DEF Grown, Keeps

\* Where the creation of a directory has come to.
Standing(s) == s.error = "" =>
    s.logical \in Seq(Plain) /\ s.at \in Seq(Plain) /\ Kind(s.tree, s.at) = "dir"

LEMMA AppendedIs ==
  ASSUME NEW S, NEW a \in Seq(S), NEW name \in S
  PROVE  /\ Append(a, name) \in Seq(S) /\ Append(a, name) # <<>> /\ Len(Append(a, name)) = Len(a) + 1
         /\ Front(Append(a, name)) = a /\ Last(Append(a, name)) = name
  <1> DEFINE b == Append(a, name)
  <1>1. b \in Seq(S) /\ b # <<>> /\ Len(b) = Len(a) + 1 /\ b[Len(b)] = name
    OBVIOUS
  <1>2. \A i \in 1..Len(a) : b[i] = a[i]
    OBVIOUS
  <1> HIDE DEF b
  <1>3. /\ Front(b) \in Seq(S) /\ Len(Front(b)) = Len(b) - 1
        /\ \A i \in 1..Len(b) - 1 : Front(b)[i] = b[i]
    BY <1>1, FrontIs
  <1> DEFINE c == Front(b)
  <1> HIDE DEF c
  <1>4. c \in Seq(S) /\ Len(c) = Len(a) /\ \A i \in 1..Len(a) : c[i] = a[i]
    BY <1>1, <1>2, <1>3 DEF c
  <1>5. c = a
    BY <1>4, SeqEqual
  <1> QED
    BY <1>1, <1>5 DEF b, c, Last

LEMMA DirectoryMade ==
  ASSUME NEW t, TreeTypes(t), NEW a \in Seq(Plain), Kind(t, a) = "dir", NEW name \in Plain,
         Kind(t, Append(a, name)) = "absent", NEW node \in {Dir, File}
  PROVE  Grown(t, Add(t, Append(a, name), node))
  <1> DEFINE p == Append(a, name)
  <1>1. p \in Seq(Plain) /\ p # <<>> /\ Front(p) = a
    BY AppendedIs
  <1> HIDE DEF p
  <1>2. Kind(t, p) = "absent" /\ Kind(t, Front(p)) = "dir"
    BY <1>1 DEF p
  <1>3. Grown(t, Add(t, p, node))
    BY <1>1, <1>2, AddKeeps DEF Grown
  <1> QED
    BY <1>3 DEF p

\* Each name adds a directory, or follows what is there.
LEMMA DescendGrows ==
  ASSUME NEW s, NEW name \in Plain, TreeTypes(s.tree), Standing(s)
  PROVE  Grown(s.tree, Descend(s, name).tree) /\ Standing(Descend(s, name))
  <1> DEFINE logical == Append(s.logical, name)
             next == Append(s.at, name)
             kind == Kind(s.tree, next)
             led == IF kind = "link" THEN Resolve(s.tree, logical) ELSE Found(next)
             d == Descend(s, name)
  <1>1. CASE s.error # ""
    <2>1. d = s
      BY <1>1 DEF Descend
    <2> QED
      BY <2>1, NoneGrown
  <1>2. CASE s.error = "" /\ kind = "absent"
    <2> DEFINE made == Add(s.tree, next, Dir)
    <2>1. d = Reached(made, logical, next)
      BY <1>2 DEF Descend
    <2>2. d.tree = made /\ d.at = next /\ d.logical = logical
      <3> HIDE DEF made, logical, next, d
      <3> QED
        BY <2>1, ReachedIs
    <2>3. s.at \in Seq(Plain) /\ s.logical \in Seq(Plain) /\ Kind(s.tree, s.at) = "dir"
      BY <1>2 DEF Standing
    <2>4. Grown(s.tree, Add(s.tree, next, Dir))
      BY <1>2, <2>3, DirectoryMade
    <2>5. next \in Seq(Plain) /\ next # <<>> /\ logical \in Seq(Plain)
      BY <2>3, AppendedIs
    <2> HIDE DEF next, logical, d
    <2>6. Dir.kind = "dir"
      BY DEF Dir, Node
    <2>7. Kind(Add(s.tree, next, Dir), next) = "dir"
      BY <2>5, <2>6, KindsOfAdded
    <2> QED
      BY <2>2, <2>4, <2>5, <2>7 DEF Standing, d
  <1>3. CASE s.error = "" /\ kind # "absent"
    <2>1. s.at \in Seq(Plain) /\ s.logical \in Seq(Plain)
      BY <1>3 DEF Standing
    <2>2. next \in Seq(Plain) /\ logical \in Seq(Plain)
      BY <2>1, AppendedIs
    <2>3. led.at \in Seq(Plain)
      <3>1. Resolve(s.tree, logical).at \in Seq(Plain)
        BY <2>2, PlainIsNames, ResolvedIsThere
      <3>2. Found(next).at = next
        BY Results
      <3> QED
        BY <2>2, <3>1, <3>2
    <2>4. \/ d = Reached(s.tree, logical, led.at) /\ Kind(s.tree, led.at) = "dir"
          \/ d = Stuck(s.tree)
      BY <1>3 DEF Descend
    <2> HIDE DEF logical, led, d
    <2>5. CASE d = Reached(s.tree, logical, led.at) /\ Kind(s.tree, led.at) = "dir"
      <3>1. d.tree = s.tree /\ d.at = led.at /\ d.logical = logical
        BY <2>5, ReachedIs
      <3> QED
        BY <2>2, <2>3, <2>5, <3>1, NoneGrown DEF Standing, d
    <2>6. CASE d = Stuck(s.tree)
      <3>1. d.tree = s.tree /\ d.error # ""
        BY <2>6, StuckIs
      <3> QED
        BY <3>1, NoneGrown DEF Standing, d
    <2> QED
      BY <2>4, <2>5, <2>6
  <1> QED
    BY <1>1, <1>2, <1>3

Descents(t, path, n, f) == f = [i \in 0..n |-> IF i = 0 THEN Reached(t, <<>>, <<>>) ELSE Descend(f[i - 1], path[i])]

LEMMA DescentsExist ==
  ASSUME NEW t, NEW path, NEW n \in Nat
  PROVE  \E f : Descents(t, path, n, f)
  <1> DEFINE S == {k \in Nat : \E f : Descents(t, path, k, f)}
  <1>1. 0 \in S
    <2>1. Descents(t, path, 0, [i \in 0..0 |-> Reached(t, <<>>, <<>>)])
      BY DEF Descents
    <2> QED
      BY <2>1
  <1>2. ASSUME NEW k \in Nat, k \in S PROVE k + 1 \in S
    <2>1. PICK f : Descents(t, path, k, f)
      BY <1>2
    <2> DEFINE next == Descend(f[k], path[k + 1])
    <2> HIDE DEF next
    <2> DEFINE g == [i \in 0..k + 1 |-> IF i = k + 1 THEN next ELSE f[i]]
    <2>2. \A i \in 0..k : f[i] = IF i = 0 THEN Reached(t, <<>>, <<>>) ELSE Descend(f[i - 1], path[i])
      BY <2>1 DEF Descents
    <2>3. g[k + 1] = next /\ g[k + 1 - 1] = f[k] /\ \A i \in 0..k : g[i] = f[i] /\ (i # 0 => g[i - 1] = f[i - 1])
      OBVIOUS
    <2>4. g = [i \in 0..k + 1 |-> g[i]]
      OBVIOUS
    <2> HIDE DEF g
    <2>5. \A i \in 0..k + 1 : g[i] = IF i = 0 THEN Reached(t, <<>>, <<>>) ELSE Descend(g[i - 1], path[i])
      BY <2>2, <2>3 DEF next
    <2>6. Descents(t, path, k + 1, g)
      BY <2>4, <2>5 DEF Descents
    <2>7. \E h : Descents(t, path, k + 1, h)
      BY <2>6, Zenon
    <2> QED
      BY <2>7
  <1> HIDE DEF S
  <1>3. n \in S
    BY <1>1, <1>2, Induction
  <1> QED
    BY <1>3 DEF S

LEMMA DescentsAre ==
  ASSUME NEW t, NEW path, Len(path) \in Nat
  PROVE  \E f : /\ f[0] = Reached(t, <<>>, <<>>) /\ EnsureDirectory(t, path) = f[Len(path)]
                /\ \A i \in 1..Len(path) : f[i] = Descend(f[i - 1], path[i])
  <1> DEFINE f == CHOOSE g : Descents(t, path, Len(path), g)
  <1>1. EnsureDirectory(t, path) = f[Len(path)]
    BY DEF EnsureDirectory, Descents
  <1>2. Descents(t, path, Len(path), f)
    BY DescentsExist, Zenon
  <1> HIDE DEF f
  <1>3. f[0] = Reached(t, <<>>, <<>>) /\ \A i \in 1..Len(path) : f[i] = Descend(f[i - 1], path[i])
    BY <1>2 DEF Descents
  <1> QED
    BY <1>1, <1>3, Zenon

LEMMA GrownTwice ==
  ASSUME NEW t, NEW v, NEW w, Grown(t, v), Grown(v, w)
  PROVE  Grown(t, w)
  BY KeepsAll DEF Grown

LEMMA DirectoriesGrow ==
  ASSUME NEW t, TreeTypes(t), NEW path \in Seq(Plain)
  PROVE  Grown(t, EnsureDirectory(t, path).tree) /\ Standing(EnsureDirectory(t, path))
  <1>1. PICK f : /\ f[0] = Reached(t, <<>>, <<>>) /\ EnsureDirectory(t, path) = f[Len(path)]
                 /\ \A i \in 1..Len(path) : f[i] = Descend(f[i - 1], path[i])
    BY DescentsAre
  <1> DEFINE X == {x \in {f[i] : i \in 0..Len(path)} : Grown(t, x.tree) /\ Standing(x)}
  <1>2. f[0].tree = t /\ f[0].at = <<>> /\ f[0].logical = <<>>
    BY <1>1, ReachedIs
  <1>3. f[0] \in X
    <2>1. <<>> \in Seq(Plain) /\ Kind(t, <<>>) = "dir"
      BY DEF Kind
    <2>2. Standing(f[0])
      BY <1>2, <2>1 DEF Standing
    <2>3. Grown(t, f[0].tree)
      BY <1>2, NoneGrown
    <2>4. 0 \in 0..Len(path)
      OBVIOUS
    <2> QED
      BY <2>2, <2>3, <2>4
  <1>4. ASSUME NEW i \in 1..Len(path), f[i - 1] \in X PROVE f[i] \in X
    <2>1. Grown(t, f[i - 1].tree) /\ Standing(f[i - 1]) /\ path[i] \in Plain
      BY <1>4
    <2>2. Grown(f[i - 1].tree, f[i].tree) /\ Standing(f[i])
      BY <1>1, <2>1, DescendGrows DEF Grown
    <2>3. Grown(t, f[i].tree)
      BY <2>1, <2>2, GrownTwice
    <2> QED
      BY <2>2, <2>3
  <1> HIDE DEF X
  <1>6. Len(path) \in Nat
    OBVIOUS
  <1>5. \A i \in 0..Len(path) : f[i] \in X
    BY <1>6, <1>3, <1>4, UpTo
  <1> QED
    BY <1>1, <1>5 DEF X

LEMMA LastIs ==
  ASSUME NEW S, NEW a \in Seq(S), a # <<>>
  PROVE  Last(a) \in S
  BY DEF Last

LEMMA PlaceGrows ==
  ASSUME NEW parent, TreeTypes(parent.tree), Standing(parent), NEW name \in Plain, NEW kind
  PROVE  Grown(parent.tree, Place(parent, name, kind).tree)
  <1> DEFINE p == Append(parent.at, name)
             e == Place(parent, name, kind)
  <1>1. \/ e = Stuck(parent.tree) \/ e = Done(parent.tree)
        \/ /\ parent.error = "" /\ Kind(parent.tree, p) = "absent"
           /\ \E node \in {Dir, File} : e = Done(Add(parent.tree, p, node))
    BY DEF Place
  <1> HIDE DEF e
  <1>2. CASE e = Stuck(parent.tree) \/ e = Done(parent.tree)
    <2>1. e.tree = parent.tree
      BY <1>2, StuckIs, DoneIs
    <2> QED
      BY <2>1, NoneGrown DEF e
  <1>3. CASE /\ parent.error = "" /\ Kind(parent.tree, p) = "absent"
             /\ \E node \in {Dir, File} : e = Done(Add(parent.tree, p, node))
    <2>1. PICK node \in {Dir, File} : e = Done(Add(parent.tree, p, node))
      BY <1>3
    <2>2. parent.at \in Seq(Plain) /\ Kind(parent.tree, parent.at) = "dir"
      BY <1>3 DEF Standing
    <2>3. Grown(parent.tree, Add(parent.tree, p, node))
      BY <1>3, <2>2, DirectoryMade
    <2>4. e.tree = Add(parent.tree, p, node)
      BY <2>1, StuckIs, DoneIs
    <2> QED
      BY <2>3, <2>4 DEF e
  <1> QED
    BY <1>1, <1>2, <1>3

LEMMA TargetGrows ==
  ASSUME NEW src, NEW s, TreeTypes(s.tree), NEW m, m.target \in Seq(Plain), m.target # <<>>
  PROVE  Grown(s.tree, EnsureTarget(src, s, m).tree)
  <1> DEFINE parent == EnsureDirectory(s.tree, Front(m.target))
             name == Last(m.target)
             e == EnsureTarget(src, s, m)
             kind == SourceKind(src, m)
  <1>1. e = s \/ e = Stuck(s.tree) \/ e = Place(parent, name, kind)
    BY DEF EnsureTarget
  <1>2. Front(m.target) \in Seq(Plain) /\ name \in Plain
    BY FrontIs, LastIs
  <1>3. Grown(s.tree, parent.tree) /\ Standing(parent)
    BY <1>2, DirectoriesGrow
  <1> HIDE DEF parent, name, kind, e
  <1>4. CASE e = s \/ e = Stuck(s.tree)
    <2>1. e.tree = s.tree
      BY <1>4, StuckIs, DoneIs
    <2> QED
      BY <2>1, NoneGrown DEF e
  <1>5. CASE e = Place(parent, name, kind)
    <2>1. Grown(parent.tree, e.tree)
      BY <1>2, <1>3, <1>5, PlaceGrows DEF Grown
    <2> QED
      BY <1>3, <2>1, GrownTwice DEF e
  <1> QED
    BY <1>1, <1>4, <1>5

Ensures(src, t, list, n, f) == f = [i \in 0..n |-> IF i = 0 THEN Done(t) ELSE EnsureTarget(src, f[i - 1], list[i])]

LEMMA EnsuresExist ==
  ASSUME NEW src, NEW t, NEW list, NEW n \in Nat
  PROVE  \E f : Ensures(src, t, list, n, f)
  <1> DEFINE S == {k \in Nat : \E f : Ensures(src, t, list, k, f)}
  <1>1. 0 \in S
    <2>1. Ensures(src, t, list, 0, [i \in 0..0 |-> Done(t)])
      BY DEF Ensures
    <2> QED
      BY <2>1
  <1>2. ASSUME NEW k \in Nat, k \in S PROVE k + 1 \in S
    <2>1. PICK f : Ensures(src, t, list, k, f)
      BY <1>2
    <2> DEFINE next == EnsureTarget(src, f[k], list[k + 1])
    <2> HIDE DEF next
    <2> DEFINE g == [i \in 0..k + 1 |-> IF i = k + 1 THEN next ELSE f[i]]
    <2>2. \A i \in 0..k : f[i] = IF i = 0 THEN Done(t) ELSE EnsureTarget(src, f[i - 1], list[i])
      BY <2>1 DEF Ensures
    <2>3. g[k + 1] = next /\ g[k + 1 - 1] = f[k] /\ \A i \in 0..k : g[i] = f[i] /\ (i # 0 => g[i - 1] = f[i - 1])
      OBVIOUS
    <2>4. g = [i \in 0..k + 1 |-> g[i]]
      OBVIOUS
    <2> HIDE DEF g
    <2>5. \A i \in 0..k + 1 : g[i] = IF i = 0 THEN Done(t) ELSE EnsureTarget(src, g[i - 1], list[i])
      BY <2>2, <2>3 DEF next
    <2>6. Ensures(src, t, list, k + 1, g)
      BY <2>4, <2>5 DEF Ensures
    <2>7. \E h : Ensures(src, t, list, k + 1, h)
      BY <2>6, Zenon
    <2> QED
      BY <2>7
  <1> HIDE DEF S
  <1>3. n \in S
    BY <1>1, <1>2, Induction
  <1> QED
    BY <1>3 DEF S

LEMMA EnsuresAre ==
  ASSUME NEW src, NEW t, NEW list, Len(list) \in Nat
  PROVE  \E f : /\ f[0] = Done(t) /\ Ensure(src, t, list) = f[Len(list)]
                /\ \A i \in 1..Len(list) : f[i] = EnsureTarget(src, f[i - 1], list[i])
  <1> DEFINE f == CHOOSE g : Ensures(src, t, list, Len(list), g)
  <1>1. Ensure(src, t, list) = f[Len(list)]
    BY DEF Ensure, Ensures
  <1>2. Ensures(src, t, list, Len(list), f)
    BY EnsuresExist, Zenon
  <1> HIDE DEF f
  <1>3. f[0] = Done(t) /\ \A i \in 1..Len(list) : f[i] = EnsureTarget(src, f[i - 1], list[i])
    BY <1>2 DEF Ensures
  <1> QED
    BY <1>1, <1>3, Zenon


Targeting(list) == \A i \in 1..Len(list) : list[i].target \in Seq(Plain) /\ list[i].target # <<>>

\* The targets of a list are created one after the other.
LEMMA TargetsGrow ==
  ASSUME NEW src, NEW t, TreeTypes(t), NEW S, NEW list \in Seq(S), Targeting(list)
  PROVE  \A n \in 0..Len(list) :
            /\ Grown(t, Ensure(src, t, SubSeq(list, 1, n)).tree)
            /\ Grown(Ensure(src, t, SubSeq(list, 1, n)).tree, Ensure(src, t, list).tree)
  <1>1. PICK f : /\ f[0] = Done(t) /\ Ensure(src, t, list) = f[Len(list)]
                 /\ \A i \in 1..Len(list) : f[i] = EnsureTarget(src, f[i - 1], list[i])
    BY EnsuresAre
  <1>2. Len(list) \in Nat
    OBVIOUS
  <1> DEFINE X == {x \in {f[i] : i \in 0..Len(list)} : Grown(t, x.tree)}
  <1>3. f[0].tree = t
    BY <1>1, StuckIs, DoneIs
  <1>4. f[0] \in X
    BY <1>2, <1>3, NoneGrown
  <1>5. ASSUME NEW i \in 1..Len(list), TreeTypes(f[i - 1].tree)
        PROVE  Grown(f[i - 1].tree, f[i].tree)
    <2>1. list[i].target \in Seq(Plain) /\ list[i].target # <<>>
      BY DEF Targeting
    <2>2. f[i] = EnsureTarget(src, f[i - 1], list[i])
      BY <1>1
    <2> QED
      BY <1>5, <2>1, <2>2, TargetGrows
  <1>6. ASSUME NEW i \in 1..Len(list), f[i - 1] \in X PROVE f[i] \in X
    <2>1. Grown(t, f[i - 1].tree)
      BY <1>6
    <2>2. Grown(f[i - 1].tree, f[i].tree)
      BY <1>5, <2>1 DEF Grown
    <2>3. Grown(t, f[i].tree)
      BY <2>1, <2>2, GrownTwice
    <2> QED
      BY <2>3
  <1>7. \A i \in 0..Len(list) : Grown(t, f[i].tree)
    <2> HIDE DEF X
    <2>1. \A i \in 0..Len(list) : f[i] \in X
      BY <1>2, <1>4, <1>6, UpTo
    <2> QED
      BY <2>1 DEF X
  <1>8. \A n \in 0..Len(list) : Grown(f[n].tree, f[Len(list)].tree)
    <2> SUFFICES ASSUME NEW n \in 0..Len(list) PROVE Grown(f[n].tree, f[Len(list)].tree)
      OBVIOUS
    <2> DEFINE S1 == {k \in Nat : n <= k /\ k <= Len(list) => Grown(f[n].tree, f[k].tree)}
    <2>1. 0 \in S1
      <3>1. Grown(f[n].tree, f[n].tree)
        BY <1>7, NoneGrown DEF Grown
      <3>2. n <= 0 => n = 0
        OBVIOUS
      <3> QED
        BY <3>1, <3>2
    <2>2. ASSUME NEW k \in Nat, k \in S1 PROVE k + 1 \in S1
      <3>1. SUFFICES ASSUME n <= k + 1, k + 1 <= Len(list) PROVE Grown(f[n].tree, f[k + 1].tree)
        OBVIOUS
      <3>2. CASE n = k + 1
        BY <1>7, <3>2, NoneGrown DEF Grown
      <3>3. CASE n # k + 1
        <4>1. n <= k /\ k <= Len(list) /\ k + 1 \in 1..Len(list) /\ k + 1 - 1 = k /\ k \in 0..Len(list)
          BY <1>2, <3>1, <3>3
        <4>2. Grown(f[n].tree, f[k].tree)
          BY <2>2, <4>1
        <4>3. Grown(f[k].tree, f[k + 1].tree)
          <5>1. TreeTypes(f[k + 1 - 1].tree)
            BY <1>7, <4>1 DEF Grown
          <5> QED
            BY <1>5, <4>1, <5>1
        <4> QED
          BY <4>2, <4>3, GrownTwice
      <3> QED
        BY <3>2, <3>3
    <2> HIDE DEF S1
    <2>3. Len(list) \in S1
      BY <1>2, <2>1, <2>2, Induction
    <2> QED
      BY <1>2, <2>3 DEF S1
  <1>9. \A n \in 0..Len(list) : Ensure(src, t, SubSeq(list, 1, n)) = f[n]
    <2> SUFFICES ASSUME NEW n \in 0..Len(list) PROVE Ensure(src, t, SubSeq(list, 1, n)) = f[n]
      OBVIOUS
    <2> DEFINE part == SubSeq(list, 1, n)
    <2>1. n \in Nat /\ Len(part) = n /\ \A i \in 1..n : part[i] = list[i] /\ i \in 1..Len(list)
      OBVIOUS
    <2> HIDE DEF part
    <2>2. PICK g : /\ g[0] = Done(t) /\ Ensure(src, t, part) = g[Len(part)]
                   /\ \A i \in 1..Len(part) : g[i] = EnsureTarget(src, g[i - 1], part[i])
      BY <2>1, EnsuresAre
    <2> DEFINE S1 == {k \in Nat : k <= n => g[k] = f[k]}
    <2>3. 0 \in S1
      BY <1>1, <2>2
    <2>4. ASSUME NEW k \in Nat, k \in S1 PROVE k + 1 \in S1
      <3>1. SUFFICES ASSUME k + 1 <= n PROVE g[k + 1] = f[k + 1]
        OBVIOUS
      <3>2. k + 1 \in 1..n /\ k + 1 - 1 = k /\ k <= n
        BY <2>1, <3>1
      <3>3. g[k] = f[k]
        BY <2>4, <3>2
      <3>4. part[k + 1] = list[k + 1] /\ k + 1 \in 1..Len(list) /\ k + 1 \in 1..Len(part)
        BY <2>1, <3>2
      <3>5. g[k + 1] = EnsureTarget(src, g[k], part[k + 1]) /\ f[k + 1] = EnsureTarget(src, f[k], list[k + 1])
        BY <1>1, <2>2, <3>2, <3>4
      <3> QED
        BY <3>3, <3>4, <3>5
    <2> HIDE DEF S1
    <2>5. n \in S1
      BY <2>1, <2>3, <2>4, Induction
    <2>6. g[n] = f[n]
      BY <2>1, <2>5 DEF S1
    <2> QED
      BY <2>1, <2>2, <2>6 DEF part
  <1> QED
    BY <1>1, <1>7, <1>8, <1>9

-----------------------------------------------------------------------------
(* What the steps keep, whatever has been prepared. *)

TargetPaths == Seq(Plain) \ {<<>>}
NamedMounts == [what : Names, target : TargetPaths, source : Names, readonly : BOOLEAN, at : Seq(Plain)]
FreshMounts == [what : Names, target : TargetPaths, source : Names, readonly : BOOLEAN, at : {<<>>}]

ConfigTypes ==
    /\ config.binds \in Seq(FreshMounts)
    /\ config.disks \in Seq(TargetPaths) /\ config.tmpfs \in Seq(TargetPaths)
    /\ config.workdir \in Seq(Plain) /\ config.command \in Seq(Plain)

\* The sources have names of their own.
SourcesInv ==
    /\ "etc" \notin DOMAIN host /\ "cgroup" \notin DOMAIN host
    /\ \A i \in DOMAIN config.binds : config.binds[i].what = "bind" /\ config.binds[i].source \in DOMAIN host

\* What is mounted before the mounts are private is seen outside; nothing is.
NamespaceInv ==
    /\ outer = {}
    /\ step \in {"lower", "sources"} => namespace = "main"
    /\ step \in {"device", "overlay", "targets", "disks", "workdir", "command", "validate",
                 "prepare", "mount"} => namespace = "private"

BaseInv == /\ ConfigTypes /\ SourcesInv /\ TreeTypes(tree) /\ NamespaceInv
           /\ queue \in Seq(NamedMounts) /\ mounts \in Seq(NamedMounts)

LEMMA FreshIsNamed ==
  ASSUME NEW m \in FreshMounts
  PROVE  m \in NamedMounts /\ m.at = <<>>
  <1>1. <<>> \in Seq(Plain)
    OBVIOUS
  <1> QED
    BY <1>1 DEF FreshMounts, NamedMounts

LEMMA MountIsFresh ==
  ASSUME NEW what \in Names, NEW target \in TargetPaths, NEW source \in Names
  PROVE  Mount(what, target, source) \in FreshMounts
  BY DEF Mount, FreshMounts

LEMMA PathsAreNamed ==
  ASSUME NEW m \in NamedMounts
  PROVE  m.target \in Seq(Plain) /\ m.target # <<>> /\ m.at \in Seq(Plain) /\ m.target \in Seq(Names)
  <1>1. m.target \in Seq(Plain) /\ m.target # <<>> /\ m.at \in Seq(Plain)
    BY DEF NamedMounts, TargetPaths
  <1> QED
    BY <1>1, PlainIsNames

LEMMA PreparedIsNamed ==
  ASSUME NEW t, TreeTypes(t), NEW m \in NamedMounts
  PROVE  Prepared(t, m) \in NamedMounts
  <1>1. m.target \in Seq(Names)
    BY PathsAreNamed
  <1>2. Resolve(t, m.target).at \in Seq(Plain)
    BY <1>1, ResolvedIsThere
  <1> QED
    BY <1>2 DEF Prepared, NamedMounts

LEMMA BaseInit == Init => BaseInv
  <1> SUFFICES ASSUME Init PROVE BaseInv
    OBVIOUS
  <1>1. PICK launch \in Launches : config = launch.config /\ tree = launch.tree /\ host = launch.host
    BY DEF Init
  <1>2. STRING \subseteq Names /\ FileNames \subseteq Plain
    BY TypesAreNamed
  <1>3. Seq(STRING) \subseteq Seq(Names) /\ Seq(FileNames) \subseteq Seq(Plain)
    BY TypesAreNamed
  <1>4. Targeted \subseteq TargetPaths
    BY <1>3 DEF Targeted, TargetPaths, Paths
  <1>5. \A m \in DeclaredBinds : m \in FreshMounts /\ m.what = "bind"
    <2>1. "bind" \in Names
      BY DEF Names
    <2> QED
      BY <1>2, <1>4, <2>1 DEF DeclaredBinds, FreshMounts
  <1>6. /\ config.binds \in Seq(DeclaredBinds)
        /\ \A i \in DOMAIN config.binds : config.binds[i].source \in DOMAIN host
        /\ config.disks \in Seq(Targeted) /\ config.tmpfs \in Seq(Targeted)
        /\ config.workdir \in Paths /\ config.command \in Targeted
        /\ IsTree(tree) /\ Labels \cap DOMAIN host = {}
    BY <1>1, LaunchesAssumption, Zenon
  <1>7. ConfigTypes
    <2>1. DeclaredBinds \subseteq FreshMounts
      BY <1>5
    <2>2. config.binds \in Seq(FreshMounts)
      BY <1>6, <2>1
    <2>3. config.workdir \in Seq(Plain) /\ config.command \in Seq(Plain)
      BY <1>3, <1>6 DEF Paths, Targeted
    <2>4. config.disks \in Seq(TargetPaths) /\ config.tmpfs \in Seq(TargetPaths)
      BY <1>4, <1>6
    <2> QED
      BY <2>2, <2>3, <2>4 DEF ConfigTypes
  <1>8. SourcesInv
    <2>1. "etc" \in Labels /\ "cgroup" \in Labels
      BY DEF Labels
    <2>2. \A i \in DOMAIN config.binds : config.binds[i] \in DeclaredBinds
      BY <1>6
    <2> QED
      BY <1>5, <1>6, <2>1, <2>2 DEF SourcesInv
  <1>9. TreeTypes(tree)
    BY <1>6, TreesAreTyped
  <1>10. queue \in Seq(NamedMounts) /\ mounts \in Seq(NamedMounts) /\ NamespaceInv
    BY DEF Init, NamespaceInv
  <1> QED
    BY <1>7, <1>8, <1>9, <1>10 DEF BaseInv

-----------------------------------------------------------------------------
(* What is mounted. *)

SysMount == [Mount("bind", <<"sys">>, "sys") EXCEPT !.readonly = TRUE]
DnsMount == Mount("dns", <<"etc">>, "etc")
Parts == {Mount("proc", <<"proc">>, "proc"), Mount("bind", <<"dev">>, "dev"), SysMount, Cgroup,
          Mount("tmpfs", <<"tmp">>, "tmp"), Mount("tmpfs", <<"run">>, "run"), DnsMount}

LEMMA PartsAreFresh == \A m \in Parts : m \in FreshMounts
  <1> DEFINE named == {"proc", "dev", "sys", "tmp", "run", "etc"}
  <1>1. \A name \in named : <<name>> \in TargetPaths
    BY DEF Names, Plain, TargetPaths
  <1>2. {"proc", "bind", "tmpfs", "dns", "cgroup", "disk", "dev", "sys", "tmp", "run", "etc"} \subseteq Names
    BY DEF Names
  <1>3. Cgroup \in FreshMounts
    <2>1. <<"sys", "fs", "cgroup">> \in TargetPaths
      BY DEF Names, Plain, TargetPaths
    <2> QED
      BY <1>2, <2>1, MountIsFresh DEF Cgroup
  <1>4. SysMount \in FreshMounts
    <2>1. Mount("bind", <<"sys">>, "sys") \in FreshMounts
      BY <1>1, <1>2, MountIsFresh
    <2> QED
      BY <2>1 DEF FreshMounts, SysMount
  <1>5. /\ Mount("proc", <<"proc">>, "proc") \in FreshMounts
        /\ Mount("bind", <<"dev">>, "dev") \in FreshMounts
        /\ Mount("tmpfs", <<"tmp">>, "tmp") \in FreshMounts
        /\ Mount("tmpfs", <<"run">>, "run") \in FreshMounts
        /\ DnsMount \in FreshMounts
    BY <1>1, <1>2, MountIsFresh DEF DnsMount
  <1> QED
    BY <1>3, <1>4, <1>5 DEF Parts

LEMMA ListsAreFresh ==
  ASSUME ConfigTypes
  PROVE  /\ Binds \in Seq(FreshMounts) /\ Disks \in Seq(FreshMounts)
         /\ Standard \in Seq(FreshMounts) /\ Tmpfs \in Seq(FreshMounts)
         /\ Standard \o config.binds \o Tmpfs \in Seq(FreshMounts)
         /\ config.binds \in Seq(FreshMounts)
  <1>1. Standard \in Seq(FreshMounts)
    <2>1. <<Mount("proc", <<"proc">>, "proc"), Mount("bind", <<"dev">>, "dev"), SysMount, Cgroup,
            Mount("tmpfs", <<"tmp">>, "tmp"), Mount("tmpfs", <<"run">>, "run"),
            DnsMount>> \in Seq(FreshMounts)
      BY PartsAreFresh DEF Parts
    <2>2. <<>> \in Seq(FreshMounts)
      OBVIOUS
    <2> QED
      BY <2>1, <2>2 DEF Standard, SysMount, DnsMount
  <1>2. Tmpfs \in Seq(FreshMounts) /\ Disks \in Seq(FreshMounts)
    <2>1. ASSUME NEW list \in Seq(TargetPaths), NEW what \in Names, NEW source \in Names
          PROVE  [i \in DOMAIN list |-> Mount(what, list[i], source)] \in Seq(FreshMounts)
      <3>1. DOMAIN list = 1..Len(list) /\ Len(list) \in Nat /\ \A i \in 1..Len(list) : list[i] \in TargetPaths
        OBVIOUS
      <3>2. \A i \in 1..Len(list) : Mount(what, list[i], source) \in FreshMounts
        BY <3>1, MountIsFresh
      <3> QED
        BY <3>1, <3>2
    <2>2. {"tmpfs", "bind", "disk"} \subseteq Names
      BY DEF Names
    <2> QED
      BY <2>1, <2>2 DEF Tmpfs, Disks, ConfigTypes
  <1>3. Binds \in Seq(FreshMounts)
    <2>1. <<Cgroup>> \in Seq(FreshMounts) /\ <<>> \in Seq(FreshMounts)
      BY PartsAreFresh DEF Parts
    <2> QED
      BY <2>1 DEF Binds, ConfigTypes
  <1>4. config.binds \in Seq(FreshMounts)
    BY DEF ConfigTypes
  <1>5. Standard \o config.binds \o Tmpfs \in Seq(FreshMounts)
    BY <1>1, <1>2, <1>4
  <1> QED
    BY <1>1, <1>2, <1>3, <1>4, <1>5

LEMMA ListGrows ==
  ASSUME TreeTypes(tree), NEW list \in Seq(FreshMounts)
  PROVE  \A n \in 0..Len(list) :
            /\ Grown(tree, Ensure(host, tree, SubSeq(list, 1, n)).tree)
            /\ Grown(Ensure(host, tree, SubSeq(list, 1, n)).tree, Ensure(host, tree, list).tree)
  <1>1. Targeting(list)
    <2>1. \A i \in 1..Len(list) : list[i] \in NamedMounts
      BY FreshIsNamed
    <2> QED
      BY <2>1, PathsAreNamed DEF Targeting
  <1> QED
    BY <1>1, TargetsGrow

LEMMA PartGrows ==
  ASSUME TreeTypes(tree), NEW list \in Seq(FreshMounts), Partly(list)
  PROVE  Grown(tree, tree')
  <1>1. PICK n \in DOMAIN list : \E k \in 0..Len(list[n].target) - 1 :
           tree' = EnsureDirectory(Ensure(host, tree, SubSeq(list, 1, n - 1)).tree,
                                   SubSeq(list[n].target, 1, k)).tree
    BY DEF Partly
  <1>2. PICK k \in 0..Len(list[n].target) - 1 :
           tree' = EnsureDirectory(Ensure(host, tree, SubSeq(list, 1, n - 1)).tree,
                                   SubSeq(list[n].target, 1, k)).tree
    BY <1>1
  <1>3. list[n].target \in Seq(Plain) /\ n - 1 \in 0..Len(list)
    <2>1. n \in 1..Len(list) /\ list[n] \in NamedMounts
      BY FreshIsNamed
    <2> QED
      BY <2>1, PathsAreNamed
  <1>4. SubSeq(list[n].target, 1, k) \in Seq(Plain)
    <2> DEFINE path == list[n].target
    <2>1. path \in Seq(Plain) /\ k \in 0..Len(path) - 1
      BY <1>2, <1>3
    <2> HIDE DEF path
    <2>2. SubSeq(path, 1, k) \in Seq(Plain)
      BY <2>1
    <2> QED
      BY <2>2 DEF path
  <1> DEFINE t == Ensure(host, tree, SubSeq(list, 1, n - 1)).tree
  <1>5. Grown(tree, t)
    BY <1>3, ListGrows
  <1> HIDE DEF t
  <1>6. Grown(t, EnsureDirectory(t, SubSeq(list[n].target, 1, k)).tree)
    BY <1>4, <1>5, DirectoriesGrow DEF Grown
  <1>7. Grown(t, tree')
    BY <1>2, <1>6 DEF t
  <1> QED
    BY <1>5, <1>7, GrownTwice

\* What no step does: show a mount outside, change what is there, or what the layer has.
OutsideKept == outer' = {} /\ HostOnlyGainsSources /\ ImageIsKept

LEMMA GrowthIsKept ==
  ASSUME BaseInv, Grown(tree, tree'), queue' \in Seq(NamedMounts), mounts' \in Seq(NamedMounts),
         NamespaceInv', UNCHANGED <<config, host>>
  PROVE  BaseInv' /\ OutsideKept
  <1>1. ConfigTypes' /\ SourcesInv'
    BY DEF BaseInv, ConfigTypes, SourcesInv
  <1>2. TreeTypes(tree')
    BY DEF Grown
  <1>3. HostOnlyGainsSources
    BY DEF HostOnlyGainsSources
  <1>4. ImageIsKept
    BY DEF ImageIsKept, Grown, Keeps
  <1>5. outer' = {}
    BY DEF NamespaceInv
  <1> QED
    BY <1>1, <1>2, <1>3, <1>4, <1>5 DEF BaseInv, OutsideKept

LEMMA NothingMade ==
  ASSUME BaseInv, UNCHANGED <<config, host, tree, queue, mounts>>, NamespaceInv'
  PROVE  BaseInv' /\ OutsideKept
  <1>1. Grown(tree, tree')
    BY NoneGrown DEF BaseInv
  <1> QED
    BY <1>1, GrowthIsKept DEF BaseInv

LEMMA QuietSteps ==
  ASSUME BaseInv, \/ ReadLower \/ Unshare \/ MakeMountsPrivate \/ PrepareOverlayBase
                  \/ MountOverlayRootfs \/ PrepareWorkdir \/ PrepareExecutable \/ ValidateTargets
                  \/ EnterRootfs \/ ChangeDirectory \/ Exec \/ Fail
  PROVE  BaseInv' /\ OutsideKept
  <1>1. NamespaceInv
    BY DEF BaseInv
  <1>2. CASE ReadLower
    BY <1>1, <1>2, NothingMade DEF ReadLower, Goes, NamespaceInv
  <1>3. CASE Unshare
    BY <1>1, <1>3, NothingMade DEF Unshare, Goes, NamespaceInv
  <1>4. CASE MakeMountsPrivate
    BY <1>1, <1>4, NothingMade DEF MakeMountsPrivate, Private, Goes, NamespaceInv
  <1>5. CASE PrepareOverlayBase
    BY <1>1, <1>5, NothingMade DEF PrepareOverlayBase, Propagates, Goes, NamespaceInv
  <1>6. CASE MountOverlayRootfs
    BY <1>1, <1>6, NothingMade DEF MountOverlayRootfs, Propagates, Goes, NamespaceInv
  <1>7. CASE PrepareWorkdir
    <2> DEFINE holds == Holds(config.workdir, IsWorkdir)
    <2>1. Check("workdir", holds, "command")
      BY <1>7 DEF PrepareWorkdir
    <2> HIDE DEF holds
    <2> QED
      BY <1>1, <2>1, NothingMade DEF Check, NamespaceInv
  <1>8. CASE PrepareExecutable
    <2> DEFINE holds == Holds(config.command, IsExecutable)
    <2>1. Check("command", holds, "validate")
      BY <1>8 DEF PrepareExecutable
    <2> HIDE DEF holds
    <2> QED
      BY <1>1, <2>1, NothingMade DEF Check, NamespaceInv
  <1>9. CASE ValidateTargets
    BY <1>1, <1>9, NothingMade DEF ValidateTargets, Check, NamespaceInv
  <1>10. CASE EnterRootfs
    BY <1>1, <1>10, NothingMade DEF EnterRootfs, Goes, NamespaceInv
  <1>11. CASE ChangeDirectory
    BY <1>1, <1>11, NothingMade DEF ChangeDirectory, Goes, NamespaceInv
  <1>12. CASE Exec
    BY <1>1, <1>12, NothingMade DEF Exec, Goes, NamespaceInv
  <1>13. CASE Fail
    BY <1>1, <1>13, NothingMade DEF Fail, Refuse, NamespaceInv
  <1> QED
    BY <1>2, <1>3, <1>4, <1>5, <1>6, <1>7, <1>8, <1>9, <1>10, <1>11, <1>12, <1>13

\* Missing sources become directories, while sandrun is in the main namespace.
LEMMA SourcesMade ==
  ASSUME BaseInv, step = "sources", NEW n, host' = WithSources(n),
         UNCHANGED <<config, tree, outer, queue, mounts>>, NamespaceInv'
  PROVE  BaseInv' /\ OutsideKept
  <1>1. namespace = "main" /\ outer' = {}
    BY DEF BaseInv, NamespaceInv
  <1>2. /\ DOMAIN host' = DOMAIN host
        /\ \A s \in DOMAIN host : host'[s] = host[s] \/ (host[s] = "absent" /\ host'[s] = "dir")
    BY DEF WithSources, IfMissing
  <1>3. HostOnlyGainsSources
    BY <1>1, <1>2 DEF HostOnlyGainsSources
  <1>4. ImageIsKept
    BY DEF ImageIsKept
  <1>5. SourcesInv'
    BY <1>2 DEF BaseInv, SourcesInv
  <1>6. BaseInv'
    BY <1>5 DEF BaseInv, ConfigTypes
  <1> QED
    BY <1>1, <1>3, <1>4, <1>6 DEF OutsideKept

-----------------------------------------------------------------------------
(* The members of lists. *)

Items(s) == {s[i] : i \in DOMAIN s}

LEMMA JoinedItems ==
  ASSUME NEW S, NEW a \in Seq(S), NEW b \in Seq(S)
  PROVE  /\ a \o b \in Seq(S) /\ Len(a) \in Nat
         /\ \A i \in DOMAIN a : i \in DOMAIN (a \o b) /\ (a \o b)[i] = a[i]
         /\ \A i \in DOMAIN b : Len(a) + i \in DOMAIN (a \o b) /\ (a \o b)[Len(a) + i] = b[i]
         /\ \A i \in DOMAIN (a \o b) : \/ i \in DOMAIN a
                                       \/ \E j \in DOMAIN b : i = Len(a) + j
  <1>1. PICK m \in Nat : Len(a) = m /\ DOMAIN a = 1..m
    OBVIOUS
  <1>2. PICK k \in Nat : Len(b) = k /\ DOMAIN b = 1..k
    OBVIOUS
  <1> DEFINE c == a \o b
  <1>3. /\ c \in Seq(S) /\ Len(c) = Len(a) + Len(b) /\ \A i \in 1..Len(a) : c[i] = a[i]
        /\ \A i \in 1..Len(b) : c[Len(a) + i] = b[i]
    BY ConcatIs
  <1> HIDE DEF c
  <1>4. DOMAIN c = 1..m + k
    BY <1>1, <1>2, <1>3
  <1>5. \A i \in DOMAIN a : i \in DOMAIN c /\ c[i] = a[i]
    BY <1>1, <1>3, <1>4
  <1>6. \A i \in DOMAIN b : Len(a) + i \in DOMAIN c /\ c[Len(a) + i] = b[i]
    BY <1>1, <1>2, <1>3, <1>4
  <1>7. \A i \in DOMAIN c : \/ i \in DOMAIN a
                            \/ \E j \in DOMAIN b : i = Len(a) + j
    <2> SUFFICES ASSUME NEW i \in DOMAIN c, i \notin DOMAIN a
                 PROVE  \E j \in DOMAIN b : i = Len(a) + j
      OBVIOUS
    <2>1. i \in 1..m + k /\ ~(i \in 1..m)
      BY <1>1, <1>4
    <2>2. i - m \in 1..k /\ i = m + (i - m)
      BY <2>1
    <2> QED
      BY <1>1, <1>2, <2>2
  <1> QED
    BY <1>1, <1>3, <1>5, <1>6, <1>7 DEF c

LEMMA ItemsJoined ==
  ASSUME NEW S, NEW a \in Seq(S), NEW b \in Seq(S)
  PROVE  a \o b \in Seq(S) /\ \A x : x \in Items(a \o b) <=> x \in Items(a) \/ x \in Items(b)
  <1> DEFINE c == a \o b
  <1>1. /\ c \in Seq(S) /\ Len(a) \in Nat
        /\ \A i \in DOMAIN a : i \in DOMAIN c /\ c[i] = a[i]
        /\ \A i \in DOMAIN b : Len(a) + i \in DOMAIN c /\ c[Len(a) + i] = b[i]
        /\ \A i \in DOMAIN c : i \in DOMAIN a \/ \E j \in DOMAIN b : i = Len(a) + j
    BY JoinedItems
  <1> HIDE DEF c
  <1>2. ASSUME NEW x \in Items(c) PROVE x \in Items(a) \/ x \in Items(b)
    <2>1. PICK i \in DOMAIN c : x = c[i]
      BY <1>2 DEF Items
    <2>2. CASE i \in DOMAIN a
      BY <1>1, <2>1, <2>2 DEF Items
    <2>3. CASE \E j \in DOMAIN b : i = Len(a) + j
      <3>1. PICK j \in DOMAIN b : i = Len(a) + j
        BY <2>3
      <3> QED
        BY <1>1, <2>1, <3>1 DEF Items
    <2> QED
      BY <1>1, <2>2, <2>3
  <1>3. ASSUME NEW x \in Items(a) PROVE x \in Items(c)
    BY <1>1, <1>3 DEF Items
  <1>4. ASSUME NEW x \in Items(b) PROVE x \in Items(c)
    BY <1>1, <1>4 DEF Items
  <1> QED
    BY <1>1, <1>2, <1>3, <1>4 DEF c

Mounted == Items(Declared)
Shown == {m \in Mounted : m.what # "dns"}

\* All but the cgroup hierarchy are compared with each other.
Single == Shown \ {Cgroup}

LEMMA StandardItems == config.standard => Items(Standard) = Parts
  <1> SUFFICES ASSUME config.standard PROVE Items(Standard) = Parts
    OBVIOUS
  <1> DEFINE a == Mount("proc", <<"proc">>, "proc")
             b == Mount("bind", <<"dev">>, "dev")
             d == Mount("tmpfs", <<"tmp">>, "tmp")
             e == Mount("tmpfs", <<"run">>, "run")
  <1>1. Standard = <<a, b, SysMount, Cgroup, d, e, DnsMount>>
    BY DEF Standard, SysMount, DnsMount
  <1>2. Parts = {a, b, SysMount, Cgroup, d, e, DnsMount}
    BY DEF Parts
  <1> HIDE DEF a, b, d, e
  <1> QED
    BY <1>1, <1>2 DEF Items

LEMMA MountedItems ==
  ASSUME BaseInv
  PROVE  /\ \A m : m \in Mounted <=> \/ m \in Items(Standard) \/ m \in Items(config.binds)
                                     \/ m \in Items(Tmpfs) \/ m \in Items(Disks)
         /\ \A m \in Mounted : m \in FreshMounts
         /\ config.standard => Items(Standard) = Parts
         /\ ~config.standard => Items(Standard) = {}
  <1>1. /\ Disks \in Seq(FreshMounts) /\ Standard \in Seq(FreshMounts) /\ Tmpfs \in Seq(FreshMounts)
        /\ config.binds \in Seq(FreshMounts)
    BY ListsAreFresh DEF BaseInv
  <1> DEFINE one == Standard \o config.binds
             two == one \o Tmpfs
  <1>2. one \in Seq(FreshMounts) /\ \A x : x \in Items(one) <=> x \in Items(Standard) \/ x \in Items(config.binds)
    BY <1>1, ItemsJoined
  <1> HIDE DEF one
  <1>3. two \in Seq(FreshMounts) /\ \A x : x \in Items(two) <=> x \in Items(one) \/ x \in Items(Tmpfs)
    BY <1>1, <1>2, ItemsJoined
  <1> HIDE DEF two
  <1>4. Declared = two \o Disks
    BY DEF Declared, one, two
  <1>5. /\ two \o Disks \in Seq(FreshMounts)
        /\ \A x : x \in Items(two \o Disks) <=> x \in Items(two) \/ x \in Items(Disks)
    BY <1>1, <1>3, ItemsJoined
  <1>6. \A m : m \in Mounted <=> \/ m \in Items(Standard) \/ m \in Items(config.binds)
                                 \/ m \in Items(Tmpfs) \/ m \in Items(Disks)
    BY <1>2, <1>3, <1>4, <1>5 DEF Mounted
  <1>7. \A m \in Mounted : m \in FreshMounts
    <2>1. Declared \in Seq(FreshMounts)
      BY <1>4, <1>5
    <2> QED
      BY <2>1 DEF Mounted, Items
  <1>8. ~config.standard => Items(Standard) = {}
    BY DEF Standard, Items
  <1> QED
    BY <1>6, <1>7, <1>8, StandardItems

\* What is not standard is no file for resolv.conf or hosts, and not the cgroup hierarchy.
LEMMA OthersAre ==
  ASSUME BaseInv, NEW m, m \in Items(config.binds) \cup Items(Tmpfs) \cup Items(Disks)
  PROVE  m.what # "dns" /\ m.source # "cgroup" /\ m.source # "etc"
  <1>1. CASE m \in Items(config.binds)
    <2>1. PICK i \in DOMAIN config.binds : m = config.binds[i]
      BY <1>1 DEF Items
    <2> QED
      BY <2>1 DEF BaseInv, SourcesInv
  <1>2. CASE m \in Items(Tmpfs)
    <2>1. PICK i \in DOMAIN config.tmpfs : m = Mount("tmpfs", config.tmpfs[i], "tmpfs")
      BY <1>2 DEF Items, Tmpfs
    <2>2. m.what = "tmpfs" /\ m.source = "tmpfs"
      BY <2>1 DEF Mount
    <2> QED
      BY <2>2
  <1>3. CASE m \in Items(Disks)
    <2>1. PICK i \in DOMAIN config.disks : m = Mount("bind", config.disks[i], "disk")
      BY <1>3 DEF Items, Disks
    <2>2. m.what = "bind" /\ m.source = "disk"
      BY <2>1 DEF Mount
    <2> QED
      BY <2>2
  <1> QED
    BY <1>1, <1>2, <1>3

LEMMA TripleIs ==
  ASSUME NEW x, NEW y, NEW z
  PROVE  <<x>> \o <<y, z>> = <<x, y, z>>
  <1> DEFINE S == {x, y, z}
             a == <<x>>
             b == <<y, z>>
             c == <<x, y, z>>
  <1>1. /\ a \in Seq(S) /\ b \in Seq(S) /\ c \in Seq(S)
        /\ Len(a) = 1 /\ Len(b) = 2 /\ Len(c) = 3
        /\ a[1] = x /\ b[1] = y /\ b[2] = z /\ c[1] = x /\ c[2] = y /\ c[3] = z
    OBVIOUS
  <1> HIDE DEF S, a, b, c
  <1>2. /\ a \o b \in Seq(S) /\ Len(a \o b) = Len(a) + Len(b)
        /\ \A i \in 1..Len(a) : (a \o b)[i] = a[i]
        /\ \A i \in 1..Len(b) : (a \o b)[Len(a) + i] = b[i]
    <2>1. a \in Seq(S) /\ b \in Seq(S)
      BY <1>1
    <2> QED
      BY <2>1, ConcatIs
  <1> DEFINE d == a \o b
  <1> HIDE DEF d
  <1>3. d \in Seq(S) /\ Len(d) = 3 /\ d[1] = x /\ d[1 + 1] = y /\ d[1 + 2] = z
    BY <1>1, <1>2 DEF d
  <1>4. \A i \in 1..Len(d) : d[i] = c[i]
    BY <1>1, <1>3
  <1>5. d = c
    BY <1>1, <1>3, <1>4, SeqEqual
  <1> QED
    BY <1>5 DEF d, a, b, c

LEMMA PartsDiffer ==
  /\ DnsMount.what = "dns" /\ DnsMount.source = "etc" /\ DnsMount.target = <<"etc">>
  /\ Cgroup.source = "cgroup" /\ Cgroup.what # "dns" /\ SysMount.what # "dns" /\ SysMount # Cgroup
  /\ SysMount.target = <<"sys">> /\ Cgroup.target = <<"sys">> \o <<"fs", "cgroup">>
  /\ \A m \in Parts : m.what = "dns" => m = DnsMount
  <1>1. DnsMount.what = "dns" /\ DnsMount.source = "etc" /\ DnsMount.target = <<"etc">>
    BY DEF DnsMount, Mount
  <1>2. Cgroup.source = "cgroup" /\ Cgroup.what # "dns"
    BY DEF Cgroup, Mount
  <1>3. SysMount.what # "dns" /\ SysMount.source = "sys" /\ SysMount.target = <<"sys">>
    BY DEF SysMount, Mount
  <1>4. SysMount # Cgroup
    BY <1>2, <1>3
  <1>5. Cgroup.target = <<"sys">> \o <<"fs", "cgroup">>
    <2>1. Cgroup.target = <<"sys", "fs", "cgroup">>
      BY DEF Cgroup, Mount
    <2>2. <<"sys">> \o <<"fs", "cgroup">> = <<"sys", "fs", "cgroup">>
      BY TripleIs
    <2> QED
      BY <2>1, <2>2
  <1>6. \A m \in Parts : m.what = "dns" => m = DnsMount
    <2>1. /\ Mount("proc", <<"proc">>, "proc").what # "dns"
          /\ Mount("bind", <<"dev">>, "dev").what # "dns"
          /\ Mount("tmpfs", <<"tmp">>, "tmp").what # "dns"
          /\ Mount("tmpfs", <<"run">>, "run").what # "dns"
      BY DEF Mount
    <2> QED
      BY <1>2, <1>3, <2>1 DEF Parts
  <1> QED
    BY <1>1, <1>2, <1>3, <1>4, <1>5, <1>6

LEMMA MountedAre ==
  ASSUME BaseInv
  PROVE  /\ \A m \in Mounted : m \in FreshMounts /\ (m.what = "dns" => config.standard /\ m = DnsMount)
         /\ Cgroup \in Mounted => config.standard
         /\ config.standard => SysMount \in Single /\ DnsMount \in Mounted
  <1>1. ASSUME NEW m \in Mounted, m.what = "dns" PROVE config.standard /\ m = DnsMount
    <2>1. m \in Items(Standard)
      BY <1>1, MountedItems, OthersAre
    <2> QED
      BY <1>1, <2>1, MountedItems, PartsDiffer
  <1>2. ASSUME Cgroup \in Mounted PROVE config.standard
    BY <1>2, MountedItems, OthersAre, PartsDiffer
  <1>3. ASSUME config.standard PROVE SysMount \in Single /\ DnsMount \in Mounted
    <2>1. SysMount \in Mounted /\ DnsMount \in Mounted
      BY <1>3, MountedItems DEF Parts
    <2> QED
      BY <2>1, PartsDiffer DEF Single, Shown
  <1> QED
    BY <1>1, <1>2, <1>3, MountedItems

-----------------------------------------------------------------------------
(* What is compared. *)

Outcomes == {Found(p) : p \in Seq(Plain)} \cup {Escapes, Missing, Exceeds}

LEMMA ResolveIsOutcome ==
  ASSUME NEW t, TreeTypes(t), NEW target \in Seq(Names)
  PROVE  Resolve(t, target) \in Outcomes
  <1>1. PICK f : /\ f[0] = Normalize(target) /\ \A n \in 1..MaxLinks : f[n] = Turn(t, f[n - 1])
                 /\ Resolve(t, target) = Outcome(t, f[MaxLinks])
    BY OutcomeIs
  <1>2. \A n \in 0..MaxLinks : f[n] \in Normal
    BY <1>1, TurnsAreNormal
  <1>3. MaxLinks \in 0..MaxLinks
    BY LinksAssumption
  <1> DEFINE path == f[MaxLinks]
  <1>4. path \in Normal /\ Resolve(t, target) = Outcome(t, path)
    BY <1>1, <1>2, <1>3
  <1> HIDE DEF path
  <1> QED
    BY <1>4 DEF Outcome, Outcomes, Normal

\* Where a mount goes; a file for resolv.conf or hosts, marked by its name, goes to /etc.
Spot(t, m) == IF m.what = "dns" THEN Append(Resolve(t, <<"etc">>).at, m.source)
              ELSE Resolve(t, m.target).at
Mark(name) == Mount("dns", <<"etc">>, name)
EtcMark == Mount("bind", <<"etc">>, "etc")

Paired(t, l, r) == Len(l) = Len(r) /\ \A i \in DOMAIN l : r[i].at = Spot(t, l[i])

LEMMA PairedJoin ==
  ASSUME NEW t, NEW S, NEW R, NEW a \in Seq(S), NEW b \in Seq(S), NEW c \in Seq(R), NEW d \in Seq(R),
         Paired(t, a, c), Paired(t, b, d)
  PROVE  Paired(t, a \o b, c \o d)
  <1> DEFINE ab == a \o b
             cd == c \o d
  <1>1. PICK m \in Nat : Len(a) = m /\ Len(c) = m /\ DOMAIN a = 1..m
    BY DEF Paired
  <1>2. PICK k \in Nat : Len(b) = k /\ Len(d) = k /\ DOMAIN b = 1..k
    BY DEF Paired
  <1>3. /\ ab \in Seq(S) /\ Len(ab) = Len(a) + Len(b) /\ \A i \in 1..Len(a) : ab[i] = a[i]
        /\ \A i \in 1..Len(b) : ab[Len(a) + i] = b[i]
    BY ConcatIs
  <1>4. /\ Len(cd) = Len(c) + Len(d) /\ \A i \in 1..Len(c) : cd[i] = c[i]
        /\ \A i \in 1..Len(d) : cd[Len(c) + i] = d[i]
    BY ConcatIs
  <1> HIDE DEF ab, cd
  <1>5. Len(ab) = m + k /\ Len(cd) = m + k /\ DOMAIN ab = 1..m + k
    BY <1>1, <1>2, <1>3, <1>4
  <1>6. ASSUME NEW i \in 1..m + k PROVE cd[i].at = Spot(t, ab[i])
    <2>1. CASE i \in 1..m
      <3>1. ab[i] = a[i] /\ cd[i] = c[i] /\ c[i].at = Spot(t, a[i])
        BY <1>1, <1>3, <1>4, <2>1 DEF Paired
      <3> QED
        BY <3>1
    <2>2. CASE i \notin 1..m
      <3>1. PICK j \in 1..k : i = m + j
        <4>1. i - m \in 1..k /\ i = m + (i - m)
          BY <2>2
        <4> QED
          BY <4>1
      <3>2. ab[i] = b[j] /\ cd[i] = d[j]
        BY <1>1, <1>2, <1>3, <1>4, <3>1
      <3>3. d[j].at = Spot(t, b[j])
        BY <1>2 DEF Paired
      <3> QED
        BY <3>2, <3>3
    <2> QED
      BY <2>1, <2>2
  <1> QED
    BY <1>5, <1>6 DEF Paired, ab, cd

FirstMarks == <<Mount("proc", <<"proc">>, "proc"), Mount("bind", <<"dev">>, "dev"), SysMount,
                Mount("tmpfs", <<"tmp">>, "tmp"), Mount("tmpfs", <<"run">>, "run")>>
LastMarks == <<EtcMark, Mark("resolv.conf"), Mark("hosts")>>
Marks == IF config.standard THEN FirstMarks \o LastMarks ELSE <<>>

FirstTargets == [i \in 1..5 |-> Resolved(<<<<"proc">>, <<"dev">>, <<"sys">>, <<"tmp">>, <<"run">>>>[i])]
LastTargets == <<Resolved(<<"etc">>), Etc("resolv.conf"), Etc("hosts")>>
MarkTargets == IF config.standard THEN FirstTargets \o LastTargets ELSE <<>>

DiskTargets == [i \in DOMAIN config.disks |-> Resolved(config.disks[i])]
BindTargets == [i \in DOMAIN config.binds |-> Resolved(config.binds[i].target)]
TmpfsTargets == [i \in DOMAIN config.tmpfs |-> Resolved(config.tmpfs[i])]

Listed == Marks \o Disks \o config.binds \o Tmpfs

LEMMA TargetsAre == Targets = MarkTargets \o DiskTargets \o BindTargets \o TmpfsTargets
  BY DEF Targets, MarkTargets, DiskTargets, BindTargets, TmpfsTargets, FirstTargets, LastTargets

LEMMA SpotOf ==
  ASSUME NEW t, NEW what, what # "dns", NEW target, NEW source
  PROVE  Spot(t, Mount(what, target, source)) = Resolve(t, target).at
  <1>1. Mount(what, target, source).what = what /\ Mount(what, target, source).target = target
    BY DEF Mount
  <1> QED
    BY <1>1 DEF Spot

LEMMA SpotOfMark ==
  ASSUME NEW t, NEW name
  PROVE  Spot(t, Mark(name)) = Append(Resolve(t, <<"etc">>).at, name)
  <1>1. Mark(name).what = "dns" /\ Mark(name).source = name
    BY DEF Mark, Mount
  <1> QED
    BY <1>1 DEF Spot

EtcName(name) == Append(Resolve(tree, <<"etc">>).at, name)

LEMMA EtcIs ==
  ASSUME TreeTypes(tree), NEW name \in Plain
  PROVE  /\ Etc(name) \in Outcomes /\ Etc(name).at = EtcName(name) /\ EtcName(name) \in Seq(Plain)
         /\ EtcName(name) # <<>>
  <1>1. <<"etc">> \in Seq(Names)
    BY DEF Names
  <1>2. Resolve(tree, <<"etc">>).at \in Seq(Plain)
    BY <1>1, ResolvedIsThere
  <1>3. EtcName(name) \in Seq(Plain) /\ EtcName(name) # <<>>
    BY <1>2, AppendedIs DEF EtcName
  <1>4. Etc(name) = Found(EtcName(name))
    BY DEF Etc, Resolved, EtcName
  <1>5. Found(EtcName(name)).at = EtcName(name)
    BY Results
  <1> QED
    BY <1>3, <1>4, <1>5 DEF Outcomes

LEMMA MarksArePaired ==
  ASSUME BaseInv
  PROVE  /\ Marks \in Seq(FreshMounts) /\ MarkTargets \in Seq(Outcomes)
         /\ Paired(tree, Marks, MarkTargets)
  <1>1. CASE ~config.standard
    <2>1. Marks = <<>> /\ MarkTargets = <<>>
      BY <1>1 DEF Marks, MarkTargets
    <2> QED
      BY <2>1 DEF Paired
  <1>2. CASE config.standard
    <2>0. TreeTypes(tree)
      BY DEF BaseInv
    <2>1. {"proc", "dev", "sys", "tmp", "run", "etc", "bind", "tmpfs", "dns", "resolv.conf", "hosts"} \subseteq Names
      BY DEF Names
    <2>2. {"resolv.conf", "hosts"} \subseteq Plain
      BY DEF Names, Plain
    <2>3. \A name \in {"proc", "dev", "sys", "tmp", "run", "etc"} : <<name>> \in Seq(Names) /\ <<name>> \in TargetPaths
      BY DEF Names, Plain, TargetPaths
    <2>4. FirstMarks \in Seq(FreshMounts)
      BY PartsAreFresh DEF Parts, FirstMarks
    <2>5. EtcMark \in FreshMounts /\ Mark("resolv.conf") \in FreshMounts /\ Mark("hosts") \in FreshMounts
      BY <2>1, <2>3, MountIsFresh DEF EtcMark, Mark
    <2>6. LastMarks \in Seq(FreshMounts)
      BY <2>5 DEF LastMarks
    <2>7. \A name \in {"proc", "dev", "sys", "tmp", "run", "etc"} : Resolve(tree, <<name>>) \in Outcomes
      BY <2>0, <2>3, ResolveIsOutcome
    <2> DEFINE F(i) == Resolve(tree, <<<<"proc">>, <<"dev">>, <<"sys">>, <<"tmp">>, <<"run">>>>[i])
    <2>8. /\ F(1) = Resolve(tree, <<"proc">>) /\ F(2) = Resolve(tree, <<"dev">>)
          /\ F(3) = Resolve(tree, <<"sys">>) /\ F(4) = Resolve(tree, <<"tmp">>)
          /\ F(5) = Resolve(tree, <<"run">>)
      OBVIOUS
    <2>9. FirstTargets = [i \in 1..5 |-> F(i)]
      BY DEF FirstTargets, Resolved
    <2> HIDE DEF F
    <2>10. \A i \in 1..5 : F(i) \in Outcomes
      <3>1. \A i \in 1..5 : i \in {1, 2, 3, 4, 5}
        OBVIOUS
      <3> QED
        BY <2>7, <2>8, <3>1
    <2>11. FirstTargets \in Seq(Outcomes) /\ Len(FirstTargets) = 5 /\ \A i \in 1..5 : FirstTargets[i] = F(i)
      BY <2>9, <2>10
    <2>12. Paired(tree, FirstMarks, FirstTargets)
      <3> DEFINE a == Mount("proc", <<"proc">>, "proc")
                 b == Mount("bind", <<"dev">>, "dev")
                 d == Mount("tmpfs", <<"tmp">>, "tmp")
                 e == Mount("tmpfs", <<"run">>, "run")
      <3>1. /\ Spot(tree, a) = F(1).at /\ Spot(tree, b) = F(2).at
            /\ Spot(tree, d) = F(4).at /\ Spot(tree, e) = F(5).at
        BY <2>8, SpotOf
      <3>2. Spot(tree, SysMount) = F(3).at
        BY <2>8, PartsDiffer DEF Spot
      <3>3. FirstMarks = <<a, b, SysMount, d, e>>
        BY DEF FirstMarks
      <3> HIDE DEF a, b, d, e
      <3>4. /\ Len(FirstMarks) = 5 /\ DOMAIN FirstMarks = 1..5 /\ FirstMarks[1] = a /\ FirstMarks[2] = b
            /\ FirstMarks[3] = SysMount /\ FirstMarks[4] = d /\ FirstMarks[5] = e
        BY <3>3
      <3>5. \A i \in 1..5 : i \in {1, 2, 3, 4, 5}
        OBVIOUS
      <3>6. \A i \in {1, 2, 3, 4, 5} : F(i).at = Spot(tree, FirstMarks[i])
        BY <3>1, <3>2, <3>4
      <3>7. \A i \in 1..5 : FirstTargets[i].at = Spot(tree, FirstMarks[i])
        BY <2>11, <3>5, <3>6
      <3> QED
        BY <2>11, <3>4, <3>7 DEF Paired
    <2>13. Etc("resolv.conf") \in Outcomes /\ Etc("hosts") \in Outcomes /\ Resolved(<<"etc">>) \in Outcomes
      BY <2>0, <2>2, <2>7, EtcIs DEF Resolved
    <2>14. LastTargets \in Seq(Outcomes)
      BY <2>13 DEF LastTargets
    <2>15. Paired(tree, LastMarks, LastTargets)
      <3>1. Resolved(<<"etc">>).at = Spot(tree, EtcMark)
        BY SpotOf DEF EtcMark, Resolved
      <3>2. Etc("resolv.conf").at = Spot(tree, Mark("resolv.conf")) /\ Etc("hosts").at = Spot(tree, Mark("hosts"))
        BY <2>0, <2>2, EtcIs, SpotOfMark DEF EtcName
      <3> DEFINE a == Mark("resolv.conf")
                 b == Mark("hosts")
                 c == Resolved(<<"etc">>)
                 d == Etc("resolv.conf")
                 e == Etc("hosts")
      <3>3. LastMarks = <<EtcMark, a, b>> /\ LastTargets = <<c, d, e>>
        BY DEF LastMarks, LastTargets
      <3>4. c.at = Spot(tree, EtcMark) /\ d.at = Spot(tree, a) /\ e.at = Spot(tree, b)
        BY <3>1, <3>2
      <3> HIDE DEF a, b, c, d, e
      <3>5. /\ Len(LastMarks) = 3 /\ DOMAIN LastMarks = 1..3 /\ LastMarks[1] = EtcMark
            /\ LastMarks[2] = a /\ LastMarks[3] = b
            /\ Len(LastTargets) = 3 /\ LastTargets[1] = c /\ LastTargets[2] = d /\ LastTargets[3] = e
        BY <3>3
      <3>6. \A i \in 1..3 : i \in {1, 2, 3}
        OBVIOUS
      <3>7. \A i \in {1, 2, 3} : LastTargets[i].at = Spot(tree, LastMarks[i])
        BY <3>4, <3>5
      <3>8. \A i \in 1..3 : LastTargets[i].at = Spot(tree, LastMarks[i])
        BY <3>6, <3>7
      <3> QED
        BY <3>5, <3>8 DEF Paired
    <2>16. Paired(tree, FirstMarks \o LastMarks, FirstTargets \o LastTargets)
      BY <2>4, <2>6, <2>11, <2>12, <2>14, <2>15, PairedJoin
    <2>17. FirstMarks \o LastMarks \in Seq(FreshMounts) /\ FirstTargets \o LastTargets \in Seq(Outcomes)
      BY <2>4, <2>6, <2>11, <2>14
    <2> QED
      BY <1>2, <2>16, <2>17 DEF Marks, MarkTargets
  <1> QED
    BY <1>1, <1>2

LEMMA ListPaired ==
  ASSUME BaseInv, NEW paths \in Seq(TargetPaths), NEW what \in Names, what # "dns", NEW source \in Names
  PROVE  /\ [i \in DOMAIN paths |-> Mount(what, paths[i], source)] \in Seq(FreshMounts)
         /\ [i \in DOMAIN paths |-> Resolved(paths[i])] \in Seq(Outcomes)
         /\ Paired(tree, [i \in DOMAIN paths |-> Mount(what, paths[i], source)],
                   [i \in DOMAIN paths |-> Resolved(paths[i])])
  <1> DEFINE l == [i \in DOMAIN paths |-> Mount(what, paths[i], source)]
             r == [i \in DOMAIN paths |-> Resolved(paths[i])]
  <1>1. DOMAIN paths = 1..Len(paths) /\ Len(paths) \in Nat /\ \A i \in 1..Len(paths) : paths[i] \in TargetPaths
    OBVIOUS
  <1>2. \A i \in 1..Len(paths) : Mount(what, paths[i], source) \in FreshMounts
    BY <1>1, MountIsFresh
  <1>3. \A path \in TargetPaths : path \in Seq(Names)
    BY PlainIsNames DEF TargetPaths
  <1>4. TreeTypes(tree)
    BY DEF BaseInv
  <1>5. \A i \in 1..Len(paths) : Resolved(paths[i]) \in Outcomes
    BY <1>1, <1>3, <1>4, ResolveIsOutcome DEF Resolved
  <1>6. l \in Seq(FreshMounts) /\ Len(l) = Len(paths)
    BY <1>1, <1>2
  <1>7. r \in Seq(Outcomes) /\ Len(r) = Len(paths)
    BY <1>1, <1>5
  <1>8. ASSUME NEW i \in DOMAIN l PROVE r[i].at = Spot(tree, l[i])
    <2>1. i \in 1..Len(paths)
      BY <1>1
    <2>2. l[i] = Mount(what, paths[i], source) /\ r[i] = Resolve(tree, paths[i])
      BY <1>1, <2>1 DEF Resolved
    <2>3. Spot(tree, Mount(what, paths[i], source)) = Resolve(tree, paths[i]).at
      BY SpotOf
    <2> QED
      BY <2>2, <2>3
  <1>9. Paired(tree, l, r)
    BY <1>6, <1>7, <1>8 DEF Paired
  <1> QED
    BY <1>6, <1>7, <1>9

LEMMA BindsArePaired ==
  ASSUME BaseInv
  PROVE  /\ config.binds \in Seq(FreshMounts) /\ BindTargets \in Seq(Outcomes)
         /\ Paired(tree, config.binds, BindTargets)
  <1> DEFINE b == config.binds
  <1>1. b \in Seq(FreshMounts) /\ TreeTypes(tree)
    BY DEF BaseInv, ConfigTypes
  <1>2. \A i \in DOMAIN b : b[i].what = "bind"
    BY DEF BaseInv, SourcesInv
  <1>3. BindTargets = [i \in DOMAIN b |-> Resolved(b[i].target)]
    BY DEF BindTargets
  <1> HIDE DEF b
  <1>4. DOMAIN b = 1..Len(b) /\ Len(b) \in Nat /\ \A i \in 1..Len(b) : b[i] \in FreshMounts
    BY <1>1
  <1>5. \A i \in 1..Len(b) : Resolved(b[i].target) \in Outcomes
    BY <1>1, <1>4, FreshIsNamed, PathsAreNamed, ResolveIsOutcome DEF Resolved
  <1>6. BindTargets \in Seq(Outcomes) /\ Len(BindTargets) = Len(b)
    BY <1>3, <1>4, <1>5
  <1>7. \A i \in DOMAIN b : BindTargets[i].at = Spot(tree, b[i])
    BY <1>2, <1>3 DEF Spot, Resolved
  <1>8. Paired(tree, b, BindTargets)
    BY <1>6, <1>7 DEF Paired
  <1> QED
    BY <1>1, <1>6, <1>8 DEF b

LEMMA TargetsPaired ==
  ASSUME BaseInv
  PROVE  Listed \in Seq(FreshMounts) /\ Targets \in Seq(Outcomes) /\ Paired(tree, Listed, Targets)
  <1>1. "bind" \in Names /\ "tmpfs" \in Names /\ "disk" \in Names
    BY DEF Names
  <1>2. /\ Disks \in Seq(FreshMounts) /\ DiskTargets \in Seq(Outcomes)
        /\ Paired(tree, Disks, DiskTargets)
    <2>1. config.disks \in Seq(TargetPaths)
      BY DEF BaseInv, ConfigTypes
    <2> DEFINE paths == config.disks
    <2>2. /\ [i \in DOMAIN paths |-> Mount("bind", paths[i], "disk")] \in Seq(FreshMounts)
          /\ [i \in DOMAIN paths |-> Resolved(paths[i])] \in Seq(Outcomes)
          /\ Paired(tree, [i \in DOMAIN paths |-> Mount("bind", paths[i], "disk")],
                   [i \in DOMAIN paths |-> Resolved(paths[i])])
      <3> DEFINE what == "bind"
                 source == "disk"
      <3>1. what \in Names /\ what # "dns" /\ source \in Names
        BY <1>1
      <3> HIDE DEF what, source, paths
      <3>2. /\ [i \in DOMAIN paths |-> Mount(what, paths[i], source)] \in Seq(FreshMounts)
            /\ [i \in DOMAIN paths |-> Resolved(paths[i])] \in Seq(Outcomes)
            /\ Paired(tree, [i \in DOMAIN paths |-> Mount(what, paths[i], source)],
                   [i \in DOMAIN paths |-> Resolved(paths[i])])
        BY <2>1, <3>1, ListPaired DEF paths
      <3> QED
        BY <3>2 DEF what, source
    <2> QED
      BY <2>2 DEF Disks, DiskTargets
  <1>3. /\ Tmpfs \in Seq(FreshMounts) /\ TmpfsTargets \in Seq(Outcomes)
        /\ Paired(tree, Tmpfs, TmpfsTargets)
    <2>1. config.tmpfs \in Seq(TargetPaths)
      BY DEF BaseInv, ConfigTypes
    <2> DEFINE paths == config.tmpfs
    <2>2. /\ [i \in DOMAIN paths |-> Mount("tmpfs", paths[i], "tmpfs")] \in Seq(FreshMounts)
          /\ [i \in DOMAIN paths |-> Resolved(paths[i])] \in Seq(Outcomes)
          /\ Paired(tree, [i \in DOMAIN paths |-> Mount("tmpfs", paths[i], "tmpfs")],
                   [i \in DOMAIN paths |-> Resolved(paths[i])])
      <3> DEFINE what == "tmpfs"
      <3>1. what \in Names /\ what # "dns"
        BY <1>1
      <3> HIDE DEF what, paths
      <3>2. /\ [i \in DOMAIN paths |-> Mount(what, paths[i], what)] \in Seq(FreshMounts)
            /\ [i \in DOMAIN paths |-> Resolved(paths[i])] \in Seq(Outcomes)
            /\ Paired(tree, [i \in DOMAIN paths |-> Mount(what, paths[i], what)],
                   [i \in DOMAIN paths |-> Resolved(paths[i])])
        BY <2>1, <3>1, ListPaired DEF paths
      <3> QED
        BY <3>2 DEF what
    <2> QED
      BY <2>2 DEF Tmpfs, TmpfsTargets
  <1>4. /\ Marks \in Seq(FreshMounts) /\ MarkTargets \in Seq(Outcomes)
        /\ Paired(tree, Marks, MarkTargets)
    BY MarksArePaired
  <1>5. /\ config.binds \in Seq(FreshMounts) /\ BindTargets \in Seq(Outcomes)
        /\ Paired(tree, config.binds, BindTargets)
    BY BindsArePaired
  <1> DEFINE b == config.binds
             one == Marks \o Disks
             ones == MarkTargets \o DiskTargets
             two == one \o b
             twos == ones \o BindTargets
  <1>6. one \in Seq(FreshMounts) /\ ones \in Seq(Outcomes) /\ Paired(tree, one, ones)
    BY <1>2, <1>4, PairedJoin
  <1> HIDE DEF one, ones
  <1>7. two \in Seq(FreshMounts) /\ twos \in Seq(Outcomes) /\ Paired(tree, two, twos)
    BY <1>5, <1>6, PairedJoin
  <1> HIDE DEF two, twos
  <1>8. /\ two \o Tmpfs \in Seq(FreshMounts) /\ twos \o TmpfsTargets \in Seq(Outcomes)
        /\ Paired(tree, two \o Tmpfs, twos \o TmpfsTargets)
    BY <1>3, <1>7, PairedJoin
  <1>9. Listed = two \o Tmpfs /\ Targets = twos \o TmpfsTargets
    BY TargetsAre DEF Listed, two, twos, one, ones, b
  <1> QED
    BY <1>8, <1>9

-----------------------------------------------------------------------------
(* What is not compared. *)

LEMMA WithoutIs ==
  ASSUME NEW S, NEW all \in Seq(S), NEW k \in 1..Len(all)
  PROVE  LET c == RemoveAt(all, k)
             place(i) == IF i < k THEN i ELSE i - 1
         IN \A i \in DOMAIN all : i # k => place(i) \in DOMAIN c /\ c[place(i)] = all[i]
  <1> DEFINE n == Len(all)
             a == SubSeq(all, 1, k - 1)
             b == SubSeq(all, k + 1, n)
             c == RemoveAt(all, k)
             place(i) == IF i < k THEN i ELSE i - 1
  <1>1. n \in Nat /\ DOMAIN all = 1..n /\ k \in 1..n
    OBVIOUS
  <1>2. a \in Seq(S) /\ Len(a) = k - 1 /\ \A i \in 1..k - 1 : a[i] = all[i]
    OBVIOUS
  <1>3. b \in Seq(S) /\ Len(b) = n - k /\ \A i \in 1..n - k : b[i] = all[k + i]
    OBVIOUS
  <1>4. c = a \o b
    BY DEF RemoveAt
  <1> HIDE DEF n, a, b, c
  <1>5. /\ c \in Seq(S) /\ Len(c) = Len(a) + Len(b) /\ \A i \in 1..Len(a) : c[i] = a[i]
        /\ \A i \in 1..Len(b) : c[Len(a) + i] = b[i]
    <2>1. a \in Seq(S) /\ b \in Seq(S)
      BY <1>2, <1>3
    <2> QED
      BY <1>4, <2>1, ConcatIs
  <1>6. DOMAIN c = 1..n - 1
    BY <1>1, <1>2, <1>3, <1>5
  <1>7. ASSUME NEW i \in DOMAIN all, i # k
        PROVE  place(i) \in DOMAIN c /\ c[place(i)] = all[i]
    <2>1. CASE i < k
      <3>1. i \in 1..k - 1 /\ i \in 1..n - 1
        BY <1>1, <2>1
      <3>2. c[i] = a[i] /\ a[i] = all[i]
        BY <1>2, <1>5, <3>1
      <3> QED
        BY <1>6, <2>1, <3>1, <3>2
    <2>2. CASE ~(i < k)
      <3>1. i - k \in 1..n - k /\ i - 1 \in 1..n - 1 /\ (k - 1) + (i - k) = i - 1 /\ k + (i - k) = i
        BY <1>1, <1>7, <2>2
      <3>2. c[(k - 1) + (i - k)] = b[i - k]
        BY <1>2, <1>3, <1>5, <3>1
      <3>3. b[i - k] = all[k + (i - k)]
        BY <1>3, <3>1
      <3>4. c[i - 1] = all[i]
        BY <3>1, <3>2, <3>3
      <3> QED
        BY <1>6, <2>2, <3>1, <3>4
    <2> QED
      BY <2>1, <2>2
  <1> QED
    BY <1>7 DEF c

Places(list) == [i \in DOMAIN list |-> list[i].at]

LEMMA ApartWithout ==
  ASSUME NEW S, NEW all \in Seq(S), NEW k \in 1..Len(all), Apart(Places(RemoveAt(all, k)))
  PROVE  \A i, j \in DOMAIN all : i # k /\ j # k /\ i # j => ~IsPrefix(all[i].at, all[j].at)
  <1> DEFINE c == RemoveAt(all, k)
             place(i) == IF i < k THEN i ELSE i - 1
             ats == Places(c)
  <1>1. \A i \in DOMAIN all : i # k => place(i) \in DOMAIN c /\ c[place(i)] = all[i]
    BY WithoutIs
  <1>2. DOMAIN ats = DOMAIN c /\ \A x \in DOMAIN c : ats[x] = c[x].at
    BY DEF Places
  <1>3. \A x, y \in DOMAIN ats : x # y => ~IsPrefix(ats[x], ats[y])
    BY DEF Apart
  <1>4. \A i, j \in DOMAIN all : i # k /\ j # k /\ i # j => place(i) # place(j)
    OBVIOUS
  <1> HIDE DEF c, place, ats
  <1> SUFFICES ASSUME NEW i \in DOMAIN all, NEW j \in DOMAIN all, i # k, j # k, i # j
               PROVE  ~IsPrefix(all[i].at, all[j].at)
    OBVIOUS
  <1>5. /\ place(i) \in DOMAIN c /\ c[place(i)] = all[i]
        /\ place(j) \in DOMAIN c /\ c[place(j)] = all[j] /\ place(i) # place(j)
    BY <1>1, <1>4
  <1> QED
    BY <1>2, <1>3, <1>5

\* /etc itself is not compared.
Skip == IF config.standard THEN 6 ELSE 0
Kept(list) == {list[i] : i \in {j \in DOMAIN list : j # Skip}}

LEMMA KeptJoined ==
  ASSUME NEW S, NEW a \in Seq(S), NEW b \in Seq(S), Len(a) >= Skip
  PROVE  /\ a \o b \in Seq(S) /\ Len(a \o b) >= Skip
         /\ \A x \in Kept(a) : x \in Kept(a \o b)
         /\ \A x \in Items(b) : x \in Kept(a \o b)
  <1> DEFINE c == a \o b
  <1>1. PICK m \in Nat : Len(a) = m /\ DOMAIN a = 1..m
    OBVIOUS
  <1>2. PICK k \in Nat : Len(b) = k /\ DOMAIN b = 1..k
    OBVIOUS
  <1>3. /\ c \in Seq(S) /\ Len(c) = Len(a) + Len(b)
    BY ConcatIs
  <1>4. /\ \A i \in DOMAIN a : i \in DOMAIN c /\ c[i] = a[i]
        /\ \A i \in DOMAIN b : Len(a) + i \in DOMAIN c /\ c[Len(a) + i] = b[i]
    BY JoinedItems
  <1>5. Skip \in {0, 6}
    BY DEF Skip
  <1> HIDE DEF c
  <1>6. ASSUME NEW x \in Kept(a) PROVE x \in Kept(c)
    BY <1>4, <1>6 DEF Kept
  <1>7. ASSUME NEW x \in Items(b) PROVE x \in Kept(c)
    <2>1. PICK i \in DOMAIN b : x = b[i]
      BY <1>7 DEF Items
    <2>2. m + i # Skip
      BY <1>1, <1>2, <1>5, <2>1
    <2> QED
      BY <1>1, <1>4, <2>1, <2>2 DEF Kept
  <1>8. Len(c) >= Skip
    BY <1>1, <1>2, <1>3, <1>5
  <1> QED
    BY <1>3, <1>6, <1>7, <1>8 DEF c

LEMMA MarksKept ==
  ASSUME BaseInv
  PROVE  /\ Len(Marks) >= Skip /\ Len(Marks) \in Nat
         /\ config.standard => /\ \A m \in Parts : m.what # "dns" /\ m # Cgroup => m \in Kept(Marks)
                               /\ Mark("resolv.conf") \in Kept(Marks) /\ Mark("hosts") \in Kept(Marks)
  <1>1. CASE ~config.standard
    BY <1>1 DEF Marks, Skip
  <1>2. CASE config.standard
    <2> DEFINE a == Mount("proc", <<"proc">>, "proc")
               b == Mount("bind", <<"dev">>, "dev")
               d == Mount("tmpfs", <<"tmp">>, "tmp")
               e == Mount("tmpfs", <<"run">>, "run")
               g == Mark("resolv.conf")
               h == Mark("hosts")
               S == {a, b, SysMount, d, e, EtcMark, g, h}
               first == <<a, b, SysMount, d, e>>
               last == <<EtcMark, g, h>>
               all == first \o last
    <2>1. Marks = all
      BY <1>2 DEF Marks, FirstMarks, LastMarks
    <2>2. first \in Seq(S) /\ last \in Seq(S) /\ Len(first) = 5 /\ Len(last) = 3
      OBVIOUS
    <2>3. /\ first[1] = a /\ first[2] = b /\ first[3] = SysMount /\ first[4] = d /\ first[5] = e
          /\ last[1] = EtcMark /\ last[2] = g /\ last[3] = h
      OBVIOUS
    <2>4. Parts = {a, b, SysMount, Cgroup, d, e, DnsMount}
      BY DEF Parts
    <2> HIDE DEF a, b, d, e, g, h, S, first, last
    <2>5. /\ all \in Seq(S) /\ Len(all) = Len(first) + Len(last)
          /\ \A i \in 1..Len(first) : all[i] = first[i]
          /\ \A i \in 1..Len(last) : all[Len(first) + i] = last[i]
      <3>1. first \in Seq(S) /\ last \in Seq(S)
        BY <2>2
      <3> QED
        BY <3>1, ConcatIs
    <2> HIDE DEF all
    <2>6. DOMAIN all = 1..8 /\ Len(all) = 8
      BY <2>2, <2>5
    <2>7. /\ all[1] = a /\ all[2] = b /\ all[3] = SysMount /\ all[4] = d /\ all[5] = e
          /\ all[5 + 2] = g /\ all[5 + 3] = h
      BY <2>2, <2>3, <2>5
    <2>8. Skip = 6
      BY <1>2 DEF Skip
    <2>9. \A x \in {a, b, SysMount, d, e, g, h} : x \in Kept(all)
      BY <2>6, <2>7, <2>8 DEF Kept
    <2>10. DnsMount.what = "dns"
      BY PartsDiffer
    <2> QED
      BY <1>2, <2>1, <2>4, <2>6, <2>8, <2>9, <2>10 DEF g, h
  <1> QED
    BY <1>1, <1>2

LEMMA KeptItems ==
  ASSUME BaseInv
  PROVE  /\ \A m \in Single : m \in Kept(Listed)
         /\ config.standard => Mark("resolv.conf") \in Kept(Listed) /\ Mark("hosts") \in Kept(Listed)
  <1> DEFINE b == config.binds
             one == Marks \o Disks
             two == one \o b
  <1>1. /\ Marks \in Seq(FreshMounts) /\ Disks \in Seq(FreshMounts) /\ b \in Seq(FreshMounts)
        /\ Tmpfs \in Seq(FreshMounts)
    BY MarksArePaired, ListsAreFresh DEF BaseInv
  <1>2. Len(Marks) >= Skip
    BY MarksKept
  <1>3. /\ one \in Seq(FreshMounts) /\ Len(one) >= Skip
        /\ \A x \in Kept(Marks) : x \in Kept(one)
        /\ \A x \in Items(Disks) : x \in Kept(one)
    BY <1>1, <1>2, KeptJoined
  <1> HIDE DEF one
  <1>4. /\ two \in Seq(FreshMounts) /\ Len(two) >= Skip
        /\ \A x \in Kept(one) : x \in Kept(two)
        /\ \A x \in Items(b) : x \in Kept(two)
    BY <1>1, <1>3, KeptJoined
  <1> HIDE DEF two
  <1>5. /\ \A x \in Kept(two) : x \in Kept(two \o Tmpfs)
        /\ \A x \in Items(Tmpfs) : x \in Kept(two \o Tmpfs)
    BY <1>1, <1>4, KeptJoined
  <1>6. Listed = two \o Tmpfs
    BY DEF Listed, two, one
  <1>7. \A x : x \in Kept(Marks) \/ x \in Items(Disks) \/ x \in Items(b) \/ x \in Items(Tmpfs)
                  => x \in Kept(Listed)
    BY <1>3, <1>4, <1>5, <1>6
  <1>8. ASSUME NEW m \in Single PROVE m \in Kept(Listed)
    <2>1. m \in Mounted /\ m.what # "dns" /\ m # Cgroup
      BY DEF Single, Shown
    <2>2. CASE m \in Items(Standard)
      <3>1. config.standard /\ m \in Parts
        BY <2>2, MountedItems
      <3> QED
        BY <1>7, <2>1, <3>1, MarksKept
    <2> QED
      BY <1>7, <2>1, <2>2, MountedItems
  <1> QED
    BY <1>7, <1>8, MarksKept

LEMMA ValidIs ==
  ASSUME BaseInv, Valid
  PROVE  /\ \A i \in DOMAIN Targets : Targets[i].at # <<>>
         /\ \A i, j \in DOMAIN Targets :
               i # Skip /\ j # Skip /\ i # j => ~IsPrefix(Targets[i].at, Targets[j].at)
  <1> DEFINE all == Targets
             compared == IF config.standard THEN RemoveAt(all, 6) ELSE all
  <1>1. /\ \A i \in DOMAIN all : all[i].at # <<>>
        /\ Apart([i \in DOMAIN compared |-> compared[i].at])
    BY DEF Valid
  <1>2. all \in Seq(Outcomes) /\ Len(all) = Len(Listed)
    BY TargetsPaired DEF Paired
  <1> HIDE DEF all
  <1>3. CASE config.standard
    <2>1. Apart(Places(RemoveAt(all, 6)))
      BY <1>1, <1>3 DEF Places
    <2>2. 6 \in 1..Len(all)
      <3> DEFINE b == config.binds
                 one == Marks \o Disks
                 two == one \o b
      <3>1. /\ Marks \in Seq(FreshMounts) /\ Disks \in Seq(FreshMounts) /\ b \in Seq(FreshMounts)
            /\ Tmpfs \in Seq(FreshMounts) /\ Len(Marks) >= Skip
        BY MarksArePaired, ListsAreFresh, MarksKept DEF BaseInv
      <3>2. one \in Seq(FreshMounts) /\ Len(one) >= Skip
        BY <3>1, KeptJoined
      <3> HIDE DEF one
      <3>3. two \in Seq(FreshMounts) /\ Len(two) >= Skip
        BY <3>1, <3>2, KeptJoined
      <3> HIDE DEF two
      <3>4. Len(two \o Tmpfs) >= Skip
        BY <3>1, <3>3, KeptJoined
      <3>5. Listed = two \o Tmpfs
        BY DEF Listed, two, one
      <3>6. Len(all) >= 6 /\ Len(all) \in Nat
        BY <1>2, <1>3, <3>4, <3>5 DEF Skip
      <3> QED
        BY <3>6
    <2>3. \A i, j \in DOMAIN all : i # 6 /\ j # 6 /\ i # j => ~IsPrefix(all[i].at, all[j].at)
      BY <1>2, <2>1, <2>2, ApartWithout
    <2> QED
      BY <1>1, <1>3, <2>3 DEF all, Skip
  <1>4. CASE ~config.standard
    <2> DEFINE ats == [i \in DOMAIN all |-> all[i].at]
    <2>1. Apart(ats)
      BY <1>1, <1>4
    <2>2. DOMAIN ats = DOMAIN all /\ \A i \in DOMAIN all : ats[i] = all[i].at
      OBVIOUS
    <2> HIDE DEF ats
    <2>3. \A i, j \in DOMAIN all : i # j => ~IsPrefix(all[i].at, all[j].at)
      BY <2>1, <2>2 DEF Apart
    <2> QED
      BY <1>1, <2>3 DEF all
  <1> QED
    BY <1>3, <1>4

LEMMA KeptApart ==
  ASSUME BaseInv, Valid
  PROVE  \A x, y \in Kept(Listed) :
            /\ Spot(tree, x) # <<>>
            /\ x # y => ~IsPrefix(Spot(tree, x), Spot(tree, y))
  <1>1. /\ Len(Listed) = Len(Targets) /\ Listed \in Seq(FreshMounts) /\ Targets \in Seq(Outcomes)
        /\ \A i \in DOMAIN Listed : Targets[i].at = Spot(tree, Listed[i])
    BY TargetsPaired DEF Paired
  <1>2. DOMAIN Listed = DOMAIN Targets
    BY <1>1
  <1> SUFFICES ASSUME NEW x \in Kept(Listed), NEW y \in Kept(Listed)
               PROVE  /\ Spot(tree, x) # <<>>
                      /\ x # y => ~IsPrefix(Spot(tree, x), Spot(tree, y))
    OBVIOUS
  <1>3. PICK i \in DOMAIN Listed : i # Skip /\ x = Listed[i]
    BY DEF Kept
  <1>4. PICK j \in DOMAIN Listed : j # Skip /\ y = Listed[j]
    BY DEF Kept
  <1> QED
    BY <1>1, <1>2, <1>3, <1>4, ValidIs

-----------------------------------------------------------------------------
(* What the checks establish. *)

At(t, m) == Resolve(t, m.target).at
EtcAt(t) == Resolve(t, <<"etc">>).at
DnsPlaces(t) == IF config.standard THEN {Append(EtcAt(t), name) : name \in {"resolv.conf", "hosts"}} ELSE {}

Separate(t) ==
    /\ \A m \in Single : At(t, m) # <<>>
    /\ \A m, o \in Single : m # o => ~IsPrefix(At(t, m), At(t, o))
    /\ \A m \in Single, d \in DnsPlaces(t) : ~IsPrefix(At(t, m), d) /\ ~IsPrefix(d, At(t, m))

\* What validate_resolved_mount_targets() compares is each declared mount but the cgroup hierarchy.
LEMMA ValidSeparates ==
  ASSUME BaseInv, Valid
  PROVE  Separate(tree)
  <1>1. ASSUME NEW m \in Single PROVE m \in Kept(Listed) /\ Spot(tree, m) = At(tree, m) /\ m.what # "dns"
    <2>1. m.what # "dns"
      BY DEF Single, Shown
    <2> QED
      BY <2>1, KeptItems DEF Spot, At
  <1>2. ASSUME NEW d \in DnsPlaces(tree)
        PROVE  \E x \in Kept(Listed) : Spot(tree, x) = d /\ x.what = "dns"
    <2>1. config.standard
      BY <1>2 DEF DnsPlaces
    <2>2. PICK name \in {"resolv.conf", "hosts"} : d = Append(EtcAt(tree), name)
      BY <1>2, <2>1 DEF DnsPlaces
    <2>3. Spot(tree, Mark(name)) = d
      BY <2>2, SpotOfMark DEF EtcAt
    <2>4. Mark(name) \in Kept(Listed)
      BY <2>1, <2>2, KeptItems
    <2>5. Mark(name).what = "dns"
      BY DEF Mark, Mount
    <2> QED
      BY <2>3, <2>4, <2>5
  <1>3. \A m \in Single : At(tree, m) # <<>>
    BY <1>1, KeptApart
  <1>4. \A m, o \in Single : m # o => ~IsPrefix(At(tree, m), At(tree, o))
    BY <1>1, KeptApart
  <1>5. ASSUME NEW m \in Single, NEW d \in DnsPlaces(tree)
        PROVE  ~IsPrefix(At(tree, m), d) /\ ~IsPrefix(d, At(tree, m))
    <2>1. PICK x \in Kept(Listed) : Spot(tree, x) = d /\ x.what = "dns"
      BY <1>2
    <2>2. m # x
      BY <1>1, <2>1
    <2> QED
      BY <1>1, <2>1, <2>2, KeptApart
  <1> QED
    BY <1>3, <1>4, <1>5 DEF Separate

HoldsIn(t, path, kind) == Resolves(t, path) /\ Kind(t, Resolve(t, path).at) = kind

Sound(t) ==
    /\ TreeTypes(t) /\ Separate(t)
    /\ \A m \in Mounted : Resolves(t, m.target)
    /\ config.standard => Kind(t, EtcAt(t)) = "dir"
    /\ HoldsIn(t, config.workdir, "dir") /\ HoldsIn(t, config.command, "tool")

\* Where the files for resolv.conf and hosts are mounted.
DnsPoints == {m.at : m \in {n \in Items(mounts) : n.what = "dns"}}

\* What is mounted, and waits to be, was prepared in t.
Laid(t) ==
    /\ Sound(t) /\ Overlaid(t, tree, DnsPoints)
    /\ \A x \in Items(mounts) : \/ \E m \in Shown : x = Prepared(t, m)
                                \/ x.what = "dns" /\ x.at \in DnsPlaces(t)
    /\ \A x \in Items(queue) : \E m \in Mounted : x = Prepared(t, m)
    /\ \A m \in Shown : Prepared(t, m) \in Items(mounts) \cup Items(queue)

DisksInv ==
    /\ queue = [n \in DOMAIN Disks |-> Prepared(tree, Disks[n])]
    /\ \A n \in DOMAIN Disks : Resolves(tree, Disks[n].target)

\* What each step has established.
StageInv ==
    /\ step \in {"workdir", "command", "validate", "prepare"} => DisksInv
    /\ step \in {"command", "validate", "prepare"} => HoldsIn(tree, config.workdir, "dir")
    /\ step \in {"validate", "prepare"} => HoldsIn(tree, config.command, "tool")
    /\ step = "prepare" => Valid
    /\ step \notin Entered \cup {"mount", "failed"} => mounts = <<>>
    /\ step \in Entered \cup {"mount"} => \E t : Laid(t)
    /\ step \in Entered => queue = <<>>

LaunchInv == BaseInv /\ StageInv

-----------------------------------------------------------------------------
(* The steps before anything is mounted. *)

LEMMA PreparedStays ==
  ASSUME NEW t, NEW v, Grown(t, v), TreeTypes(t), NEW m \in FreshMounts, Resolves(t, m.target)
  PROVE  Resolves(v, m.target) /\ Prepared(v, m) = Prepared(t, m)
  <1>1. m.target \in Seq(Names)
    BY FreshIsNamed, PathsAreNamed
  <1> DEFINE target == m.target
  <1>2. Resolve(t, target).error = ""
    BY DEF Resolves
  <1>3. Resolve(v, target) = Resolve(t, target)
    <2> HIDE DEF target
    <2>1. target \in Seq(Names) /\ Keeps(t, v)
      BY <1>1 DEF Grown, target
    <2> QED
      BY ONLY <1>2, <2>1, TreeTypes(t), ResolvedStays
  <1> QED
    BY <1>3 DEF Resolves, Prepared

LEMMA DisksPrepared ==
  ASSUME BaseInv, \A n \in DOMAIN Disks : DiskFits(n)
  PROVE  LET v == WithDisks(Len(Disks)).tree
         IN \A n \in DOMAIN Disks : /\ Resolves(v, Disks[n].target)
                                    /\ Prepared(WithDisks(n).tree, Disks[n]) = Prepared(v, Disks[n])
  <1> DEFINE v == WithDisks(Len(Disks)).tree
  <1> SUFFICES ASSUME NEW n \in DOMAIN Disks
               PROVE  /\ Resolves(v, Disks[n].target)
                      /\ Prepared(WithDisks(n).tree, Disks[n]) = Prepared(v, Disks[n])
    OBVIOUS
  <1>1. Disks \in Seq(FreshMounts) /\ TreeTypes(tree)
    BY ListsAreFresh DEF BaseInv
  <1>2. n \in 0..Len(Disks) /\ Len(Disks) \in 0..Len(Disks) /\ SubSeq(Disks, 1, Len(Disks)) = Disks
        /\ Disks[n] \in FreshMounts
    BY <1>1
  <1>3. v = Ensure(host, tree, Disks).tree
    BY <1>2 DEF WithDisks
  <1> DEFINE t == WithDisks(n).tree
  <1>4. Grown(tree, t) /\ Grown(t, v)
    BY <1>1, <1>2, <1>3, ListGrows DEF WithDisks
  <1>5. Resolves(t, Disks[n].target)
    BY DEF DiskFits, CanPrepare, Ready, Resolves
  <1>6. TreeTypes(t)
    BY <1>4 DEF Grown
  <1> DEFINE m == Disks[n]
  <1>7. m \in FreshMounts /\ Resolves(t, m.target)
    BY <1>2, <1>5
  <1> HIDE DEF v, t, m
  <1>8. Resolves(v, m.target) /\ Prepared(v, m) = Prepared(t, m)
    BY <1>4, <1>6, <1>7, PreparedStays
  <1> QED
    BY <1>8 DEF m, t

LEMMA MountsFit ==
  ASSUME BaseInv, StageInv, step = "prepare",
         \A i \in DOMAIN (Standard \o config.binds \o Tmpfs) :
            CanPrepare(tree, (Standard \o config.binds \o Tmpfs)[i])
  PROVE  Sound(tree)
  <1> DEFINE b == config.binds
             one == Standard \o b
             all == one \o Tmpfs
  <1>1. /\ Standard \in Seq(FreshMounts) /\ b \in Seq(FreshMounts) /\ Tmpfs \in Seq(FreshMounts)
    BY ListsAreFresh DEF BaseInv
  <1>2. one \in Seq(FreshMounts) /\ \A x : x \in Items(one) <=> x \in Items(Standard) \/ x \in Items(b)
    BY <1>1, ItemsJoined
  <1>3. \A i \in DOMAIN all : CanPrepare(tree, all[i])
    OBVIOUS
  <1> HIDE DEF one
  <1>4. \A x : x \in Items(all) <=> x \in Items(one) \/ x \in Items(Tmpfs)
    BY <1>1, <1>2, ItemsJoined
  <1> HIDE DEF all
  <1>5. \A x \in Items(all) : CanPrepare(tree, x)
    BY <1>3 DEF Items
  <1>6. \A x : x \in Items(Standard) \/ x \in Items(b) \/ x \in Items(Tmpfs) => CanPrepare(tree, x)
    BY <1>2, <1>4, <1>5
  <1>7. ASSUME NEW m \in Mounted PROVE Resolves(tree, m.target)
    <2>1. CASE m \in Items(Disks)
      BY <2>1 DEF Items, StageInv, DisksInv
    <2>2. CASE m \notin Items(Disks)
      <3>1. CanPrepare(tree, m)
        BY <1>6, <2>2, MountedItems
      <3> QED
        BY <3>1 DEF CanPrepare, Ready, Resolves
    <2> QED
      BY <2>1, <2>2
  <1>8. ASSUME config.standard PROVE Kind(tree, EtcAt(tree)) = "dir"
    <2>1. CanPrepare(tree, DnsMount)
      BY <1>6, <1>8, MountedItems DEF Parts
    <2>2. Fits(DnsMount, Kind(tree, Resolve(tree, DnsMount.target).at))
      BY <2>1 DEF CanPrepare, Ready
    <2>3. SourceKind(host, DnsMount) = "dir"
      BY PartsDiffer DEF SourceKind, BaseInv, SourcesInv
    <2>4. Resolve(tree, DnsMount.target).at = EtcAt(tree)
      BY PartsDiffer DEF EtcAt
    <2> QED
      BY <2>2, <2>3, <2>4 DEF Fits
  <1>9. Separate(tree)
    BY ValidSeparates DEF StageInv
  <1> QED
    BY <1>7, <1>8, <1>9 DEF Sound, BaseInv, StageInv

LEMMA QueueIsLaid ==
  ASSUME BaseInv, StageInv, step = "prepare"
  PROVE  LET all == Standard \o config.binds \o Tmpfs
             made == [i \in DOMAIN all |-> Prepared(tree, all[i])] \o queue
         IN /\ made \in Seq(NamedMounts)
            /\ \A x : x \in Items(made) <=> \E m \in Mounted : x = Prepared(tree, m)
  <1> DEFINE all == Standard \o config.binds \o Tmpfs
             first == [i \in DOMAIN all |-> Prepared(tree, all[i])]
             made == first \o queue
             P(m) == Prepared(tree, m)
  <1>1. /\ Standard \in Seq(FreshMounts) /\ config.binds \in Seq(FreshMounts)
        /\ Tmpfs \in Seq(FreshMounts) /\ Disks \in Seq(FreshMounts) /\ all \in Seq(FreshMounts)
    BY ListsAreFresh DEF BaseInv
  <1>2. \A x : x \in Items(all) <=> \/ x \in Items(Standard) \/ x \in Items(config.binds)
                                    \/ x \in Items(Tmpfs)
    <2> DEFINE b == config.binds
               one == Standard \o b
    <2>1. one \in Seq(FreshMounts) /\ \A x : x \in Items(one) <=> x \in Items(Standard) \/ x \in Items(b)
      BY <1>1, ItemsJoined
    <2>2. all = one \o Tmpfs
      OBVIOUS
    <2> HIDE DEF one, all
    <2>3. \A x : x \in Items(one \o Tmpfs) <=> x \in Items(one) \/ x \in Items(Tmpfs)
      BY <1>1, <2>1, ItemsJoined
    <2> QED
      BY <2>1, <2>2, <2>3
  <1>3. \A m \in FreshMounts : P(m) \in NamedMounts
    BY FreshIsNamed, PreparedIsNamed DEF BaseInv
  <1>4. queue = [n \in DOMAIN Disks |-> P(Disks[n])]
    BY DEF StageInv, DisksInv
  <1> HIDE DEF P
  <1>5. first = [i \in DOMAIN all |-> P(all[i])]
    BY DEF P
  <1> HIDE DEF all, first
  <1>6. \A list \in Seq(FreshMounts) :
           /\ [i \in DOMAIN list |-> P(list[i])] \in Seq(NamedMounts)
           /\ \A x : x \in Items([i \in DOMAIN list |-> P(list[i])]) <=> \E m \in Items(list) : x = P(m)
    <2> SUFFICES ASSUME NEW list \in Seq(FreshMounts)
                 PROVE  /\ [i \in DOMAIN list |-> P(list[i])] \in Seq(NamedMounts)
                        /\ \A x : x \in Items([i \in DOMAIN list |-> P(list[i])])
                                     <=> \E m \in Items(list) : x = P(m)
      OBVIOUS
    <2>1. DOMAIN list = 1..Len(list) /\ Len(list) \in Nat /\ \A i \in 1..Len(list) : list[i] \in FreshMounts
      OBVIOUS
    <2>2. [i \in DOMAIN list |-> P(list[i])] \in Seq(NamedMounts)
      BY <1>3, <2>1
    <2>3. \A x : x \in Items([i \in DOMAIN list |-> P(list[i])]) <=> \E m \in Items(list) : x = P(m)
      BY DEF Items
    <2> QED
      BY <2>2, <2>3
  <1>7. /\ first \in Seq(NamedMounts) /\ \A x : x \in Items(first) <=> \E m \in Items(all) : x = P(m)
        /\ queue \in Seq(NamedMounts) /\ \A x : x \in Items(queue) <=> \E m \in Items(Disks) : x = P(m)
    BY <1>1, <1>4, <1>5, <1>6
  <1>8. made \in Seq(NamedMounts) /\ \A x : x \in Items(made) <=> x \in Items(first) \/ x \in Items(queue)
    BY <1>7, ItemsJoined
  <1> HIDE DEF made
  <1>9. \A m : m \in Mounted <=> m \in Items(all) \/ m \in Items(Disks)
    BY <1>2, MountedItems
  <1>10. \A x : x \in Items(made) <=> \E m \in Mounted : x = P(m)
    BY <1>7, <1>8, <1>9
  <1> QED
    BY <1>8, <1>10 DEF made, first, all, P

LEMMA OverlaidBySelf ==
  ASSUME NEW t, NEW over
  PROVE  Overlaid(t, t, over)
  BY DEF Overlaid

\* What is mounted does not change.
LEMMA SoundStays ==
  ASSUME UNCHANGED config
  PROVE  /\ Mounted' = Mounted /\ Shown' = Shown /\ Single' = Single
         /\ \A t : DnsPlaces(t)' = DnsPlaces(t)
         /\ \A t : Sound(t)' <=> Sound(t)
  <1>1. Declared' = Declared
    BY DEF Declared, Standard, Tmpfs, Disks
  <1>2. Mounted' = Mounted
    BY <1>1 DEF Mounted, Items
  <1>3. Shown' = Shown /\ Single' = Single
    BY <1>2 DEF Shown, Single
  <1>4. \A t : DnsPlaces(t)' = DnsPlaces(t)
    BY DEF DnsPlaces, EtcAt
  <1>5. \A t : Separate(t)' <=> Separate(t)
    BY <1>3, <1>4 DEF Separate, At
  <1>6. \A t : Sound(t)' <=> Sound(t)
    BY <1>2, <1>5 DEF Sound, EtcAt, HoldsIn
  <1> QED
    BY <1>2, <1>3, <1>4, <1>6

LEMMA PreparedIsLaid ==
  ASSUME BaseInv, StageInv, PrepareMounts, step' = "mount"
  PROVE  queue' \in Seq(NamedMounts) /\ \E t : Laid(t)'
  <1> DEFINE all == Standard \o config.binds \o Tmpfs
             made == [i \in DOMAIN all |-> Prepared(tree, all[i])] \o queue
  <1>1. /\ step = "prepare" /\ queue' = made /\ \A i \in DOMAIN all : CanPrepare(tree, all[i])
        /\ UNCHANGED <<config, host, tree, namespace, outer, mounts>>
    BY DEF PrepareMounts
  <1>2. Sound(tree)
    BY <1>1, MountsFit
  <1>3. /\ made \in Seq(NamedMounts)
        /\ \A x : x \in Items(made) <=> \E m \in Mounted : x = Prepared(tree, m)
    BY <1>1, <1>2, QueueIsLaid
  <1> HIDE DEF made, all
  <1>4. mounts' = <<>>
    BY <1>1 DEF StageInv, Entered
  <1>5. PICK t : t = tree
    OBVIOUS
  <1>6. Sound(t)'
    BY <1>1, <1>2, <1>5, SoundStays
  <1>7. Overlaid(t, tree', DnsPoints')
    BY <1>1, <1>5, OverlaidBySelf
  <1>8. Items(mounts') = {}
    BY <1>4 DEF Items
  <1>9. \A x : x \in Items(queue') <=> \E m \in Mounted : x = Prepared(t, m)
    BY <1>1, <1>3, <1>5
  <1>10. /\ \A x \in Items(queue') : \E m \in Mounted' : x = Prepared(t, m)
         /\ \A m \in Shown' : Prepared(t, m) \in Items(mounts') \cup Items(queue')
    BY <1>1, <1>9, SoundStays DEF Shown
  <1>11. Laid(t)'
    BY <1>6, <1>7, <1>8, <1>10 DEF Laid
  <1> QED
    BY <1>1, <1>3, <1>11

LEMMA LaidStays ==
  ASSUME UNCHANGED <<config, tree, queue, mounts>>, NEW t, Laid(t)
  PROVE  Laid(t)'
  <1>1. /\ Mounted' = Mounted /\ Shown' = Shown /\ DnsPlaces(t)' = DnsPlaces(t)
        /\ Sound(t)' <=> Sound(t)
    BY SoundStays
  <1>2. Items(mounts') = Items(mounts) /\ Items(queue') = Items(queue) /\ DnsPoints' = DnsPoints
    BY DEF DnsPoints, Items
  <1> QED
    BY <1>1, <1>2 DEF Laid

LEMMA StageKept ==
  ASSUME UNCHANGED <<config, tree, queue, mounts>>
  PROVE  /\ DisksInv => DisksInv'
         /\ HoldsIn(tree, config.workdir, "dir") => HoldsIn(tree', config.workdir', "dir")
         /\ HoldsIn(tree, config.command, "tool") => HoldsIn(tree', config.command', "tool")
         /\ Valid => Valid'
         /\ (\E t : Laid(t)) => (\E t : Laid(t)')
  <1>1. DisksInv => DisksInv'
    BY DEF DisksInv, Disks
  <1>2. Valid => Valid'
    <2>1. Targets' = Targets
      BY DEF Targets, Resolved, Etc
    <2> QED
      BY <2>1 DEF Valid
  <1>3. (\E t : Laid(t)) => (\E t : Laid(t)')
    BY LaidStays
  <1> QED
    BY <1>1, <1>2, <1>3

\* A step that goes on where nothing is mounted yet.
LEMMA EarlySteps ==
  ASSUME StageInv, mounts' = mounts, step \in {"lower", "sources", "unshare", "private", "device", "overlay", "targets"},
         step' \in {"sources", "unshare", "private", "device", "overlay", "targets", "disks", "failed"}
  PROVE  StageInv'
  <1>1. mounts' = <<>>
    BY DEF StageInv, Entered
  <1> QED
    BY <1>1 DEF StageInv, Entered

LEMMA FailedStage ==
  ASSUME step' = "failed"
  PROVE  StageInv'
  BY DEF StageInv, Entered

LEMMA CheckedSteps ==
  ASSUME StageInv, PrepareWorkdir \/ PrepareExecutable \/ ValidateTargets
  PROVE  StageInv'
  <1>1. CASE PrepareWorkdir
    <2>1. /\ step = "workdir" /\ step' \in {"command", "failed"}
          /\ UNCHANGED <<config, host, tree, namespace, outer, queue, mounts>>
          /\ step' = "command" => Holds(config.workdir, IsWorkdir)
      BY <1>1 DEF PrepareWorkdir, Check
    <2>2. CASE step' = "command"
      <3>1. HoldsIn(tree, config.workdir, "dir")
        BY <2>1, <2>2 DEF Holds, IsWorkdir, HoldsIn, Resolves
      <3>2. DisksInv /\ mounts = <<>>
        BY <2>1 DEF StageInv, Entered
      <3>3. DisksInv' /\ HoldsIn(tree', config.workdir', "dir") /\ mounts' = <<>>
        BY <2>1, <3>1, <3>2, StageKept
      <3> QED
        BY <2>2, <3>3 DEF StageInv, Entered
    <2> QED
      BY <2>1, <2>2, FailedStage
  <1>2. CASE PrepareExecutable
    <2>1. /\ step = "command" /\ step' \in {"validate", "failed"}
          /\ UNCHANGED <<config, host, tree, namespace, outer, queue, mounts>>
          /\ step' = "validate" => Holds(config.command, IsExecutable)
      BY <1>2 DEF PrepareExecutable, Check
    <2>2. CASE step' = "validate"
      <3>1. HoldsIn(tree, config.command, "tool")
        BY <2>1, <2>2 DEF Holds, IsExecutable, HoldsIn, Resolves
      <3>2. DisksInv /\ mounts = <<>> /\ HoldsIn(tree, config.workdir, "dir")
        BY <2>1 DEF StageInv, Entered
      <3>3. /\ DisksInv' /\ HoldsIn(tree', config.workdir', "dir") /\ mounts' = <<>>
            /\ HoldsIn(tree', config.command', "tool")
        BY <2>1, <3>1, <3>2, StageKept
      <3> QED
        BY <2>2, <3>3 DEF StageInv, Entered
    <2> QED
      BY <2>1, <2>2, FailedStage
  <1>3. CASE ValidateTargets
    <2>1. /\ step = "validate" /\ step' \in {"prepare", "failed"}
          /\ UNCHANGED <<config, host, tree, namespace, outer, queue, mounts>>
          /\ step' = "prepare" => Valid
      BY <1>3 DEF ValidateTargets, Check
    <2>2. CASE step' = "prepare"
      <3>1. /\ DisksInv /\ mounts = <<>> /\ HoldsIn(tree, config.workdir, "dir")
            /\ HoldsIn(tree, config.command, "tool")
        BY <2>1 DEF StageInv, Entered
      <3>2. /\ DisksInv' /\ HoldsIn(tree', config.workdir', "dir") /\ mounts' = <<>>
            /\ HoldsIn(tree', config.command', "tool") /\ Valid'
        BY <2>1, <2>2, <3>1, StageKept
      <3> QED
        BY <2>2, <3>2 DEF StageInv, Entered
    <2> QED
      BY <2>1, <2>2, FailedStage
  <1> QED
    BY <1>1, <1>2, <1>3

LEMMA EnteredSteps ==
  ASSUME StageInv, EnterRootfs \/ ChangeDirectory \/ Exec
  PROVE  StageInv'
  <1>1. /\ step \in Entered \cup {"mount"} /\ step' \in Entered /\ queue = <<>>
        /\ UNCHANGED <<config, host, tree, namespace, outer, queue, mounts>>
    BY DEF EnterRootfs, ChangeDirectory, Exec, Goes, StageInv, Entered
  <1>2. \E t : Laid(t)
    BY <1>1 DEF StageInv
  <1>3. (\E t : Laid(t)') /\ queue' = <<>>
    BY <1>1, <1>2, StageKept
  <1> QED
    BY <1>1, <1>3 DEF StageInv, Entered

\* What no step but those that make targets and mounts changes.
LEMMA QuietStages ==
  ASSUME StageInv, \/ ReadLower \/ PrepareBindSources \/ Unshare \/ MakeMountsPrivate
                   \/ PrepareOverlayBase \/ MountOverlayRootfs \/ PrepareWorkdir \/ PrepareExecutable
                   \/ ValidateTargets \/ EnterRootfs \/ ChangeDirectory \/ Exec \/ Fail
  PROVE  StageInv'
  <1>1. CASE ReadLower \/ PrepareBindSources \/ Unshare \/ MakeMountsPrivate
    <2>1. /\ mounts' = mounts
          /\ step \in {"lower", "sources", "unshare", "private", "device", "overlay", "targets"}
          /\ step' \in {"sources", "unshare", "private", "device", "overlay", "targets", "disks", "failed"}
      BY <1>1 DEF ReadLower, PrepareBindSources, Unshare, MakeMountsPrivate, Goes
    <2> QED
      BY <2>1, EarlySteps
  <1>2. CASE PrepareOverlayBase \/ MountOverlayRootfs
    <2>1. /\ mounts' = mounts
          /\ step \in {"lower", "sources", "unshare", "private", "device", "overlay", "targets"}
          /\ step' \in {"sources", "unshare", "private", "device", "overlay", "targets", "disks", "failed"}
      BY <1>2 DEF PrepareOverlayBase, MountOverlayRootfs, Goes
    <2> QED
      BY <2>1, EarlySteps
  <1>3. CASE Fail
    <2>1. step' = "failed"
      BY <1>3 DEF Fail, Refuse
    <2> QED
      BY <2>1, FailedStage
  <1> QED
    BY <1>1, <1>2, <1>3, CheckedSteps, EnteredSteps

-----------------------------------------------------------------------------
(* The steps that make targets and mounts. *)

LEMMA TargetsMade ==
  ASSUME LaunchInv, PrepareBindTargets \/ PrepareDiskBinds
  PROVE  LaunchInv' /\ OutsideKept
  <1>0. BaseInv /\ StageInv /\ TreeTypes(tree) /\ NamespaceInv /\ queue \in Seq(NamedMounts)
    BY DEF LaunchInv, BaseInv
  <1>1. CASE PrepareBindTargets
    <2>1. /\ step = "targets" /\ step' \in {"disks", "failed"} /\ tree' = Ensure(host, tree, Binds).tree
          /\ UNCHANGED <<config, host, namespace, outer, queue, mounts>>
      BY <1>1 DEF PrepareBindTargets
    <2>2. Binds \in Seq(FreshMounts)
      BY <1>0, ListsAreFresh DEF BaseInv
    <2>3. Grown(tree, tree')
      <3>1. 0 \in 0..Len(Binds) /\ Len(Binds) \in 0..Len(Binds) /\ SubSeq(Binds, 1, Len(Binds)) = Binds
        BY <2>2
      <3>2. Grown(tree, Ensure(host, tree, SubSeq(Binds, 1, Len(Binds))).tree)
        BY <1>0, <2>2, <3>1, ListGrows
      <3> QED
        BY <2>1, <3>1, <3>2
    <2>4. NamespaceInv'
      BY <1>0, <2>1 DEF NamespaceInv
    <2>5. BaseInv' /\ OutsideKept
      BY <1>0, <2>1, <2>3, <2>4, GrowthIsKept DEF BaseInv
    <2>6. StageInv'
      BY <1>0, <2>1, EarlySteps
    <2> QED
      BY <2>5, <2>6 DEF LaunchInv
  <1>2. CASE PrepareDiskBinds
    <2>1. step = "disks" /\ UNCHANGED <<config, host, namespace, outer, mounts>>
      BY <1>2 DEF PrepareDiskBinds
    <2>2. Disks \in Seq(FreshMounts)
      BY <1>0, ListsAreFresh DEF BaseInv
    <2>3. \A n \in 0..Len(Disks) : Grown(tree, WithDisks(n).tree)
      BY <1>0, <2>2, ListGrows DEF WithDisks
    <2>4. DOMAIN Disks = 1..Len(Disks) /\ Len(Disks) \in Nat
      BY <2>2
    <2>5. CASE /\ \A n \in DOMAIN Disks : DiskFits(n)
               /\ step' = "workdir"
               /\ tree' = WithDisks(Len(Disks)).tree
               /\ queue' = [n \in DOMAIN Disks |-> Prepared(WithDisks(n).tree, Disks[n])]
      <3>1. Grown(tree, tree')
        BY <2>3, <2>4, <2>5
      <3>2. \A n \in DOMAIN Disks :
               /\ Resolves(tree', Disks[n].target)
               /\ Prepared(WithDisks(n).tree, Disks[n]) = Prepared(tree', Disks[n])
        BY <1>0, <2>5, DisksPrepared
      <3>3. queue' = [n \in DOMAIN Disks |-> Prepared(tree', Disks[n])]
        BY <2>5, <3>2
      <3>4. Disks' = Disks
        BY <2>1 DEF Disks
      <3>5. DisksInv'
        BY <3>2, <3>3, <3>4 DEF DisksInv
      <3>6. mounts' = <<>>
        BY <1>0, <2>1 DEF StageInv, Entered
      <3>7. StageInv'
        BY <2>5, <3>5, <3>6 DEF StageInv, Entered
      <3>8. queue' \in Seq(NamedMounts)
        <4> DEFINE P(n) == Prepared(tree', Disks[n])
        <4>1. \A n \in DOMAIN Disks : Disks[n] \in NamedMounts
          BY <2>2, <2>4, FreshIsNamed
        <4>2. TreeTypes(tree')
          BY <3>1 DEF Grown
        <4>3. \A n \in DOMAIN Disks : P(n) \in NamedMounts
          BY <4>1, <4>2, PreparedIsNamed
        <4>4. queue' = [n \in DOMAIN Disks |-> P(n)]
          BY <3>3
        <4> HIDE DEF P
        <4> QED
          BY <2>4, <4>3, <4>4
      <3>9. NamespaceInv'
        BY <1>0, <2>1, <2>5 DEF NamespaceInv
      <3>10. mounts' \in Seq(NamedMounts)
        BY <1>0, <2>1 DEF BaseInv
      <3>11. BaseInv' /\ OutsideKept
        BY <1>0, <2>1, <3>1, <3>8, <3>9, <3>10, GrowthIsKept
      <3> QED
        BY <3>7, <3>11 DEF LaunchInv
    <2>6. CASE \E n \in DOMAIN Disks :
                  /\ \A i \in 1..n : DiskFits(i) = (i # n)
                  /\ step' = "failed"
                  /\ tree' = WithDisks(n).tree
                  /\ UNCHANGED queue
      <3>1. PICK n \in DOMAIN Disks : step' = "failed" /\ tree' = WithDisks(n).tree /\ UNCHANGED queue
        BY <2>6
      <3>2. Grown(tree, tree')
        BY <2>3, <2>4, <3>1
      <3>3. NamespaceInv' /\ StageInv'
        BY <1>0, <2>1, <3>1, FailedStage DEF NamespaceInv
      <3>4. BaseInv' /\ OutsideKept
        BY <1>0, <2>1, <3>1, <3>2, <3>3, GrowthIsKept DEF BaseInv
      <3> QED
        BY <3>3, <3>4 DEF LaunchInv
    <2> QED
      BY <1>2, <2>5, <2>6, Zenon DEF PrepareDiskBinds
  <1> QED
    BY <1>1, <1>2

LEMMA MountsPrepared ==
  ASSUME LaunchInv, PrepareMounts
  PROVE  LaunchInv' /\ OutsideKept
  <1> DEFINE all == Standard \o config.binds \o Tmpfs
             made == [i \in DOMAIN all |-> Prepared(tree, all[i])] \o queue
  <1>0. BaseInv /\ StageInv /\ TreeTypes(tree) /\ NamespaceInv
    BY DEF LaunchInv, BaseInv
  <1>1. /\ step = "prepare" /\ step' \in {"mount", "failed"} /\ queue' = made
        /\ UNCHANGED <<config, host, tree, namespace, outer, mounts>>
    BY DEF PrepareMounts
  <1>2. made \in Seq(NamedMounts)
    BY <1>0, <1>1, QueueIsLaid
  <1> HIDE DEF made, all
  <1>3. Grown(tree, tree')
    BY <1>0, <1>1, NoneGrown
  <1>4. NamespaceInv'
    BY <1>0, <1>1 DEF NamespaceInv
  <1>5. BaseInv' /\ OutsideKept
    BY <1>0, <1>1, <1>2, <1>3, <1>4, GrowthIsKept DEF BaseInv
  <1>6. CASE step' = "mount"
    <2>1. \E t : Laid(t)'
      BY <1>0, <1>6, PreparedIsLaid
    <2>2. StageInv'
      BY <1>6, <2>1 DEF StageInv, Entered
    <2> QED
      BY <1>5, <2>2 DEF LaunchInv
  <1> QED
    BY <1>1, <1>5, <1>6, FailedStage DEF LaunchInv

-----------------------------------------------------------------------------
(* The files for resolv.conf and hosts. *)

\* v has what t has, but for links at the places ps.
LinksOnly(t, v, ps) == /\ TreeTypes(v)
                       /\ \A q \in DOMAIN t : \/ q \in DOMAIN v /\ v[q] = t[q]
                                              \/ q \in ps /\ t[q].kind = "link"

\* A name in a directory, where there is no directory.
Vacant(t, a, p) == /\ TreeTypes(t) /\ a \in Seq(Plain) /\ Kind(t, a) = "dir"
                   /\ p \in Seq(Plain) /\ p # <<>> /\ Front(p) = a /\ Kind(t, p) # "dir"

LEMMA OverlaidTwice ==
  ASSUME NEW t, NEW v, NEW w, NEW a, NEW b, Overlaid(t, v, a), Overlaid(v, w, b)
  PROVE  Overlaid(t, w, a \cup b)
  BY DEF Overlaid

LEMMA LinksOnlyTwice ==
  ASSUME NEW t, NEW v, NEW w, NEW a, NEW b, LinksOnly(t, v, a), LinksOnly(v, w, b)
  PROVE  LinksOnly(t, w, a \cup b)
  BY DEF LinksOnly

LEMMA RegularIs ==
  ASSUME NEW t, NEW a, NEW p, Vacant(t, a, p)
  PROVE  LinksOnly(t, Regular(t, p), {p}) /\ Overlaid(t, Regular(t, p), {p})
  <1>1. CASE IsFile(Kind(t, p))
    <2>1. Regular(t, p) = t
      BY <1>1 DEF Regular
    <2>2. LinksOnly(t, t, {p}) /\ Overlaid(t, t, {p})
      BY OverlaidBySelf DEF LinksOnly, Vacant
    <2> QED
      BY <2>1, <2>2
  <1>2. CASE ~IsFile(Kind(t, p))
    <2> DEFINE v == Add(t, p, File)
    <2>1. p # <<>> /\ TreeTypes(t) /\ p \in Seq(Plain) /\ Front(p) = a /\ Kind(t, a) = "dir"
          /\ Kind(t, p) # "dir" /\ a # p
      BY DEF Vacant
    <2>2. p \in DOMAIN t => t[p].kind = "link"
      BY <1>2, <2>1 DEF IsFile, Kind, TreeTypes, Kinds
    <2>3. DOMAIN v = DOMAIN t \cup {p} /\ v[p] = File /\ \A q \in DOMAIN t : q # p => v[q] = t[q]
      BY DEF Add
    <2>4. File.kind \in Kinds /\ File.to \in Seq(Names) /\ File.kind = "file"
      <3>1. File.kind = "file" /\ File.to = <<>>
        BY DEF File, Node
      <3>2. <<>> \in Seq(Names)
        OBVIOUS
      <3> QED
        BY <3>1, <3>2 DEF Kinds
    <2>5. \A q : Kind(v, q) = IF q = p THEN File.kind ELSE Kind(t, q)
      BY <2>1, KindsOfAdded
    <2>6. Regular(t, p) = v
      BY <1>2 DEF Regular
    <2> HIDE DEF v
    <2>7. TreeTypes(v)
      <3> SUFFICES ASSUME NEW q \in DOMAIN v
                   PROVE  /\ q \in Seq(Plain) /\ q # <<>> /\ Kind(v, Front(q)) = "dir"
                          /\ v[q].kind \in Kinds /\ v[q].to \in Seq(Names)
        BY DEF TreeTypes
      <3>1. CASE q = p
        BY <2>1, <2>3, <2>4, <2>5, <3>1
      <3>2. CASE q # p
        <4>1. q \in DOMAIN t /\ v[q] = t[q] /\ Kind(t, Front(q)) = "dir"
          BY <2>1, <2>3, <3>2 DEF TreeTypes
        <4>2. Kind(v, Front(q)) = "dir"
          BY <2>1, <2>5, <4>1
        <4> QED
          BY <2>1, <4>1, <4>2 DEF TreeTypes
      <3> QED
        BY <3>1, <3>2
    <2>8. LinksOnly(t, v, {p})
      BY <2>2, <2>3, <2>7 DEF LinksOnly
    <2>9. Overlaid(t, v, {p})
      <3>1. \A q : q # p /\ Kind(t, q) = "link" => v[q] = t[q]
        BY <2>3 DEF Kind
      <3> QED
        BY <2>4, <2>5, <3>1 DEF Overlaid
    <2> QED
      BY <2>6, <2>8, <2>9
  <1> QED
    BY <1>1, <1>2

LEMMA RemovedIsLink ==
  ASSUME NEW t, TreeTypes(t), NEW p, p # <<>>
  PROVE  LinksOnly(t, Removed(t, p), {p})
  <1>1. CASE Kind(t, p) = "link"
    <2> DEFINE v == [q \in DOMAIN t \ {p} |-> t[q]]
    <2>1. Removed(t, p) = v
      BY <1>1 DEF Removed
    <2>2. DOMAIN v = DOMAIN t \ {p} /\ \A q \in DOMAIN v : v[q] = t[q]
      OBVIOUS
    <2>3. p \in DOMAIN t => t[p].kind = "link"
      BY <1>1 DEF Kind
    <2> HIDE DEF v
    <2>4. TreeTypes(v)
      <3> SUFFICES ASSUME NEW q \in DOMAIN v
                   PROVE  /\ q \in Seq(Plain) /\ q # <<>> /\ Kind(v, Front(q)) = "dir"
                          /\ v[q].kind \in Kinds /\ v[q].to \in Seq(Names)
        BY DEF TreeTypes
      <3>1. /\ q \in DOMAIN t /\ v[q] = t[q] /\ Kind(t, Front(q)) = "dir"
            /\ q \in Seq(Plain) /\ q # <<>> /\ t[q].kind \in Kinds /\ t[q].to \in Seq(Names)
        BY <2>2 DEF TreeTypes
      <3>2. Front(q) # p
        BY <1>1, <3>1
      <3>3. Kind(v, Front(q)) = "dir"
        BY <2>2, <3>1, <3>2 DEF Kind
      <3> QED
        BY <3>1, <3>3
    <2> QED
      BY <2>1, <2>2, <2>3, <2>4 DEF LinksOnly
  <1>2. CASE Kind(t, p) # "link"
    BY <1>2 DEF Removed, LinksOnly
  <1> QED
    BY <1>1, <1>2

\* A second name in the same directory stays as it is, or has become a file.
LEMMA VacantStays ==
  ASSUME NEW t, NEW a, NEW p, NEW q, Vacant(t, a, p), Vacant(t, a, q)
  PROVE  Vacant(Regular(t, p), a, q)
  <1> DEFINE v == Regular(t, p)
  <1>1. LinksOnly(t, v, {p}) /\ Overlaid(t, v, {p})
    BY RegularIs
  <1> HIDE DEF v
  <1>2. a # p
    BY DEF Vacant
  <1>3. Kind(v, a) = Kind(t, a) /\ Kind(v, q) # "dir"
    BY <1>1, <1>2 DEF Overlaid, Vacant
  <1> QED
    BY <1>1, <1>3 DEF Vacant, LinksOnly, v

LEMMA DnsTargets ==
  ASSUME NEW m \in NamedMounts, NEW i \in {1, 2}
  PROVE  /\ DnsTarget(m, i) \in Seq(Plain) /\ DnsTarget(m, i) # <<>> /\ Front(DnsTarget(m, i)) = m.at
         /\ Last(DnsTarget(m, i)) \in {"resolv.conf", "hosts"}
         /\ \E name \in {"resolv.conf", "hosts"} : DnsTarget(m, i) = Append(m.at, name)
  <1>1. m.at \in Seq(Plain)
    BY PathsAreNamed
  <1>2. DnsNames[1] = "resolv.conf" /\ DnsNames[2] = "hosts"
    BY DEF DnsNames
  <1>3. DnsNames[i] \in {"resolv.conf", "hosts"}
    BY <1>2
  <1> DEFINE name == DnsNames[i]
  <1>4. name \in Plain
    BY <1>3 DEF Plain, Names
  <1>5. DnsTarget(m, i) = Append(m.at, name)
    BY DEF DnsTarget
  <1> HIDE DEF name
  <1>6. /\ Append(m.at, name) \in Seq(Plain) /\ Append(m.at, name) # <<>>
        /\ Front(Append(m.at, name)) = m.at /\ Last(Append(m.at, name)) = name
    BY <1>1, <1>4, AppendedIs
  <1> QED
    BY <1>3, <1>5, <1>6 DEF name

LEMMA LinksAreKept ==
  ASSUME BaseInv, NEW m \in NamedMounts,
         LinksOnly(tree, tree', {DnsTarget(m, 1), DnsTarget(m, 2)}),
         queue' \in Seq(NamedMounts), mounts' \in Seq(NamedMounts), NamespaceInv',
         UNCHANGED <<config, host>>
  PROVE  BaseInv' /\ OutsideKept
  <1>1. ImageIsKept
    <2>1. \A p \in {DnsTarget(m, 1), DnsTarget(m, 2)} : Last(p) \in {"resolv.conf", "hosts"}
      BY DnsTargets
    <2> QED
      BY <2>1 DEF LinksOnly, ImageIsKept
  <1>2. TreeTypes(tree')
    BY DEF LinksOnly
  <1>3. ConfigTypes' /\ SourcesInv'
    BY DEF BaseInv, ConfigTypes, SourcesInv
  <1>4. outer' = {} /\ HostOnlyGainsSources
    BY DEF NamespaceInv, HostOnlyGainsSources
  <1> QED
    BY <1>1, <1>2, <1>3, <1>4 DEF OutsideKept, BaseInv

LEMMA HeadIsItem ==
  ASSUME NEW S, NEW list \in Seq(S), list # <<>>
  PROVE  /\ Head(list) \in S /\ Tail(list) \in Seq(S)
         /\ \A x : x \in Items(list) <=> x = Head(list) \/ x \in Items(Tail(list))
  <1> DEFINE a == <<Head(list)>>
             b == Tail(list)
  <1>1. Head(list) \in S /\ b \in Seq(S) /\ a \in Seq(S) /\ list = a \o b
    OBVIOUS
  <1>2. Items(a) = {Head(list)}
    BY DEF Items
  <1> HIDE DEF a, b
  <1>3. \A x : x \in Items(a \o b) <=> x \in Items(a) \/ x \in Items(b)
    BY <1>1, ItemsJoined
  <1> QED
    BY <1>1, <1>2, <1>3 DEF b

LEMMA DnsPointsAre ==
  ASSUME BaseInv, NEW t, Laid(t)
  PROVE  DnsPoints \subseteq DnsPlaces(t)
  <1> SUFFICES ASSUME NEW y \in Items(mounts), y.what = "dns" PROVE y.at \in DnsPlaces(t)
    BY DEF DnsPoints
  <1>1. ASSUME NEW o \in Shown, y = Prepared(t, o) PROVE FALSE
    <2>1. o \in FreshMounts /\ o.what # "dns"
      BY MountedAre DEF Shown
    <2>2. Prepared(t, o).what = o.what
      BY <2>1 DEF Prepared, FreshMounts
    <2> QED
      BY <1>1, <2>1, <2>2
  <1> QED
    BY <1>1 DEF Laid

\* The parts of Laid that a mount uses.
LEMMA LaidIs ==
  ASSUME BaseInv, NEW t, Laid(t), NEW m \in Items(queue)
  PROVE  /\ DnsPoints \subseteq DnsPlaces(t)
         /\ m.what = "dns" => /\ config.standard /\ m.at = EtcAt(t)
                              /\ Kind(tree, m.at) = "dir"
         /\ m.what # "dns" => \E x \in Shown : m = Prepared(t, x)
  <1>1. PICK x \in Mounted : m = Prepared(t, x)
    BY DEF Laid
  <1>2. m.what = x.what /\ m.at = At(t, x)
    <2>1. x \in FreshMounts
      BY MountedAre
    <2> QED
      BY <1>1, <2>1 DEF Prepared, At, FreshMounts
  <1>3. DnsPoints \subseteq DnsPlaces(t)
    BY DnsPointsAre
  <1>4. ASSUME m.what = "dns"
        PROVE  config.standard /\ m.at = EtcAt(t) /\ Kind(tree, m.at) = "dir"
    <2>1. config.standard /\ x = DnsMount
      BY <1>2, <1>4, MountedAre
    <2>2. m.at = EtcAt(t) /\ Kind(t, EtcAt(t)) = "dir"
      BY <1>2, <2>1, PartsDiffer DEF At, EtcAt, Laid, Sound
    <2>3. EtcAt(t) \notin DnsPlaces(t)
      <3>1. EtcAt(t) \in Seq(Plain)
        <4>1. <<"etc">> \in Seq(Names)
          BY DEF Names
        <4> QED
          BY <4>1, ResolvedIsThere DEF EtcAt, Laid, Sound
      <3> DEFINE a == EtcAt(t)
      <3> HIDE DEF a
      <3>2. \A name \in Plain : Append(a, name) # a
        BY <3>1 DEF a
      <3>3. "resolv.conf" \in Plain /\ "hosts" \in Plain
        BY DEF Plain, Names
      <3> QED
        BY <2>1, <3>2, <3>3 DEF DnsPlaces, a
    <2> QED
      BY <1>3, <2>1, <2>2, <2>3 DEF Laid, Overlaid
  <1>5. ASSUME m.what # "dns" PROVE \E o \in Shown : m = Prepared(t, o)
    BY <1>1, <1>2, <1>5 DEF Shown
  <1> QED
    BY <1>3, <1>4, <1>5

-----------------------------------------------------------------------------
(* The mounts are made. *)

LEMMA OneIsMounted ==
  ASSUME BaseInv, NEW t, Laid(t), queue # <<>>, Head(queue).what # "dns",
         queue' = Tail(queue), mounts' = Append(mounts, Head(queue)), UNCHANGED <<config, tree>>
  PROVE  Laid(t)'
  <1> DEFINE m == Head(queue)
  <1>1. /\ queue \in Seq(NamedMounts) /\ mounts \in Seq(NamedMounts)
    BY DEF BaseInv
  <1>2. m \in NamedMounts /\ \A x : x \in Items(queue) <=> x = m \/ x \in Items(queue')
    BY <1>1, HeadIsItem
  <1>3. m.what # "dns" /\ mounts' = Append(mounts, m)
    OBVIOUS
  <1> HIDE DEF m
  <1>4. \A x : x \in Items(mounts') <=> x = m \/ x \in Items(mounts)
    <2> DEFINE one == <<m>>
    <2>1. mounts' = mounts \o one /\ one \in Seq(NamedMounts)
      BY <1>1, <1>2, <1>3
    <2>2. Items(one) = {m}
      BY DEF Items
    <2> HIDE DEF one
    <2>3. \A x : x \in Items(mounts \o one) <=> x \in Items(mounts) \/ x \in Items(one)
      BY <1>1, <2>1, ItemsJoined
    <2> QED
      BY <2>1, <2>2, <2>3
  <1>5. \E o \in Shown : m = Prepared(t, o)
    BY <1>2, <1>3, LaidIs
  <1>6. DnsPoints' = DnsPoints
    BY <1>3, <1>4 DEF DnsPoints
  <1>7. /\ Mounted' = Mounted /\ Shown' = Shown /\ DnsPlaces(t)' = DnsPlaces(t)
        /\ Sound(t)' <=> Sound(t)
    BY SoundStays
  <1> QED
    BY <1>2, <1>4, <1>5, <1>6, <1>7 DEF Laid

LEMMA FilesAre ==
  ASSUME NEW m \in NamedMounts
  PROVE  /\ DnsFiles(m) \in Seq(NamedMounts)
         /\ \A x \in Items(DnsFiles(m)) :
               x.what = m.what /\ x.at \in {DnsTarget(m, 1), DnsTarget(m, 2)}
         /\ \A p \in {DnsTarget(m, 1), DnsTarget(m, 2)} : \E x \in Items(DnsFiles(m)) : x.at = p
  <1> DEFINE F(i) == [m EXCEPT !.at = DnsTarget(m, i), !.target = <<"etc", DnsNames[i]>>]
             files == DnsFiles(m)
  <1>1. files = [i \in 1..2 |-> F(i)]
    BY DEF DnsFiles
  <1>2. ASSUME NEW i \in {1, 2}
        PROVE  F(i) \in NamedMounts /\ F(i).what = m.what /\ F(i).at = DnsTarget(m, i)
    <2> DEFINE path == <<"etc", DnsNames[i]>>
               p == DnsTarget(m, i)
    <2>1. DnsNames[i] \in {"resolv.conf", "hosts"}
      BY DEF DnsNames
    <2>2. path \in TargetPaths
      BY <2>1 DEF Names, Plain, TargetPaths
    <2>3. p \in Seq(Plain)
      BY DnsTargets
    <2> HIDE DEF path, p
    <2>4. F(i) = [m EXCEPT !.at = p, !.target = path]
      BY DEF p, path
    <2> HIDE DEF F
    <2>5. /\ F(i) = [what |-> m.what, target |-> path, source |-> m.source, readonly |-> m.readonly, at |-> p]
      BY <2>4 DEF NamedMounts
    <2> QED
      BY <2>2, <2>3, <2>5 DEF NamedMounts, p
  <1> HIDE DEF F, files
  <1>3. DOMAIN files = 1..2 /\ files[1] = F(1) /\ files[2] = F(2) /\ \A i \in 1..2 : i \in {1, 2}
    BY <1>1
  <1>4. files \in Seq(NamedMounts)
    BY <1>1, <1>2
  <1>5. Items(files) = {F(1), F(2)}
    BY <1>3 DEF Items
  <1> QED
    BY <1>2, <1>4, <1>5 DEF files

LEMMA FilesAreMounted ==
  ASSUME BaseInv, NEW t, Laid(t), queue # <<>>, Head(queue).what = "dns",
         queue' = Tail(queue), mounts' = mounts \o DnsFiles(Head(queue)), UNCHANGED config,
         Overlaid(tree, tree', {DnsTarget(Head(queue), 1), DnsTarget(Head(queue), 2)})
  PROVE  Laid(t)' /\ mounts' \in Seq(NamedMounts)
  <1> DEFINE m == Head(queue)
             places == {DnsTarget(m, 1), DnsTarget(m, 2)}
             files == DnsFiles(m)
  <1>1. /\ queue \in Seq(NamedMounts) /\ mounts \in Seq(NamedMounts)
    BY DEF BaseInv
  <1>2. m \in NamedMounts /\ \A x : x \in Items(queue) <=> x = m \/ x \in Items(queue')
    BY <1>1, HeadIsItem
  <1>3. m.what = "dns" /\ mounts' = mounts \o files /\ Overlaid(tree, tree', places)
    OBVIOUS
  <1> HIDE DEF m
  <1>4. config.standard /\ m.at = EtcAt(t) /\ DnsPoints \subseteq DnsPlaces(t)
    BY <1>2, <1>3, LaidIs
  <1>5. /\ files \in Seq(NamedMounts)
        /\ \A x \in Items(files) : x.what = "dns" /\ x.at \in places
        /\ \A p \in places : \E x \in Items(files) : x.at = p
    BY <1>2, <1>3, FilesAre
  <1>6. places \subseteq DnsPlaces(t)
    BY <1>2, <1>4, DnsTargets DEF DnsPlaces
  <1> HIDE DEF files, places
  <1>7. mounts' \in Seq(NamedMounts) /\ \A x : x \in Items(mounts') <=> x \in Items(mounts) \/ x \in Items(files)
    BY <1>1, <1>3, <1>5, ItemsJoined
  <1>8. DnsPoints' = DnsPoints \cup places
    BY <1>5, <1>7 DEF DnsPoints
  <1>9. Overlaid(t, tree', DnsPoints')
    BY <1>3, <1>8, OverlaidTwice DEF Laid
  <1>10. /\ Mounted' = Mounted /\ Shown' = Shown /\ DnsPlaces(t)' = DnsPlaces(t)
         /\ Sound(t)' <=> Sound(t)
    BY SoundStays
  <1>11. ASSUME NEW o \in Shown PROVE Prepared(t, o) # m
    <2>1. o \in FreshMounts /\ o.what # "dns"
      BY MountedAre DEF Shown
    <2>2. Prepared(t, o).what = o.what
      BY <2>1 DEF Prepared, FreshMounts
    <2> QED
      BY <1>3, <2>1, <2>2
  <1>12. \A x \in Items(mounts') : \/ \E o \in Shown : x = Prepared(t, o)
                                   \/ x.what = "dns" /\ x.at \in DnsPlaces(t)
    BY <1>5, <1>6, <1>7 DEF Laid
  <1>13. \A o \in Shown : Prepared(t, o) \in Items(mounts') \cup Items(queue')
    BY <1>2, <1>7, <1>11 DEF Laid
  <1>14. \A x \in Items(queue') : \E o \in Mounted : x = Prepared(t, o)
    BY <1>2 DEF Laid
  <1>15. Laid(t)'
    BY <1>9, <1>10, <1>12, <1>13, <1>14 DEF Laid
  <1> QED
    BY <1>7, <1>15

\* The directory of the two files, and what is there before they are.
LEMMA DnsVacant ==
  ASSUME BaseInv, NEW t, Laid(t), NEW m \in Items(queue), m.what = "dns", NEW i \in {1, 2},
         Kind(tree, DnsTarget(m, i)) # "dir"
  PROVE  Vacant(tree, m.at, DnsTarget(m, i))
  <1>1. m \in NamedMounts
    BY DEF BaseInv, Items
  <1>2. Kind(tree, m.at) = "dir"
    BY LaidIs
  <1>3. m.at \in Seq(Plain)
    BY <1>1, PathsAreNamed
  <1>4. TreeTypes(tree)
    BY DEF BaseInv
  <1> QED
    BY <1>1, <1>2, <1>3, <1>4, DnsTargets DEF Vacant

LEMMA MountApplied ==
  ASSUME LaunchInv, ApplyMount
  PROVE  LaunchInv' /\ OutsideKept
  <1> DEFINE m == Head(queue)
             first == DnsTarget(m, 1)
             second == DnsTarget(m, 2)
  <1>0. BaseInv /\ StageInv /\ TreeTypes(tree) /\ NamespaceInv
        /\ queue \in Seq(NamedMounts) /\ mounts \in Seq(NamedMounts)
    BY DEF LaunchInv, BaseInv
  <1>1. /\ step = "mount" /\ queue # <<>> /\ queue' = Tail(queue)
        /\ Propagates(m.what) /\ UNCHANGED <<config, host, namespace>>
    BY DEF ApplyMount
  <1>2. PICK t : Laid(t)
    BY <1>0, <1>1 DEF StageInv
  <1>3. m \in NamedMounts /\ queue' \in Seq(NamedMounts) /\ m \in Items(queue)
    BY <1>0, <1>1, HeadIsItem
  <1>4. outer' = {} /\ namespace = "private"
    BY <1>0, <1>1 DEF Propagates, NamespaceInv
  <1>5. CASE m.what # "dns"
    <2>1. mounts' = Append(mounts, m) /\ UNCHANGED <<step, tree>>
      BY <1>5 DEF ApplyMount
    <2>2. NamespaceInv'
      BY <1>0, <1>1, <1>4, <2>1 DEF NamespaceInv
    <2>3. Grown(tree, tree')
      BY <1>0, <2>1, NoneGrown
    <2>4. Laid(t)'
      BY <1>0, <1>1, <1>2, <1>5, <2>1, OneIsMounted
    <2>5. mounts' \in Seq(NamedMounts)
      BY <1>0, <1>3, <2>1
    <2>6. BaseInv' /\ OutsideKept
      BY <1>0, <1>1, <1>3, <2>2, <2>3, <2>5, GrowthIsKept
    <2>7. StageInv'
      BY <1>1, <2>1, <2>4 DEF StageInv, Entered
    <2> QED
      BY <2>6, <2>7 DEF LaunchInv
  <1>6. CASE m.what = "dns"
    <2>1. MountDnsFiles(m)
      BY <1>6 DEF ApplyMount
    <2>2. step' \in {"mount", "failed"}
      BY <1>1, <2>1 DEF MountDnsFiles
    <2>3. NamespaceInv'
      BY <1>1, <1>4, <2>2 DEF NamespaceInv
    <2>4. \/ step' = "failed" /\ tree' = tree /\ mounts' = mounts
          \/ /\ step' = "failed" /\ mounts' = mounts
             /\ Kind(tree, first) # "dir" /\ tree' = Regular(tree, first)
          \/ /\ Kind(tree, first) # "dir" /\ Kind(tree, second) # "dir"
             /\ tree' = Regular(Regular(tree, first), second)
             /\ mounts' = mounts \o DnsFiles(m) /\ UNCHANGED step
      BY <2>1, Zenon DEF MountDnsFiles
    <2>5. Kind(tree, first) # "dir" => Vacant(tree, m.at, first)
      BY <1>0, <1>2, <1>3, <1>6, DnsVacant
    <2>6. Kind(tree, second) # "dir" => Vacant(tree, m.at, second)
      BY <1>0, <1>2, <1>3, <1>6, DnsVacant
    <2> DEFINE a == m.at
               v == Regular(tree, first)
               w == Regular(v, second)
    <2>7. Vacant(tree, a, first) => LinksOnly(tree, v, {first}) /\ Overlaid(tree, v, {first})
      <3> HIDE DEF m, first
      <3> QED
        BY RegularIs
    <2>8. Vacant(tree, a, first) /\ Vacant(tree, a, second)
            => LinksOnly(v, w, {second}) /\ Overlaid(v, w, {second})
      <3> HIDE DEF m, first, second
      <3>1. Vacant(tree, a, first) /\ Vacant(tree, a, second) => Vacant(v, a, second)
        BY VacantStays
      <3> HIDE DEF v
      <3> QED
        BY <3>1, RegularIs
    <2>9. CASE step' = "failed" /\ tree' = tree /\ mounts' = mounts
      <3>1. Grown(tree, tree')
        BY <1>0, <2>9, NoneGrown
      <3>2. BaseInv' /\ OutsideKept
        BY <1>0, <1>1, <1>3, <2>3, <2>9, <3>1, GrowthIsKept
      <3> QED
        BY <2>9, <3>2, FailedStage DEF LaunchInv
    <2>10. CASE /\ step' = "failed" /\ mounts' = mounts
                /\ Kind(tree, first) # "dir" /\ tree' = Regular(tree, first)
      <3>1. LinksOnly(tree, tree', {first, second})
        <4> HIDE DEF first, second, m
        <4> QED
          BY <2>5, <2>7, <2>10 DEF LinksOnly
      <3>2. BaseInv' /\ OutsideKept
        BY <1>0, <1>1, <1>3, <2>3, <2>10, <3>1, LinksAreKept
      <3> QED
        BY <2>10, <3>2, FailedStage DEF LaunchInv
    <2>11. CASE /\ Kind(tree, first) # "dir" /\ Kind(tree, second) # "dir"
                /\ tree' = Regular(Regular(tree, first), second)
                /\ mounts' = mounts \o DnsFiles(m) /\ UNCHANGED step
      <3>1. /\ LinksOnly(tree, v, {first}) /\ Overlaid(tree, v, {first})
            /\ LinksOnly(v, w, {second}) /\ Overlaid(v, w, {second})
        BY <2>5, <2>6, <2>7, <2>8, <2>11
      <3>2. tree' = w
        BY <2>11
      <3>3. {first} \cup {second} = {first, second}
        OBVIOUS
      <3>4. LinksOnly(tree, w, {first} \cup {second}) /\ Overlaid(tree, w, {first} \cup {second})
        <4> HIDE DEF first, second, m, v, w
        <4> QED
          BY <3>1, LinksOnlyTwice, OverlaidTwice
      <3>5. LinksOnly(tree, tree', {first, second}) /\ Overlaid(tree, tree', {first, second})
        BY <3>2, <3>3, <3>4
      <3>6. Laid(t)' /\ mounts' \in Seq(NamedMounts)
        BY <1>0, <1>1, <1>2, <1>6, <2>11, <3>5, FilesAreMounted
      <3>7. BaseInv' /\ OutsideKept
        BY <1>0, <1>1, <1>3, <2>3, <3>5, <3>6, LinksAreKept
      <3>8. StageInv'
        BY <1>1, <2>11, <3>6 DEF StageInv, Entered
      <3> QED
        BY <3>7, <3>8 DEF LaunchInv
    <2> QED
      BY <2>4, <2>9, <2>10, <2>11
  <1> QED
    BY <1>5, <1>6

LEMMA FailedBetween ==
  ASSUME LaunchInv, FailBetween
  PROVE  LaunchInv' /\ OutsideKept
  <1>0. BaseInv /\ StageInv /\ TreeTypes(tree) /\ NamespaceInv
        /\ queue \in Seq(NamedMounts) /\ mounts \in Seq(NamedMounts)
        /\ Binds \in Seq(FreshMounts) /\ Disks \in Seq(FreshMounts)
    BY ListsAreFresh DEF LaunchInv, BaseInv
  <1>1. step' = "failed" /\ UNCHANGED <<config, namespace, outer, queue, mounts>>
    BY DEF FailBetween, Refuse
  <1>2. NamespaceInv' /\ StageInv'
    BY <1>0, <1>1, FailedStage DEF NamespaceInv
  <1>3. queue' \in Seq(NamedMounts) /\ mounts' \in Seq(NamedMounts)
    BY <1>0, <1>1
  <1>4. CASE Refuse("sources") /\ (\E n \in DOMAIN config.binds : host' = WithSources(n)) /\ UNCHANGED tree
    <2>1. PICK n : host' = WithSources(n)
      BY <1>4
    <2>2. BaseInv' /\ OutsideKept
      BY <1>0, <1>1, <1>2, <1>4, <2>1, SourcesMade DEF Refuse
    <2> QED
      BY <1>2, <2>2 DEF LaunchInv
  <1>5. CASE Refuse("targets") /\ Partly(Binds) /\ UNCHANGED host
    <2>1. Grown(tree, tree')
      BY <1>0, <1>5, PartGrows
    <2> QED
      BY <1>0, <1>1, <1>2, <1>3, <1>5, <2>1, GrowthIsKept DEF LaunchInv
  <1>6. CASE Refuse("disks") /\ Partly(Disks) /\ UNCHANGED host
    <2>1. Grown(tree, tree')
      BY <1>0, <1>6, PartGrows
    <2> QED
      BY <1>0, <1>1, <1>2, <1>3, <1>6, <2>1, GrowthIsKept DEF LaunchInv
  <1>7. CASE /\ Refuse("mount") /\ queue # <<>> /\ Head(queue).what = "dns" /\ DnsPartly(Head(queue))
             /\ UNCHANGED host
    <2> DEFINE m == Head(queue)
               first == DnsTarget(m, 1)
               second == DnsTarget(m, 2)
    <2>1. m \in NamedMounts /\ m \in Items(queue) /\ m.what = "dns"
      BY <1>0, <1>7, HeadIsItem
    <2>2. PICK t : Laid(t)
      BY <1>0, <1>7 DEF StageInv, Refuse
    <2>3. first # <<>> /\ second # <<>>
      BY <2>1, DnsTargets
    <2>4. /\ Kind(tree, first) # "dir"
          /\ tree' = Removed(tree, first) \/ tree' = Removed(Regular(tree, first), second)
      BY <1>7 DEF DnsPartly
    <2>5. Vacant(tree, m.at, first)
      BY <1>0, <2>1, <2>2, <2>4, DnsVacant
    <2> DEFINE a == m.at
    <2>6. LinksOnly(tree, tree', {first, second})
      <3> HIDE DEF m, first, second
      <3> DEFINE v == Regular(tree, first)
      <3>1. LinksOnly(tree, v, {first})
        BY <2>5, RegularIs
      <3> HIDE DEF v
      <3>2. LinksOnly(v, Removed(v, second), {second})
        BY <2>3, <3>1, RemovedIsLink DEF LinksOnly
      <3>3. LinksOnly(tree, Removed(tree, first), {first})
        BY <1>0, <2>3, RemovedIsLink
      <3>4. LinksOnly(tree, Removed(v, second), {first} \cup {second})
        BY <3>1, <3>2, LinksOnlyTwice
      <3> QED
        BY <2>4, <3>3, <3>4 DEF LinksOnly, v
    <2>7. BaseInv' /\ OutsideKept
      BY <1>0, <1>1, <1>2, <1>3, <1>7, <2>1, <2>6, LinksAreKept
    <2> QED
      BY <1>2, <2>7 DEF LaunchInv
  <1> QED
    BY <1>4, <1>5, <1>6, <1>7, Zenon DEF FailBetween

\* The invariant is inductive, and no step changes what is outside or in the layer.
LEMMA LaunchStep == LaunchInv /\ [Next]_vars => LaunchInv' /\ OutsideKept
  <1> SUFFICES ASSUME LaunchInv, [Next]_vars PROVE LaunchInv' /\ OutsideKept
    OBVIOUS
  <1>0. BaseInv /\ StageInv
    BY DEF LaunchInv
  <1>1. CASE PrepareBindSources
    <2>1. /\ step = "sources" /\ step' = "unshare" /\ host' = WithSources(Len(config.binds))
          /\ UNCHANGED <<config, tree, namespace, outer, queue, mounts>>
      BY <1>1 DEF PrepareBindSources, Goes
    <2>2. NamespaceInv'
      BY <1>0, <2>1 DEF BaseInv, NamespaceInv
    <2> QED
      BY <1>0, <1>1, <2>1, <2>2, SourcesMade, QuietStages DEF LaunchInv
  <1>2. CASE UNCHANGED vars
    <2>1. NamespaceInv'
      BY <1>0, <1>2 DEF BaseInv, NamespaceInv, vars
    <2>2. UNCHANGED <<config, tree, queue, mounts>> /\ step' = step
      BY <1>2 DEF vars
    <2>3. StageInv'
      BY <1>0, <2>2, StageKept DEF StageInv
    <2> QED
      BY <1>0, <1>2, <2>1, <2>3, NothingMade DEF vars, LaunchInv
  <1>3. CASE \/ ReadLower \/ Unshare \/ MakeMountsPrivate \/ PrepareOverlayBase
             \/ MountOverlayRootfs \/ PrepareWorkdir \/ PrepareExecutable \/ ValidateTargets
             \/ EnterRootfs \/ ChangeDirectory \/ Exec \/ Fail
    BY <1>0, <1>3, QuietSteps, QuietStages DEF LaunchInv
  <1> QED
    BY <1>1, <1>2, <1>3, TargetsMade, MountsPrepared, MountApplied, FailedBetween DEF Next

LEMMA LaunchInit == Init => LaunchInv
  <1> SUFFICES ASSUME Init PROVE LaunchInv
    OBVIOUS
  <1>1. step = "lower" /\ mounts = <<>>
    BY DEF Init
  <1>2. StageInv
    BY <1>1 DEF StageInv, Entered
  <1> QED
    BY <1>2, BaseInit DEF LaunchInv

-----------------------------------------------------------------------------
(* What is asked for, looked up by sandrun and by the kernel. *)

LEMMA AskedAre ==
  ASSUME BaseInv, NEW path \in Asked
  PROVE  path \in Seq(Plain) /\ path \in Seq(Names)
  <1>1. \A m \in Mounted : m.target \in Seq(Plain)
    BY MountedAre, FreshIsNamed, PathsAreNamed
  <1>2. config.workdir \in Seq(Plain) /\ config.command \in Seq(Plain)
    BY DEF BaseInv, ConfigTypes
  <1>3. path \in Seq(Plain)
    BY <1>1, <1>2 DEF Asked, Mounted, Items
  <1> QED
    BY <1>3, PlainIsNames

LEMMA DotsAre == LeadingDots => DotsLead(tree)
  BY DEF LeadingDots, DotsLead, Dotted

LEMMA InvLookupIsRight == LaunchInv => LookupIsRight
  <1> SUFFICES ASSUME LaunchInv PROVE StaysInside /\ AgreesWithKernel
    BY DEF LookupIsRight
  <1>0. BaseInv /\ TreeTypes(tree)
    BY DEF LaunchInv, BaseInv
  <1>1. StaysInside
    <2> SUFFICES ASSUME NEW path \in Asked
                 PROVE  LET r == Resolve(tree, path) IN
                        r.error = "" => \A i \in DOMAIN r.at :
                            Kind(tree, SubSeq(r.at, 1, i)) \notin {"link", "absent"}
      BY DEF StaysInside
    <2>1. path \in Seq(Names)
      BY <1>0, AskedAre
    <2> QED
      BY <1>0, <2>1, ResolvedIsThere
  <1>2. ASSUME LeadingDots, NEW path \in Asked
        PROVE  Resolve(tree, path) = Lookup(tree, {}, Reports, path)
    <2>1. path \in Seq(Plain)
      BY <1>0, AskedAre
    <2>2. Covers(tree, tree, {}, {})
      <3>1. DotsLead(tree)
        BY <1>2, DotsAre
      <3>2. Overlaid(tree, tree, {})
        BY OverlaidBySelf
      <3> QED
        BY <1>0, <3>1, <3>2 DEF Covers
    <2> DEFINE s == Lookup(tree, {}, Reports, path)
    <2>3. s = Resolve(tree, path) \/ Hidden({}, s)
      BY <2>1, <2>2, LookupAgrees
    <2> HIDE DEF s
    <2>4. ~Hidden({}, s)
      BY DEF Hidden
    <2> QED
      BY <2>3, <2>4 DEF s
  <1> QED
    BY <1>1, <1>2 DEF AgreesWithKernel

-----------------------------------------------------------------------------
(* What a process in the root finds. *)

LEMMA PointsAre ==
  ASSUME BaseInv, NEW t, Laid(t), LeadingDots
  PROVE  Covers(t, tree, Points, DnsPoints)
  <1>1. Points = {m.at : m \in Items(mounts)}
    BY DEF Points, Items
  <1>2. \A m \in Items(mounts) : m.at \in Seq(Plain)
    <2>1. \A m \in Items(mounts) : m \in NamedMounts
      BY DEF BaseInv, Items
    <2> QED
      BY <2>1, PathsAreNamed
  <1>3. Points \subseteq Seq(Plain) /\ DnsPoints \subseteq Points
    BY <1>1, <1>2 DEF DnsPoints
  <1>4. DotsLead(tree)
    BY DotsAre
  <1> QED
    BY <1>3, <1>4 DEF Covers, Laid, Sound

LEMMA SeenIs ==
  ASSUME BaseInv, NEW t, Laid(t), LeadingDots, NEW path \in Asked, Resolves(t, path)
  PROVE  \/ Seen(path) = Resolve(t, path)
         \/ /\ Hidden(Points, Seen(path))
            /\ Open(tree, Points, DnsPoints)
                 => \/ Seen(path).at \in DnsPoints
                    \/ Seen(path).at \o Seen(path).rest = Resolve(t, path).at
  <1> DEFINE s == Lookup(tree, Points, Stays, path)
             r == Resolve(t, path)
  <1>1. path \in Seq(Plain)
    BY AskedAre
  <1>2. Covers(t, tree, Points, DnsPoints)
    BY PointsAre
  <1>3. Resolve(t, path).error # "escape"
    BY DEF Resolves
  <1>4. \/ s = r
        \/ /\ Hidden(Points, s)
           /\ Open(tree, Points, DnsPoints) /\ r.error = "" => s.at \in DnsPoints \/ s.at \o s.rest = r.at
    BY ONLY <1>1, <1>2, <1>3, LookupAgrees, ZenonT(60)
  <1>5. r.error = ""
    BY DEF Resolves
  <1>6. Seen(path) = s
    BY DEF Seen
  <1> HIDE DEF s, r
  <1>7. \/ s = r
        \/ /\ Hidden(Points, s)
           /\ Open(tree, Points, DnsPoints) => s.at \in DnsPoints \/ s.at \o s.rest = r.at
    BY ONLY <1>4, <1>5, Zenon
  <1> QED
    BY <1>6, <1>7 DEF r

LEMMA StillUsed ==
  ASSUME BaseInv, NEW t, Laid(t), LeadingDots, NEW path \in Asked, NEW kind \in {"dir", "tool"},
         HoldsIn(t, path, kind)
  PROVE  Covered(path) \/ (Seen(path).error = "" /\ Kind(tree, Seen(path).at) = kind)
  <1> DEFINE s == Seen(path)
             r == Resolve(t, path)
  <1>1. Resolves(t, path) /\ Kind(t, r.at) = kind
    BY DEF HoldsIn
  <1>2. s = r \/ Hidden(Points, s)
    BY <1>1, SeenIs
  <1>3. CASE Hidden(Points, s)
    BY <1>3 DEF Hidden, Covered
  <1>4. CASE s = r
    <2>1. s.error = ""
      BY <1>1, <1>4 DEF Resolves
    <2>2. Kind(tree, r.at) = kind \/ r.at \in DnsPoints
      BY <1>1 DEF Laid, Overlaid
    <2>3. DnsPoints \subseteq Points
      BY PointsAre DEF Covers
    <2> QED
      BY <1>4, <2>1, <2>2, <2>3 DEF Covered
  <1> QED
    BY <1>2, <1>3, <1>4

\* The lookups before and after the mounts end at one place, or at a mount.
LEMMA InvChecksHold == LaunchInv /\ LeadingDots => ChecksHold
  <1> SUFFICES ASSUME LaunchInv, LeadingDots, step \in Entered
               PROVE  Uses(config.workdir, IsWorkdir) /\ Uses(config.command, IsExecutable)
    BY DEF ChecksHold
  <1>0. BaseInv /\ StageInv
    BY DEF LaunchInv
  <1>1. PICK t : Laid(t)
    BY <1>0 DEF StageInv
  <1>2. HoldsIn(t, config.workdir, "dir") /\ HoldsIn(t, config.command, "tool")
    BY <1>1 DEF Laid, Sound
  <1>3. config.workdir \in Asked /\ config.command \in Asked
    BY DEF Asked
  <1> DEFINE dir == "dir"
             tool == "tool"
  <1>4. dir \in {"dir", "tool"} /\ tool \in {"dir", "tool"}
    OBVIOUS
  <1>5. HoldsIn(t, config.workdir, dir) /\ HoldsIn(t, config.command, tool)
    BY <1>2
  <1> HIDE DEF dir, tool
  <1>6. /\ Covered(config.workdir) \/ (Seen(config.workdir).error = "" /\ Kind(tree, Seen(config.workdir).at) = dir)
        /\ Covered(config.command) \/ (Seen(config.command).error = "" /\ Kind(tree, Seen(config.command).at) = tool)
    BY <1>0, <1>1, <1>3, <1>4, <1>5, StillUsed
  <1> QED
    BY <1>6 DEF Uses, IsWorkdir, IsExecutable, dir, tool

-----------------------------------------------------------------------------
(* Each target shows its mount. *)

LEMMA PrefixIs ==
  ASSUME NEW S, NEW a \in Seq(S), NEW b \in Seq(S)
  PROVE  IsPrefix(a, b) <=> Len(a) <= Len(b) /\ \A i \in 1..Len(a) : a[i] = b[i]
  <1>1. PICK n \in Nat : n = Len(a)
    OBVIOUS
  <1>2. CASE ~(n <= Len(b))
    BY <1>1, <1>2 DEF IsPrefix
  <1>3. CASE n <= Len(b)
    <2> DEFINE c == SubSeq(b, 1, n)
               d == SubSeq(a, 1, n)
    <2>1. c \in Seq(S) /\ Len(c) = n /\ \A i \in 1..n : c[i] = b[i]
      BY <1>3
    <2>2. d = a
      BY <1>1
    <2>3. IsPrefix(a, b) <=> d = c
      BY <1>1, <1>3 DEF IsPrefix
    <2> HIDE DEF c, d
    <2>4. (\A i \in 1..n : a[i] = b[i]) => a = c
      <3> SUFFICES ASSUME \A i \in 1..n : a[i] = b[i] PROVE a = c
        OBVIOUS
      <3>1. Len(a) = Len(c) /\ \A i \in 1..Len(a) : a[i] = c[i]
        BY <1>1, <2>1
      <3> QED
        BY <2>1, <3>1, SeqEqual
    <2>5. a = c => \A i \in 1..n : a[i] = b[i]
      BY <2>1
    <2> QED
      BY <1>1, <1>3, <2>2, <2>3, <2>4, <2>5
  <1> QED
    BY <1>2, <1>3

LEMMA PrefixOfPrefix ==
  ASSUME NEW S, NEW a \in Seq(S), NEW b \in Seq(S), NEW c \in Seq(S), IsPrefix(a, b), IsPrefix(b, c)
  PROVE  IsPrefix(a, c)
  <1>1. Len(a) <= Len(b) /\ \A i \in 1..Len(a) : a[i] = b[i]
    BY PrefixIs
  <1>2. Len(b) <= Len(c) /\ \A i \in 1..Len(b) : b[i] = c[i]
    BY PrefixIs
  <1>3. Len(a) \in Nat /\ Len(b) \in Nat /\ Len(c) \in Nat
    OBVIOUS
  <1>4. Len(a) <= Len(c) /\ \A i \in 1..Len(a) : a[i] = c[i]
    BY <1>1, <1>2, <1>3
  <1> QED
    BY <1>4, PrefixIs

LEMMA PrefixOfJoin ==
  ASSUME NEW S, NEW a \in Seq(S), NEW b \in Seq(S), b # <<>>
  PROVE  IsPrefix(a, a \o b) /\ a \o b # a
  <1> DEFINE c == a \o b
  <1>1. /\ Len(a) \in Nat /\ Len(b) \in Nat /\ c \in Seq(S) /\ Len(c) = Len(a) + Len(b)
        /\ \A i \in 1..Len(a) : c[i] = a[i]
    BY ConcatIs
  <1> HIDE DEF c
  <1>2. Len(b) > 0
    OBVIOUS
  <1>3. Len(a) <= Len(c) /\ \A i \in 1..Len(a) : a[i] = c[i]
    BY <1>1
  <1>4. IsPrefix(a, c)
    BY <1>1, <1>3, PrefixIs
  <1>5. c # a
    BY <1>1, <1>2
  <1> QED
    BY <1>4, <1>5 DEF c

LEMMA FoundIs ==
  ASSUME NEW e, NEW p, e = Found(p)
  PROVE  e.at = p /\ e.rest = <<>> /\ e.error = ""
  BY DEF Found

\* The mount that the target of m is compared as: the cgroup hierarchy is below /sys.
Base(m) == IF m = Cgroup THEN SysMount ELSE m

LEMMA ShownAre ==
  ASSUME BaseInv, NEW m \in Shown
  PROVE  /\ m \in FreshMounts /\ m \in Mounted /\ Base(m) \in Single
         /\ m = Cgroup => config.standard
         /\ m # Cgroup => m \in Single
  <1>1. m \in Mounted /\ m.what # "dns"
    BY DEF Shown
  <1>2. m \in FreshMounts
    BY <1>1, MountedAre
  <1>3. CASE m = Cgroup
    BY <1>1, <1>2, <1>3, MountedAre DEF Base
  <1>4. CASE m # Cgroup
    BY <1>1, <1>2, <1>4 DEF Base, Single, Shown
  <1> QED
    BY <1>1, <1>2, <1>3, <1>4

LEMMA ShownAt ==
  ASSUME BaseInv, NEW t, TreeTypes(t), NEW m \in Shown
  PROVE  At(t, m) \in Seq(Plain) /\ Prepared(t, m).at = At(t, m) /\ [Prepared(t, m) EXCEPT !.at = <<>>] = m
  <1>1. m \in FreshMounts
    BY ShownAre
  <1>2. At(t, m) \in Seq(Plain)
    <2>1. m.target \in Seq(Names)
      BY <1>1, FreshIsNamed, PathsAreNamed
    <2> QED
      BY <2>1, ResolvedIsThere DEF At
  <1> DEFINE a == At(t, m)
  <1>3. Prepared(t, m) = [m EXCEPT !.at = a]
    BY DEF Prepared, At
  <1> HIDE DEF a
  <1>4. [m EXCEPT !.at = a].at = a
    BY <1>1 DEF FreshMounts
  <1>5. [[m EXCEPT !.at = a] EXCEPT !.at = <<>>] = m
    BY <1>1 DEF FreshMounts
  <1> QED
    BY <1>2, <1>3, <1>4, <1>5 DEF a

\* No link is left below /sys, so its cgroup directory is where its name says.
LEMMA CgroupIs ==
  ASSUME BaseInv, NEW t, Laid(t), NoLinkIsCovered, Points = {m.at : m \in Items(mounts)},
         Items(queue) = {}, config.standard
  PROVE  At(t, Cgroup) = At(t, SysMount) \o <<"fs", "cgroup">>
  <1> DEFINE a == At(t, SysMount)
  <1>1. SysMount \in Single /\ Cgroup \in Mounted /\ SysMount \in Mounted
    BY MountedAre, MountedItems DEF Single, Shown, Parts
  <1>2. a \in Points
    <2>1. Prepared(t, SysMount) \in Items(mounts)
      BY <1>1 DEF Laid, Single
    <2>2. Prepared(t, SysMount).at = a
      BY <1>1, ShownAt DEF Single, Laid, Sound
    <2> QED
      BY <2>1, <2>2
  <1>3. DnsPoints \subseteq DnsPlaces(t)
    BY DnsPointsAre
  <1>4. NoLinkUnder(t, a)
    <2> SUFFICES ASSUME NEW p \in DOMAIN t, t[p].kind = "link", IsPrefix(a, p) PROVE FALSE
      BY DEF NoLinkUnder
    <2>1. Kind(t, p) = "link"
      BY DEF Kind, Laid, Sound, TreeTypes
    <2>2. CASE Kind(tree, p) = "link"
      <3>1. p \in DOMAIN tree /\ tree[p].kind = "link"
        BY <2>2 DEF Kind
      <3> QED
        BY <1>2, <3>1 DEF NoLinkIsCovered
    <2>3. CASE Kind(tree, p) # "link"
      <3>1. p \in DnsPlaces(t)
        BY <1>3, <2>1, <2>3 DEF Laid, Overlaid
      <3> QED
        BY <1>1, <3>1 DEF Laid, Sound, Separate
    <2> QED
      BY <2>2, <2>3
  <1> DEFINE x == <<"sys">>
             y == <<"fs", "cgroup">>
  <1>5. x \in Seq(Plain) /\ y \in Seq(Plain)
    BY DEF Names, Plain
  <1>6. SysMount.target = x /\ Cgroup.target = x \o y
    BY PartsDiffer
  <1>7. Resolves(t, x) /\ Resolves(t, x \o y) /\ TreeTypes(t)
    BY <1>1, <1>6 DEF Laid, Sound
  <1>8. a = Resolve(t, x).at /\ At(t, Cgroup) = Resolve(t, x \o y).at
    BY <1>6 DEF At
  <1>9. NoLinkUnder(t, Resolve(t, x).at)
    BY <1>4, <1>8
  <1> HIDE DEF x, y, a
  <1>10. Resolve(t, x \o y).at = Resolve(t, x).at \o y
    BY <1>5, <1>7, <1>9, BelowResolves
  <1> QED
    BY <1>8, <1>10 DEF a, y

\* A root that nothing is left to be mounted in, and no mount hides a link of.
Final(t) ==
    /\ BaseInv /\ Laid(t) /\ LeadingDots /\ NoLinkIsCovered
    /\ Points = {m.at : m \in Items(mounts)} /\ Items(queue) = {}

LEMMA BaseIsAbove ==
  ASSUME NEW t, Final(t), NEW m \in Shown
  PROVE  /\ Base(m) \in Single /\ At(t, Base(m)) \in Seq(Plain) /\ At(t, m) \in Seq(Plain)
         /\ IsPrefix(At(t, Base(m)), At(t, m))
         /\ m = Cgroup => At(t, m) # At(t, SysMount)
  <1>0. BaseInv /\ Laid(t) /\ TreeTypes(t)
    BY DEF Final, Laid, Sound
  <1>1. Base(m) \in Single /\ Base(m) \in Shown
    BY <1>0, ShownAre DEF Single
  <1>2. At(t, Base(m)) \in Seq(Plain) /\ At(t, m) \in Seq(Plain)
    BY <1>0, <1>1, ShownAt
  <1>3. CASE m # Cgroup
    <2>1. Base(m) = m
      BY <1>3 DEF Base
    <2>2. IsPrefix(At(t, m), At(t, m))
      BY <1>2, PrefixOfSelf
    <2> QED
      BY <1>1, <1>2, <1>3, <2>1, <2>2
  <1>4. CASE m = Cgroup
    <2>1. config.standard
      BY <1>0, <1>4, ShownAre
    <2> DEFINE y == <<"fs", "cgroup">>
               a == At(t, SysMount)
    <2>2. At(t, Cgroup) = a \o y
      BY <1>0, <2>1, CgroupIs DEF Final
    <2>3. y \in Seq(Plain) /\ y # <<>>
      BY DEF Names, Plain
    <2>4. Base(m) = SysMount
      BY <1>4 DEF Base
    <2>5. a \in Seq(Plain)
      BY <1>2, <2>4
    <2> HIDE DEF y, a
    <2>6. IsPrefix(a, a \o y) /\ a \o y # a
      BY <2>3, <2>5, PrefixOfJoin
    <2> QED
      BY <1>1, <1>2, <1>4, <2>2, <2>4, <2>6 DEF a
  <1> QED
    BY <1>3, <1>4

\* No two mounts are at one place, and none is above the files for resolv.conf and hosts.
LEMMA ShownApart ==
  ASSUME NEW t, Final(t), NEW m \in Shown
  PROVE  /\ At(t, m) # <<>>
         /\ \A d \in DnsPlaces(t) : ~IsPrefix(At(t, m), d) /\ d # At(t, m)
         /\ \A o \in Shown : At(t, o) = At(t, m) => o = m
  <1>0. BaseInv /\ Laid(t) /\ TreeTypes(t) /\ Separate(t)
    BY DEF Final, Laid, Sound
  <1>1. /\ Base(m) \in Single /\ At(t, Base(m)) \in Seq(Plain) /\ At(t, m) \in Seq(Plain)
        /\ IsPrefix(At(t, Base(m)), At(t, m))
    BY BaseIsAbove
  <1>2. At(t, Base(m)) # <<>>
    BY <1>0, <1>1 DEF Separate
  <1>3. At(t, m) # <<>>
    BY <1>1, <1>2, PrefixOfEmpty
  <1>4. ASSUME NEW d \in DnsPlaces(t)
        PROVE  ~IsPrefix(At(t, m), d) /\ d # At(t, m)
    <2>1. ~IsPrefix(At(t, Base(m)), d)
      BY <1>0, <1>1, <1>4 DEF Separate
    <2>2. d \in Seq(Plain)
      <3>1. config.standard
        BY <1>4 DEF DnsPlaces
      <3>2. PICK name \in {"resolv.conf", "hosts"} : d = Append(EtcAt(t), name)
        BY <1>4, <3>1 DEF DnsPlaces
      <3>3. <<"etc">> \in Seq(Names) /\ name \in Plain
        BY DEF Names, Plain
      <3>4. EtcAt(t) \in Seq(Plain)
        BY <1>0, <3>3, ResolvedIsThere DEF EtcAt
      <3> QED
        BY <3>2, <3>3, <3>4, AppendedIs
    <2>3. ~IsPrefix(At(t, m), d)
      BY <1>1, <2>1, <2>2, PrefixOfPrefix
    <2>4. d # At(t, m)
      BY <1>1, <2>1
    <2> QED
      BY <2>3, <2>4
  <1>5. ASSUME NEW o \in Shown, At(t, o) = At(t, m), o # m PROVE FALSE
    <2>1. /\ Base(o) \in Single /\ At(t, Base(o)) \in Seq(Plain)
          /\ IsPrefix(At(t, Base(o)), At(t, m))
      BY <1>5, BaseIsAbove
    <2>2. CASE m # Cgroup /\ o # Cgroup
      <3>1. Base(o) = o /\ Base(m) = m
        BY <2>2 DEF Base
      <3> QED
        BY <1>0, <1>1, <1>5, <2>1, <3>1 DEF Separate
    <2>3. CASE m = Cgroup
      <3>1. Base(o) = o /\ Base(m) = SysMount
        BY <1>5, <2>3 DEF Base
      <3>2. At(t, o) # At(t, SysMount)
        BY <1>5, <2>3, BaseIsAbove
      <3>3. IsPrefix(At(t, SysMount), At(t, o))
        BY <1>1, <1>5, <3>1
      <3> QED
        BY <1>0, <1>1, <2>1, <3>1, <3>2, <3>3 DEF Separate
    <2>4. CASE o = Cgroup
      <3>1. Base(m) = m /\ Base(o) = SysMount
        BY <1>5, <2>4 DEF Base
      <3>2. At(t, m) # At(t, SysMount)
        BY <1>5, <2>4, BaseIsAbove
      <3>3. IsPrefix(At(t, SysMount), At(t, m))
        BY <2>1, <3>1
      <3> QED
        BY <1>0, <1>1, <2>1, <3>1, <3>2, <3>3 DEF Separate
    <2> QED
      BY <2>2, <2>3, <2>4
  <1> QED
    BY <1>3, <1>4, <1>5

LEMMA MountsAreOpen ==
  ASSUME NEW t, Final(t)
  PROVE  Open(tree, Points, DnsPoints)
  <1>0. BaseInv /\ Laid(t) /\ TreeTypes(t) /\ Points = {m.at : m \in Items(mounts)}
    BY DEF Final, Laid, Sound
  <1>1. DnsPoints \subseteq DnsPlaces(t)
    BY <1>0, DnsPointsAre
  <1>2. ASSUME NEW q \in Points, q \notin DnsPoints
        PROVE  \E m \in Shown : q = At(t, m)
    <2>1. PICK x \in Items(mounts) : q = x.at
      BY <1>0
    <2>2. x.what # "dns"
      BY <1>2, <2>1 DEF DnsPoints
    <2>3. PICK m \in Shown : x = Prepared(t, m)
      BY <1>0, <2>2 DEF Laid
    <2>4. x.at = At(t, m)
      BY <1>0, <2>3, ShownAt
    <2> QED
      BY <2>1, <2>4
  <1>3. <<>> \notin DnsPlaces(t)
    <2> SUFFICES ASSUME config.standard, NEW name \in {"resolv.conf", "hosts"}
                 PROVE  Append(EtcAt(t), name) # <<>>
      BY DEF DnsPlaces
    <2>1. <<"etc">> \in Seq(Names) /\ name \in Plain
      BY DEF Names, Plain
    <2>2. EtcAt(t) \in Seq(Plain)
      BY <1>0, <2>1, ResolvedIsThere DEF EtcAt
    <2> QED
      BY <2>1, <2>2, AppendedIs
  <1>4. <<>> \notin Points
    BY <1>1, <1>2, <1>3, ShownApart
  <1>5. \A p \in DOMAIN tree, q \in Points : tree[p].kind = "link" => ~IsPrefix(q, p)
    BY DEF Final, NoLinkIsCovered
  <1>6. \A p \in DnsPoints, q \in Points \ DnsPoints : ~IsPrefix(q, p)
    BY <1>1, <1>2, ShownApart
  <1> QED
    BY <1>4, <1>5, <1>6 DEF Open

\* The kernel's lookup of a declared target in the finished root ends at the mount made for it.
LEMMA TargetIsShown ==
  ASSUME NEW t, Final(t), NEW m \in Shown
  PROVE  Shows(m)
  <1> DEFINE s == Seen(m.target)
             r == Resolve(t, m.target)
             on == {i \in DOMAIN mounts : mounts[i].at = s.at \o s.rest}
  <1>0. /\ BaseInv /\ Laid(t) /\ TreeTypes(t) /\ LeadingDots /\ Items(queue) = {}
        /\ Points = {o.at : o \in Items(mounts)}
    BY DEF Final, Laid, Sound
  <1>1. m \in Mounted /\ m \in FreshMounts
    BY <1>0, ShownAre
  <1>2. m.target \in Asked
    BY <1>1 DEF Asked, Mounted, Items
  <1>3. Resolves(t, m.target)
    BY <1>0, <1>1 DEF Laid, Sound
  <1>4. \/ s = r
        \/ Hidden(Points, s) /\ (s.at \in DnsPoints \/ s.at \o s.rest = r.at)
    BY <1>0, <1>2, <1>3, SeenIs, MountsAreOpen
  <1>5. r.at = At(t, m) /\ At(t, m) \in Seq(Plain)
    BY <1>0, ShownAt DEF At
  <1>6. s = r => s.error = "" /\ s.at \o s.rest = At(t, m)
    <2>1. m.target \in Seq(Names)
      BY <1>0, <1>2, AskedAre
    <2>2. r \in Outcomes
      BY <1>0, <2>1, ResolveIsOutcome
    <2>3. PICK p \in Seq(Plain) : r = Found(p)
      BY <1>3, <2>2, Results DEF Outcomes, Resolves
    <2>4. r.at = p /\ r.rest = <<>> /\ r.error = ""
      BY <2>3, FoundIs
    <2>5. p \o <<>> = p
      BY ConcatEmptySeq
    <2> QED
      BY <1>5, <2>4, <2>5
  <1>7. s.error = ""
    BY <1>4, <1>6 DEF Hidden
  <1>8. CASE s.at \in DnsPoints
    <2>1. \E i \in DOMAIN mounts : mounts[i].what = "dns" /\ mounts[i].at = s.at
      BY <1>8 DEF DnsPoints, Items
    <2> QED
      BY <1>7, <2>1 DEF Shows
  <1>9. CASE s.at \o s.rest = At(t, m)
    <2>1. on # {}
      <3>1. Prepared(t, m) \in Items(mounts)
        BY <1>0 DEF Laid
      <3>2. PICK i \in DOMAIN mounts : mounts[i] = Prepared(t, m)
        BY <3>1 DEF Items
      <3>3. mounts[i].at = At(t, m)
        BY <1>0, <3>2, ShownAt
      <3> QED
        BY <1>9, <3>3
    <2>2. ASSUME NEW i \in on PROVE [mounts[i] EXCEPT !.at = <<>>] = m
      <3>1. i \in DOMAIN mounts /\ mounts[i].at = At(t, m)
        BY <1>9, <2>2
      <3>2. mounts[i] \in Items(mounts)
        BY <3>1 DEF Items
      <3>3. ~(mounts[i].at \in DnsPlaces(t))
        BY <3>1, ShownApart
      <3>4. PICK o \in Shown : mounts[i] = Prepared(t, o)
        BY <1>0, <3>2, <3>3 DEF Laid
      <3>5. Prepared(t, o).at = At(t, o) /\ [Prepared(t, o) EXCEPT !.at = <<>>] = o
        BY <1>0, ShownAt
      <3>6. o = m
        BY <3>1, <3>4, <3>5, ShownApart
      <3> QED
        BY <3>4, <3>5, <3>6
    <2> QED
      BY <1>7, <2>1, <2>2 DEF Shows
  <1> QED
    BY <1>4, <1>5, <1>6, <1>8, <1>9

LEMMA InvTargetsShow == LaunchInv /\ LeadingDots => TargetsShowTheirMounts
  <1> SUFFICES ASSUME LaunchInv, LeadingDots, step \in Entered, NoLinkIsCovered,
                      NEW i \in DOMAIN Declared, Declared[i].what # "dns"
               PROVE  Shows(Declared[i])
    BY DEF TargetsShowTheirMounts
  <1>0. BaseInv /\ StageInv
    BY DEF LaunchInv
  <1>1. PICK t : Laid(t)
    BY <1>0 DEF StageInv
  <1>2. queue = <<>>
    BY <1>0 DEF StageInv
  <1>3. Items(queue) = {}
    BY <1>2 DEF Items
  <1>4. Points = {m.at : m \in Items(mounts)}
    BY DEF Points, Items
  <1>5. Final(t)
    BY <1>0, <1>1, <1>3, <1>4 DEF Final
  <1>6. Declared[i] \in Shown
    BY DEF Shown, Mounted, Items
  <1> QED
    BY <1>5, <1>6, TargetIsShown

-----------------------------------------------------------------------------
(* The theorems. *)

\* At each step of run() the mounts that are prepared or made are those declared, resolved in a
\* tree that the checks have passed, and the root differs from it by the files for resolv.conf
\* and hosts alone.
THEOREM LaunchInvariant == Spec => []LaunchInv
  <1>1. LaunchInv /\ [Next]_vars => LaunchInv'
    BY LaunchStep
  <1> QED
    BY <1>1, LaunchInit, PTL DEF Spec

\* Whatever step of run() fails or is killed, the main namespace sees none of the mounts and
\* loses nothing, and the writable layer keeps what it has but links at resolv.conf and hosts.
THEOREM OutsideKeeps == Spec => OutsideIsKept
  <1>1. LaunchInv /\ [Next]_vars => [outer' = {} /\ HostOnlyGainsSources /\ ImageIsKept]_vars
    BY LaunchStep DEF OutsideKept
  <1> QED
    BY <1>1, LaunchInvariant, PTL DEF Spec, OutsideIsKept

\* What resolve_target() finds for a target, the working directory or the command exists, and
\* no symbolic link of the image is left in it that could lead the kernel out of the root.
THEOREM TargetsStayInside == Spec => []StaysInside
  <1>1. LaunchInv => StaysInside
    BY InvLookupIsRight DEF LookupIsRight
  <1> QED
    BY <1>1, LaunchInvariant, PTL

\* And it is what a process in the root finds there before the mounts, unless links of the
\* image lead down and then up.
THEOREM LookupsAreRight == Spec => []LookupIsRight
  BY LaunchInvariant, InvLookupIsRight, PTL

\* Once the root is entered, the working directory and the command are still what
\* prepare_workdir() and prepare_executable() checked, or a mount covers them; and each
\* declared target, followed through the links of the image, leads to its own mount, unless a
\* mount hides one of those links.
THEOREM RootsAreAsChecked == Spec => []RootIsAsChecked
  <1>1. LaunchInv => RootIsAsChecked
    BY InvTargetsShow, InvChecksHold DEF RootIsAsChecked
  <1> QED
    BY <1>1, LaunchInvariant, PTL
=============================================================================

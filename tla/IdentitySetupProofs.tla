-------------------------- MODULE IdentitySetupProofs --------------------------
(* A name is one user, and a command runs with what was declared for it. *)
EXTENDS IdentitySetup, SequenceTheorems, WellFoundedInduction, TLAPS

-----------------------------------------------------------------------------
(* Names. *)

\* The identities that a name of a Main process has had in this start are those in the
\* cache, which is filled once; those of a Sidecar's are in the lower directory, which
\* nothing writes to.
OfMain(l) == l[1] = "main" /\ l = <<"main", l[2], cache[l[2]]>>
OfSidecar(l) == l[1] = "sidecar" /\ l = <<"sidecar", l[2], ResolveUser(lower, l[2])>>

LaunchedInv ==
    /\ \A l \in launched : OfMain(l) \/ OfSidecar(l)
    /\ at = "start" => \A l \in launched : l[1] = "sidecar"

NamesInv == NamesAreResolved /\ LaunchedInv

LEMMA NamesInit == Init => NamesInv
  BY DEF Init, UsersInit, NamesInv, NamesAreResolved, LaunchedInv

\* What is launched under an unchanged cache and an unchanged file.
LEMMA LaunchedStep ==
  ASSUME LaunchedInv, at' = "running", UNCHANGED <<cache, lower>>,
         \A l \in launched' : l \in launched \/ OfMain(l) \/ OfSidecar(l)
  PROVE  LaunchedInv'
  <1>1. ASSUME NEW l \in launched' PROVE OfMain(l)' \/ OfSidecar(l)'
    <2>1. OfMain(l) \/ OfSidecar(l)
      BY <1>1 DEF LaunchedInv
    <2>2. OfMain(l) => OfMain(l)'
      BY DEF OfMain
    <2>3. OfSidecar(l) => OfSidecar(l)'
      BY DEF OfSidecar
    <2> QED
      BY <2>1, <2>2, <2>3
  <1> QED
    BY <1>1 DEF LaunchedInv

LEMMA NamesStep == NamesInv /\ [Next]_vars => NamesInv'
  <1> SUFFICES ASSUME NamesInv, [Next]_vars PROVE NamesInv'
    OBVIOUS
  <1> USE DEF NamesInv
  <1>1. CASE UNCHANGED userVars
    BY <1>1 DEF userVars, LaunchedInv, OfMain, OfSidecar, NamesAreResolved, Named
  <1>2. CASE ResolveMainUsers
    <2>1. NamesAreResolved'
      <3>1. Named' = Named
        BY <1>2 DEF ResolveMainUsers, Named
      <3>2. at' = "running" => cache' = [user \in Named |-> ParseMain(main, user)]
                               /\ \A user \in Named : ParseMain(main, user).error = ""
        BY <1>2 DEF ResolveMainUsers, ToResolve
      <3> QED
        BY <3>1, <3>2 DEF NamesAreResolved
    <2>2. at' # "start" /\ lower' = lower /\ launched' = launched
      BY <1>2 DEF ResolveMainUsers
    <2>3. ASSUME NEW l \in launched PROVE OfSidecar(l)'
      <3>1. l[1] = "sidecar" /\ (OfMain(l) \/ OfSidecar(l))
        BY <1>2, <2>3 DEF ResolveMainUsers, LaunchedInv
      <3>2. ~OfMain(l)
        BY <3>1 DEF OfMain
      <3> QED
        BY <2>2, <3>1, <3>2 DEF OfSidecar
    <2> QED
      BY <2>1, <2>2, <2>3 DEF LaunchedInv
  <1>3. CASE RewriteMain \/ RewriteUpper
    BY <1>3 DEF RewriteMain, RewriteUpper, LaunchedInv, OfMain, OfSidecar, NamesAreResolved, Named
  <1>4. CASE Restart
    <2>1. at' = "start" /\ lower' = lower
      BY <1>4 DEF Restart
    <2>2. ASSUME NEW l \in launched' PROVE l[1] = "sidecar" /\ OfSidecar(l)'
      <3>1. l[1] = "sidecar" /\ (OfMain(l) \/ OfSidecar(l))
        BY <1>4, <2>2 DEF Restart, LaunchedInv
      <3>2. ~OfMain(l)
        BY <3>1 DEF OfMain
      <3> QED
        BY <2>1, <3>1, <3>2 DEF OfSidecar
    <2> QED
      BY <2>1, <2>2 DEF LaunchedInv, NamesAreResolved
  <1>5. ASSUME NEW i \in DOMAIN declared, LaunchMain(i) PROVE NamesInv'
    <2> DEFINE new == <<"main", declared[i], cache[declared[i]]>>
    <2>1. launched' = launched \cup {new} /\ at = "running" /\ UNCHANGED <<cache, lower, at, declared>>
      BY <1>5 DEF LaunchMain, Cached
    <2>2. new[1] = "main" /\ new[2] = declared[i]
      OBVIOUS
    <2>3. OfMain(new)
      BY <2>2 DEF OfMain
    <2> HIDE DEF new
    <2> QED
      BY <2>1, <2>3, LaunchedStep DEF NamesAreResolved, Named
  <1>6. ASSUME NEW user \in Users, LaunchSidecar(user) PROVE NamesInv'
    <2> DEFINE new == <<"sidecar", user, ResolveUser(lower, user)>>
    <2>1. launched' \subseteq launched \cup {new} /\ at = "running" /\ UNCHANGED <<cache, lower, at, declared>>
      BY <1>6 DEF LaunchSidecar, Lower
    <2>2. new[1] = "sidecar" /\ new[2] = user
      OBVIOUS
    <2>3. OfSidecar(new)
      BY <2>2 DEF OfSidecar
    <2> HIDE DEF new
    <2> QED
      BY <2>1, <2>3, LaunchedStep DEF NamesAreResolved, Named
  <1>7. QED
    BY <1>1, <1>2, <1>3, <1>4, <1>5, <1>6
       DEF Next, vars, SpawnNamedMain, SpawnNamedSidecar, SpawnOther

LEMMA NamesInvariant == Spec => []NamesInv
  BY NamesInit, NamesStep, PTL DEF Spec

\* The file of a Sidecar's image is never written.
LEMMA LowerInvariant == Spec => [](lower \in Files)
  <1>1. Init => lower \in Files
    BY DEF Init, UsersInit
  <1>2. lower \in Files /\ [Next]_vars => (lower \in Files)'
    BY DEF Next, vars, userVars, ResolveMainUsers, RewriteMain, RewriteUpper, Restart,
           SpawnNamedMain, SpawnNamedSidecar, SpawnOther, LaunchMain, LaunchSidecar
  <1> QED
    BY <1>1, <1>2, PTL DEF Spec

-----------------------------------------------------------------------------
(* The parser, line by line. *)

\* Induction, for a set.
LEMMA Induction ==
  ASSUME NEW S, 0 \in S, \A n \in Nat : n \in S => n + 1 \in S
  PROVE  \A n \in Nat : n \in S
  <1> SUFFICES ASSUME NEW m \in Nat, m \notin S PROVE FALSE
    OBVIOUS
  <1> DEFINE T == {n \in Nat : n \notin S}
             R == OpToRel(<, Nat)
  <1>1. PICK k \in T : \A l \in T : ~(<<l, k>> \in R)
    <2>1. IsWellFoundedOn(R, Nat)
      BY NatLessThanWellFounded
    <2>2. T \subseteq Nat /\ T # {}
      OBVIOUS
    <2> HIDE DEF R, T
    <2> QED
      BY <2>1, <2>2, WFMin
  <1>2. k # 0 /\ k - 1 \in Nat /\ k - 1 \in S
    <2>1. k # 0 /\ k - 1 \in Nat /\ k - 1 < k
      OBVIOUS
    <2>2. <<k - 1, k>> \in R
      BY <2>1 DEF OpToRel
    <2> QED
      BY <1>1, <2>1, <2>2
  <1>3. k - 1 + 1 = k
    OBVIOUS
  <1> QED
    BY <1>2, <1>3

\* f is what the recursion over the lines of a file defines; there is such a function.
Table(file, user, f) == f = [n \in 0..Len(file) |->
    IF n = 0 THEN NotFound ELSE NextLine(user, f[n - 1], file[n])]

LEMMA FoundExists ==
  ASSUME NEW file, NEW user, Len(file) \in Nat
  PROVE  \E f : Table(file, user, f)
  <1> DEFINE Up(f, n) == f = [m \in 0..n |->
                                IF m = 0 THEN NotFound ELSE NextLine(user, f[m - 1], file[m])]
             S == {n \in Nat : \E f : Up(f, n)}
  <1>1. 0 \in S
    <2>1. Up([m \in 0..0 |-> NotFound], 0)
      OBVIOUS
    <2> QED
      BY <2>1
  <1>2. ASSUME NEW n \in Nat, n \in S PROVE n + 1 \in S
    <2>1. PICK f : Up(f, n)
      BY <1>2
    <2> DEFINE g == [m \in 0..n + 1 |->
                       IF m = n + 1 THEN NextLine(user, f[n], file[n + 1]) ELSE f[m]]
    <2>2. \A m \in 0..n + 1 :
             g[m] = IF m = 0 THEN NotFound ELSE NextLine(user, g[m - 1], file[m])
      <3>1. \A m \in 0..n : f[m] = IF m = 0 THEN NotFound ELSE NextLine(user, f[m - 1], file[m])
        BY <2>1
      <3>2. \A m \in 0..n : g[m] = f[m]
        OBVIOUS
      <3>3. g[n + 1] = NextLine(user, f[n], file[n + 1])
        OBVIOUS
      <3> HIDE DEF g
      <3>4. ASSUME NEW m \in 0..n, m # 0 PROVE g[m - 1] = f[m - 1]
        <4>1. m - 1 \in 0..n
          BY <3>4
        <4> QED
          BY <3>2, <4>1
      <3> QED
        BY <3>1, <3>2, <3>3, <3>4
    <2>3. Up(g, n + 1)
      BY <2>2
    <2>4. \E h : Up(h, n + 1)
      BY <2>3, Zenon
    <2> HIDE DEF Up
    <2> QED
      BY <2>4
  <1>3. Len(file) \in S
    <2> HIDE DEF S
    <2> QED
      BY <1>1, <1>2, Induction
  <1> QED
    BY <1>3 DEF Table

LEMMA FoundUnfolds ==
  ASSUME NEW file, NEW user, Len(file) \in Nat
  PROVE  /\ Found(file, user)[0] = NotFound
         /\ \A n \in 1..Len(file) :
              Found(file, user)[n] = NextLine(user, Found(file, user)[n - 1], file[n])
  <1> DEFINE f == Found(file, user)
  <1>1. f = CHOOSE g : Table(file, user, g)
    BY DEF Found, Table
  <1>2. Table(file, user, f)
    BY <1>1, FoundExists, Zenon
  <1> HIDE DEF f
  <1>3. f[0] = NotFound /\ \A n \in 1..Len(file) : f[n] = NextLine(user, f[n - 1], file[n])
    BY <1>2 DEF Table
  <1> QED
    BY <1>3 DEF f

\* What valid_user_name() allows.
ValidName(user) == user \notin {"", "#"}

\* The entries of a user in the first n lines.
Entries(file, user, n) == {i \in 1..n : file[i].name = user}
Complete(line) == line.fields = 7 /\ ValidId(line.uid) /\ ValidId(line.gid)
OnlyEntry(file, user, n, i) == Entries(file, user, n) = {i} /\ Complete(file[i])
IdentityOf(line) == Identity(line.uid, line.gid)

\* What the parser has found after n lines.
FoundRight(file, user, n) ==
    \/ Found(file, user)[n] = NotFound /\ Entries(file, user, n) = {}
    \/ \E i \in 1..n : OnlyEntry(file, user, n, i) /\ Found(file, user)[n] = IdentityOf(file[i])
    \/ /\ Found(file, user)[n] = Invalid /\ Entries(file, user, n) # {}
       /\ \A i \in 1..n : ~OnlyEntry(file, user, n, i)

LEMMA LineStep ==
  ASSUME NEW file, NEW user, ValidName(user), NEW n \in Nat, FoundRight(file, user, n),
         Found(file, user)[n + 1] = NextLine(user, Found(file, user)[n], file[n + 1])
  PROVE  FoundRight(file, user, n + 1)
  <1> DEFINE found == Found(file, user)[n]
             next == Found(file, user)[n + 1]
             line == file[n + 1]
             e == Entries(file, user, n)
             d == Entries(file, user, n + 1)
  <1> USE DEF NotFound, Invalid
  <1>1. NotFound # Invalid /\ \A l : IdentityOf(l) # NotFound /\ IdentityOf(l) # Invalid
    BY DEF IdentityOf, Identity
  <1>2. e \subseteq 1..n /\ n + 1 \notin 1..n /\ n + 1 \in 1..n + 1 /\ 1..n \subseteq 1..n + 1
    <2>1. e \subseteq 1..n
      BY DEF Entries
    <2> QED
      BY <2>1
  <1>3. CASE line.name # user
    <2>1. next = found /\ d = e
      <3>1. next = found
        BY <1>3 DEF NextLine
      <3>2. d = e
        BY <1>3, 1..n + 1 = 1..n \cup {n + 1} DEF Entries
      <3> QED
        BY <3>1, <3>2
    <2>2. CASE found = NotFound /\ e = {}
      BY <2>1, <2>2 DEF FoundRight
    <2>3. ASSUME NEW i \in 1..n, OnlyEntry(file, user, n, i), found = IdentityOf(file[i])
          PROVE  FoundRight(file, user, n + 1)
      BY <1>2, <2>1, <2>3 DEF FoundRight, OnlyEntry
    <2>4. CASE found = Invalid /\ e # {} /\ \A i \in 1..n : ~OnlyEntry(file, user, n, i)
      <3>1. \A i \in 1..n + 1 : ~OnlyEntry(file, user, n + 1, i)
        BY <1>2, <2>1, <2>4 DEF OnlyEntry
      <3> QED
        BY <2>1, <2>4, <3>1 DEF FoundRight
    <2> QED
      BY <2>2, <2>3, <2>4 DEF FoundRight
  <1>4. CASE line.name = user
    <2>1. d = e \cup {n + 1} /\ d # {}
      BY <1>4, 1..n + 1 = 1..n \cup {n + 1} DEF Entries
    <2>2. ~Ignored(line)
      BY <1>4 DEF Ignored, ValidName
    <2>3. next = IF found = NotFound /\ Complete(line) THEN IdentityOf(line) ELSE Invalid
      BY <1>1, <1>4, <2>2 DEF NextLine, Complete, IdentityOf
    <2>4. CASE found = NotFound /\ e = {} /\ Complete(line)
      BY <1>2, <2>1, <2>3, <2>4 DEF FoundRight, OnlyEntry
    <2>5. CASE found = NotFound /\ e = {} /\ ~Complete(line)
      BY <1>2, <2>1, <2>3, <2>5 DEF FoundRight, OnlyEntry
    <2>6. CASE e # {} /\ found # NotFound
      <3>1. \A i : d # {i}
        BY <1>2, <2>1, <2>6
      <3> QED
        BY <2>1, <2>3, <2>6, <3>1 DEF FoundRight, OnlyEntry
    <2> QED
      BY <1>1, <2>4, <2>5, <2>6 DEF FoundRight, OnlyEntry
  <1> QED
    BY <1>3, <1>4

\* parse_passwd() and parse_main_passwd(), for a file of any length.
LEMMA ParserIsRight ==
  ASSUME NEW file, NEW user, ValidName(user), Len(file) \in Nat
  PROVE  FoundRight(file, user, Len(file))
  <1> DEFINE S == {n \in Nat : n <= Len(file) => FoundRight(file, user, n)}
  <1>1. 0 \in S
    <2>1. Entries(file, user, 0) = {} /\ Found(file, user)[0] = NotFound
      BY FoundUnfolds DEF Entries
    <2> QED
      BY <2>1 DEF FoundRight
  <1>2. ASSUME NEW n \in Nat, n \in S PROVE n + 1 \in S
    <2>1. ASSUME n + 1 <= Len(file) PROVE FoundRight(file, user, n + 1)
      <3>1. n <= Len(file) /\ n + 1 \in 1..Len(file) /\ n + 1 - 1 = n
        BY <2>1
      <3>2. \A k \in 1..Len(file) : Found(file, user)[k] = NextLine(user, Found(file, user)[k - 1], file[k])
        BY FoundUnfolds
      <3>3. Found(file, user)[n + 1] = NextLine(user, Found(file, user)[n], file[n + 1])
        BY <3>1, <3>2
      <3>4. FoundRight(file, user, n)
        BY <1>2, <3>1
      <3> QED
        BY <3>3, <3>4, LineStep
    <2>2. n + 1 \in Nat
      OBVIOUS
    <2> QED
      BY <2>1, <2>2, Zenon
  <1>3. Len(file) \in S
    <2> HIDE DEF S
    <2> QED
      BY <1>1, <1>2, Induction
  <1> QED
    BY <1>3

LEMMA OnlyEntryIsUser == lower \in Files => UserIsTheOnlyEntry
  <1> SUFFICES ASSUME lower \in Files, NEW user \in Users, lower # Unreadable
      PROVE  LET entries == {i \in DOMAIN lower : lower[i].name = user}
                 id == ResolveUser(lower, user)
             IN id.error = "" <=> \E i \in entries :
                     /\ entries = {i}
                     /\ lower[i].fields = 7 /\ ValidId(lower[i].uid) /\ ValidId(lower[i].gid)
                     /\ id = Identity(lower[i].uid, lower[i].gid)
    BY DEF UserIsTheOnlyEntry
  <1> DEFINE n == Len(lower)
             id == ResolveUser(lower, user)
             entries == {i \in DOMAIN lower : lower[i].name = user}
  <1>1. n \in Nat /\ DOMAIN lower = 1..n
    BY FilesAssumption
  <1>2. ValidName(user)
    BY UsersAssumption DEF ValidName
  <1>3. FoundRight(lower, user, n)
    BY <1>1, <1>2, ParserIsRight
  <1>4. id = Found(lower, user)[n] /\ entries = Entries(lower, user, n)
    BY <1>1 DEF ResolveUser, ParsePasswd, Entries
  <1>5. \A i : IdentityOf(lower[i]).error = "" /\ NotFound.error # "" /\ Invalid.error # ""
    BY DEF IdentityOf, Identity, NotFound, Invalid
  <1> HIDE DEF id, entries, n
  <1>6. id.error = "" <=> \E i \in entries : entries = {i} /\ Complete(lower[i]) /\ id = IdentityOf(lower[i])
    BY <1>3, <1>4, <1>5 DEF FoundRight, OnlyEntry, Entries
  <1> QED
    BY <1>6 DEF Complete, IdentityOf, id, entries

\* Every name that from_main() looks up is in the map that resolve_main_users() has
\* made, and a name is one user, that of its only and complete entry: for Main until the
\* next start, for a Sidecar over restarts too, for files of any length and whatever
\* processes write to them.
THEOREM NamesAreUsers == Spec => []NamesAreRight
  <1>1. NamesInv => NamesAreResolved /\ NameIsOneUser
    BY DEF NamesInv, LaunchedInv, NameIsOneUser, OfMain, OfSidecar
  <1> QED
    BY <1>1, NamesInvariant, LowerInvariant, OnlyEntryIsUser, PTL DEF NamesAreRight

-----------------------------------------------------------------------------
(* Identities.  What the calls so far have done, by the number of calls that are left. *)

CallNames == {"is_root", "mounts", "clear_ambient", "setgroups", "setresgid", "setresuid",
              "capset", "no_new_privs", "verify"}

\* s is what is left of t.
IsRest(s, t) ==
    /\ s \in Seq(CallNames) /\ Len(s) <= Len(t)
    /\ \A i \in 1..Len(s) : s[i] = t[Len(t) - Len(s) + i]

LauncherCalls == <<"is_root", "setgroups", "setresgid", "setresuid">>
RootCalls(first) == <<first, "setgroups", "setresgid", "setresuid", "verify">>
UserCalls(first) == <<first, "clear_ambient", "setgroups", "setresgid", "setresuid", "capset",
                      "no_new_privs", "verify">>
FirstCall == IF program = "main" THEN "is_root" ELSE "mounts"

Groups(id) == cred.gid = id.gid /\ cred.egid = id.gid /\ cred.sgid = id.gid
User(id) == cred.uid = id.uid /\ cred.euid = id.uid /\ cred.suid = id.uid
NoCaps == cred.permitted = {} /\ cred.effective = {} /\ cred.inheritable = {} /\ cred.ambient = {}
FullRoot(c) == c.euid = 0 /\ c.effective = Process!Caps

CredInv ==
    /\ IsCredential(cred) /\ cred.ambient \subseteq cred.inheritable
    /\ \A i, j \in want : i = j
    /\ \A c, d \in campd : c = d
    /\ \A c \in campd :
          /\ IsCredential(c) /\ c.ambient \subseteq c.inheritable
          /\ c.effective = IF c.euid = 0 THEN Bounding \cup c.inheritable ELSE c.ambient
    /\ program \in {"entry", "launcher"} => campd = {}
    /\ program \notin {"launcher", "main", "sidecar"} => calls = <<>>

LauncherInv == program = "launcher" =>
    /\ IsRest(calls, LauncherCalls)
    /\ Len(calls) <= 2 => ~cred.groups
    /\ Len(calls) <= 1 => Groups(Process!Root)
    /\ Len(calls) <= 0 => User(Process!Root)

\* Without an identity the process is as campd was.
PlainInv ==
    /\ program = "campd" => cred \in campd
    /\ program \in {"main", "sidecar"} /\ want = {} =>
          /\ IsRest(calls, IF program = "main" THEN <<>> ELSE <<"mounts">>)
          /\ \A c \in campd : cred = c \/ cred = Process!Exec(c)
          /\ \A c \in campd : FullRoot(c) => FullRoot(cred)

\* Explicit root loses no capability on the way.
RootInv == program \in {"main", "sidecar"} => \A id \in want : id.uid = 0 =>
    /\ IsRest(calls, RootCalls(FirstCall))
    /\ Len(calls) <= 3 => ~cred.groups
    /\ Len(calls) <= 2 => Groups(id)
    /\ Len(calls) <= 1 => User(id)
    /\ \A c \in campd :
          /\ cred.inheritable = c.inheritable /\ cred.nnp = c.nnp
          /\ FullRoot(c) => FullRoot(cred)

\* Another user loses every capability, and not before setresuid().
UserInv == program \in {"main", "sidecar"} => \A id \in want : id.uid # 0 =>
    /\ IsRest(calls, UserCalls(FirstCall))
    /\ Len(calls) <= 6 => cred.ambient = {}
    /\ Len(calls) <= 5 => ~cred.groups
    /\ Len(calls) <= 4 => Groups(id)
    /\ Len(calls) <= 3 => User(id)
    /\ Len(calls) <= 2 => NoCaps
    /\ Len(calls) <= 1 => cred.nnp
    /\ Len(calls) >= 4 => \A c \in campd : FullRoot(c) => FullRoot(cred)

SetupInv ==
    /\ CredInv /\ LauncherInv /\ PlainInv /\ RootInv /\ UserInv
    /\ IdentityIsDeclared /\ RootIsNotRefused

LEMMA RestStep ==
  ASSUME NEW s, NEW t, IsRest(s, t), Len(t) \in Nat, s # <<>>
  PROVE  /\ Len(s) \in 1..Len(t) /\ Head(s) = t[Len(t) - Len(s) + 1]
         /\ IsRest(Tail(s), t) /\ Len(Tail(s)) = Len(s) - 1
  <1> USE DEF IsRest
  <1>1. Len(s) \in 1..Len(t)
    OBVIOUS
  <1>2. Tail(s) \in Seq(CallNames) /\ Len(Tail(s)) = Len(s) - 1
    BY <1>1
  <1>3. \A i \in 1..Len(Tail(s)) : Tail(s)[i] = s[i + 1] /\ i + 1 \in 1..Len(s)
    BY <1>1, <1>2
  <1>4. Head(s) = s[1]
    BY <1>1
  <1> QED
    BY <1>1, <1>2, <1>3, <1>4

LEMMA RestOfAll ==
  ASSUME NEW s \in Seq(CallNames), NEW t, Len(s) = Len(t), \A i \in 1..Len(s) : s[i] = t[i]
  PROVE  IsRest(s, t)
  BY DEF IsRest

\* s is a after one call more.
Before(f, a, s) ==
    /\ s \in Seq(CallNames) /\ Len(s) = Len(a) + 1 /\ s[1] = f
    /\ \A i \in 2..Len(s) : s[i] = a[i - 1]

LEMMA OneBefore ==
  ASSUME NEW a \in Seq(CallNames), NEW f \in CallNames
  PROVE  Before(f, a, <<f>> \o a)
  <1> DEFINE s == <<f>> \o a
  <1> DEFINE u == <<f>>
  <1>1. u \in Seq(CallNames) /\ Len(u) = 1 /\ u[1] = f
    OBVIOUS
  <1>2. s = u \o a
    OBVIOUS
  <1> HIDE DEF u, s
  <1>3. s \in Seq(CallNames)
    BY <1>1, <1>2, ConcatProperties
  <1>4. Len(s) = Len(u) + Len(a)
    BY <1>1, <1>2, ConcatProperties
  <1>5. \A i \in 1..Len(u) + Len(a) : s[i] = IF i <= Len(u) THEN u[i] ELSE a[i - Len(u)]
    BY <1>1, <1>2, ConcatProperties
  <1>6. Len(a) \in Nat
    OBVIOUS
  <1>7. Before(f, a, s)
    BY <1>1, <1>3, <1>4, <1>5, <1>6 DEF Before
  <1> QED
    BY <1>7 DEF s

\* What a child of campd starts with.
LEMMA FirstCalls ==
  ASSUME NEW id, NEW first \in CallNames, NEW a, a = Process!ApplyIdentity(id),
         NEW s, s = <<first>> \o a
  PROVE  /\ id.uid = 0 => IsRest(s, RootCalls(first)) /\ Len(s) = 5
         /\ id.uid # 0 => IsRest(s, UserCalls(first)) /\ Len(s) = 8
  <1>1. CASE id.uid = 0
    <2>1. a = <<"setgroups", "setresgid", "setresuid", "verify">>
      BY <1>1 DEF Process!ApplyIdentity
    <2>2. a \in Seq(CallNames) /\ Len(a) = 4
      BY <2>1 DEF CallNames
    <2>3. /\ s \in Seq(CallNames) /\ Len(s) = 5
          /\ s[1] = first /\ s[2] = a[1] /\ s[3] = a[2] /\ s[4] = a[3] /\ s[5] = a[4]
      <3>1. Before(first, a, s)
        BY <2>2, OneBefore, Zenon
      <3>2. Len(s) = 5
        BY <2>2, <3>1 DEF Before
      <3> QED
        BY <3>1, <3>2 DEF Before
    <2>4. Len(RootCalls(first)) = 5
      BY DEF RootCalls
    <2>5. \A i \in 1..5 : s[i] = RootCalls(first)[i]
      BY <2>1, <2>3 DEF RootCalls
    <2> QED
      <3>1. IsRest(s, RootCalls(first))
        BY <2>3, <2>4, <2>5, RestOfAll
      <3> QED
        BY <1>1, <2>3, <3>1
  <1>2. CASE id.uid # 0
    <2>1. a = <<"clear_ambient", "setgroups", "setresgid", "setresuid", "capset", "no_new_privs", "verify">>
      BY <1>2 DEF Process!ApplyIdentity
    <2>2. a \in Seq(CallNames) /\ Len(a) = 7
      BY <2>1 DEF CallNames
    <2>3. /\ s \in Seq(CallNames) /\ Len(s) = 8
          /\ s[1] = first /\ s[2] = a[1] /\ s[3] = a[2] /\ s[4] = a[3] /\ s[5] = a[4]
          /\ s[6] = a[5] /\ s[7] = a[6] /\ s[8] = a[7]
      <3>1. Before(first, a, s)
        BY <2>2, OneBefore, Zenon
      <3>2. Len(s) = 8
        BY <2>2, <3>1 DEF Before
      <3> QED
        BY <3>1, <3>2 DEF Before
    <2>4. Len(UserCalls(first)) = 8
      BY DEF UserCalls
    <2>5. \A i \in 1..8 : s[i] = UserCalls(first)[i]
      BY <2>1, <2>3 DEF UserCalls
    <2> QED
      <3>1. s \in Seq(CallNames) /\ Len(s) = Len(UserCalls(first))
        BY <2>3, <2>4
      <3>2. \A i \in 1..Len(s) : s[i] = UserCalls(first)[i]
        BY <2>3, <2>5
      <3>3. IsRest(s, UserCalls(first))
        BY <3>1, <3>2, RestOfAll, Zenon
      <3> QED
        BY <1>2, <2>3, <3>3
  <1> QED
    BY <1>1, <1>2

\* What an exec keeps and what it sets.
LEMMA ExecKeeps ==
  ASSUME NEW c, IsCredential(c), NEW e, e = Process!Exec(c)
  PROVE  /\ IsCredential(e)
         /\ e.uid = c.uid /\ e.euid = c.euid /\ e.suid = c.euid
         /\ e.gid = c.gid /\ e.egid = c.egid /\ e.sgid = c.egid
         /\ e.groups = c.groups /\ e.nnp = c.nnp /\ e.inheritable = c.inheritable
         /\ e.ambient \subseteq c.ambient
         /\ e.effective = IF c.euid = 0 THEN Bounding \cup c.inheritable ELSE e.ambient
         /\ c.ambient = {} => e.ambient = {}
         /\ c.ambient = {} /\ c.inheritable = {} /\ c.uid # 0 /\ c.euid # 0 => e.permitted = {}
  BY DEF Process!Exec, IsCredential

LEMMA SetupInit == Init => SetupInv
  BY CallersAssumption
     DEF Init, Process!Init, SetupInv, CredInv, LauncherInv, PlainInv, RootInv, UserInv,
         IdentityIsDeclared, Process!IdentityIsDeclared, Process!ExplicitIdentityIsExact,
         Process!RootKeepsCapabilities, Process!NoneInherits,
         RootIsNotRefused, Process!RootIsNotRefused

\* Both properties are about programs that have come to an end.
LEMMA OtherPrograms ==
  ASSUME program' \notin {"command", "failed"}
  PROVE  IdentityIsDeclared' /\ RootIsNotRefused'
  BY DEF IdentityIsDeclared, Process!IdentityIsDeclared, Process!ExplicitIdentityIsExact,
         Process!RootKeepsCapabilities, Process!NoneInherits,
         RootIsNotRefused, Process!RootIsNotRefused

LEMMA EnterStep ==
  ASSUME SetupInv, Process!EnterLauncher \/ Process!EnterCampd
  PROVE  SetupInv'
  <1>1. CASE Process!EnterLauncher
    <2> USE DEF Process!EnterLauncher
    <2>1. PICK c : /\ IsCredential(c) /\ c.ambient \subseteq c.inheritable
                   /\ cred' = Process!Exec(c)
      <3>1. IsCredential([cred EXCEPT !.euid = 0])
        BY <1>1 DEF SetupInv, CredInv, IsCredential
      <3>2. [cred EXCEPT !.euid = 0].ambient \subseteq [cred EXCEPT !.euid = 0].inheritable
        BY <1>1 DEF SetupInv, CredInv, IsCredential
      <3> QED
        BY <1>1, <3>1, <3>2 DEF SetupInv, CredInv
    <2>2. program' = "launcher" /\ campd' = {} /\ want' = want /\ calls' = LauncherCalls
      BY <1>1 DEF SetupInv, CredInv, LauncherCalls, Process!Bootstrap
    <2>3. CredInv'
      BY <2>1, <2>2, ExecKeeps DEF SetupInv, CredInv
    <2>4. Len(LauncherCalls) = 4 /\ LauncherCalls \in Seq(CallNames)
      BY DEF LauncherCalls, CallNames
    <2>5. LauncherInv'
      BY <2>2, <2>4, RestOfAll DEF LauncherInv
    <2>6. PlainInv' /\ RootInv' /\ UserInv'
      BY <2>2 DEF PlainInv, RootInv, UserInv
    <2> QED
      BY <2>2, <2>3, <2>5, <2>6, OtherPrograms DEF SetupInv
  <1>2. CASE Process!EnterCampd
    <2>1. /\ program' = "campd" /\ calls' = <<>> /\ want' = want
          /\ cred' = Process!Exec(cred) /\ campd' = {cred'}
      BY <1>2 DEF Process!EnterCampd
    <2>2. CredInv'
      <3>1. IsCredential(cred) /\ cred.ambient \subseteq cred.inheritable
        BY DEF SetupInv, CredInv
      <3>2. /\ IsCredential(cred') /\ cred'.ambient \subseteq cred'.inheritable
            /\ cred'.effective = IF cred'.euid = 0 THEN Bounding \cup cred'.inheritable ELSE cred'.ambient
        <4>1. /\ IsCredential(cred') /\ cred'.inheritable = cred.inheritable
              /\ cred'.ambient \subseteq cred.ambient /\ cred'.euid = cred.euid
              /\ cred'.effective = IF cred.euid = 0 THEN Bounding \cup cred.inheritable ELSE cred'.ambient
          BY <2>1, <3>1, ExecKeeps, Zenon
        <4> QED
          BY <3>1, <4>1
      <3>3. \A c \in campd' : c = cred'
        BY <2>1
      <3>4. \A c \in campd' :
              /\ IsCredential(c) /\ c.ambient \subseteq c.inheritable
              /\ c.effective = IF c.euid = 0 THEN Bounding \cup c.inheritable ELSE c.ambient
        BY <3>2, <3>3
      <3>5. \A i, j \in want' : i = j
        BY <2>1 DEF SetupInv, CredInv
      <3> QED
        BY <2>1, <3>2, <3>4, <3>5 DEF CredInv, IsCredential
    <2>3. LauncherInv' /\ PlainInv' /\ RootInv' /\ UserInv'
      BY <2>1 DEF LauncherInv, PlainInv, RootInv, UserInv
    <2> QED
      BY <2>1, <2>2, <2>3, OtherPrograms DEF SetupInv
  <1> QED
    BY <1>1, <1>2

LEMMA FollowStep ==
  ASSUME SetupInv, Process!Follow
  PROVE  SetupInv'
  <1>1. /\ program' = "campd" /\ calls' = <<>> /\ want' = {} /\ cred' \in campd /\ campd' = campd
    BY DEF Process!Follow
  <1>2. CredInv'
    BY <1>1 DEF SetupInv, CredInv
  <1>3. LauncherInv' /\ PlainInv' /\ RootInv' /\ UserInv'
    BY <1>1 DEF LauncherInv, PlainInv, RootInv, UserInv
  <1> QED
    BY <1>1, <1>2, <1>3, OtherPrograms DEF SetupInv

\* A process starts as campd is; for campd that is root with every capability, it is so too.
LEMMA SpawnedCred ==
  ASSUME SetupInv, program = "campd", NEW d, d = cred \/ d = Process!Exec(cred)
  PROVE  /\ IsCredential(d) /\ d.ambient \subseteq d.inheritable
         /\ \A c \in campd : c = cred
         /\ \A c \in campd : d.inheritable = c.inheritable /\ d.nnp = c.nnp
         /\ \A c \in campd : FullRoot(c) => FullRoot(d)
  <1>1. /\ cred \in campd /\ \A c \in campd : c = cred
        /\ IsCredential(cred) /\ cred.ambient \subseteq cred.inheritable
        /\ cred.effective = IF cred.euid = 0 THEN Bounding \cup cred.inheritable ELSE cred.ambient
    <2>1. cred \in campd
      BY DEF SetupInv, PlainInv
    <2>2. \A c \in campd : c = cred
      <3>1. program # "entry"
        OBVIOUS
      <3> QED
        BY <2>1 DEF SetupInv, CredInv
    <2> QED
      BY <2>1, <2>2 DEF SetupInv, CredInv
  <1>2. CASE d = cred
    BY <1>1, <1>2
  <1>3. CASE d = Process!Exec(cred)
    <2>1. /\ IsCredential(d) /\ d.inheritable = cred.inheritable /\ d.nnp = cred.nnp
          /\ d.ambient \subseteq cred.ambient /\ d.euid = cred.euid
          /\ d.effective = IF cred.euid = 0 THEN Bounding \cup cred.inheritable ELSE d.ambient
      BY <1>1, <1>3, ExecKeeps, Zenon
    <2>2. FullRoot(cred) => FullRoot(d)
      BY <1>1, <2>1 DEF FullRoot
    <2>3. d.ambient \subseteq d.inheritable
      BY <1>1, <2>1
    <2> QED
      BY <1>1, <2>1, <2>2, <2>3, Zenon
  <1> QED
    BY <1>2, <1>3

LEMMA SpawnStep ==
  ASSUME SetupInv, NEW ids, \A i, j \in ids : i = j,
         Process!SpawnMain(ids) \/ Process!SpawnSidecar(ids)
  PROVE  SetupInv'
  <1>1. /\ program = "campd" /\ want' = ids /\ campd' = campd
        /\ cred' = cred \/ cred' = Process!Exec(cred)
        /\ program' \in {"main", "sidecar"}
    BY DEF Process!SpawnMain, Process!SpawnSidecar
  <1>2. /\ IsCredential(cred') /\ cred'.ambient \subseteq cred'.inheritable
        /\ \A c \in campd : c = cred
        /\ \A c \in campd : cred'.inheritable = c.inheritable /\ cred'.nnp = c.nnp
        /\ \A c \in campd : FullRoot(c) => FullRoot(cred')
    BY <1>1, SpawnedCred, Zenon
  <1>3. FirstCall' = (IF program' = "main" THEN "is_root" ELSE "mounts") /\ FirstCall' \in CallNames
    BY DEF FirstCall, CallNames
  <1>4. IF ids = {} THEN calls' = IF program' = "main" THEN <<>> ELSE <<"mounts">> \o <<>>
        ELSE calls' = <<FirstCall'>> \o Process!ApplyIdentity(CHOOSE i \in ids : TRUE)
    BY <1>3 DEF Process!SpawnMain, Process!SpawnSidecar, Process!ApplyMainIdentity, Process!Nothing
  <1>5. CredInv'
    BY <1>1, <1>2 DEF SetupInv, CredInv
  <1>6. LauncherInv'
    BY <1>1 DEF LauncherInv
  <1>7. PlainInv'
    <2>1. CASE ids = {}
      <3>1. IsRest(calls', IF program' = "main" THEN <<>> ELSE <<"mounts">>)
        <4>1. IsRest(<<>>, <<>>)
          BY DEF IsRest
        <4>2. <<>> \in Seq(CallNames) /\ Len(<<>>) = 0 /\ "mounts" \in CallNames
          BY DEF CallNames
        <4>3. Before("mounts", <<>>, <<"mounts">> \o <<>>)
          BY <4>2, OneBefore
        <4>4. IsRest(<<"mounts">> \o <<>>, <<"mounts">>)
          BY <4>2, <4>3 DEF IsRest, Before
        <4> QED
          BY <1>4, <2>1, <4>1, <4>4
      <3>2. \A c \in campd' : cred' = c \/ cred' = Process!Exec(c)
        BY <1>1, <1>2, Zenon
      <3> QED
        BY <1>1, <1>2, <2>1, <3>1, <3>2 DEF PlainInv, FullRoot
    <2>2. CASE ids # {}
      BY <1>1, <2>2 DEF PlainInv
    <2> QED
      BY <2>1, <2>2
  <1>8. RootInv' /\ UserInv'
    <2>1. CASE ids = {}
      BY <1>1, <2>1 DEF RootInv, UserInv
    <2>2. CASE ids # {}
      <3>1. PICK id : id \in ids /\ id = (CHOOSE i \in ids : TRUE)
        BY <2>2
      <3>2. \A i \in want' : i = id
        BY <1>1, <3>1
      <3>3. calls' = <<FirstCall'>> \o Process!ApplyIdentity(id)
        BY <1>4, <2>2, <3>1
      <3>4. /\ id.uid = 0 => IsRest(calls', RootCalls(FirstCall')) /\ Len(calls') = 5
            /\ id.uid # 0 => IsRest(calls', UserCalls(FirstCall')) /\ Len(calls') = 8
        BY <1>3, <3>3, FirstCalls, Zenon
      <3>5. RootInv'
        <4>1. CASE id.uid = 0
          <5>1. \A c \in campd' : FullRoot(c)' => FullRoot(cred)'
            BY <1>1, <1>2 DEF FullRoot
          <5>2. \A c \in campd' : cred'.inheritable = c.inheritable /\ cred'.nnp = c.nnp
            BY <1>1, <1>2
          <5>3. IsRest(calls', RootCalls(FirstCall)') /\ Len(calls') = 5
            BY <3>4, <4>1 DEF RootCalls
          <5> QED
            BY <5>1, <5>2, <5>3 DEF RootInv
        <4>2. CASE id.uid # 0
          BY <3>2, <4>2 DEF RootInv
        <4> QED
          BY <4>1, <4>2
      <3>6. UserInv'
        <4>1. CASE id.uid # 0
          <5>1. \A c \in campd' : FullRoot(c)' => FullRoot(cred)'
            BY <1>1, <1>2 DEF FullRoot
          <5>2. IsRest(calls', UserCalls(FirstCall)') /\ Len(calls') = 8
            BY <3>4, <4>1 DEF UserCalls
          <5> QED
            BY <5>1, <5>2 DEF UserInv
        <4>2. CASE id.uid = 0
          BY <3>2, <4>2 DEF UserInv
        <4> QED
          BY <4>1, <4>2
      <3> QED
        BY <3>5, <3>6
    <2> QED
      BY <2>1, <2>2
  <1> QED
    BY <1>1, <1>5, <1>6, <1>7, <1>8, OtherPrograms DEF SetupInv

LEMMA CallCases ==
  ASSUME Process!Call
  PROVE  /\ calls # <<>> /\ want' = want /\ campd' = campd
         /\ \/ /\ Process!Allowed(Head(calls), cred, Process!Target)
               /\ cred' = Process!After(Head(calls), cred, Process!Target)
               /\ calls' = Tail(calls) /\ program' = program
            \/ /\ ~Process!Allowed(Head(calls), cred, Process!Target)
               /\ program' = "failed" /\ calls' = <<>> /\ cred' = cred
  BY DEF Process!Call

LEMMA TargetOfWant ==
  ASSUME SetupInv, program # "launcher", NEW id \in want
  PROVE  Process!Target = id
  <1>1. \A i, j \in want : i = j
    BY DEF SetupInv, CredInv
  <1>2. (CHOOSE i \in want : TRUE) = id
    BY <1>1
  <1> QED
    BY <1>2 DEF Process!Target

\* Every call leaves credentials, whose ambient capabilities are inheritable.
LEMMA AfterKeeps ==
  ASSUME NEW c, IsCredential(c), c.ambient \subseteq c.inheritable, NEW call, NEW id,
         NEW d, d = Process!After(call, c, id)
  PROVE  IsCredential(d) /\ d.ambient \subseteq d.inheritable
  <1> USE DEF Process!After, IsCredential
  <1>1. CASE call \in {"clear_ambient", "setgroups", "setresgid", "no_new_privs"}
    BY <1>1
  <1>2. CASE call = "setresuid"
    BY <1>2 DEF Process!SetUids, Process!Drop
  <1>3. CASE call = "capset"
    BY <1>3 DEF Process!Drop
  <1>4. CASE call \notin {"clear_ambient", "setgroups", "setresgid", "no_new_privs", "setresuid", "capset"}
    BY <1>4
  <1> QED
    BY <1>1, <1>2, <1>3, <1>4

LEMMA CallKeepsCred == SetupInv /\ Process!Call => CredInv'
  <1> SUFFICES ASSUME SetupInv, Process!Call PROVE CredInv'
    OBVIOUS
  <1>1. IsCredential(cred') /\ cred'.ambient \subseteq cred'.inheritable
    <2>1. IsCredential(cred) /\ cred.ambient \subseteq cred.inheritable
      BY DEF SetupInv, CredInv
    <2> QED
      BY <2>1, CallCases, AfterKeeps, Zenon
  <1>2. /\ campd' = campd /\ want' = want
        /\ (program' = program /\ calls # <<>>) \/ (program' = "failed" /\ calls' = <<>>)
    BY CallCases
  <1> QED
    BY <1>1, <1>2 DEF SetupInv, CredInv

LEMMA LauncherCall ==
  ASSUME SetupInv, Process!Call, program = "launcher"
  PROVE  SetupInv'
  <1> DEFINE n == Len(calls)
             root == Process!Root
  <1>1. calls # <<>> /\ want' = want /\ campd' = {}
    BY CallCases DEF SetupInv, CredInv
  <1>2. /\ n \in 1..4 /\ Head(calls) = LauncherCalls[5 - n]
        /\ IsRest(Tail(calls), LauncherCalls) /\ Len(Tail(calls)) = n - 1
    <2>1. IsRest(calls, LauncherCalls) /\ Len(LauncherCalls) = 4
      BY DEF SetupInv, LauncherInv, LauncherCalls
    <2>2. /\ n \in 1..Len(LauncherCalls) /\ Head(calls) = LauncherCalls[Len(LauncherCalls) - n + 1]
          /\ IsRest(Tail(calls), LauncherCalls) /\ Len(Tail(calls)) = n - 1
      <3>1. Len(LauncherCalls) \in Nat
        BY <2>1
      <3> QED
        BY <1>1, <2>1, <3>1, RestStep, Zenon
    <2>3. n \in 1..4 => 4 - n + 1 = 5 - n
      OBVIOUS
    <2> QED
      BY <2>1, <2>2, <2>3
  <1>3. IsCredential(cred)
    BY DEF SetupInv, CredInv
  <1>4. CASE program' = "failed"
    <2>1. LauncherInv' /\ PlainInv' /\ RootInv' /\ UserInv' /\ IdentityIsDeclared' /\ RootIsNotRefused'
      BY <1>1, <1>4
         DEF LauncherInv, PlainInv, RootInv, UserInv,
             IdentityIsDeclared, Process!IdentityIsDeclared, Process!ExplicitIdentityIsExact,
             Process!RootKeepsCapabilities, Process!NoneInherits,
             RootIsNotRefused, Process!RootIsNotRefused
    <2> QED
      BY <2>1, CallKeepsCred DEF SetupInv
  <1>5. CASE program' # "failed"
    <2>1. /\ cred' = Process!After(Head(calls), cred, root)
          /\ calls' = Tail(calls) /\ program' = "launcher"
      BY <1>5, CallCases DEF Process!Target
    <2>2. LauncherInv
      BY DEF SetupInv
    <2>3. /\ Len(calls') = n - 1 /\ IsRest(calls', LauncherCalls)
      BY <1>2, <2>1
    <2>4. /\ n - 1 <= 2 => ~cred'.groups
          /\ n - 1 <= 1 => Groups(root)'
          /\ n - 1 <= 0 => User(root)'
      <3> USE DEF LauncherInv, Groups, User, Process!After, IsCredential, LauncherCalls
      <3>1. CASE n = 4
        BY <1>2, <1>3, <2>1, <3>1
      <3>2. CASE n = 3
        BY <1>2, <1>3, <2>1, <2>2, <3>2
      <3>3. CASE n = 2
        BY <1>2, <1>3, <2>1, <2>2, <3>3
      <3>4. CASE n = 1
        BY <1>2, <1>3, <2>1, <2>2, <3>4 DEF Process!SetUids, Process!Drop, Process!Root
      <3> QED
        BY <1>2, <3>1, <3>2, <3>3, <3>4
    <2>5. LauncherInv'
      BY <2>3, <2>4 DEF LauncherInv
    <2>6. PlainInv' /\ RootInv' /\ UserInv'
      BY <2>1 DEF PlainInv, RootInv, UserInv
    <2> QED
      BY <2>1, <2>5, <2>6, OtherPrograms, CallKeepsCred DEF SetupInv
  <1> QED
    BY <1>4, <1>5

\* What each call changes and what it keeps.
SameUser(c, d) == d.uid = c.uid /\ d.euid = c.euid /\ d.suid = c.suid
SameGroup(c, d) == d.gid = c.gid /\ d.egid = c.egid /\ d.sgid = c.sgid
SameCaps(c, d) == d.permitted = c.permitted /\ d.effective = c.effective /\ d.inheritable = c.inheritable

LEMMA Effects ==
  ASSUME NEW c, IsCredential(c), NEW id, NEW call, NEW d, d = Process!After(call, c, id)
  PROVE  /\ call \in {"is_root", "mounts", "verify"} => d = c
         /\ call = "clear_ambient" =>
              /\ d.ambient = {} /\ d.groups = c.groups /\ d.nnp = c.nnp
              /\ SameUser(c, d) /\ SameGroup(c, d) /\ SameCaps(c, d)
         /\ call = "setgroups" =>
              /\ ~d.groups /\ d.ambient = c.ambient /\ d.nnp = c.nnp
              /\ SameUser(c, d) /\ SameGroup(c, d) /\ SameCaps(c, d)
         /\ call = "setresgid" =>
              /\ d.gid = id.gid /\ d.egid = id.gid /\ d.sgid = id.gid
              /\ d.ambient = c.ambient /\ d.groups = c.groups /\ d.nnp = c.nnp
              /\ SameUser(c, d) /\ SameCaps(c, d)
         /\ call = "setresuid" =>
              /\ d.uid = id.uid /\ d.euid = id.uid /\ d.suid = id.uid
              /\ d.inheritable = c.inheritable /\ d.groups = c.groups /\ d.nnp = c.nnp
              /\ SameGroup(c, d)
              /\ c.ambient = {} => d.ambient = {}
              /\ id.uid = 0 /\ c.euid = 0 => d.effective = c.effective
         /\ call = "capset" =>
              /\ d.permitted = {} /\ d.effective = {} /\ d.inheritable = {} /\ d.ambient = {}
              /\ d.groups = c.groups /\ d.nnp = c.nnp
              /\ SameUser(c, d) /\ SameGroup(c, d)
         /\ call = "no_new_privs" =>
              /\ d.nnp /\ d.ambient = c.ambient /\ d.groups = c.groups
              /\ SameUser(c, d) /\ SameGroup(c, d) /\ SameCaps(c, d)
  <1> USE DEF Process!After, IsCredential, SameUser, SameGroup, SameCaps
  <1>1. CASE call \in {"is_root", "mounts", "verify"}
    BY <1>1
  <1>2. CASE call = "clear_ambient"
    BY <1>2
  <1>3. CASE call = "setgroups"
    BY <1>3
  <1>4. CASE call = "setresgid"
    BY <1>4
  <1>5. CASE call = "setresuid"
    BY <1>5 DEF Process!SetUids, Process!Drop
  <1>6. CASE call = "capset"
    BY <1>6 DEF Process!Drop
  <1>7. CASE call = "no_new_privs"
    BY <1>7
  <1> QED
    BY <1>1, <1>2, <1>3, <1>4, <1>5, <1>6, <1>7

\* A refusal is one of a campd that is not root with every capability.
LEMMA RefusedStep ==
  ASSUME SetupInv, Process!Call, program' = "failed",
         \A c \in campd : ~FullRoot(c)
  PROVE  SetupInv'
  <1>1. campd' = campd
    BY CallCases
  <1>2. LauncherInv' /\ PlainInv' /\ RootInv' /\ UserInv' /\ IdentityIsDeclared' /\ RootIsNotRefused'
    BY <1>1
       DEF LauncherInv, PlainInv, RootInv, UserInv, FullRoot,
           IdentityIsDeclared, Process!IdentityIsDeclared, Process!ExplicitIdentityIsExact,
           Process!RootKeepsCapabilities, Process!NoneInherits,
           RootIsNotRefused, Process!RootIsNotRefused
  <1> QED
    BY <1>2, CallKeepsCred DEF SetupInv

LEMMA PlainCall ==
  ASSUME SetupInv, Process!Call, program \in {"main", "sidecar"}, want = {}
  PROVE  SetupInv'
  <1> DEFINE n == Len(calls)
             t == <<"mounts">>
  <1>1. calls # <<>> /\ want' = {} /\ campd' = campd
    BY CallCases
  <1>2. IsRest(calls, IF program = "main" THEN <<>> ELSE t)
    BY DEF SetupInv, PlainInv
  <1>3. program = "sidecar"
    <2>1. ~IsRest(calls, <<>>)
      BY <1>1 DEF IsRest
    <2> QED
      BY <1>2, <2>1
  <1>4. Head(calls) = "mounts" /\ IsRest(Tail(calls), t)
    <2>1. n \in 1..Len(t) /\ Head(calls) = t[Len(t) - n + 1] /\ IsRest(Tail(calls), t)
      <3>1. Len(t) \in Nat /\ IsRest(calls, t)
        BY <1>2, <1>3
      <3> QED
        BY <1>1, <3>1, RestStep, Zenon
    <2> QED
      BY <2>1
  <1>5. CASE program' = "failed"
    <2>1. "admin" \notin cred.effective
      BY <1>3, <1>4, <1>5, CallCases DEF Process!Allowed
    <2>2. \A c \in campd : FullRoot(c) => FullRoot(cred)
      BY DEF SetupInv, PlainInv
    <2>3. \A c \in campd : ~FullRoot(c)
      BY <2>1, <2>2 DEF FullRoot, Process!Caps
    <2> QED
      BY <1>5, <2>3, RefusedStep
  <1>6. CASE program' # "failed"
    <2>1. cred' = cred /\ calls' = Tail(calls) /\ program' = "sidecar"
      BY <1>3, <1>4, <1>6, CallCases DEF Process!After
    <2>2. PlainInv'
      BY <1>1, <1>3, <1>4, <2>1 DEF SetupInv, PlainInv, FullRoot
    <2>3. LauncherInv' /\ RootInv' /\ UserInv'
      BY <1>1, <2>1 DEF LauncherInv, RootInv, UserInv
    <2> QED
      BY <2>1, <2>2, <2>3, OtherPrograms, CallKeepsCred DEF SetupInv
  <1> QED
    BY <1>5, <1>6

LEMMA RootCall ==
  ASSUME SetupInv, Process!Call, program \in {"main", "sidecar"}, NEW id \in want, id.uid = 0
  PROVE  SetupInv'
  <1> DEFINE n == Len(calls)
             t == RootCalls(FirstCall)
  <1>1. /\ calls # <<>> /\ want' = want /\ campd' = campd
        /\ Process!Target = id /\ IsCredential(cred) /\ \A i \in want : i = id
    BY CallCases, TargetOfWant DEF SetupInv, CredInv
  <1>2. /\ n \in 1..5 /\ Head(calls) = t[6 - n]
        /\ IsRest(Tail(calls), t) /\ Len(Tail(calls)) = n - 1
    <2>1. IsRest(calls, t) /\ Len(t) = 5
      BY DEF SetupInv, RootInv, RootCalls
    <2>2. /\ n \in 1..Len(t) /\ Head(calls) = t[Len(t) - n + 1]
          /\ IsRest(Tail(calls), t) /\ Len(Tail(calls)) = n - 1
      <3>1. Len(t) \in Nat
        BY <2>1
      <3> QED
        BY <1>1, <2>1, <3>1, RestStep, Zenon
    <2>3. n \in 1..5 => 5 - n + 1 = 6 - n
      OBVIOUS
    <2> QED
      BY <2>1, <2>2, <2>3
  <1>3. /\ n <= 3 => ~cred.groups
        /\ n <= 2 => Groups(id)
        /\ n <= 1 => User(id)
        /\ \A c \in campd :
              /\ cred.inheritable = c.inheritable /\ cred.nnp = c.nnp
              /\ FullRoot(c) => FullRoot(cred)
    BY DEF SetupInv, RootInv
  <1>4. /\ n = 5 => Head(calls) = FirstCall
        /\ n = 4 => Head(calls) = "setgroups"
        /\ n = 3 => Head(calls) = "setresgid"
        /\ n = 2 => Head(calls) = "setresuid"
        /\ n = 1 => Head(calls) = "verify"
    <2> HIDE DEF n
    <2>1. n = 5 => t[6 - n] = t[1]
      OBVIOUS
    <2>2. n = 4 => t[6 - n] = t[2]
      OBVIOUS
    <2>3. n = 3 => t[6 - n] = t[3]
      OBVIOUS
    <2>4. n = 2 => t[6 - n] = t[4]
      OBVIOUS
    <2>5. n = 1 => t[6 - n] = t[5]
      OBVIOUS
    <2>6. /\ t[1] = FirstCall /\ t[2] = "setgroups" /\ t[3] = "setresgid"
          /\ t[4] = "setresuid" /\ t[5] = "verify"
      BY DEF RootCalls
    <2> QED
      BY <1>2, <2>1, <2>2, <2>3, <2>4, <2>5, <2>6, Zenon
  <1>5. CASE program' = "failed"
    <2>1. ~Process!Allowed(Head(calls), cred, id)
      BY <1>1, <1>5, CallCases
    <2>2. ~FullRoot(cred)
      <3> USE DEF Process!Allowed, FullRoot, Process!Caps
      <3>1. CASE n = 5
        BY <1>4, <2>1, <3>1 DEF FirstCall
      <3>2. CASE n \in 2..4
        BY <1>4, <2>1, <3>2
      <3>3. CASE n = 1
        BY <1>3, <1>4, <2>1, <3>3 DEF User, Groups
      <3> QED
        BY <1>2, <3>1, <3>2, <3>3
    <2> QED
      BY <1>3, <1>5, <2>2, RefusedStep
  <1>6. CASE program' # "failed"
    <2>1. /\ cred' = Process!After(Head(calls), cred, id)
          /\ calls' = Tail(calls) /\ program' = program
      BY <1>1, <1>6, CallCases
    <2>2. /\ n - 1 <= 3 => ~cred'.groups
          /\ n - 1 <= 2 => Groups(id)'
          /\ n - 1 <= 1 => User(id)'
          /\ cred'.inheritable = cred.inheritable /\ cred'.nnp = cred.nnp
          /\ FullRoot(cred) => FullRoot(cred')
      <3> DEFINE d == cred'
      <3>1. CASE n = 5
        <4>1. d = cred
          BY <1>1, <1>4, <2>1, <3>1, Effects DEF FirstCall
        <4> QED
          BY <3>1, <4>1
      <3>2. CASE n = 4
        <4>1. /\ ~d.groups /\ d.nnp = cred.nnp /\ SameUser(cred, d) /\ SameCaps(cred, d)
          BY <1>1, <1>4, <2>1, <3>2, Effects
        <4> QED
          BY <3>2, <4>1 DEF FullRoot, SameUser, SameCaps
      <3>3. CASE n = 3
        <4>1. /\ d.gid = id.gid /\ d.egid = id.gid /\ d.sgid = id.gid
              /\ d.groups = cred.groups /\ d.nnp = cred.nnp /\ SameUser(cred, d) /\ SameCaps(cred, d)
          BY <1>1, <1>4, <2>1, <3>3, Effects
        <4> QED
          BY <1>3, <3>3, <4>1 DEF FullRoot, Groups, SameUser, SameCaps
      <3>4. CASE n = 2
        <4>1. /\ d.uid = id.uid /\ d.euid = id.uid /\ d.suid = id.uid
              /\ d.inheritable = cred.inheritable /\ d.groups = cred.groups /\ d.nnp = cred.nnp
              /\ SameGroup(cred, d)
              /\ cred.euid = 0 => d.effective = cred.effective
          BY <1>1, <1>4, <2>1, <3>4, Effects
        <4> QED
          BY <1>3, <3>4, <4>1 DEF FullRoot, Groups, User, SameGroup
      <3>5. CASE n = 1
        <4>1. d = cred
          BY <1>1, <1>4, <2>1, <3>5, Effects
        <4> QED
          BY <1>3, <3>5, <4>1 DEF Groups, User
      <3> QED
        BY <1>2, <3>1, <3>2, <3>3, <3>4, <3>5
    <2>3. FirstCall' = FirstCall
      BY <2>1 DEF FirstCall
    <2>4. RootInv'
      <3>1. \A c \in campd' :
              /\ cred'.inheritable = c.inheritable /\ cred'.nnp = c.nnp
              /\ FullRoot(c)' => FullRoot(cred)'
        BY <1>1, <1>3, <2>2 DEF FullRoot
      <3>2. \A i \in want' : i = id
        BY <1>1
      <3>3. Len(calls') = n - 1 /\ IsRest(calls', RootCalls(FirstCall)')
        BY <1>2, <2>1, <2>3 DEF RootCalls
      <3> QED
        BY <2>2, <3>1, <3>2, <3>3 DEF RootInv
    <2>5. LauncherInv' /\ PlainInv' /\ UserInv'
      BY <1>1, <2>1 DEF LauncherInv, PlainInv, UserInv
    <2> QED
      BY <2>1, <2>4, <2>5, OtherPrograms, CallKeepsCred DEF SetupInv
  <1> QED
    BY <1>5, <1>6

LEMMA UserCall ==
  ASSUME SetupInv, Process!Call, program \in {"main", "sidecar"}, NEW id \in want, id.uid # 0
  PROVE  SetupInv'
  <1> DEFINE n == Len(calls)
             t == UserCalls(FirstCall)
  <1>1. /\ calls # <<>> /\ want' = want /\ campd' = campd
        /\ Process!Target = id /\ IsCredential(cred) /\ \A i \in want : i = id
    BY CallCases, TargetOfWant DEF SetupInv, CredInv
  <1>2. /\ n \in 1..8 /\ Head(calls) = t[9 - n]
        /\ IsRest(Tail(calls), t) /\ Len(Tail(calls)) = n - 1
    <2>1. IsRest(calls, t) /\ Len(t) = 8
      BY DEF SetupInv, UserInv, UserCalls
    <2>2. /\ n \in 1..Len(t) /\ Head(calls) = t[Len(t) - n + 1]
          /\ IsRest(Tail(calls), t) /\ Len(Tail(calls)) = n - 1
      <3>1. Len(t) \in Nat
        BY <2>1
      <3> QED
        BY <1>1, <2>1, <3>1, RestStep, Zenon
    <2>3. n \in 1..8 => 8 - n + 1 = 9 - n
      OBVIOUS
    <2> QED
      BY <2>1, <2>2, <2>3
  <1>3. /\ n <= 6 => cred.ambient = {}
        /\ n <= 5 => ~cred.groups
        /\ n <= 4 => Groups(id)
        /\ n <= 3 => User(id)
        /\ n <= 2 => NoCaps
        /\ n <= 1 => cred.nnp
        /\ n >= 4 => \A c \in campd : FullRoot(c) => FullRoot(cred)
    BY DEF SetupInv, UserInv
  <1>4. /\ n = 8 => Head(calls) = FirstCall
        /\ n = 7 => Head(calls) = "clear_ambient"
        /\ n = 6 => Head(calls) = "setgroups"
        /\ n = 5 => Head(calls) = "setresgid"
        /\ n = 4 => Head(calls) = "setresuid"
        /\ n = 3 => Head(calls) = "capset"
        /\ n = 2 => Head(calls) = "no_new_privs"
        /\ n = 1 => Head(calls) = "verify"
    <2> HIDE DEF n
    <2>1. n = 8 => t[9 - n] = t[1]
      OBVIOUS
    <2>2. n = 7 => t[9 - n] = t[2]
      OBVIOUS
    <2>3. n = 6 => t[9 - n] = t[3]
      OBVIOUS
    <2>4. n = 5 => t[9 - n] = t[4]
      OBVIOUS
    <2>5. n = 4 => t[9 - n] = t[5]
      OBVIOUS
    <2>6. n = 3 => t[9 - n] = t[6]
      OBVIOUS
    <2>7. n = 2 => t[9 - n] = t[7]
      OBVIOUS
    <2>8. n = 1 => t[9 - n] = t[8]
      OBVIOUS
    <2>9. /\ t[1] = FirstCall /\ t[2] = "clear_ambient" /\ t[3] = "setgroups" /\ t[4] = "setresgid"
          /\ t[5] = "setresuid" /\ t[6] = "capset" /\ t[7] = "no_new_privs" /\ t[8] = "verify"
      BY DEF UserCalls
    <2> QED
      BY <1>2, <2>1, <2>2, <2>3, <2>4, <2>5, <2>6, <2>7, <2>8, <2>9, Zenon
  <1>5. CASE program' = "failed"
    <2>1. ~Process!Allowed(Head(calls), cred, id)
      BY <1>1, <1>5, CallCases
    <2>2. n >= 4 /\ ~FullRoot(cred)
      <3> USE DEF Process!Allowed, FullRoot, Process!Caps
      <3>1. CASE n = 8
        BY <1>4, <2>1, <3>1 DEF FirstCall
      <3>2. CASE n \in 4..6
        <4>1. Head(calls) \in {"setgroups", "setresgid", "setresuid"}
          BY <1>4, <3>2
        <4>2. ~({"setgid", "setuid"} \subseteq cred.effective)
          BY <2>1, <4>1
        <4>3. ~FullRoot(cred)
          BY <4>2
        <4> HIDE DEF n, FullRoot
        <4> QED
          BY <3>2, <4>3
      <3>3. CASE n \in {2, 3, 7}
        <4>1. Head(calls) \in {"clear_ambient", "capset", "no_new_privs"}
          BY <1>4, <3>3
        <4> QED
          BY <2>1, <4>1
      <3>4. CASE n = 1
        BY <1>3, <1>4, <2>1, <3>4 DEF User, Groups
      <3> QED
        BY <1>2, <3>1, <3>2, <3>3, <3>4
    <2> QED
      BY <1>3, <1>5, <2>2, RefusedStep
  <1>6. CASE program' # "failed"
    <2>1. /\ cred' = Process!After(Head(calls), cred, id)
          /\ calls' = Tail(calls) /\ program' = program
      BY <1>1, <1>6, CallCases
    <2>2. /\ n - 1 <= 6 => cred'.ambient = {}
          /\ n - 1 <= 5 => ~cred'.groups
          /\ n - 1 <= 4 => Groups(id)'
          /\ n - 1 <= 3 => User(id)'
          /\ n - 1 <= 2 => NoCaps'
          /\ n - 1 <= 1 => cred'.nnp
          /\ n - 1 >= 4 => (FullRoot(cred) => FullRoot(cred'))
      <3> DEFINE d == cred'
      <3>1. CASE n = 8
        <4>1. d = cred
          BY <1>1, <1>4, <2>1, <3>1, Effects DEF FirstCall
        <4> QED
          BY <3>1, <4>1
      <3>2. CASE n = 7
        <4>1. d.ambient = {} /\ SameUser(cred, d) /\ SameCaps(cred, d)
          BY <1>1, <1>4, <2>1, <3>2, Effects
        <4> QED
          BY <3>2, <4>1 DEF FullRoot, SameUser, SameCaps
      <3>3. CASE n = 6
        <4>1. ~d.groups /\ d.ambient = cred.ambient /\ SameUser(cred, d) /\ SameCaps(cred, d)
          BY <1>1, <1>4, <2>1, <3>3, Effects
        <4> QED
          BY <1>3, <3>3, <4>1 DEF FullRoot, SameUser, SameCaps
      <3>4. CASE n = 5
        <4>1. /\ d.gid = id.gid /\ d.egid = id.gid /\ d.sgid = id.gid
              /\ d.ambient = cred.ambient /\ d.groups = cred.groups
              /\ SameUser(cred, d) /\ SameCaps(cred, d)
          BY <1>1, <1>4, <2>1, <3>4, Effects
        <4> QED
          BY <1>3, <3>4, <4>1 DEF FullRoot, Groups, SameUser, SameCaps
      <3>5. CASE n = 4
        <4>1. /\ d.uid = id.uid /\ d.euid = id.uid /\ d.suid = id.uid
              /\ d.groups = cred.groups /\ SameGroup(cred, d)
              /\ cred.ambient = {} => d.ambient = {}
          BY <1>1, <1>4, <2>1, <3>5, Effects
        <4> QED
          BY <1>3, <3>5, <4>1 DEF Groups, User, SameGroup
      <3>6. CASE n = 3
        <4>1. /\ d.permitted = {} /\ d.effective = {} /\ d.inheritable = {} /\ d.ambient = {}
              /\ d.groups = cred.groups /\ SameUser(cred, d) /\ SameGroup(cred, d)
          BY <1>1, <1>4, <2>1, <3>6, Effects
        <4> QED
          BY <1>3, <3>6, <4>1 DEF Groups, User, NoCaps, SameUser, SameGroup
      <3>7. CASE n = 2
        <4>1. /\ d.nnp /\ d.ambient = cred.ambient /\ d.groups = cred.groups
              /\ SameUser(cred, d) /\ SameGroup(cred, d) /\ SameCaps(cred, d)
          BY <1>1, <1>4, <2>1, <3>7, Effects
        <4> QED
          BY <1>3, <3>7, <4>1 DEF Groups, User, NoCaps, SameUser, SameGroup, SameCaps
      <3>8. CASE n = 1
        <4>1. d = cred
          BY <1>1, <1>4, <2>1, <3>8, Effects
        <4> QED
          BY <1>3, <3>8, <4>1 DEF Groups, User, NoCaps
      <3> QED
        BY <1>2, <3>1, <3>2, <3>3, <3>4, <3>5, <3>6, <3>7, <3>8
    <2>3. FirstCall' = FirstCall
      BY <2>1 DEF FirstCall
    <2>4. UserInv'
      <3>1. n - 1 >= 4 => \A c \in campd' : FullRoot(c)' => FullRoot(cred)'
        <4>1. n - 1 >= 4 => n >= 4
          BY <1>2
        <4> QED
          BY <1>1, <1>3, <2>2, <4>1 DEF FullRoot
      <3>2. \A i \in want' : i = id
        BY <1>1
      <3>3. Len(calls') = n - 1 /\ IsRest(calls', UserCalls(FirstCall)')
        BY <1>2, <2>1, <2>3 DEF UserCalls
      <3> QED
        BY <2>2, <3>1, <3>2, <3>3 DEF UserInv
    <2>5. LauncherInv' /\ PlainInv' /\ RootInv'
      BY <1>1, <2>1 DEF LauncherInv, PlainInv, RootInv
    <2> QED
      BY <2>1, <2>4, <2>5, OtherPrograms, CallKeepsCred DEF SetupInv
  <1> QED
    BY <1>5, <1>6

LEMMA CallStep ==
  ASSUME SetupInv, Process!Call
  PROVE  SetupInv'
  <1>1. program \in {"launcher", "main", "sidecar"}
    <2>1. calls # <<>>
      BY CallCases
    <2> QED
      BY <2>1 DEF SetupInv, CredInv
  <1> QED
    BY <1>1, LauncherCall, PlainCall, RootCall, UserCall

\* The last exec: what has been set is what the command runs with.
LEMMA CommandStep ==
  ASSUME SetupInv, Process!ExecCommand
  PROVE  SetupInv'
  <1>1. /\ program \in {"main", "sidecar"} /\ calls = <<>> /\ Len(calls) = 0
        /\ program' = "command" /\ cred' = Process!Exec(cred)
        /\ calls' = <<>> /\ want' = want /\ campd' = campd
    BY DEF Process!ExecCommand
  <1>2. IsCredential(cred) /\ cred.ambient \subseteq cred.inheritable
    BY DEF SetupInv, CredInv
  <1>3. /\ IsCredential(cred')
        /\ cred'.uid = cred.uid /\ cred'.euid = cred.euid /\ cred'.suid = cred.euid
        /\ cred'.gid = cred.gid /\ cred'.egid = cred.egid /\ cred'.sgid = cred.egid
        /\ cred'.groups = cred.groups /\ cred'.nnp = cred.nnp /\ cred'.inheritable = cred.inheritable
        /\ cred'.ambient \subseteq cred.ambient
        /\ cred'.effective = IF cred.euid = 0 THEN Bounding \cup cred.inheritable ELSE cred'.ambient
        /\ cred.ambient = {} => cred'.ambient = {}
        /\ cred.ambient = {} /\ cred.inheritable = {} /\ cred.uid # 0 /\ cred.euid # 0 => cred'.permitted = {}
    BY <1>1, <1>2, ExecKeeps, Zenon
  <1>4. CredInv'
    <2>1. cred'.ambient \subseteq cred'.inheritable
      BY <1>2, <1>3
    <2> QED
      BY <1>1, <1>3, <2>1 DEF SetupInv, CredInv
  <1>5. LauncherInv' /\ PlainInv' /\ RootInv' /\ UserInv' /\ RootIsNotRefused'
    BY <1>1 DEF LauncherInv, PlainInv, RootInv, UserInv, RootIsNotRefused, Process!RootIsNotRefused
  <1>6. Process!ExplicitIdentityIsExact'
    <2> SUFFICES ASSUME NEW id \in want
        PROVE  (/\ Process!Uids(cred) = {id.uid} /\ Process!Gids(cred) = {id.gid} /\ ~cred.groups
                /\ id.uid # 0 => /\ cred.nnp
                                 /\ cred.permitted \cup cred.effective \cup cred.inheritable
                                       \cup cred.ambient = {})'
      BY <1>1 DEF Process!ExplicitIdentityIsExact
    <2>1. ~cred.groups /\ Groups(id) /\ User(id)
      BY <1>1 DEF SetupInv, RootInv, UserInv
    <2>2. Process!Uids(cred') = {id.uid} /\ Process!Gids(cred') = {id.gid} /\ ~cred'.groups
      BY <1>3, <2>1 DEF Process!Uids, Process!Gids, Groups, User
    <2>3. ASSUME id.uid # 0
          PROVE  cred'.nnp /\ cred'.permitted = {} /\ cred'.effective = {}
                 /\ cred'.inheritable = {} /\ cred'.ambient = {}
      <3>1. cred.nnp /\ NoCaps
        BY <1>1, <2>3 DEF SetupInv, UserInv
      <3> QED
        BY <1>3, <2>1, <2>3, <3>1 DEF NoCaps, User
    <2> QED
      BY <2>2, <2>3
  <1>7. Process!RootKeepsCapabilities'
    <2> SUFFICES ASSUME NEW id \in want, NEW c \in campd, id.uid = 0
        PROVE  c.effective \subseteq cred'.effective /\ cred'.nnp = c.nnp
      BY <1>1 DEF Process!RootKeepsCapabilities
    <2>1. cred.inheritable = c.inheritable /\ cred.nnp = c.nnp /\ User(id)
      BY <1>1 DEF SetupInv, RootInv
    <2>2. /\ c.ambient \subseteq c.inheritable
          /\ c.effective = IF c.euid = 0 THEN Bounding \cup c.inheritable ELSE c.ambient
      BY DEF SetupInv, CredInv
    <2> QED
      BY <1>3, <2>1, <2>2 DEF User
  <1>8. Process!NoneInherits'
    <2> SUFFICES ASSUME want = {}, NEW c \in campd
        PROVE  /\ Process!Uids(cred') = {c.uid, c.euid} /\ Process!Gids(cred') = {c.gid, c.egid}
               /\ cred'.groups = c.groups
      BY <1>1 DEF Process!NoneInherits
    <2>1. (cred = c \/ cred = Process!Exec(c)) /\ IsCredential(c)
      BY <1>1 DEF SetupInv, PlainInv, CredInv
    <2>2. cred.uid = c.uid /\ cred.euid = c.euid /\ cred.gid = c.gid /\ cred.egid = c.egid
          /\ cred.groups = c.groups
      BY <2>1, ExecKeeps, Zenon
    <2> QED
      BY <1>3, <2>2 DEF Process!Uids, Process!Gids
  <1> QED
    BY <1>4, <1>5, <1>6, <1>7, <1>8 DEF SetupInv, IdentityIsDeclared, Process!IdentityIsDeclared

LEMMA SetupStep == SetupInv /\ [Next]_vars => SetupInv'
  <1> SUFFICES ASSUME SetupInv, [Next]_vars PROVE SetupInv'
    OBVIOUS
  <1>1. CASE UNCHANGED processVars
    <2>1. CredInv' /\ LauncherInv'
      BY <1>1 DEF processVars, SetupInv, CredInv, LauncherInv, Groups, User, FullRoot
    <2>2. PlainInv'
      BY <1>1 DEF processVars, SetupInv, PlainInv, FullRoot
    <2>3. RootInv'
      BY <1>1 DEF processVars, SetupInv, RootInv, FirstCall, Groups, User, FullRoot
    <2>4. UserInv'
      BY <1>1 DEF processVars, SetupInv, UserInv, FirstCall, Groups, User, NoCaps, FullRoot
    <2>5. IdentityIsDeclared'
      BY <1>1
         DEF processVars, SetupInv, IdentityIsDeclared, Process!IdentityIsDeclared,
             Process!ExplicitIdentityIsExact, Process!RootKeepsCapabilities, Process!NoneInherits
    <2>6. RootIsNotRefused'
      BY <1>1 DEF processVars, SetupInv, RootIsNotRefused, Process!RootIsNotRefused
    <2> QED
      BY <2>1, <2>2, <2>3, <2>4, <2>5, <2>6 DEF SetupInv
  <1>2. CASE Process!Step
    BY <1>2, EnterStep, CallStep, CommandStep, FollowStep DEF Process!Step, Process!NextProcess
  <1>3. CASE Restart /\ Process!Follow
    BY <1>3, FollowStep
  <1>4. ASSUME NEW i \in DOMAIN declared, SpawnNamedMain(i) PROVE SetupInv'
    <2> DEFINE ids == {Numbers(Cached(declared[i]))}
    <2>1. Process!SpawnMain(ids) /\ \A x, y \in ids : x = y
      BY <1>4 DEF SpawnNamedMain
    <2> HIDE DEF ids
    <2> QED
      BY <2>1, SpawnStep
  <1>5. ASSUME NEW user \in Users, SpawnNamedSidecar(user) PROVE SetupInv'
    <2> DEFINE ids == {Numbers(ResolveUser(Lower, user))}
    <2>1. Process!SpawnSidecar(ids) \/ UNCHANGED processVars
      BY <1>5 DEF SpawnNamedSidecar
    <2>2. \A x, y \in ids : x = y
      OBVIOUS
    <2> HIDE DEF ids
    <2> QED
      BY <1>1, <2>1, <2>2, SpawnStep
  <1>6. CASE SpawnOther
    <2>1. PICK ids \in Process!Declared : Process!SpawnMain(ids) \/ Process!SpawnSidecar(ids)
      BY <1>6 DEF SpawnOther
    <2>2. \A x, y \in ids : x = y
      BY DEF Process!Declared
    <2> QED
      BY <2>1, <2>2, SpawnStep
  <1> QED
    BY <1>1, <1>2, <1>3, <1>4, <1>5, <1>6 DEF Next, vars

LEMMA SetupInvariant == Spec => []SetupInv
  BY SetupInit, SetupStep, PTL DEF Spec

\* apply_identity() and apply_main_identity(): whatever identities are declared, by name
\* or by number, a command runs with the declared one and no more, with root's capabilities
\* if it is root, or with campd's identity, for any credentials of the entry point.
THEOREM DeclaredIdentity == Spec => []IdentityIsDeclared
  BY SetupInvariant, PTL DEF SetupInv

\* No call takes away what a later one needs: a campd that is root with every capability
\* can give a process any identity.
THEOREM RootMaySetAny == Spec => []RootIsNotRefused
  BY SetupInvariant, PTL DEF SetupInv

\* main() of the launcher: campd is started as root in every id, or not at all.
THEOREM LauncherStartsRoot == Spec => LauncherMakesRoot
  <1> DEFINE A == program = "launcher" /\ program' = "campd" =>
                    Process!Uids(cred') = {0} /\ Process!Gids(cred') = {0} /\ ~cred'.groups
  <1>1. SetupInv /\ [Next]_vars => [A]_(Process!vars)
    <2> SUFFICES ASSUME SetupInv, [Next]_vars, program = "launcher", program' = "campd" PROVE A
      OBVIOUS
    <2>1. ~Process!Follow
      <3>1. campd = {}
        BY DEF SetupInv, CredInv
      <3> QED
        BY <3>1 DEF Process!Follow
    <2>2. Process!EnterCampd
      BY <2>1
         DEF Next, vars, processVars, Process!Step, Process!EnterLauncher, Process!Call,
             Process!ExecCommand, Process!NextProcess, SpawnNamedMain, SpawnNamedSidecar,
             SpawnOther, Process!SpawnMain, Process!SpawnSidecar
    <2>3. /\ IsCredential(cred) /\ cred' = Process!Exec(cred)
          /\ ~cred.groups /\ Groups(Process!Root) /\ User(Process!Root)
      <3>1. calls = <<>> /\ Len(calls) = 0 /\ cred' = Process!Exec(cred)
        BY <2>2 DEF Process!EnterCampd
      <3> QED
        BY <3>1 DEF SetupInv, CredInv, LauncherInv
    <2>4. /\ cred'.uid = cred.uid /\ cred'.euid = cred.euid /\ cred'.suid = cred.euid
          /\ cred'.gid = cred.gid /\ cred'.egid = cred.egid /\ cred'.sgid = cred.egid
          /\ cred'.groups = cred.groups
      BY <2>3, ExecKeeps, Zenon
    <2> QED
      BY <2>3, <2>4 DEF Groups, User, Process!Root, Process!Uids, Process!Gids
  <1>2. LauncherMakesRoot <=> [][A]_(Process!vars)
    BY DEF LauncherMakesRoot, Process!LauncherMakesRoot
  <1> HIDE DEF A
  <1> QED
    BY <1>1, <1>2, SetupInvariant, PTL DEF Spec
=============================================================================

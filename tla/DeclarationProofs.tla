--------------------------- MODULE DeclarationProofs --------------------------
(***************************************************************************)
(* The SDK, campd and sandrun hold the same rules: theorems about every    *)
(* declaration, whatever it declares and however many processes it has.    *)
(***************************************************************************)
EXTENDS Declaration, SequenceTheorems, WellFoundedInduction, TLAPS

-----------------------------------------------------------------------------
(* Lists. *)

LEMMA ListLength ==
  ASSUME NEW list, IsList(list)
  PROVE  Len(list) \in Nat /\ DOMAIN list = 1..Len(list)
  BY DEF IsList

LEMMA ListOfTypes ==
  ASSUME NEW T, NEW list \in Seq(T)
  PROVE  IsList(list)
  <1>1. \A i \in 1..Len(list) : list[i] \in Range(list)
    BY DEF Range
  <1> QED
    BY <1>1 DEF IsList

\* The entries of two lists, one after the other.
LEMMA Both ==
  ASSUME NEW s, NEW t, IsList(s), IsList(t)
  PROVE  /\ Len(s \o t) = Len(s) + Len(t) /\ DOMAIN (s \o t) = 1..Len(s) + Len(t)
         /\ \A i \in DOMAIN s : i \in DOMAIN (s \o t) /\ (s \o t)[i] = s[i]
         /\ \A i \in DOMAIN t : Len(s) + i \in DOMAIN (s \o t) /\ (s \o t)[Len(s) + i] = t[i]
         /\ \A i \in DOMAIN (s \o t) :
              \/ i \in DOMAIN s /\ (s \o t)[i] = s[i]
              \/ i - Len(s) \in DOMAIN t /\ (s \o t)[i] = t[i - Len(s)]
  <1> DEFINE S == Range(s) \cup Range(t)
  <1>1. s \in Seq(S) /\ t \in Seq(S)
    BY DEF IsList
  <1> HIDE DEF S
  <1>2. s \o t \in Seq(S) /\ Len(s \o t) = Len(s) + Len(t)
        /\ \A i \in 1..Len(s) + Len(t) :
              (s \o t)[i] = IF i <= Len(s) THEN s[i] ELSE t[i - Len(s)]
    BY <1>1, ConcatProperties
  <1>3. Len(s) \in Nat /\ Len(t) \in Nat /\ DOMAIN s = 1..Len(s) /\ DOMAIN t = 1..Len(t)
    BY <1>1
  <1>4. DOMAIN (s \o t) = 1..Len(s) + Len(t)
    BY <1>2, <1>3
  <1> QED
    BY <1>2, <1>3, <1>4

-----------------------------------------------------------------------------
(* What campd accepts. *)

\* What each step knows of the runtime declaration.
WireInv ==
    /\ stage \notin {"declared", "sdk_refused"} => IsList(wire.sidecars) /\ IsList(wire.main)
    /\ stage \in {"accepted", "sandrun_refused", "launched"} => CampdAccepts(wire)

LEMMA RenderedLists ==
  ASSUME NEW spec \in Specs
  PROVE  IsList(Render(spec).sidecars) /\ IsList(Render(spec).main)
  <1>1. ASSUME NEW s \in Seq(ProcessTypes), NEW f, f = [i \in DOMAIN s |-> f[i]] PROVE IsList(f)
    <2>1. Len(s) \in Nat /\ DOMAIN s = 1..Len(s) /\ DOMAIN f = 1..Len(s)
      BY <1>1
    <2>2. \A i \in 1..Len(s) : f[i] \in Range(f)
      BY <2>1 DEF Range
    <2> QED
      BY <1>1, <2>1, <2>2 DEF IsList
  <1>2. spec.sidecars \in Seq(ProcessTypes) /\ spec.main \in Seq(ProcessTypes)
    BY SpecsAssumption
  <1>3. /\ Render(spec).sidecars = [i \in DOMAIN spec.sidecars |-> Sidecar(spec.sidecars[i])]
        /\ Render(spec).main = [i \in DOMAIN spec.main |-> Common(spec.main[i])]
    BY DEF Render
  <1>4. IsList(Render(spec).sidecars)
    <2> DEFINE f == Render(spec).sidecars
    <2>1. f = [i \in DOMAIN spec.sidecars |-> f[i]]
      BY <1>3
    <2> HIDE DEF f
    <2>2. IsList(f)
      BY <1>1, <1>2, <2>1
    <2> QED
      BY <2>2 DEF f
  <1>5. IsList(Render(spec).main)
    <2> DEFINE f == Render(spec).main
    <2>1. f = [i \in DOMAIN spec.main |-> f[i]]
      BY <1>3
    <2> HIDE DEF f
    <2>2. IsList(f)
      BY <1>1, <1>2, <2>1
    <2> QED
      BY <2>2 DEF f
  <1> QED
    BY <1>4, <1>5

\* What a sandrun checks of its arguments, campd has checked of the Sidecar.
LEMMA ArgumentsAccepted ==
  ASSUME NEW p, ValidProcess(p), ValidSidecar(p), p.disks # <<>> => p.device # None
  PROVE  SandrunAccepts(Arguments(p))
  <1> DEFINE a == Arguments(p)
  <1>1. /\ a.rootfs = p.rootfs /\ a.device = p.device /\ a.id = p.name
        /\ a.standard = p.standard /\ a.disks = p.disks /\ a.mounts = p.mounts
        /\ a.workdir = (IF p.workdir = None THEN Root ELSE p.workdir)
        /\ a.user = p.user /\ a.command = p.command
    BY DEF Arguments
  <1> HIDE DEF a
  <1>2. ValidOrRoot(a.workdir)
    <2>1. p.workdir = None \/ ValidOrRoot(p.workdir)
      BY DEF ValidProcess
    <2>2. ValidOrRoot(Root)
      BY DEF ValidOrRoot, Root, Path
    <2> QED
      BY <1>1, <2>1, <2>2
  <1>3. StandardOf(a) = StandardOf(p) /\ Targets(a) = Targets(p)
    BY <1>1 DEF StandardOf, Targets
  <1>4. a.id # "" /\ ValidPath(a.command) /\ ValidUser(a.user)
    BY <1>1 DEF ValidProcess
  <1>5. /\ ValidPath(a.rootfs)
        /\ a.device = None \/ ValidPath(a.device)
        /\ \A i \in DOMAIN a.disks : ValidPath(a.disks[i])
        /\ \A i \in DOMAIN a.mounts : ValidPath(a.mounts[i].source) /\ ValidPath(a.mounts[i].target)
    BY <1>1 DEF ValidSidecar, ValidPaths
  <1>6. Apart(StandardOf(a), Targets(a))
    BY <1>3 DEF ValidSidecar
  <1>7. SandrunAccepts(a)
    BY <1>1, <1>2, <1>4, <1>5, <1>6 DEF SandrunAccepts
  <1> QED
    BY <1>7 DEF a

\* Every process of a runtime declaration that campd accepts is valid.
LEMMA AcceptedProcesses ==
  ASSUME NEW w, IsList(w.sidecars), IsList(w.main), CampdAccepts(w),
         NEW i \in DOMAIN w.sidecars
  PROVE  ValidProcess(w.sidecars[i]) /\ ValidSidecar(w.sidecars[i])
  <1> DEFINE s == w.sidecars
             t == w.main
             all == Processes(w)
  <1>1. all = s \o t
    BY DEF Processes
  <1>2. (\A k \in DOMAIN all : ValidProcess(all[k])) /\ ValidSidecar(s[i])
    BY DEF CampdAccepts
  <1>3. IsList(s) /\ IsList(t) /\ i \in DOMAIN s
    OBVIOUS
  <1> HIDE DEF s, t, all
  <1>4. i \in DOMAIN all /\ all[i] = s[i]
    BY <1>1, <1>3, Both
  <1>5. ValidProcess(s[i]) /\ ValidSidecar(s[i])
    BY <1>2, <1>4
  <1> QED
    BY <1>5 DEF s

\* What campd accepts, every sandrun accepts, but for the disks without a device.
LEMMA AcceptedSidecars ==
  ASSUME NEW w, IsList(w.sidecars), IsList(w.main), CampdAccepts(w),
         NEW i \in DOMAIN w.sidecars, ~SandrunAccepts(Arguments(w.sidecars[i]))
  PROVE  w.sidecars[i].disks # <<>> /\ w.sidecars[i].device = None
  BY AcceptedProcesses, ArgumentsAccepted

-----------------------------------------------------------------------------
(* Sums over lists of any length. *)

LEMMA Induction ==
  ASSUME NEW S, 0 \in S, \A n \in Nat : n \in S => n + 1 \in S
  PROVE  \A n \in Nat : n \in S
  <1> SUFFICES ASSUME NEW m \in Nat, m \notin S PROVE FALSE
    OBVIOUS
  <1> DEFINE T == {n \in Nat : n \notin S}
             R == OpToRel(<, Nat)
  <1>1. PICK k \in T : \A l \in T : ~(<<l, k>> \in R)
    <2>1. IsWellFoundedOn(R, Nat)
      BY NatLessThanWellFounded
    <2>2. T \subseteq Nat /\ T # {}
      OBVIOUS
    <2> HIDE DEF R, T
    <2> QED
      BY <2>1, <2>2, WFMin
  <1>2. k # 0 /\ k - 1 \in Nat /\ k - 1 \in S
    <2>1. k # 0 /\ k - 1 \in Nat /\ k - 1 < k
      OBVIOUS
    <2>2. <<k - 1, k>> \in R
      BY <2>1 DEF OpToRel
    <2> QED
      BY <1>1, <2>1, <2>2
  <1>3. k - 1 + 1 = k
    OBVIOUS
  <1> QED
    BY <1>2, <1>3

\* f[m] is the sum of the first m waits.
Sums(waits, n, f) == f = [m \in 0..n |-> IF m = 0 THEN 0 ELSE f[m - 1] + waits[m]]

LEMMA SumsExist ==
  ASSUME NEW waits, NEW n \in Nat
  PROVE  \E f : Sums(waits, n, f)
  <1> DEFINE S == {k \in Nat : \E f : Sums(waits, k, f)}
  <1>1. 0 \in S
    <2>1. Sums(waits, 0, [m \in 0..0 |-> 0])
      BY DEF Sums
    <2> QED
      BY <2>1
  <1>2. ASSUME NEW k \in Nat, k \in S PROVE k + 1 \in S
    <2>1. PICK f : Sums(waits, k, f)
      BY <1>2
    <2> DEFINE g == [m \in 0..k + 1 |-> IF m = k + 1 THEN f[k] + waits[k + 1] ELSE f[m]]
    <2>2. \A m \in 0..k + 1 : g[m] = IF m = 0 THEN 0 ELSE g[m - 1] + waits[m]
      <3>1. \A m \in 0..k : f[m] = IF m = 0 THEN 0 ELSE f[m - 1] + waits[m]
        BY <2>1 DEF Sums
      <3>2. \A m \in 0..k : g[m] = f[m]
        OBVIOUS
      <3>3. g[k + 1] = f[k] + waits[k + 1]
        OBVIOUS
      <3> HIDE DEF g
      <3>4. ASSUME NEW m \in 0..k, m # 0 PROVE g[m - 1] = f[m - 1]
        <4>1. m - 1 \in 0..k
          BY <3>4
        <4> QED
          BY <3>2, <4>1
      <3> QED
        BY <3>1, <3>2, <3>3, <3>4
    <2>3. Sums(waits, k + 1, g)
      BY <2>2 DEF Sums
    <2>4. \E h : Sums(waits, k + 1, h)
      BY <2>3, Zenon
    <2> QED
      BY <2>4
  <1> HIDE DEF S
  <1>3. n \in S
    BY <1>1, <1>2, Induction
  <1> QED
    BY <1>3 DEF S

LEMMA TotalIsSum ==
  ASSUME NEW waits \in Seq(Int)
  PROVE  \E f : /\ f[0] = 0 /\ Total(waits) = f[Len(waits)]
                /\ \A m \in 1..Len(waits) : f[m] = f[m - 1] + waits[m]
  <1> DEFINE f == CHOOSE g : Sums(waits, Len(waits), g)
  <1>1. Total(waits) = f[Len(waits)]
    BY DEF Total, Sums
  <1>2. Len(waits) \in Nat
    OBVIOUS
  <1>3. Sums(waits, Len(waits), f)
    BY <1>2, SumsExist, Zenon
  <1> HIDE DEF f
  <1>4. f[0] = 0 /\ \A m \in 1..Len(waits) : f[m] = f[m - 1] + waits[m]
    BY <1>2, <1>3 DEF Sums
  <1> QED
    BY <1>1, <1>4, Zenon

\* Waits that agree one by one agree in sum.
LEMMA TotalsAgree ==
  ASSUME NEW v \in Seq(Int), NEW w \in Seq(Int), Len(v) = Len(w),
         \A i \in 1..Len(v) : v[i] * Milli = w[i]
  PROVE  Total(v) \in Int /\ Total(v) * Milli = Total(w)
  <1>1. PICK f : /\ f[0] = 0 /\ Total(v) = f[Len(v)]
                 /\ \A m \in 1..Len(v) : f[m] = f[m - 1] + v[m]
    BY TotalIsSum
  <1>2. PICK g : /\ g[0] = 0 /\ Total(w) = g[Len(w)]
                 /\ \A m \in 1..Len(w) : g[m] = g[m - 1] + w[m]
    BY TotalIsSum
  <1> DEFINE S == {n \in Nat : n <= Len(v) => f[n] \in Int /\ f[n] * Milli = g[n]}
  <1>3. 0 \in S
    BY <1>1, <1>2 DEF Milli
  <1>4. ASSUME NEW n \in Nat, n \in S PROVE n + 1 \in S
    <2>1. SUFFICES ASSUME n + 1 <= Len(v)
                   PROVE  f[n + 1] \in Int /\ f[n + 1] * Milli = g[n + 1]
      OBVIOUS
    <2>2. n + 1 \in 1..Len(v) /\ n + 1 - 1 = n
      BY <2>1
    <2>3. f[n + 1] = f[n] + v[n + 1] /\ g[n + 1] = g[n] + w[n + 1]
      BY <1>1, <1>2, <2>2
    <2>4. f[n] \in Int /\ f[n] * Milli = g[n]
      BY <1>4, <2>1
    <2>5. v[n + 1] \in Int /\ v[n + 1] * Milli = w[n + 1]
      BY <2>2
    <2>6. PICK a, b, c, d : a = f[n] /\ b = v[n + 1] /\ c = g[n] /\ d = w[n + 1]
      OBVIOUS
    <2>7. a \in Int /\ b \in Int /\ a * Milli = c /\ b * Milli = d
      BY <2>4, <2>5, <2>6, Zenon
    <2>8. a + b \in Int /\ (a + b) * Milli = c + d
      BY <2>7 DEF Milli
    <2>9. f[n + 1] = a + b /\ g[n + 1] = c + d
      BY <2>3, <2>6, Zenon
    <2> QED
      BY <2>8, <2>9, Zenon
  <1>5. Len(v) \in Nat
    OBVIOUS
  <1> HIDE DEF S
  <1>6. Len(v) \in S
    BY <1>3, <1>4, <1>5, Induction
  <1> QED
    BY <1>1, <1>2, <1>5, <1>6 DEF S

-----------------------------------------------------------------------------
(* What the SDK renders. *)

\* r has what process p declares.
Carries(r, p) ==
    LET c == Common(p)
    IN /\ r.name = c.name /\ r.kind = c.kind /\ r.command = c.command /\ r.workdir = c.workdir
       /\ r.user = c.user /\ r.probe = c.probe /\ r.timeout = c.timeout

LEMMA SidecarCarries ==
  ASSUME NEW p \in ProcessTypes
  PROVE  LET r == Sidecar(p)
         IN /\ Carries(r, p)
            /\ r.rootfs = Path(<<"mnt", "sandcamp-sidecars", p.name>>) /\ r.device = Device(p)
            /\ r.standard = TRUE /\ r.disks = p.disks /\ r.mounts = p.mounts
  BY DEF Sidecar, Carries

LEMMA WholeMillis ==
  ASSUME NEW d \in Int, NEW n \in Int, SdkDuration(d, n * Milli)
  PROVE  d \div Milli \in n..AgsReadyTimeoutMs /\ (d \div Milli) * Milli = d
  <1>1. d >= n * 2 /\ d <= AgsReadyTimeoutMs * 2 /\ d % 2 = 0 /\ AgsReadyTimeoutMs \in Int
    BY DEF SdkDuration, Milli, AgsReadyTimeout, AgsReadyTimeoutMs
  <1> QED
    BY <1>1 DEF Milli

LEMMA ResolvedType ==
  ASSUME NEW b \in ProbeTypes
  PROVE  ResolveProbe(b) \in ProbeTypes
  BY DEF ProbeTypes, ResolveProbe, Or, Milli

LEMMA ProbeRendered ==
  ASSUME NEW b \in ProbeTypes, SdkProbe(b)
  PROVE  /\ ValidProbe(RenderProbe(b)) /\ RenderProbe(b) \in ProbeTypes
         /\ RenderProbe(b).startup \in Int
         /\ RenderProbe(b).startup * Milli = b.startup
  <1> DEFINE r == RenderProbe(b)
  <1>1. b.startup \in Int /\ b.period \in Int /\ b.timeout \in Int
    BY DEF ProbeTypes
  <1>2. /\ r.startup = b.startup \div Milli /\ r.period = b.period \div Milli
        /\ r.timeout = b.timeout \div Milli /\ r.path = b.path /\ r.port = b.port
        /\ r.failure = b.failure /\ r.success = b.success
    BY DEF RenderProbe, ProbeTypes
  <1>3. /\ SdkDuration(b.startup, 1000 * Milli) /\ SdkDuration(b.period, 100 * Milli)
        /\ SdkDuration(b.timeout, 100 * Milli) /\ b.timeout <= b.startup
    BY MaxIdAssumption DEF SdkProbe
  <1>4. /\ r.startup \in 1000..AgsReadyTimeoutMs /\ r.startup * Milli = b.startup
        /\ r.period \in 100..AgsReadyTimeoutMs
        /\ r.timeout \in 100..AgsReadyTimeoutMs /\ r.timeout * Milli = b.timeout
    BY <1>1, <1>2, <1>3, WholeMillis
  <1>5. r.timeout <= r.startup
    BY <1>1, <1>3, <1>4 DEF Milli
  <1>6. r.path = "clean" /\ r.port # 0 /\ r.port # ControlPort /\ r.failure # 0 /\ r.success # 0
    BY <1>2, MaxIdAssumption DEF SdkProbe, ProbeTypes
  <1>7. r \in ProbeTypes
    BY DEF RenderProbe, ProbeTypes, Milli
  <1> QED
    BY <1>4, <1>5, <1>6, <1>7 DEF ValidProbe

\* A process that the SDK accepts is valid for campd, which waits as long for it.
LEMMA ProcessRendered ==
  ASSUME NEW p \in ProcessTypes, SdkProcess(p), NEW r, Carries(r, p)
  PROVE  /\ ValidProcess(r) /\ r.name = p.name /\ r.kind = SdkKind(p)
         /\ SdkWait(p) \in Int /\ Wait(r) \in Int /\ Wait(r) * Milli = SdkWait(p)
  <1>1. /\ r.name = p.name /\ r.kind = SdkKind(p) /\ r.command = p.command
        /\ r.workdir = p.workdir
        /\ r.user = (IF p.user = None THEN None ELSE RenderUser(p.user))
        /\ r.probe = (IF p.probe = None THEN None ELSE RenderProbe(ResolveProbe(p.probe)))
        /\ r.timeout = (IF SdkKind(p) = "run-to-completion" THEN p.timeout \div Milli ELSE None)
    BY DEF Carries, Common
  <1>2. /\ p.command \in PathTypes /\ p.workdir \in {None} \cup PathTypes
        /\ p.user \in {None} \cup UserTypes /\ p.probe \in {None} \cup ProbeTypes
        /\ p.timeout \in Int
    BY DEF ProcessTypes
  <1>3. ValidPath(r.command)
    <2>1. p.command.form = "clean" /\ p.command # Root
      BY DEF SdkProcess, SdkPath
    <2>2. p.command.at # <<>>
      BY <1>2, <2>1 DEF PathTypes, Root, Path
    <2> QED
      BY <1>1, <2>1, <2>2 DEF ValidPath
  <1>4. r.workdir = None \/ ValidOrRoot(r.workdir)
    BY <1>1 DEF SdkProcess, ValidOrRoot
  <1>5. ValidUser(r.user)
    <2>1. SdkUser(p.user)
      BY DEF SdkProcess
    <2>2. CASE p.user = None
      BY <1>1, <2>2 DEF ValidUser
    <2>3. CASE p.user # None /\ p.user.name # ""
      <3>1. r.user.name # "" /\ r.user.form = p.user.form
        <4>1. r.user = RenderUser(p.user)
          BY <1>1, <2>3
        <4>2. /\ RenderUser(p.user).name = p.user.name
              /\ RenderUser(p.user).form = p.user.form
          BY DEF RenderUser
        <4> QED
          BY <2>3, <4>1, <4>2
      <3>2. p.user.form = "clean"
        BY <2>1, <2>3 DEF SdkUser
      <3> QED
        BY <3>1, <3>2 DEF ValidUser
    <2>4. CASE p.user # None /\ p.user.name = ""
      <3>1. r.user = p.user
        BY <1>1, <2>4 DEF RenderUser
      <3>2. p.user.uid # MaxId /\ p.user.gid # MaxId
        BY <2>1, <2>4 DEF SdkUser
      <3> QED
        BY <2>4, <3>1, <3>2 DEF ValidUser
    <2> QED
      BY <2>2, <2>3, <2>4
  <1>6. CASE SdkKind(p) = "service"
    <2>1. p.probe = None \/ SdkProbe(ResolveProbe(p.probe))
      BY <1>6 DEF SdkProcess
    <2>2. r.kind = "service" /\ r.timeout = None
      BY <1>1, <1>6
    <2>3. CASE p.probe = None
      <3>1. r.probe = None /\ SdkWait(p) = 0 /\ Wait(r) = 0
        BY <1>1, <1>6, <2>2, <2>3 DEF SdkWait, Wait
      <3>2. Wait(r) * Milli = SdkWait(p)
        BY <3>1 DEF Milli
      <3>3. r.name # ""
        BY <1>1 DEF SdkProcess
      <3>4. ValidProcess(r)
        BY <1>3, <1>4, <1>5, <2>2, <3>1, <3>3 DEF ValidProcess
      <3>5. SdkWait(p) \in Int /\ Wait(r) \in Int
        BY <3>1
      <3> QED
        BY <1>1, <3>2, <3>4, <3>5
    <2>4. CASE p.probe # None
      <3> DEFINE b == ResolveProbe(p.probe)
      <3>1. b \in ProbeTypes /\ SdkProbe(b) /\ r.probe = RenderProbe(b)
        BY <1>1, <1>2, <2>1, <2>4, ResolvedType
      <3>2. SdkWait(p) = b.startup
        BY <1>6, <2>4 DEF SdkWait
      <3> HIDE DEF b
      <3>3. /\ ValidProbe(r.probe) /\ r.probe \in ProbeTypes /\ b.startup \in Int
            /\ r.probe.startup \in Int /\ r.probe.startup * Milli = b.startup
        BY <3>1, ProbeRendered DEF ProbeTypes
      <3>4. r.probe # None
        BY <3>3, NoneAssumption
      <3>5. Wait(r) = r.probe.startup
        BY <3>4 DEF Wait
      <3> QED
        BY <1>1, <1>3, <1>4, <1>5, <2>2, <3>2, <3>3, <3>5 DEF ValidProcess, SdkProcess
    <2> QED
      BY <2>3, <2>4
  <1>7. CASE SdkKind(p) # "service"
    <2>1. /\ SdkKind(p) = "run-to-completion" /\ p.probe = None
          /\ SdkDuration(p.timeout, 100 * Milli)
      BY <1>7 DEF SdkProcess
    <2>2. /\ r.kind = "run-to-completion" /\ r.probe = None /\ r.timeout = p.timeout \div Milli
          /\ r.timeout \in 100..AgsReadyTimeoutMs /\ r.timeout * Milli = p.timeout
      BY <1>1, <1>2, <2>1, WholeMillis
    <2>3. r.timeout \in Int
      BY <2>2
    <2>4. r.timeout # None
      BY <2>3, NoneAssumption
    <2>5. SdkWait(p) = p.timeout /\ Wait(r) = r.timeout
      BY <1>7, <2>2, <2>4 DEF SdkWait, Wait
    <2> QED
      BY <1>1, <1>2, <1>3, <1>4, <1>5, <2>2, <2>3, <2>4, <2>5 DEF ValidProcess, ValidJob, SdkProcess
  <1> QED
    BY <1>6, <1>7

LEMMA PathRendered ==
  ASSUME NEW p \in PathTypes, SdkPath(p)
  PROVE  ValidPath(p)
  BY DEF SdkPath, ValidPath, PathTypes, Root, Path

\* A Sidecar that the SDK accepts is valid for campd, and has a device.
LEMMA SidecarRendered ==
  ASSUME NEW p \in ProcessTypes, SdkSidecar(p)
  PROVE  ValidSidecar(Sidecar(p)) /\ Sidecar(p).device # None
  <1> DEFINE r == Sidecar(p)
  <1>1. /\ r.rootfs = Path(<<"mnt", "sandcamp-sidecars", p.name>>) /\ r.device = Device(p)
        /\ r.standard = TRUE /\ r.disks = p.disks /\ r.mounts = p.mounts
    BY SidecarCarries
  <1> HIDE DEF r
  <1>2. /\ p.overlay \in {None} \cup PathTypes /\ p.disks \in Seq(PathTypes)
        /\ p.mounts \in Seq([source : PathTypes, target : PathTypes])
    BY DEF ProcessTypes
  <1>3. ValidPath(r.rootfs)
    BY <1>1 DEF ValidPath, Path
  <1>4. ValidPath(r.device) /\ r.device # None
    <2>1. CASE p.overlay = None
      <3>1. r.device = OverlayDevice
        BY <1>1, <2>1 DEF Device
      <3>2. OverlayDevice # None
        BY NoneAssumption
      <3>3. ValidPath(OverlayDevice)
        BY DEF OverlayDevice, ValidPath, Path
      <3> QED
        BY <3>1, <3>2, <3>3
    <2>2. CASE p.overlay # None
      <3>1. p.overlay \in PathTypes /\ SdkPath(p.overlay)
        BY <1>2, <2>2 DEF SdkSidecar
      <3>2. r.device = p.overlay
        BY <1>1, <2>2 DEF Device
      <3> QED
        BY <2>2, <3>1, <3>2, PathRendered
    <2> QED
      BY <2>1, <2>2
  <1>5. \A i \in DOMAIN r.disks : ValidPath(r.disks[i])
    BY <1>1, <1>2, PathRendered DEF SdkSidecar
  <1>6. ASSUME NEW i \in DOMAIN r.mounts
        PROVE  ValidPath(r.mounts[i].source) /\ ValidPath(r.mounts[i].target)
    <2>1. p.mounts[i].source \in PathTypes /\ p.mounts[i].target \in PathTypes
      <3> DEFINE T == [source : PathTypes, target : PathTypes]
                 m == p.mounts
      <3>1. m \in Seq(T) /\ i \in DOMAIN m
        BY <1>1, <1>2, <1>6
      <3>2. m[i] \in T
        <4> HIDE DEF m, T
        <4> QED
          BY <3>1
      <3> QED
        BY <3>2
    <2>2. SdkPath(p.mounts[i].source) /\ SdkPath(p.mounts[i].target)
      BY <1>1, <1>6 DEF SdkSidecar
    <2> QED
      BY <1>1, <2>1, <2>2, PathRendered
  <1>7. Apart(StandardOf(r), Targets(r))
    <2>1. StandardOf(r) = StandardTargets /\ Targets(r) = Targets(p)
      BY <1>1 DEF StandardOf, Targets
    <2> QED
      BY <2>1 DEF SdkSidecar
  <1>8. ValidSidecar(r)
    BY <1>3, <1>4, <1>5, <1>6, <1>7 DEF ValidSidecar, ValidPaths
  <1> QED
    BY <1>4, <1>8 DEF r

\* Process by process, campd gets what the caller declared.
LEMMA ProcessesRendered ==
  ASSUME NEW spec \in Specs, NEW all, all = spec.sidecars \o spec.main,
         NEW got, got = Processes(Render(spec))
  PROVE  /\ all \in Seq(ProcessTypes) /\ DOMAIN got = 1..Len(all) /\ Len(got) = Len(all)
         /\ \A i \in 1..Len(all) : Carries(got[i], all[i])
  <1> DEFINE s == spec.sidecars
             m == spec.main
             rs == Render(spec).sidecars
             rm == Render(spec).main
  <1>1. s \in Seq(ProcessTypes) /\ m \in Seq(ProcessTypes)
    BY SpecsAssumption
  <1>2. /\ rs = [i \in DOMAIN s |-> Sidecar(s[i])]
        /\ rm = [i \in DOMAIN m |-> Common(m[i])]
    BY DEF Render
  <1>3. IsList(rs) /\ IsList(rm)
    BY RenderedLists
  <1>4. IsList(s) /\ IsList(m)
    <2> HIDE DEF s, m
    <2> QED
      BY <1>1, ListOfTypes
  <1>5. all = s \o m /\ got = rs \o rm
    BY DEF Processes
  <1> HIDE DEF s, m, rs, rm
  <1>6. DOMAIN rs = DOMAIN s /\ DOMAIN rm = DOMAIN m
    BY <1>2
  <1>7. /\ Len(s) \in Nat /\ DOMAIN s = 1..Len(s) /\ Len(m) \in Nat /\ DOMAIN m = 1..Len(m)
        /\ Len(rs) \in Nat /\ DOMAIN rs = 1..Len(rs) /\ Len(rm) \in Nat /\ DOMAIN rm = 1..Len(rm)
    BY <1>3, <1>4, ListLength
  <1>8. Len(rs) = Len(s) /\ Len(rm) = Len(m)
    BY <1>6, <1>7
  <1>9. /\ Len(all) = Len(s) + Len(m) /\ DOMAIN all = 1..Len(s) + Len(m)
        /\ \A i \in DOMAIN all :
              \/ i \in DOMAIN s /\ all[i] = s[i]
              \/ i - Len(s) \in DOMAIN m /\ all[i] = m[i - Len(s)]
    BY <1>4, <1>5, Both
  <1>10. /\ Len(got) = Len(s) + Len(m) /\ DOMAIN got = 1..Len(s) + Len(m)
         /\ \A i \in DOMAIN got :
              \/ i \in DOMAIN rs /\ got[i] = rs[i]
              \/ i - Len(s) \in DOMAIN rm /\ got[i] = rm[i - Len(s)]
    <2>1. /\ Len(got) = Len(rs) + Len(rm) /\ DOMAIN got = 1..Len(rs) + Len(rm)
          /\ \A i \in DOMAIN got :
                \/ i \in DOMAIN rs /\ got[i] = rs[i]
                \/ i - Len(rs) \in DOMAIN rm /\ got[i] = rm[i - Len(rs)]
      BY <1>3, <1>5, Both
    <2> QED
      BY <1>8, <2>1
  <1>11. all \in Seq(ProcessTypes)
    <2> HIDE DEF ProcessTypes
    <2>1. s \o m \in Seq(ProcessTypes)
      BY <1>1, ConcatProperties
    <2> QED
      BY <1>5, <2>1
  <1>12. ASSUME NEW i \in 1..Len(all) PROVE Carries(got[i], all[i])
    <2>1. CASE i \in DOMAIN s
      <3>1. ~(i - Len(s) \in DOMAIN m)
        BY <1>7, <2>1
      <3>2. got[i] = rs[i] /\ all[i] = s[i]
        BY <1>6, <1>9, <1>10, <1>12, <3>1
      <3>3. rs[i] = Sidecar(s[i]) /\ s[i] \in ProcessTypes
        BY <1>1, <1>2, <2>1
      <3> QED
        BY <3>2, <3>3, SidecarCarries
    <2>2. CASE i \notin DOMAIN s
      <3> DEFINE j == i - Len(s)
      <3>1. j \in DOMAIN m /\ got[i] = rm[j] /\ all[i] = m[j]
        BY <1>6, <1>9, <1>10, <1>12, <2>2
      <3>2. rm[j] = Common(m[j])
        BY <1>2, <3>1
      <3> HIDE DEF j
      <3>3. Carries(Common(m[j]), m[j])
        BY DEF Carries
      <3> QED
        BY <3>1, <3>2, <3>3
    <2> QED
      BY <2>1, <2>2
  <1> QED
    BY <1>9, <1>10, <1>11, <1>12

LEMMA WaitsAreLists ==
  ASSUME NEW list, NEW n \in Nat, DOMAIN list = 1..n
  PROVE  /\ DOMAIN Waits(list) = 1..n /\ \A i \in 1..n : Waits(list)[i] = Wait(list[i])
         /\ (\A i \in 1..n : Wait(list[i]) \in Int) => Waits(list) \in Seq(Int) /\ Len(Waits(list)) = n
  BY DEF Waits

LEMMA SdkWaitsAreLists ==
  ASSUME NEW list, NEW n \in Nat, DOMAIN list = 1..n
  PROVE  /\ DOMAIN SdkWaits(list) = 1..n /\ \A i \in 1..n : SdkWaits(list)[i] = SdkWait(list[i])
         /\ (\A i \in 1..n : SdkWait(list[i]) \in Int) =>
               SdkWaits(list) \in Seq(Int) /\ Len(SdkWaits(list)) = n
  BY DEF SdkWaits

\* The waits add up to what the SDK counted.
LEMMA BudgetRendered ==
  ASSUME NEW spec \in Specs, Validate(spec)
  PROVE  /\ Total(Waits(Processes(Render(spec)))) \in Int
         /\ Total(Waits(Processes(Render(spec)))) * Milli
              = Total(SdkWaits(spec.sidecars \o spec.main))
  <1> DEFINE all == spec.sidecars \o spec.main
             got == Processes(Render(spec))
             n == Len(all)
             v == Waits(got)
             w == SdkWaits(all)
  <1>1. \A i \in DOMAIN all : SdkProcess(all[i])
    BY DEF Validate
  <1>2. /\ all \in Seq(ProcessTypes) /\ DOMAIN got = 1..n /\ Len(got) = n
        /\ \A i \in 1..n : Carries(got[i], all[i])
    <2> HIDE DEF all, got
    <2> QED
      BY ProcessesRendered DEF all, got
  <1> HIDE DEF all, got
  <1>3. n \in Nat /\ DOMAIN all = 1..n /\ \A i \in 1..n : all[i] \in ProcessTypes
    BY <1>2
  <1>4. \A i \in 1..n : /\ SdkWait(all[i]) \in Int /\ Wait(got[i]) \in Int
                        /\ Wait(got[i]) * Milli = SdkWait(all[i])
    BY <1>1, <1>2, <1>3, ProcessRendered
  <1> HIDE DEF n
  <1>5. v \in Seq(Int) /\ Len(v) = n /\ \A i \in 1..n : v[i] = Wait(got[i])
    BY <1>2, <1>3, <1>4, WaitsAreLists
  <1>6. w \in Seq(Int) /\ Len(w) = n /\ \A i \in 1..n : w[i] = SdkWait(all[i])
    BY <1>3, <1>4, SdkWaitsAreLists
  <1>7. Total(v) \in Int /\ Total(v) * Milli = Total(w)
    <2> HIDE DEF v, w
    <2>1. \A i \in 1..Len(v) : v[i] * Milli = w[i]
      BY <1>4, <1>5, <1>6
    <2> QED
      BY <1>5, <1>6, <2>1, TotalsAgree
  <1> QED
    BY <1>7 DEF all, got

\* What the SDK accepts and renders, campd accepts, with a device for every disk.
LEMMA RenderedAccepted ==
  ASSUME NEW spec \in Specs, Validate(spec)
  PROVE  /\ CampdAccepts(Render(spec))
         /\ \A i \in DOMAIN Render(spec).sidecars : Render(spec).sidecars[i].device # None
  <1> DEFINE all == spec.sidecars \o spec.main
             wired == Render(spec)
             got == Processes(wired)
             n == Len(all)
  <1>1. /\ all # <<>> /\ \A i \in DOMAIN all : SdkProcess(all[i])
        /\ \A i \in DOMAIN spec.sidecars : SdkSidecar(spec.sidecars[i])
        /\ Distinct(Names(all)) /\ \E i \in DOMAIN all : SdkKind(all[i]) = "service"
        /\ Total(SdkWaits(all)) <= MaxStartupBudget
    BY DEF Validate
  <1>2. /\ all \in Seq(ProcessTypes) /\ DOMAIN got = 1..n /\ Len(got) = n
        /\ \A i \in 1..n : Carries(got[i], all[i])
    <2> HIDE DEF all, got
    <2> QED
      BY ProcessesRendered DEF all, got
  <1>3. \A i \in DOMAIN wired.sidecars :
           ValidSidecar(wired.sidecars[i]) /\ wired.sidecars[i].device # None
    <2>1. wired.sidecars = [i \in DOMAIN spec.sidecars |-> Sidecar(spec.sidecars[i])]
      BY DEF Render
    <2>2. \A i \in DOMAIN spec.sidecars : spec.sidecars[i] \in ProcessTypes
      <3>1. spec.sidecars \in Seq(ProcessTypes)
        BY SpecsAssumption
      <3> HIDE DEF wired
      <3> QED
        BY <3>1
    <2> HIDE DEF wired, all
    <2> QED
      BY <1>1, <2>1, <2>2, SidecarRendered
  <1>4. Total(Waits(got)) <= MaxStartupBudgetMs
    <2>1. Total(Waits(got)) \in Int /\ Total(Waits(got)) * Milli = Total(SdkWaits(all))
      BY BudgetRendered
    <2> HIDE DEF got, all
    <2> QED
      BY <1>1, <2>1 DEF Milli, MaxStartupBudget, MaxStartupBudgetMs
  <1>5. wired.version = 3
    BY DEF Render
  <1>6. CampdAccepts(wired) <=>
           /\ wired.version \in {2, 3} /\ got # <<>> /\ \A i \in DOMAIN got : ValidProcess(got[i])
           /\ \A i \in DOMAIN wired.sidecars : ValidSidecar(wired.sidecars[i])
           /\ Distinct(Names(got)) /\ \E i \in DOMAIN got : got[i].kind = "service"
           /\ Total(Waits(got)) <= MaxStartupBudgetMs
    <2> HIDE DEF wired
    <2> QED
      BY DEF CampdAccepts
  <1> HIDE DEF all, got, wired
  <1>7. n \in Nat /\ DOMAIN all = 1..n /\ \A i \in 1..n : all[i] \in ProcessTypes
    BY <1>2
  <1>8. \A i \in 1..n : ValidProcess(got[i]) /\ got[i].name = all[i].name /\ got[i].kind = SdkKind(all[i])
    BY <1>1, <1>2, <1>7, ProcessRendered
  <1>9. got # <<>>
    <2>1. n # 0
      BY <1>1, <1>2
    <2> QED
      BY <1>2, <2>1
  <1> HIDE DEF n
  <1>10. Distinct(Names(got))
    BY <1>1, <1>2, <1>7, <1>8 DEF Distinct, Names
  <1>11. \E i \in DOMAIN got : got[i].kind = "service"
    BY <1>1, <1>2, <1>7, <1>8
  <1>12. CampdAccepts(wired)
    BY <1>2, <1>3, <1>4, <1>5, <1>6, <1>8, <1>9, <1>10, <1>11
  <1> QED
    BY <1>3, <1>12 DEF wired

-----------------------------------------------------------------------------
(* The steps. *)

\* What each step knows of the declaration and of what became of it.
StagesInv ==
    /\ stage = "declared" => declared \in Specs
    /\ stage \notin {"declared", "sdk_refused"} =>
          /\ IsList(wire.sidecars) /\ IsList(wire.main)
          /\ declared # None =>
                declared \in Specs /\ Validate(declared) /\ wire = Render(declared)
    /\ stage \in {"accepted", "sandrun_refused"} => CampdAccepts(wire)
    /\ stage = "sandrun_refused" =>
          \E i \in DOMAIN wire.sidecars : ~SandrunAccepts(Arguments(wire.sidecars[i]))
    /\ stage = "campd_refused" => ~CampdAccepts(wire)
    /\ stage \in {"declared", "sdk_refused"} => wire = None

LEMMA StagesInit == Init => StagesInv
  BY WireAssumption DEF Init, StagesInv

LEMMA StagesStep == StagesInv /\ [Next]_vars => StagesInv'
  <1> SUFFICES ASSUME StagesInv, [Next]_vars PROVE StagesInv'
    OBVIOUS
  <1> USE DEF StagesInv
  <1>1. CASE UNCHANGED vars
    BY <1>1 DEF vars
  <1>2. CASE RenderStart
    <2>1. CASE ResolveImages(declared) /\ Validate(declared)
      <3>1. declared \in Specs /\ stage' = "rendered" /\ wire' = Render(declared) /\ declared' = declared
        BY <1>2, <2>1 DEF RenderStart
      <3>2. IsList(wire'.sidecars) /\ IsList(wire'.main)
        BY <3>1, RenderedLists
      <3> QED
        BY <2>1, <3>1, <3>2
    <2>2. CASE ~(ResolveImages(declared) /\ Validate(declared))
      BY <1>2, <2>2 DEF RenderStart
    <2> QED
      BY <2>1, <2>2
  <1>3. CASE Decode
    BY <1>3 DEF Decode
  <1>4. CASE Launch
    BY <1>4 DEF Launch
  <1> QED
    BY <1>1, <1>2, <1>3, <1>4 DEF Next

LEMMA StagesInvariant == Spec => []StagesInv
  BY StagesInit, StagesStep, PTL DEF Spec

\* What campd accepts, every sandrun accepts, except disk mounts without a device:
\* parse_args() in cmd/sandrun/src/lib.rs refuses nothing that validate() in
\* cmd/campd/src/spec.rs lets through.
THEOREM AcceptedStarts == Spec => []AcceptedIsLaunched
  <1>1. StagesInv => AcceptedIsLaunched
    BY AcceptedSidecars DEF StagesInv, AcceptedIsLaunched
  <1> QED
    BY <1>1, StagesInvariant, PTL

\* What the SDK renders, campd and every sandrun accept, and the waits that campd
\* makes add up to the ones that Spec.Validate() counted.
THEOREM RenderedStarts == Spec => []RenderedIsRead
  <1>1. StagesInv => RenderedIsAccepted
    <2> SUFFICES ASSUME StagesInv, declared # None, stage \in {"campd_refused", "sandrun_refused"}
                 PROVE  FALSE
      BY DEF RenderedIsAccepted
    <2>1. declared \in Specs /\ Validate(declared) /\ wire = Render(declared)
      BY DEF StagesInv
    <2>2. /\ CampdAccepts(wire)
          /\ \A i \in DOMAIN wire.sidecars : wire.sidecars[i].device # None
      BY <2>1, RenderedAccepted
    <2>3. stage = "sandrun_refused"
      BY <2>2 DEF StagesInv
    <2>4. PICK i \in DOMAIN wire.sidecars : ~SandrunAccepts(Arguments(wire.sidecars[i]))
      BY <2>3 DEF StagesInv
    <2>5. wire.sidecars[i].device = None
      BY <2>2, <2>3, <2>4, AcceptedSidecars DEF StagesInv
    <2> QED
      BY <2>2, <2>5
  <1>2. StagesInv => BudgetIsRendered
    BY BudgetRendered DEF StagesInv, BudgetIsRendered
  <1> QED
    BY <1>1, <1>2, StagesInvariant, PTL DEF RenderedIsRead
=============================================================================

------------------------ MODULE OverlayWorkspaceProofs ------------------------
(* One writable layer has one user at a time and one identity for ever. *)
EXTENDS OverlayWorkspace, TLAPS

\* The steps at which the identity file names the run.
Settled == {"merge", "upper", "chown", "chmod", "mount", "exec"}

\* One run at a time holds the lock: from flock() on, and while its processes
\* have the layer mounted, unless its command closed the descriptor.
LockInv ==
    /\ \A r \in Runs : step[r] \in Locked \cup {"exec"} => held[r]
    /\ \A r \in Runs : step[r] = "running" \/ kids[r] => held[r] \/ r \in closed
    /\ \A r \in Runs : kids[r] => step[r] \in {"running", "ended"}
    /\ \A r, s \in Runs : held[r] /\ held[s] => r = s

\* The identity file is complete before the layer is used, and never changes.
IdentityInv ==
    /\ \A r \in Runs : step[r] \in Settled => identity = who[r]
    /\ \A r \in Runs : step[r] = "write" => identity = "partial"
    /\ \A i \in users : i = identity /\ i \in Identities

\* A merged directory is among those that were there before the next one.
MergedInv ==
    /\ \A r \in Runs : merged[r] # <<>> => merged[r] \in taken
    /\ MergedIsOwn

LEMMA TypeInit == Init => TypeOK
  BY AttemptsAssumption DEF Init, TypeOK, Sandrun, Unlocked, Locked, UpperStates

LEMMA NameStep == \A s \in Seeds : \A a \in Tries : <<s, a>> \in Names
  BY DEF Names, Tries

\* Every step keeps the types.
LEMMA TypeStep == TypeOK /\ [Next]_vars => TypeOK'
  <1> SUFFICES ASSUME TypeOK, [Next]_vars PROVE TypeOK'
    OBVIOUS
  <1> USE DEF TypeOK, Sandrun, Unlocked, Locked, UpperStates, Goes
  <1>1. CASE UNCHANGED vars
    BY <1>1 DEF vars
  <1>2. ASSUME NEW r \in Runs, Start(r) PROVE TypeOK'
    BY <1>2 DEF Start
  <1>3. ASSUME NEW r \in Runs, WriteIdentity(r) PROVE TypeOK'
    BY <1>3 DEF WriteIdentity
  <1>4. ASSUME NEW r \in Runs, MakeUpper(r) PROVE TypeOK'
    BY <1>4 DEF MakeUpper, FoundUpper
  <1>5. ASSUME NEW r \in Runs, Chown(r) PROVE TypeOK'
    BY <1>5 DEF Chown
  <1>6. ASSUME NEW r \in Runs, Chmod(r) PROVE TypeOK'
    BY <1>6 DEF Chmod
  <1>7. ASSUME NEW r \in Runs, MountOverlay(r) PROVE TypeOK'
    BY <1>7 DEF MountOverlay
  <1>8. ASSUME NEW r \in Runs, Exec(r) PROVE TypeOK'
    BY <1>8 DEF Exec, Inherited
  <1>9. ASSUME NEW r \in Runs, Ends(r) PROVE TypeOK'
    BY <1>9 DEF Ends
  <1>10. ASSUME NEW r \in Runs, ChangesRoot(r) PROVE TypeOK'
    BY <1>10 DEF ChangesRoot
  <1>11. ASSUME NEW r \in Runs, ClosesDescriptors(r) PROVE TypeOK'
    BY <1>11 DEF ClosesDescriptors
  <1>12. ASSUME NEW r \in Runs, Forks(r) PROVE TypeOK'
    BY <1>12 DEF Forks
  <1>13. ASSUME NEW r \in Runs, CommandExits(r) PROVE TypeOK'
    BY <1>13 DEF CommandExits
  <1>14. ASSUME NEW r \in Runs, KidsExit(r) PROVE TypeOK'
    BY <1>14 DEF KidsExit
  <1>15. ASSUME NEW r \in Runs, Lock(r) PROVE TypeOK'
    <2>1. CASE Free
      BY <1>15, <2>1 DEF Lock, Free
    <2>2. CASE ~Free
      BY <1>15, <2>2 DEF Lock, Refuse
    <2> QED
      BY <2>1, <2>2
  <1>16. ASSUME NEW r \in Runs, Identify(r) PROVE TypeOK'
    <2>1. CASE identity = "absent"
      BY <1>16, <2>1 DEF Identify
    <2>2. CASE identity # "absent" /\ SameIdentity(r)
      BY <1>16, <2>2 DEF Identify
    <2>3. CASE identity # "absent" /\ ~SameIdentity(r)
      BY <1>16, <2>3 DEF Identify, Refuse
    <2> QED
      BY <2>1, <2>2, <2>3
  <1>17. ASSUME NEW r \in Runs, MakeMerged(r) PROVE TypeOK'
    <2>1. UNCHANGED <<who, closed, kids, identity, upper, users>>
      BY <1>17 DEF MakeMerged
    <2>2. ASSUME NEW s \in Seeds, NEW a \in Tries,
                 merged' = [merged EXCEPT ![r] = <<s, a>>],
                 taken' = taken \cup {<<s, a>>},
                 Goes(r, "merge", "upper"), UNCHANGED <<refused, held>>
          PROVE  TypeOK'
      <3>1. <<s, a>> \in Names
        BY NameStep
      <3> QED
        BY <2>1, <2>2, <3>1
    <2>3. CASE step[r] = "merge" /\ Refuse(r, "names") /\ UNCHANGED <<merged, taken>>
      BY <2>1, <2>3 DEF Refuse
    <2> QED
      BY <1>17, <2>2, <2>3 DEF MakeMerged
  <1> QED
    BY <1>1, <1>2, <1>3, <1>4, <1>5, <1>6, <1>7, <1>8, <1>9, <1>10, <1>11, <1>12, <1>13, <1>14, <1>15, <1>16, <1>17
       DEF Next, SandrunStep, CommandStep

\* Every step keeps the lock with one run.
LEMMA LockStep == TypeOK /\ LockInv /\ [Next]_vars => LockInv'
  <1> SUFFICES ASSUME TypeOK, LockInv, [Next]_vars PROVE LockInv'
    OBVIOUS
  <1>0. /\ DOMAIN step = Runs /\ DOMAIN held = Runs /\ DOMAIN kids = Runs
        /\ step = [r \in Runs |-> step[r]]
        /\ held \in [Runs -> BOOLEAN] /\ kids \in [Runs -> BOOLEAN]
    BY DEF TypeOK
  <1> USE <1>0 DEF LockInv, Locked, Sandrun, Unlocked, Goes
  <1>1. CASE UNCHANGED vars
    BY <1>1 DEF vars
  <1>2. ASSUME NEW r \in Runs, Start(r) PROVE LockInv'
    BY <1>2 DEF Start
  <1>3. ASSUME NEW r \in Runs, WriteIdentity(r) PROVE LockInv'
    BY <1>3 DEF WriteIdentity
  <1>4. ASSUME NEW r \in Runs, MakeUpper(r) PROVE LockInv'
    BY <1>4 DEF MakeUpper, FoundUpper
  <1>5. ASSUME NEW r \in Runs, Chown(r) PROVE LockInv'
    BY <1>5 DEF Chown
  <1>6. ASSUME NEW r \in Runs, Chmod(r) PROVE LockInv'
    BY <1>6 DEF Chmod
  <1>7. ASSUME NEW r \in Runs, MountOverlay(r) PROVE LockInv'
    BY <1>7 DEF MountOverlay
  <1>8. ASSUME NEW r \in Runs, Exec(r) PROVE LockInv'
    BY <1>8 DEF Exec, Inherited
  <1>9. ASSUME NEW r \in Runs, Ends(r) PROVE LockInv'
    BY <1>9 DEF Ends
  <1>10. ASSUME NEW r \in Runs, ChangesRoot(r) PROVE LockInv'
    BY <1>10 DEF ChangesRoot
  <1>11. ASSUME NEW r \in Runs, ClosesDescriptors(r) PROVE LockInv'
    BY <1>11 DEF ClosesDescriptors
  <1>12. ASSUME NEW r \in Runs, Forks(r) PROVE LockInv'
    BY <1>12 DEF Forks
  <1>13. ASSUME NEW r \in Runs, CommandExits(r) PROVE LockInv'
    BY <1>13 DEF CommandExits
  <1>14. ASSUME NEW r \in Runs, KidsExit(r) PROVE LockInv'
    BY <1>14 DEF KidsExit
  <1>15. ASSUME NEW r \in Runs, Lock(r) PROVE LockInv'
    <2>1. CASE Free
      BY <1>15, <2>1 DEF Lock, Free
    <2>2. CASE ~Free
      BY <1>15, <2>2 DEF Lock, Refuse
    <2> QED
      BY <2>1, <2>2
  <1>16. ASSUME NEW r \in Runs, Identify(r) PROVE LockInv'
    <2>1. CASE identity = "absent"
      BY <1>16, <2>1 DEF Identify
    <2>2. CASE identity # "absent" /\ SameIdentity(r)
      BY <1>16, <2>2 DEF Identify
    <2>3. CASE identity # "absent" /\ ~SameIdentity(r)
      BY <1>16, <2>3 DEF Identify, Refuse
    <2> QED
      BY <2>1, <2>2, <2>3
  <1>17. ASSUME NEW r \in Runs, MakeMerged(r) PROVE LockInv'
    <2>1. UNCHANGED <<who, closed, kids, identity, upper, users>>
      BY <1>17 DEF MakeMerged
    <2>2. ASSUME NEW s \in Seeds, NEW a \in Tries,
                 merged' = [merged EXCEPT ![r] = <<s, a>>],
                 taken' = taken \cup {<<s, a>>},
                 Goes(r, "merge", "upper"), UNCHANGED <<refused, held>>
          PROVE  LockInv'
      BY <2>1, <2>2
    <2>3. CASE step[r] = "merge" /\ Refuse(r, "names") /\ UNCHANGED <<merged, taken>>
      BY <2>1, <2>3 DEF Refuse
    <2> QED
      BY <1>17, <2>2, <2>3 DEF MakeMerged
  <1> QED
    BY <1>1, <1>2, <1>3, <1>4, <1>5, <1>6, <1>7, <1>8, <1>9, <1>10, <1>11, <1>12, <1>13, <1>14, <1>15, <1>16, <1>17
       DEF Next, SandrunStep, CommandStep

\* The file changes only in the hands of the run that holds the lock.
LEMMA IdentityStep ==
    TypeOK /\ LockInv /\ IdentityInv /\ [Next]_vars => IdentityInv'
  <1> SUFFICES ASSUME TypeOK, LockInv, IdentityInv, [Next]_vars PROVE IdentityInv'
    OBVIOUS
  <1> USE IdentityAssumption DEF TypeOK, IdentityInv, Settled, Goes
  <1>1. CASE UNCHANGED vars
    BY <1>1 DEF vars
  <1>2. ASSUME NEW r \in Runs, Start(r) \/ Lock(r) PROVE IdentityInv'
    <2>1. CASE Start(r)
      BY <2>1 DEF Start
    <2>2. CASE Lock(r)
      <3>1. UNCHANGED <<who, identity, users>> /\ step[r] = "lock"
        BY <2>2 DEF Lock
      <3>2. step' = [step EXCEPT ![r] = "identify"] \/ step' = [step EXCEPT ![r] = "ended"]
        BY <2>2 DEF Lock, Refuse
      <3> QED
        BY <3>1, <3>2
    <2> QED
      BY <1>2, <2>1, <2>2
  <1>3. ASSUME NEW r \in Runs, Identify(r) PROVE IdentityInv'
    <2>1. \A s \in Runs : s # r => step[s] \notin Locked \cup {"exec"}
      BY <1>3 DEF LockInv, Locked, Identify
    <2>2. CASE identity = "absent"
      BY <1>3, <2>1, <2>2 DEF Identify, Locked
    <2>3. CASE identity # "absent" /\ SameIdentity(r)
      BY <1>3, <2>1, <2>3 DEF Identify, SameIdentity, Locked
    <2>4. CASE identity # "absent" /\ ~SameIdentity(r)
      BY <1>3, <2>1, <2>4 DEF Identify, Refuse, Locked
    <2> QED
      BY <2>2, <2>3, <2>4
  <1>4. ASSUME NEW r \in Runs, WriteIdentity(r) PROVE IdentityInv'
    <2>1. \A s \in Runs : s # r => step[s] \notin Locked \cup {"exec"}
      BY <1>4 DEF LockInv, Locked, WriteIdentity
    <2> QED
      BY <1>4, <2>1 DEF WriteIdentity, Locked
  <1>5. ASSUME NEW r \in Runs, MakeMerged(r) PROVE IdentityInv'
    BY <1>5 DEF MakeMerged, Refuse
  <1>6. ASSUME NEW r \in Runs, MakeUpper(r) \/ Chown(r) \/ Chmod(r) PROVE IdentityInv'
    BY <1>6 DEF MakeUpper, Chown, Chmod
  <1>7. ASSUME NEW r \in Runs, MountOverlay(r) PROVE IdentityInv'
    BY <1>7 DEF MountOverlay
  <1>8. ASSUME NEW r \in Runs, Exec(r) \/ Ends(r) \/ CommandStep(r) PROVE IdentityInv'
    BY <1>8 DEF Exec, Ends, CommandStep, ChangesRoot, ClosesDescriptors, Forks,
                CommandExits, KidsExit
  <1> QED
    BY <1>1, <1>2, <1>3, <1>4, <1>5, <1>6, <1>7, <1>8 DEF Next, SandrunStep

\* A new merged directory was not there before.
LEMMA MergedStep == TypeOK /\ MergedInv /\ [Next]_vars => MergedInv'
  <1> SUFFICES ASSUME TypeOK, MergedInv, [Next]_vars PROVE MergedInv'
    OBVIOUS
  <1> USE DEF TypeOK, MergedInv, MergedIsOwn
  <1>1. CASE UNCHANGED <<merged, taken>>
    BY <1>1
  <1>2. ASSUME NEW r \in Runs, MakeMerged(r) PROVE MergedInv'
    <2>1. \/ UNCHANGED <<merged, taken>>
          \/ \E s \in Seeds, a \in Tries :
               /\ <<s, a>> \notin taken
               /\ merged' = [merged EXCEPT ![r] = <<s, a>>]
               /\ taken' = taken \cup {<<s, a>>}
      BY <1>2 DEF MakeMerged, FreeName
    <2>2. ASSUME NEW n \in Seeds \X Tries, n \notin taken,
                 merged' = [merged EXCEPT ![r] = n], taken' = taken \cup {n}
          PROVE  MergedInv'
      BY <2>2
    <2> QED
      BY <2>1, <2>2, <1>1
  <1>3. ASSUME NEW r \in Runs, SandrunStep(r) \/ CommandStep(r), ~MakeMerged(r)
        PROVE UNCHANGED <<merged, taken>>
    BY <1>3 DEF SandrunStep, CommandStep, Start, Lock, Identify, WriteIdentity, MakeUpper,
                Chown, Chmod, MountOverlay, Exec, Ends, ChangesRoot, ClosesDescriptors,
                Forks, CommandExits, KidsExit
  <1> QED
    BY <1>1, <1>2, <1>3 DEF Next, vars

LEMMA InvInit == Init => LockInv /\ IdentityInv /\ MergedInv
  BY DEF Init, LockInv, IdentityInv, MergedInv, MergedIsOwn, Locked, Settled

LEMMA Invariance == Spec => [](TypeOK /\ LockInv /\ IdentityInv /\ MergedInv)
  BY TypeInit, InvInit, TypeStep, LockStep, IdentityStep, MergedStep, PTL DEF Spec

\* Two Sidecars have the layer mounted at once only if one has given up its lock.
THEOREM LayerIsExclusive == Spec => []ExclusiveLayer
  <1>1. LockInv => ExclusiveLayer
    BY DEF LockInv, ExclusiveLayer, Mounted
  <1> QED
    BY Invariance, <1>1, PTL

\* However runs fail, restart and race, one identity at most uses the layer.
THEOREM LayerHasOneIdentity == Spec => []LayerKeepsIdentity
  <1>1. IdentityInv => LayerKeepsIdentity
    BY DEF IdentityInv, LayerKeepsIdentity
  <1> QED
    BY Invariance, <1>1, PTL

\* Every run that gets that far has a merged directory of its own.
THEOREM MergedIsUnique == Spec => []MergedIsOwn
  <1>1. MergedInv => MergedIsOwn
    BY DEF MergedInv
  <1> QED
    BY Invariance, <1>1, PTL

-----------------------------------------------------------------------------
\* While a run fits the upper directory, no command runs on it: the directory was
\* absent when that run came to it, and every command has come to it before; and no
\* run gets to its exec without the lock.
UpperInv ==
    /\ \A r \in Runs : step[r] \in {"chown", "chmod", "mount", "exec", "running"}
                           => upper # "absent"
    /\ \A r \in Runs : step[r] \in {"chown", "chmod"} =>
          upper # "custom" /\ \A s \in Runs : step[s] # "running"

\* Every step keeps a custom root out of the hands of those who fit a new one.
LEMMA UpperStep == TypeOK /\ LockInv /\ UpperInv /\ [Next]_vars => UpperInv'
  <1> SUFFICES ASSUME TypeOK, LockInv, UpperInv, [Next]_vars PROVE UpperInv'
    OBVIOUS
  <1> USE DEF TypeOK, UpperInv, Goes
  <1>1. CASE UNCHANGED vars
    BY <1>1 DEF vars
  <1>2. ASSUME NEW r \in Runs,
               \/ Start(r) \/ Lock(r) \/ Identify(r) \/ WriteIdentity(r) \/ MakeMerged(r)
               \/ Ends(r) \/ ClosesDescriptors(r) \/ Forks(r) \/ CommandExits(r) \/ KidsExit(r)
        PROVE  UpperInv'
    <2>1. UNCHANGED upper /\ \A s \in Runs : step'[s] = step[s]
              \/ step'[s] \in {"lock", "identify", "write", "merge", "upper", "ended"}
      BY <1>2 DEF Start, Lock, Identify, WriteIdentity, MakeMerged, Ends, ClosesDescriptors,
                  Forks, CommandExits, KidsExit, Refuse
    <2> QED
      BY <2>1
  <1>3. ASSUME NEW r \in Runs, MakeUpper(r) PROVE UpperInv'
    <2>1. CASE upper = "absent"
      BY <1>3, <2>1 DEF MakeUpper, FoundUpper
    <2>2. CASE upper # "absent"
      BY <1>3, <2>2 DEF MakeUpper, FoundUpper
    <2> QED
      BY <2>1, <2>2
  <1>4. ASSUME NEW r \in Runs, Chown(r) \/ Chmod(r) \/ MountOverlay(r) PROVE UpperInv'
    BY <1>4 DEF Chown, Chmod, MountOverlay
  <1>5. ASSUME NEW r \in Runs, Exec(r) PROVE UpperInv'
    <2>1. \A s \in Runs : s # r => step[s] \notin {"chown", "chmod"}
      BY <1>5 DEF Exec, LockInv, Locked
    <2> QED
      BY <1>5, <2>1 DEF Exec
  <1>6. ASSUME NEW r \in Runs, ChangesRoot(r) PROVE UpperInv'
    BY <1>6 DEF ChangesRoot
  <1> QED
    BY <1>1, <1>2, <1>3, <1>4, <1>5, <1>6 DEF Next, SandrunStep, CommandStep

\* ensure_overlay_upper_directory(): whatever a command did to the owner and the mode of
\* the root survives every later, interrupted or concurrent start, even one that got the
\* lock because the command had closed its descriptor.
THEOREM RootStays == Spec => RootIsKept
  <1>1. Init => UpperInv
    BY DEF Init, UpperInv
  <1>2. TypeOK /\ UpperInv /\ [Next]_vars => [upper = "custom" => upper' = "custom"]_vars
    <2> SUFFICES ASSUME UpperInv, Next, upper = "custom" PROVE upper' = "custom"
      OBVIOUS
    <2> QED
      BY DEF UpperInv, Next, SandrunStep, CommandStep, Goes, Start, Lock, Identify, WriteIdentity,
             MakeMerged, MakeUpper, Chown, Chmod, MountOverlay, Exec, Ends, ChangesRoot,
             ClosesDescriptors, Forks, CommandExits, KidsExit
  <1> QED
    BY <1>1, <1>2, UpperStep, Invariance, PTL DEF Spec, RootIsKept
=============================================================================

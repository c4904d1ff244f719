--------------------------- MODULE OverlayWorkspace ---------------------------
(***************************************************************************)
(* The writable layer of a Sidecar on its overlay device                   *)
(* (cmd/sandrun/src/linux.rs, stable_overlay_paths and what follows up to  *)
(* the exec).  Several sandrun processes, started one after the other or   *)
(* at once, meet in one workspace directory: a lock file, a file with the  *)
(* full identity behind the directory's hash, the upper directory, and one *)
(* merged directory for each of them.  Any of them may fail or be killed   *)
(* between two system calls; what is on the device stays.                  *)
(***************************************************************************)
EXTENDS Integers

CONSTANTS
    Runs,           \* the sandrun processes
    Identities,     \* overlay-id and rootfs; all have the same hash here
    Seeds,          \* pid and clock, which name a merged directory
    Attempts        \* attempts 0..Attempts - 1 to find a free name

ASSUME IdentityAssumption == {"absent", "partial"} \cap Identities = {}
ASSUME AttemptsAssumption == Attempts \in Nat \ {0}

VARIABLES
    step,       \* step[r]: the next step of run r
    who,        \* who[r]: its identity
    refused,    \* refused[r]: why it was refused, "" if it was not
    held,       \* held[r]: a process of r has the locked descriptor open
    closed,     \* the runs whose command closed its descriptors
    kids,       \* kids[r]: the command of r has descendants
    merged,     \* merged[r]: its merged directory
    \* on the device
    identity,   \* the identity file: "absent", "partial" or what it says
    upper,      \* the upper directory, see UpperStates
    taken,      \* the merged directories that exist
    users       \* history: the identities that have mounted the layer

vars == <<step, who, refused, held, closed, kids, merged, identity, upper, taken, users>>

\* "bare" is root's with mode 0700, "owned" has been given to the owner of the
\* lower root, "proper" also has its mode, "custom" was changed by a command.
UpperStates == {"absent", "bare", "owned", "proper", "custom"}

Names == Seeds \X (0..Attempts - 1)

\* The steps of sandrun, from the opening of the lock file to the exec.
Unlocked == {"lock"}
Locked == {"identify", "write", "merge", "upper", "chown", "chmod", "mount"}
Sandrun == Unlocked \cup Locked \cup {"exec"}

\* The overlay is mounted in the mount namespace of r, which its processes keep.
Mounted(r) == step[r] \in {"exec", "running"} \/ kids[r]

TypeOK ==
    /\ step \in [Runs -> {"idle", "running", "ended"} \cup Sandrun]
    /\ who \in [Runs -> Identities]
    /\ refused \in [Runs -> {"", "busy", "mismatch", "names"}]
    /\ held \in [Runs -> BOOLEAN]
    /\ closed \in SUBSET Runs
    /\ kids \in [Runs -> BOOLEAN]
    /\ merged \in [Runs -> {<<>>} \cup Names]
    /\ identity \in {"absent", "partial"} \cup Identities
    /\ upper \in UpperStates
    /\ taken \in SUBSET Names
    /\ users \in SUBSET Identities

Init ==
    /\ step = [r \in Runs |-> "idle"]
    /\ who \in [Runs -> Identities]
    /\ refused = [r \in Runs |-> ""]
    /\ held = [r \in Runs |-> FALSE]
    /\ closed = {}
    /\ kids = [r \in Runs |-> FALSE]
    /\ merged = [r \in Runs |-> <<>>]
    /\ identity = "absent" /\ upper = "absent"
    /\ taken = {} /\ users = {}

-----------------------------------------------------------------------------
Goes(r, from, to) == step[r] = from /\ step' = [step EXCEPT ![r] = to]

\* sandrun exits with an error; the kernel closes its descriptors.
Refuse(r, reason) ==
    /\ step' = [step EXCEPT ![r] = "ended"]
    /\ refused' = [refused EXCEPT ![r] = reason]
    /\ held' = [held EXCEPT ![r] = FALSE]

\* The workspace directory and the lock file are created if they are missing.
Start(r) ==
    /\ Goes(r, "idle", "lock")
    /\ UNCHANGED <<who, refused, held, closed, kids, merged, identity, upper, taken, users>>

Free == \A s \in Runs : ~held[s]

\* flock(LOCK_EX | LOCK_NB)
Lock(r) ==
    /\ step[r] = "lock"
    /\ IF Free
       THEN /\ Goes(r, "lock", "identify")
            /\ held' = [held EXCEPT ![r] = TRUE]
            /\ UNCHANGED refused
       ELSE Refuse(r, "busy")
    /\ UNCHANGED <<who, closed, kids, merged, identity, upper, taken, users>>

\* Whether the file that is there names r, and a mutant that only asks for one.
AnyIdentity(r) == identity # "partial"
SameIdentity(r) == identity = who[r]

\* ensure_identity(): create the file, empty, or compare the one that exists.
Identify(r) ==
    /\ step[r] = "identify"
    /\ \/ /\ identity = "absent"
          /\ identity' = "partial"
          /\ Goes(r, "identify", "write")
          /\ UNCHANGED <<refused, held>>
       \/ /\ identity # "absent" /\ SameIdentity(r)
          /\ Goes(r, "identify", "merge")
          /\ UNCHANGED <<identity, refused, held>>
       \/ /\ identity # "absent" /\ ~SameIdentity(r)
          /\ Refuse(r, "mismatch")
          /\ UNCHANGED identity
    /\ UNCHANGED <<who, closed, kids, merged, upper, taken, users>>

WriteIdentity(r) ==
    /\ Goes(r, "write", "merge")
    /\ identity' = who[r]
    /\ UNCHANGED <<who, refused, held, closed, kids, merged, upper, taken, users>>

\* The attempts.
Tries == 0..(Attempts - 1)

\* The first name that mkdir() does not find taken; a mutant takes any.
FirstName(s, a) == a = 0
FreeName(s, a) == /\ <<s, a>> \notin taken
                  /\ \A b \in 0..(a - 1) : <<s, b>> \in taken

\* create_overlay_workspace() below merged; pids and times may come back.
MakeMerged(r) ==
    /\ step[r] = "merge"
    /\ \E s \in Seeds :
         \/ \E a \in Tries :
               /\ FreeName(s, a)
               /\ merged' = [merged EXCEPT ![r] = <<s, a>>]
               /\ taken' = taken \cup {<<s, a>>}
               /\ Goes(r, "merge", "upper")
               /\ UNCHANGED <<refused, held>>
         \/ /\ \A a \in Tries : <<s, a>> \in taken
            /\ Refuse(r, "names")
            /\ UNCHANGED <<merged, taken>>
    /\ UNCHANGED <<who, closed, kids, identity, upper, users>>

\* ensure_overlay_upper_directory() gives an upper directory the owner and the
\* mode of the lower root only if it has just created it; a mutant always does.
Fitted == FALSE
FoundUpper == upper # "absent"

MakeUpper(r) ==
    /\ IF FoundUpper THEN Goes(r, "upper", "mount") ELSE Goes(r, "upper", "chown")
    /\ upper' = IF upper = "absent" THEN "bare" ELSE upper
    /\ UNCHANGED <<who, refused, held, closed, kids, merged, identity, taken, users>>

Chown(r) ==
    /\ Goes(r, "chown", "chmod")
    /\ upper' = "owned"
    /\ UNCHANGED <<who, refused, held, closed, kids, merged, identity, taken, users>>

Chmod(r) ==
    /\ Goes(r, "chmod", "mount")
    /\ upper' = "proper"
    /\ UNCHANGED <<who, refused, held, closed, kids, merged, identity, taken, users>>

MountOverlay(r) ==
    /\ Goes(r, "mount", "exec")
    /\ users' = users \cup {who[r]}
    /\ UNCHANGED <<who, refused, held, closed, kids, merged, identity, upper, taken>>

\* The descriptor of the lock outlives the exec; a mutant leaves FD_CLOEXEC on.
CloseOnExec(r) == FALSE
Inherited(r) == held[r]

\* The rest of run(), up to the exec of the command.
Exec(r) ==
    /\ Goes(r, "exec", "running")
    /\ held' = [held EXCEPT ![r] = Inherited(r)]
    /\ UNCHANGED <<who, refused, closed, kids, merged, identity, upper, taken, users>>

\* sandrun fails in any of its calls, or is killed between two of them.
Ends(r) ==
    /\ step[r] \in Sandrun
    /\ step' = [step EXCEPT ![r] = "ended"]
    /\ held' = [held EXCEPT ![r] = FALSE]
    /\ UNCHANGED <<who, refused, closed, kids, merged, identity, upper, taken, users>>

-----------------------------------------------------------------------------
(* The command and its descendants. *)

ChangesRoot(r) ==
    /\ step[r] = "running" /\ upper # "custom"
    /\ upper' = "custom"
    /\ UNCHANGED <<step, who, refused, held, closed, kids, merged, identity, taken, users>>

ClosesDescriptors(r) ==
    /\ step[r] = "running" /\ ~kids[r]
    /\ closed' = closed \cup {r}
    /\ held' = [held EXCEPT ![r] = FALSE]
    /\ UNCHANGED <<step, who, refused, kids, merged, identity, upper, taken, users>>

Forks(r) ==
    /\ step[r] = "running" /\ ~kids[r]
    /\ kids' = [kids EXCEPT ![r] = TRUE]
    /\ UNCHANGED <<step, who, refused, held, closed, merged, identity, upper, taken, users>>

CommandExits(r) ==
    /\ Goes(r, "running", "ended")
    /\ held' = [held EXCEPT ![r] = @ /\ kids[r]]
    /\ UNCHANGED <<who, refused, closed, kids, merged, identity, upper, taken, users>>

KidsExit(r) ==
    /\ kids[r]
    /\ kids' = [kids EXCEPT ![r] = FALSE]
    /\ held' = [held EXCEPT ![r] = @ /\ step[r] = "running"]
    /\ UNCHANGED <<step, who, refused, closed, merged, identity, upper, taken, users>>

-----------------------------------------------------------------------------
SandrunStep(r) ==
    \/ Start(r) \/ Lock(r) \/ Identify(r) \/ WriteIdentity(r) \/ MakeMerged(r)
    \/ MakeUpper(r) \/ Chown(r) \/ Chmod(r) \/ MountOverlay(r) \/ Exec(r) \/ Ends(r)

CommandStep(r) ==
    \/ ChangesRoot(r) \/ ClosesDescriptors(r) \/ Forks(r) \/ CommandExits(r) \/ KidsExit(r)

Next == \E r \in Runs : SandrunStep(r) \/ CommandStep(r)

Spec == Init /\ [][Next]_vars

-----------------------------------------------------------------------------
\* The lock keeps two Sidecars from having the layer mounted at once, through
\* the exec and for as long as descendants of the command live, unless one of
\* the commands closed the descriptor it inherited.
ExclusiveLayer == \A r, s \in Runs :
    r # s /\ Mounted(r) /\ Mounted(s) => r \in closed \/ s \in closed

\* Two identities with the same hash never get to use the same layer, whichever
\* comes first and wherever it is interrupted.
LayerKeepsIdentity == \A i, j \in users : i = j

\* No two runs ever mount on the same merged directory.
MergedIsOwn == \A r, s \in Runs :
    r # s /\ merged[r] # <<>> => merged[r] # merged[s]

\* A restart does not undo what a command did to the root of its file system.
RootIsKept == [][upper = "custom" => upper' = "custom"]_vars

-----------------------------------------------------------------------------
(* What the documents promise and an interrupted sandrun breaks. *)

\* A run is refused for its identity only if another identity has the hash.
MismatchMeansCollision == \A r \in Runs :
    refused[r] = "mismatch" => \E s \in Runs : who[s] # who[r]

\* A mounted layer has the owner and the mode of the lower root, until a
\* command changes them.
RootIsFitted == \A r \in Runs : Mounted(r) => upper \in {"proper", "custom"}
=============================================================================

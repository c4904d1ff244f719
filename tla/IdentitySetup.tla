---------------------------- MODULE IdentitySetup -----------------------------
(***************************************************************************)
(* NamedUsers and ProcessIdentity together: which user a declaration is to *)
(* run as, by name or by number, and what its process then runs as.  The   *)
(* numeric identity that campd or sandrun has got from a name is the one   *)
(* that is applied.                                                        *)
(***************************************************************************)
EXTENDS NamedUsers

CONSTANTS
    Callers, Identities, Bounding,  \* see ProcessIdentity
    Sandboxes   \* what there is at the start: [caller, main, lower, declared]

VARIABLES cred, program, calls, setuid, want, campd

\* The credentials of a process.
IsCredential(c) ==
    c = [uid |-> c.uid, euid |-> c.euid, suid |-> c.suid, gid |-> c.gid, egid |-> c.egid,
         sgid |-> c.sgid, groups |-> c.groups, nnp |-> c.nnp, permitted |-> c.permitted,
         effective |-> c.effective, inheritable |-> c.inheritable, ambient |-> c.ambient]

\* The kernel lets no capability be ambient that is not inheritable.
ASSUME CallersAssumption ==
    \A c \in Callers : IsCredential(c) /\ c.ambient \subseteq c.inheritable

Process == INSTANCE ProcessIdentity

processVars == <<cred, program, calls, setuid, want, campd>>
vars == <<userVars, processVars>>

Init ==
    /\ UsersInit /\ Process!Init
    /\ [caller |-> cred, main |-> main, lower |-> lower, declared |-> declared] \in Sandboxes

Numbers(id) == [uid |-> id.uid, gid |-> id.gid]

\* A declaration with a name.
SpawnNamedMain(i) ==
    /\ LaunchMain(i)
    /\ Process!SpawnMain({Numbers(Cached(declared[i]))})

SpawnNamedSidecar(user) ==
    /\ LaunchSidecar(user) /\ program = "campd"
    /\ IF ResolveUser(Lower, user).error = ""
       THEN Process!SpawnSidecar({Numbers(ResolveUser(Lower, user))})
       ELSE UNCHANGED processVars

\* A declaration with numbers or without an identity.
SpawnOther ==
    /\ at = "running" /\ UNCHANGED userVars
    /\ \E id \in Process!Declared : Process!SpawnMain(id) \/ Process!SpawnSidecar(id)

Next ==
    \/ Process!Step /\ UNCHANGED userVars
    \/ ResolveMainUsers /\ program = "campd" /\ UNCHANGED processVars
    \/ (RewriteMain \/ RewriteUpper) /\ UNCHANGED processVars
    \/ Restart /\ Process!Follow
    \/ \E i \in DOMAIN declared : SpawnNamedMain(i)
    \/ \E user \in Users : SpawnNamedSidecar(user)
    \/ SpawnOther

Spec == Init /\ [][Next]_vars

-----------------------------------------------------------------------------
(* The properties of ProcessIdentity, under the identities that names give. *)

\* Every command runs with the identity that was declared for it and no more.
IdentityIsDeclared == Process!IdentityIsDeclared

\* A campd that is root is never refused an identity.
RootIsNotRefused == Process!RootIsNotRefused

\* The launcher makes campd root, or campd is not started.
LauncherMakesRoot == Process!LauncherMakesRoot
=============================================================================

--------------------------- MODULE ProcessIdentity ----------------------------
(***************************************************************************)
(* The identity that a declared process runs with, on its way through the  *)
(* programs that change it: the setuid launcher that makes campd root when *)
(* the main image has a user of its own (cmd/campd-launcher/main.c), the   *)
(* child of campd that becomes a Main process (apply_main_identity in      *)
(* cmd/campd/src/runtime.rs), and sandrun before it becomes the command of *)
(* a Sidecar (apply_identity in cmd/sandrun/src/linux.rs).  What each      *)
(* system call needs and changes is the kernel's part.                     *)
(***************************************************************************)
EXTENDS Integers, Sequences

CONSTANTS
    Callers,        \* the credentials that the entry point is started with
    Identities,     \* explicit identities: [uid, gid]
    Bounding        \* the capabilities that root has here

VARIABLES
    cred,       \* the credentials of the process
    program,    \* what it runs: "entry", "launcher", "campd", "main", "sidecar", "command"
    calls,      \* the system calls before its next exec
    setuid,     \* the entry point is the launcher, with its setuid bit in effect
    want,       \* the declared identity, {} if there is none
    campd       \* history: the credentials of campd, {} before

vars == <<cred, program, calls, setuid, want, campd>>

Caps == {"setuid", "setgid", "admin"}

-----------------------------------------------------------------------------
(* The kernel, capabilities(7). *)

Uids(c) == {c.uid, c.euid, c.suid}
Gids(c) == {c.gid, c.egid, c.sgid}

Drop(c) == [c EXCEPT !.permitted = {}, !.effective = {}, !.ambient = {}]

\* execve() of a file without capabilities of its own; a set id ends the ambient ones.
Exec(c) ==
    LET ambient == IF c.uid = c.euid /\ c.gid = c.egid THEN c.ambient ELSE {}
        permitted == IF 0 \in {c.uid, c.euid} THEN Bounding \cup c.inheritable ELSE ambient
    IN [c EXCEPT !.suid = c.euid, !.sgid = c.egid, !.ambient = ambient, !.permitted = permitted,
                 !.effective = IF c.euid = 0 THEN permitted ELSE ambient]

\* setresuid(id, id, id)
SetUids(c, id) ==
    LET d == [c EXCEPT !.uid = id, !.euid = id, !.suid = id]
    IN CASE id # 0 /\ 0 \in Uids(c) -> Drop(d)
         [] id = 0 /\ c.euid # 0 -> [d EXCEPT !.effective = c.permitted]
         [] OTHER -> d

Allowed(call, c, id) ==
    CASE call = "is_root" -> c.euid = 0
      [] call = "mounts" -> "admin" \in c.effective
      [] call = "setgroups" -> "setgid" \in c.effective
      [] call = "setresgid" -> "setgid" \in c.effective \/ id.gid \in Gids(c)
      [] call = "setresuid" -> "setuid" \in c.effective \/ id.uid \in Uids(c)
      [] call = "verify" -> c.uid = id.uid /\ c.euid = id.uid /\ c.gid = id.gid /\ c.egid = id.gid
      [] OTHER -> TRUE

After(call, c, id) ==
    CASE call = "clear_ambient" -> [c EXCEPT !.ambient = {}]
      [] call = "setgroups" -> [c EXCEPT !.groups = FALSE]
      [] call = "setresgid" -> [c EXCEPT !.gid = id.gid, !.egid = id.gid, !.sgid = id.gid]
      [] call = "setresuid" -> SetUids(c, id.uid)
      [] call = "capset" -> [Drop(c) EXCEPT !.inheritable = {}]
      [] call = "no_new_privs" -> [c EXCEPT !.nnp = TRUE]
      [] OTHER -> c

-----------------------------------------------------------------------------
(* The programs, as the system calls that they make one after another. *)

Root == [uid |-> 0, gid |-> 0]

\* main() of the launcher, and a mutant that relies on the setuid bit
EffectiveOnly == <<"is_root", "setgroups", "setresgid">>
Bootstrap == <<"is_root", "setgroups", "setresgid", "setresuid">>

\* Mutants: user before group, and no capset().
UserFirst(id) == <<"clear_ambient", "setgroups", "setresuid", "setresgid", "capset",
                   "no_new_privs", "verify">>
NoCapset(id) == SelectSeq(UserFirst(id), LAMBDA call : call # "capset")

\* apply_identity()
ApplyIdentity(id) ==
    IF id.uid = 0 THEN <<"setgroups", "setresgid", "setresuid", "verify">>
    ELSE <<"clear_ambient", "setgroups", "setresgid", "setresuid", "capset", "no_new_privs", "verify">>

\* Without an identity nothing is changed.
Nothing == <<>>

\* apply_main_identity(), in the child before its exec
ApplyMainIdentity(id) == <<"is_root">> \o ApplyIdentity(id)

Init ==
    /\ cred \in Callers
    /\ program = "entry"
    /\ calls = <<>>
    /\ setuid \in BOOLEAN
    /\ want = {} /\ campd = {}

\* The entry point: the launcher, whose setuid bit has no effect on a file system
\* mounted nosuid or with no_new_privs, or campd itself.
EnterLauncher ==
    /\ program = "entry"
    /\ program' = "launcher"
    /\ cred' = IF setuid /\ ~cred.nnp THEN Exec([cred EXCEPT !.euid = 0]) ELSE Exec(cred)
    /\ calls' = Bootstrap
    /\ UNCHANGED <<setuid, want, campd>>

EnterCampd ==
    /\ program = "entry" \/ (program = "launcher" /\ calls = <<>>)
    /\ program' = "campd"
    /\ cred' = Exec(cred)
    /\ campd' = {Exec(cred)}
    /\ calls' = <<>>
    /\ UNCHANGED <<setuid, want>>

\* spawn() of a Main process: the child changes itself before its exec.
SpawnMain(id) ==
    /\ program = "campd"
    /\ program' = "main"
    /\ want' = id
    /\ calls' = IF id = {} THEN Nothing ELSE ApplyMainIdentity(CHOOSE i \in id : TRUE)
    /\ UNCHANGED <<cred, setuid, campd>>

\* spawn() of a Sidecar: the child runs sandrun, which mounts before it changes.
SpawnSidecar(id) ==
    /\ program = "campd"
    /\ program' = "sidecar"
    /\ cred' = Exec(cred)
    /\ want' = id
    /\ calls' = <<"mounts">> \o IF id = {} THEN Nothing ELSE ApplyIdentity(CHOOSE i \in id : TRUE)
    /\ UNCHANGED <<setuid, campd>>

Target == IF program = "launcher" \/ want = {} THEN Root ELSE CHOOSE i \in want : TRUE

\* The next system call; one that fails ends the process.
Call ==
    /\ calls # <<>>
    /\ IF Allowed(Head(calls), cred, Target)
       THEN /\ cred' = After(Head(calls), cred, Target)
            /\ calls' = Tail(calls)
            /\ UNCHANGED program
       ELSE /\ program' = "failed"
            /\ calls' = <<>>
            /\ UNCHANGED cred
    /\ UNCHANGED <<setuid, want, campd>>

ExecCommand ==
    /\ program \in {"main", "sidecar"} /\ calls = <<>>
    /\ program' = "command"
    /\ cred' = Exec(cred)
    /\ UNCHANGED <<calls, setuid, want, campd>>

\* campd, which is as it was, may spawn another one; that is followed then.
Follow ==
    /\ campd # {}
    /\ program' = "campd" /\ calls' = <<>> /\ want' = {}
    /\ cred' \in campd
    /\ UNCHANGED <<setuid, campd>>

NextProcess == program \in {"command", "failed"} /\ Follow

Declared == {{}} \cup {{id} : id \in Identities}

Step == EnterLauncher \/ EnterCampd \/ Call \/ ExecCommand \/ NextProcess
Next == Step \/ \E id \in Declared : SpawnMain(id) \/ SpawnSidecar(id)

Spec == Init /\ [][Next]_vars

-----------------------------------------------------------------------------
\* spec.go:108: an explicit identity is exactly the one that the command runs with: no
\* supplementary groups, and for any user but root no capabilities in any set, nor a
\* way to get them back by an exec.
ExplicitIdentityIsExact == program = "command" => \A id \in want :
    /\ Uids(cred) = {id.uid} /\ Gids(cred) = {id.gid} /\ ~cred.groups
    /\ id.uid # 0 => /\ cred.nnp
                     /\ cred.permitted \cup cred.effective \cup cred.inheritable \cup cred.ambient = {}

\* Explicit root keeps the capabilities that campd has.
RootKeepsCapabilities == program = "command" =>
    \A id \in want : \A c \in campd :
        id.uid = 0 => c.effective \subseteq cred.effective /\ cred.nnp = c.nnp

\* A process without an identity runs with that of campd.
NoneInherits == program = "command" /\ want = {} =>
    \A c \in campd : Uids(cred) = {c.uid, c.euid} /\ Gids(cred) = {c.gid, c.egid} /\ cred.groups = c.groups

\* Every command runs with the identity that was declared for it: the explicit one and
\* no more, root with what root has, or that of campd.
IdentityIsDeclared == ExplicitIdentityIsExact /\ RootKeepsCapabilities /\ NoneInherits

\* A campd that is root with the capabilities to change identities and to mount is
\* never refused an identity: no call takes away what a later one needs.
RootIsNotRefused == program = "failed" =>
    \A c \in campd : c.euid # 0 \/ c.effective # Caps

\* Whoever the image's user is, the launcher makes campd root, or campd is not started.
LauncherMakesRoot == [][program = "launcher" /\ program' = "campd" =>
    Uids(cred') = {0} /\ Gids(cred') = {0} /\ ~cred'.groups]_vars
=============================================================================

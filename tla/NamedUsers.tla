------------------------------ MODULE NamedUsers ------------------------------
(***************************************************************************)
(* Which user a name is.  campd resolves the names of the Main processes   *)
(* from /etc/passwd of the main image before it starts anything            *)
(* (resolve_main_users in cmd/campd/src/runtime.rs); a Sidecar's name is   *)
(* resolved by its sandrun, at each start, from the lower directory of its *)
(* image (resolve_user in cmd/sandrun/src/linux.rs).  The processes that   *)
(* they start may rewrite the /etc/passwd that they see: the main image's, *)
(* or the copy in a Sidecar's writable layer, which stays on its device.   *)
(***************************************************************************)
EXTENDS Integers, Sequences, SequencesExt

CONSTANTS
    Users,      \* the names that declarations use
    Files,      \* contents of /etc/passwd: sequences of lines, or Unreadable
    Rewrites,   \* the contents that running processes write to it
    Unreadable, \* missing, too large, not a regular file or not UTF-8
    Reserved    \* u32::MAX; larger ids, like words, do not parse

Lines == [name : STRING, fields : Nat, uid : Nat, gid : Nat]

ASSUME FilesAssumption == \A file \in Files : file = Unreadable \/ file \in Seq(Lines)
ASSUME RewritesAssumption == Rewrites \subseteq Files

\* valid_user_name(): the first character is a letter or an underscore.
ASSUME UsersAssumption == {"", "#"} \cap Users = {}

VARIABLES
    main,       \* /etc/passwd of the main image
    lower,      \* /etc/passwd of the Sidecar's image, which is read-only
    upper,      \* what the Sidecar's command sees
    declared,   \* the names of the Main processes, in order; "" is no name
    cache,      \* the identities that campd has resolved
    at,         \* "start", "running" or "failed"
    launched    \* history of this start: the identities that names have had

userVars == <<main, lower, upper, declared, cache, at, launched>>

-----------------------------------------------------------------------------
(* A line has a name, a number of fields and two ids. *)

Ignored(line) == line.name \in {"", "#"}
ValidId(id) == id < Reserved
NotFound == [error |-> "not_found"]
Invalid == [error |-> "invalid"]
Identity(uid, gid) == [error |-> "", uid |-> uid, gid |-> gid]

\* One line of parse_passwd().
NextLine(user, found, line) ==
    CASE found = Invalid \/ Ignored(line) \/ line.name # user -> found
      [] found # Invalid /\ line.name = user ->
            IF found = NotFound /\ line.fields = 7 /\ ValidId(line.uid) /\ ValidId(line.gid)
            THEN Identity(line.uid, line.gid) ELSE Invalid

\* What it has found in the first n lines.
Found(file, user) ==
    LET found[n \in 0..Len(file)] ==
            IF n = 0 THEN NotFound ELSE NextLine(user, found[n - 1], file[n])
    IN found

ParsePasswd(file, user) == Found(file, user)[Len(file)]

\* resolve_user()
ResolveUser(file, user) == IF file = Unreadable THEN Invalid ELSE ParsePasswd(file, user)

\* parse_main_passwd() is the same parser, after read_main_passwd().
ParseMain(file, user) == IF file = Unreadable THEN Invalid ELSE ParsePasswd(file, user)

-----------------------------------------------------------------------------
UsersInit ==
    /\ main \in Files /\ lower \in Files
    /\ upper = lower
    /\ declared \in BoundedSeq(Users \cup {""}, 2)
    /\ cache = <<>>
    /\ at = "start"
    /\ launched = {}

Named == {declared[i] : i \in DOMAIN declared} \ {""}

\* The names that are looked up before the first start.
ToResolve == Named

\* flatten(): all of them, or campd does not start anything.
ResolveMainUsers ==
    /\ at = "start"
    /\ IF \A user \in ToResolve : ParseMain(main, user).error = ""
       THEN at' = "running" /\ cache' = [user \in ToResolve |-> ParseMain(main, user)]
       ELSE at' = "failed" /\ UNCHANGED cache
    /\ UNCHANGED <<main, lower, upper, declared, launched>>

\* What is applied to a Main process; a mutant resolves its name again.
AtLaunch(user) == IF ParseMain(main, user).error = "" THEN ParseMain(main, user) ELSE cache[user]
Cached(user) == cache[user]

\* from_main() and spawn()
LaunchMain(i) ==
    /\ at = "running"
    /\ declared[i] # ""
    /\ launched' = launched \cup {<<"main", declared[i], Cached(declared[i])>>}
    /\ UNCHANGED <<main, lower, upper, declared, cache, at>>

\* The file that a sandrun reads.
Lower == lower

\* A Sidecar with --user; it fails without its user.
LaunchSidecar(user) ==
    /\ at = "running"
    /\ LET id == ResolveUser(Lower, user)
       IN launched' = IF id.error = "" THEN launched \cup {<<"sidecar", user, id>>} ELSE launched
    /\ UNCHANGED <<main, lower, upper, declared, cache, at>>

\* A process that runs as root rewrites its /etc/passwd.
RewriteMain ==
    /\ at = "running"
    /\ main' \in Rewrites
    /\ UNCHANGED <<lower, upper, declared, cache, at, launched>>

RewriteUpper ==
    /\ at = "running"
    /\ upper' \in Rewrites
    /\ UNCHANGED <<main, lower, declared, cache, at, launched>>

\* The sandbox starts again, with a new main image and its overlay device as it was.
Restart ==
    /\ at # "start"
    /\ at' = "start" /\ cache' = <<>>
    /\ main' \in Rewrites
    /\ launched' = {l \in launched : l[1] = "sidecar"}
    /\ UNCHANGED <<lower, upper, declared>>

-----------------------------------------------------------------------------
\* Before campd lets anything run, every name that a Main process will ask for has an
\* identity; from_main() relies on it.
NamesAreResolved == at = "running" =>
    \A user \in Named : user \in DOMAIN cache /\ cache[user].error = ""

\* A name is one user in every start of a process: for Main as long as campd runs, for
\* a Sidecar over restarts too, whatever has been written to /etc/passwd.
NameIsOneUser == \A l, m \in launched : l[1] = m[1] /\ l[2] = m[2] => l = m

\* The user is the one that the file has exactly one entry for, a complete one with
\* valid ids; other lines may be anything.
UserIsTheOnlyEntry == \A user \in Users : lower # Unreadable =>
    LET entries == {i \in DOMAIN lower : lower[i].name = user}
        id == ResolveUser(lower, user)
    IN id.error = "" <=> \E i \in entries :
            /\ entries = {i}
            /\ lower[i].fields = 7 /\ ValidId(lower[i].uid) /\ ValidId(lower[i].gid)
            /\ id = Identity(lower[i].uid, lower[i].gid)

\* A name is one user, that of its only entry, from before the first start.
NamesAreRight == NamesAreResolved /\ NameIsOneUser /\ UserIsTheOnlyEntry
=============================================================================

--------------------------- MODULE MCIdentitySetup ----------------------------
(***************************************************************************)
(* Entry points run by root or by a user, with none, some or all of the    *)
(* capabilities, and no names; and names for a root that has them all,     *)
(* with entries of two users, ids around the reserved one, an incomplete   *)
(* entry, a comment, a file that cannot be read, and two entries of one    *)
(* user in both orders.                                                    *)
(***************************************************************************)
EXTENDS IdentitySetup

AllCaps == {"setuid", "setgid", "admin"}

Cred(u, g, groups, nnp, caps, inheritable, ambient) ==
    [uid |-> u, euid |-> u, suid |-> u, gid |-> g, egid |-> g, sgid |-> g,
     groups |-> groups, nnp |-> nnp, permitted |-> caps, effective |-> caps,
     inheritable |-> inheritable, ambient |-> ambient]

SomeCallers ==
    {Cred(0, g, groups, nnp, AllCaps, i, {}) :
        g \in {0, 5}, groups, nnp \in BOOLEAN, i \in SUBSET AllCaps}
    \cup {Cred(0, 0, TRUE, FALSE, AllCaps, i, i) : i \in SUBSET AllCaps}
    \cup {Cred(7, 7, groups, nnp, a, a, a) : groups, nnp \in BOOLEAN, a \in SUBSET AllCaps}

SomeIdentities == {[uid |-> 0, gid |-> 0], [uid |-> 0, gid |-> 9], [uid |-> 7, gid |-> 9]}

Line(name, fields, uid, gid) == [name |-> name, fields |-> fields, uid |-> uid, gid |-> gid]

App == Line("app", 7, 0, 5)
Highest == Line("app", 7, Reserved - 1, 5)
Over == Line("app", 7, Reserved, 5)
Short == Line("app", 6, 1, 5)
Db == Line("db", 7, 2, 2)
Comment == Line("#", 1, 0, 0)

SomeRewrites == {<<Comment, App>>, <<Highest, Db>>}
SomeFiles == SomeRewrites \cup
    {Unreadable, <<Comment>>, <<App, Highest>>, <<Over, App>>, <<App, Short>>, <<Db, Short>>}

Root == Cred(0, 0, TRUE, FALSE, AllCaps, {}, {})
Both == <<Highest, Db>>

SomeSandboxes ==
    [caller : SomeCallers, main : {Unreadable}, lower : {Unreadable}, declared : {<<>>}]
    \cup [caller : {Root}, main : {Both}, lower : SomeFiles, declared : {<<"app">>}]
    \cup [caller : {Root}, main : SomeFiles, lower : {Both},
          declared : {<<"">>, <<"app">>, <<"app", "db">>}]
=============================================================================

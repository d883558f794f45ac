---------------------------- MODULE MCEntryStore ----------------------------
(***************************************************************************)
(* Small instances of EntryStore for TLC: the calls of each run.           *)
(***************************************************************************)
EXTENDS EntryStoreSafety, TLC

CallOf(o, u, id, ns, n) ==
    [op |-> o, user |-> u, id |-> id, text |-> CHOOSE x \in Texts : TRUE,
     names |-> ns, name |-> n]

\* Every operation of one user, and the calls that meet on the same tag rows:
\* tag lists in both orders, with a repeated name and empty; renames onto a
\* free and a used name; both deletions; the reads.
ServiceCalls ==
    {CallOf("create", u, 0, <<"a", "b">>, "a") : u \in Users}
    \cup {CallOf("update", u, 1, ns, "a") : u \in Users, ns \in {<<"b", "a", "b">>, <<>>}}
    \cup {CallOf(o, u, 1, <<>>, "a") : o \in {"delete", "get", "list", "tags"}, u \in Users}
    \cup {CallOf("rename", u, 1, <<>>, n) : n \in {"b", "c"}, u \in Users}
    \cup {CallOf("drop", u, t, <<>>, "a") : u \in Users, t \in {1, 2}}

ProcsAlike == Permutations(Procs)

\* Two users who name each other's entry 1 and tags 1 and 2, use the same names,
\* and upsert them in both orders.
TenantCalls ==
    {CallOf("create", u, 0, <<"a", "b">>, "a") : u \in Users}
    \cup {CallOf("update", u, 1, ns, "a") : u \in Users, ns \in {<<"b", "a">>, <<"b">>}}
    \cup {CallOf("delete", u, 1, <<>>, "a") : u \in Users}
    \cup {CallOf("rename", u, 1, <<>>, "b") : u \in Users}
    \cup {CallOf("drop", u, t, <<>>, "a") : u \in Users, t \in {1, 2}}

\* Two updates of one entry, while the clock advances.
ClockCalls ==
    {CallOf(o, u, 1, <<>>, "a") : o \in {"create", "update"}, u \in Users}

\* A rename of a tag that an entry is being given.
CountCalls ==
    {CallOf(o, u, 1, <<"a">>, "a") : o \in {"create", "update"}, u \in Users}
    \cup {CallOf("rename", u, 1, <<>>, "b") : u \in Users}

=============================================================================

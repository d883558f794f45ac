----------------------------- MODULE EntryStore -----------------------------
(***************************************************************************)
(* The entries and tags services (entries.go, tags.go) on PostgreSQL at    *)
(* READ COMMITTED, one action per row a statement may have to wait for.    *)
(*                                                                         *)
(* A request is served by one process.  What its transaction has written   *)
(* and not yet committed is its write set: the entry row (mine), the tag   *)
(* rows written under the key they had (hit), the tag rows written under a *)
(* new (user, name) key (made) and the link rows deleted (cut).  In        *)
(* PostgreSQL a written row stays locked until the transaction ends, so    *)
(* the write sets are also the lock table.  A commit installs the write    *)
(* set; a rollback drops it.  The committed tables are entries, tags and   *)
(* links (entry_tags).                                                     *)
(***************************************************************************)
EXTENDS Naturals, FiniteSets, Sequences

CONSTANTS
    Procs,      \* requests served at the same time
    Users,      \* user ids, taken from the verified token
    Names,      \* tag names
    Texts,      \* (entry_date, kind, title, body), told apart as a whole
    Calls,      \* the calls clients may make
    MaxCalls,   \* bound on the calls made in a behaviour
    MaxClock    \* bound on the database clock

Ops == {"create", "update", "delete", "get", "list", "rename", "drop", "tags"}

\* A request after decoding and authentication.  id is the entry or the tag
\* in the path, names the tag list of a create or an update, name the new
\* name of a rename; an operation ignores the fields it does not have.
CallType == [op: Ops, user: Users, id: Nat, text: Texts,
             names: Seq(Names), name: Names]

ASSUME CallsAssumption == Calls \subseteq CallType
ASSUME BoundsAssumption == MaxCalls \in Nat /\ MaxClock \in Nat

VARIABLES
    entries,    \* id -> [user, text, created, updated]
    tags,       \* id -> [user, name]
    links,      \* set of <<entry id, tag id>>
    entrySeq,   \* next value of the IDENTITY sequence of entries
    tagSeq,     \* next value of the IDENTITY sequence of tags
    clock,      \* the database clock
    calls,      \* calls made so far
    pc,         \* where the handler of each process is
    call,       \* the request each process serves
    start,      \* now() of each transaction: the time of its BEGIN
    mine,       \* entry row written by each transaction, 0 for none
    hit,        \* tag rows written in place
    made,       \* tag rows written under a new key: id -> name
    cut,        \* link rows deleted
    todo,       \* positions of the tag list still to upsert
    seen,       \* entry_count read by the snapshot of a rename
    reply       \* the answer; the client has it once pc is "idle"

tables   == <<entries, tags, links>>
seqs     == <<entrySeq, tagSeq>>
bounds   == <<clock, calls>>
writeSet == <<mine, hit, made, cut>>
scratch  == <<start, todo, seen>>
vars     == <<tables, seqs, bounds, pc, call, writeSet, scratch, reply>>

NoCall == [op |-> "none"]
NoRows == [t \in {} |-> ""]

Init ==
    /\ entries = [e \in {} |-> ""]
    /\ tags = [t \in {} |-> ""]
    /\ links = {}
    /\ entrySeq = 1
    /\ tagSeq = 1
    /\ clock = 0
    /\ calls = 0
    /\ pc = [p \in Procs |-> "idle"]
    /\ call = [p \in Procs |-> NoCall]
    /\ start = [p \in Procs |-> 0]
    /\ mine = [p \in Procs |-> 0]
    /\ hit = [p \in Procs |-> {}]
    /\ made = [p \in Procs |-> NoRows]
    /\ cut = [p \in Procs |-> {}]
    /\ todo = [p \in Procs |-> {}]
    /\ seen = [p \in Procs |-> 0]
    /\ reply = [p \in Procs |-> [status |-> "none"]]

-----------------------------------------------------------------------------
(* What the WHERE clauses select. *)

OwnsEntry(u, e) == e \in DOMAIN entries /\ entries[e].user = u
\* Mutant: the user_id condition of the tag statements is missing.
OwnsTag_AnyUser(u, t) == t \in DOMAIN tags

OwnsTag(u, t)   == t \in DOMAIN tags /\ tags[t].user = u

\* Mutant: tags are upserted by name alone.
TagsNamed_AnyUser(u, n) == {t \in DOMAIN tags : tags[t].name = n}

TagsNamed(u, n) == {t \in DOMAIN tags : tags[t].user = u /\ tags[t].name = n}
TagsOf(e)       == {t \in DOMAIN tags : <<e, t>> \in links}
EntryCount(t)   == Cardinality({l \in links : l[2] = t})

\* A Journal: an entry row with the names of its tags.
Note(e, row, names) ==
    [id |-> e, user |-> row.user, text |-> row.text,
     created |-> row.created, updated |-> row.updated, names |-> names]
StoredNote(e) == Note(e, entries[e], {tags[t].name : t \in TagsOf(e)})

\* The positions of a tag list that uniqueTags keeps: first occurrences.
UniqueTags(names) ==
    {i \in DOMAIN names : \A j \in DOMAIN names : j < i => names[j] # names[i]}

-----------------------------------------------------------------------------
(* The lock table that the write sets of the other processes form. *)

EntryFree(p, e) == \A q \in Procs \ {p} : mine[q] # e
TagFree(p, t)   == \A q \in Procs \ {p} : t \notin hit[q]
LinkFree(p, l)  == \A q \in Procs \ {p} : l \notin cut[q]

\* q has an uncommitted version of the key (u, n): it has inserted the key
\* or it has written the row that carries it.
HoldsName(q, u, n) ==
    \/ \E t \in DOMAIN made[q] : made[q][t] = n /\ call[q].user = u
    \/ TagsNamed(u, n) \cap hit[q] # {}

NameFree(p, u, n) == \A q \in Procs \ {p} : ~HoldsName(q, u, n)

\* Mutant: entry_tags.tag_id does not cascade.
Doomed_NoTagCascade(p) == {l \in links : l[1] = mine[p]}

\* The link rows the transaction of p deletes: those of its entry (DELETE
\* FROM entry_tags in setTags, or the cascade of a deleted entry), or those of
\* the tag it deletes (the other cascade).  The locked row admits no new ones.
Doomed(p) ==
    IF call[p].op = "drop" THEN {l \in links : l[2] \in hit[p]}
                           ELSE {l \in links : l[1] = mine[p]}
LinksCleared(p) == Doomed(p) \subseteq cut[p]

\* The next tag name to upsert; unnest yields the array in order.
Upserting(p, i) == i \in todo[p] /\ \A j \in todo[p] : i <= j

\* p cannot go on before q ends.
WaitsFor(p, q) ==
    /\ q # p
    /\ \/ /\ pc[p] \in {"entry", "erase"}
          /\ call[p].op \in {"update", "delete"}
          /\ OwnsEntry(call[p].user, call[p].id)
          /\ mine[q] = call[p].id
       \/ /\ pc[p] \in {"relabel", "detach"}
          /\ OwnsTag(call[p].user, call[p].id)
          /\ call[p].id \in hit[q]
       \/ /\ pc[p] \in {"tags", "commit"}
          /\ (Doomed(p) \ cut[p]) \cap cut[q] # {}
       \/ /\ pc[p] = "tags"
          /\ LinksCleared(p)
          /\ \E i \in todo[p] :
                /\ Upserting(p, i)
                /\ HoldsName(q, call[p].user, call[p].names[i])
       \/ /\ pc[p] = "key"
          /\ call[p].name # tags[call[p].id].name
          /\ HoldsName(q, call[p].user, call[p].name)

\* p is on a cycle of waiting processes, which PostgreSQL detects.
Stuck(S) == S # {} /\ \A q \in S : \E r \in S : WaitsFor(q, r)
Deadlocked(p) ==
    \E S \in SUBSET Procs :
        p \in S /\ Stuck(S) /\ \A T \in SUBSET S : Stuck(T) => T = S

-----------------------------------------------------------------------------
(* The end of a request: the answer leaves and the transaction is over. *)

Answer(p, r) ==
    /\ pc' = [pc EXCEPT ![p] = "idle"]
    /\ reply' = [reply EXCEPT ![p] = r]
    /\ call' = [call EXCEPT ![p] = NoCall]
    /\ start' = [start EXCEPT ![p] = 0]
    /\ mine' = [mine EXCEPT ![p] = 0]
    /\ hit' = [hit EXCEPT ![p] = {}]
    /\ made' = [made EXCEPT ![p] = NoRows]
    /\ cut' = [cut EXCEPT ![p] = {}]
    /\ todo' = [todo EXCEPT ![p] = {}]
    /\ seen' = [seen EXCEPT ![p] = 0]

\* Mutant: the deferred Rollback is missing, the transaction stays open.
Refuse_LeavesOpen(p, status) ==
    /\ pc' = [pc EXCEPT ![p] = "idle"]
    /\ reply' = [reply EXCEPT ![p] = [status |-> status]]
    /\ UNCHANGED <<tables, seqs, bounds, call, writeSet, scratch>>

\* The deferred Rollback, or a statement that wrote nothing.
Refuse(p, status) ==
    /\ Answer(p, [status |-> status])
    /\ UNCHANGED <<tables, seqs, bounds>>

\* Mutant: Update writes the whole row anew, created_at included.
EntriesAfter_NewRow(p) ==
    LET row == [user |-> call[p].user, text |-> call[p].text,
                created |-> start[p], updated |-> start[p]]
    IN  CASE call[p].op \in {"create", "update"} ->
                [x \in DOMAIN entries \cup {mine[p]} |->
                    IF x = mine[p] THEN row ELSE entries[x]]
          [] call[p].op = "delete" ->
                [x \in DOMAIN entries \ {mine[p]} |-> entries[x]]
          [] OTHER -> entries

\* The tables with the write set of p installed.
EntriesAfter(p) ==
    LET o == call[p].op
        e == mine[p]
        row == [user    |-> IF o = "create" THEN call[p].user ELSE entries[e].user,
                text    |-> call[p].text,
                created |-> IF o = "create" THEN start[p] ELSE entries[e].created,
                updated |-> start[p]]
    IN  CASE o \in {"create", "update"} ->
                [x \in DOMAIN entries \cup {e} |-> IF x = e THEN row ELSE entries[x]]
          [] o = "delete" -> [x \in DOMAIN entries \ {e} |-> entries[x]]
          [] OTHER -> entries

TagsAfter(p) ==
    LET kept == IF call[p].op = "drop" THEN DOMAIN tags \ hit[p] ELSE DOMAIN tags
    IN  [t \in kept \cup DOMAIN made[p] |->
            IF t \in DOMAIN made[p]
            THEN [user |-> call[p].user, name |-> made[p][t]]
            ELSE tags[t]]

LinksAfter(p) ==
    (links \ cut[p]) \cup
        IF call[p].op \in {"create", "update"}
        THEN {mine[p]} \X (hit[p] \cup DOMAIN made[p])
        ELSE {}

-----------------------------------------------------------------------------
(* The steps of the operations. *)

\* The statement the handler of each operation begins with.
FirstStep(o) ==
    CASE o \in {"create", "update"} -> "begin"
      [] o = "delete" -> "erase"
      [] o = "rename" -> "look"
      [] o = "drop"   -> "detach"
      [] OTHER        -> "read"

\* A request reaches its handler.
Call(p) ==
    /\ pc[p] = "idle"
    /\ calls < MaxCalls
    /\ \E c \in Calls :
        /\ call' = [call EXCEPT ![p] = c]
        /\ pc' = [pc EXCEPT ![p] = FirstStep(c.op)]
    /\ calls' = calls + 1
    /\ reply' = [reply EXCEPT ![p] = [status |-> "none"]]
    /\ UNCHANGED <<tables, seqs, clock, writeSet, scratch>>

\* BEGIN fixes what now() returns throughout the transaction.
Begin(p) ==
    /\ pc[p] = "begin"
    /\ start' = [start EXCEPT ![p] = clock]
    /\ pc' = [pc EXCEPT ![p] = "entry"]
    /\ UNCHANGED <<tables, seqs, bounds, call, writeSet, todo, seen, reply>>

\* The entry row is written; setTags comes next.
WroteEntry(p, e) ==
    /\ mine' = [mine EXCEPT ![p] = e]
    /\ todo' = [todo EXCEPT ![p] = UniqueTags(call[p].names)]
    /\ pc' = [pc EXCEPT ![p] = "tags"]
    /\ UNCHANGED <<tables, tagSeq, bounds, call, hit, made, cut, start, seen, reply>>

\* INSERT INTO entries takes the next id; a rollback does not give it back.
InsertEntry(p) ==
    /\ pc[p] = "entry"
    /\ call[p].op = "create"
    /\ WroteEntry(p, entrySeq)
    /\ entrySeq' = entrySeq + 1

\* UPDATE entries ... WHERE id AND user_id, once nobody else holds the row.
UpdateEntry(p) ==
    /\ pc[p] = "entry"
    /\ call[p].op = "update"
    /\ OwnsEntry(call[p].user, call[p].id)
    /\ EntryFree(p, call[p].id)
    /\ WroteEntry(p, call[p].id)
    /\ UNCHANGED entrySeq

\* The UPDATE or the DELETE selects no entry, perhaps after waiting for the
\* transaction that deleted it.
EntryMissing(p) ==
    /\ \/ pc[p] = "entry" /\ call[p].op = "update"
       \/ pc[p] = "erase"
    /\ ~OwnsEntry(call[p].user, call[p].id)
    /\ Refuse(p, "notFound")

\* One link row is deleted, once nobody else is deleting it.
CutLink(p) ==
    /\ pc[p] \in {"tags", "commit"}
    /\ \E l \in Doomed(p) \ cut[p] :
        /\ LinkFree(p, l)
        /\ cut' = [cut EXCEPT ![p] = @ \cup {l}]
    /\ UNCHANGED <<tables, seqs, bounds, pc, call, mine, hit, made, scratch, reply>>

\* Mutant: a SELECT gives the ids of the names that exist; no row is locked.
TakeTag_Selects(p) ==
    /\ pc[p] = "tags"
    /\ LinksCleared(p)
    /\ \E i \in todo[p] :
        /\ Upserting(p, i)
        /\ \E t \in TagsNamed(call[p].user, call[p].names[i]) :
            hit' = [hit EXCEPT ![p] = @ \cup {t}]
        /\ todo' = [todo EXCEPT ![p] = @ \ {i}]
    /\ UNCHANGED <<tables, seqs, bounds, pc, call, mine, made, cut, start, seen, reply>>

\* Mutant: ON CONFLICT DO NOTHING, which returns no id for a row that exists.
TakeTag_DoesNothing(p) ==
    /\ pc[p] = "tags"
    /\ LinksCleared(p)
    /\ \E i \in todo[p] :
        /\ Upserting(p, i)
        /\ NameFree(p, call[p].user, call[p].names[i])
        /\ TagsNamed(call[p].user, call[p].names[i]) # {}
        /\ todo' = [todo EXCEPT ![p] = @ \ {i}]
    /\ tagSeq' = tagSeq + 1
    /\ UNCHANGED <<tables, entrySeq, bounds, pc, call, writeSet, start, seen, reply>>

\* INSERT INTO tags ... ON CONFLICT DO UPDATE, for one name: the committed
\* row is written in place.  The id drawn for the row proposed is burned.
TakeTag(p) ==
    /\ pc[p] = "tags"
    /\ LinksCleared(p)
    /\ \E i \in todo[p] :
        /\ Upserting(p, i)
        /\ NameFree(p, call[p].user, call[p].names[i])
        /\ \E t \in TagsNamed(call[p].user, call[p].names[i]) :
            /\ t \notin hit[p]
            /\ hit' = [hit EXCEPT ![p] = @ \cup {t}]
        /\ todo' = [todo EXCEPT ![p] = @ \ {i}]
    /\ tagSeq' = tagSeq + 1
    /\ UNCHANGED <<tables, entrySeq, bounds, pc, call, mine, made, cut,
                   start, seen, reply>>

\* Mutant: a SELECT finds no such name and the INSERT follows; no unique index.
MakeTag_CheckThenInsert(p) ==
    /\ pc[p] = "tags"
    /\ LinksCleared(p)
    /\ \E i \in todo[p] :
        LET n == call[p].names[i] IN
        /\ Upserting(p, i)
        /\ TagsNamed(call[p].user, n) = {}
        /\ made' = [made EXCEPT ![p] =
                [t \in DOMAIN @ \cup {tagSeq} |-> IF t = tagSeq THEN n ELSE @[t]]]
        /\ todo' = [todo EXCEPT ![p] = @ \ {i}]
    /\ tagSeq' = tagSeq + 1
    /\ UNCHANGED <<tables, entrySeq, bounds, pc, call, mine, hit, cut, start, seen, reply>>

\* The same statement, when no row has the name: a new tag of the user.
MakeTag(p) ==
    /\ pc[p] = "tags"
    /\ LinksCleared(p)
    /\ \E i \in todo[p] :
        LET n == call[p].names[i] IN
        /\ Upserting(p, i)
        /\ NameFree(p, call[p].user, n)
        /\ TagsNamed(call[p].user, n) = {}
        /\ \A t \in DOMAIN made[p] : made[p][t] # n
        /\ made' = [made EXCEPT ![p] =
                [t \in DOMAIN @ \cup {tagSeq} |-> IF t = tagSeq THEN n ELSE @[t]]]
        /\ todo' = [todo EXCEPT ![p] = @ \ {i}]
    /\ tagSeq' = tagSeq + 1
    /\ UNCHANGED <<tables, entrySeq, bounds, pc, call, mine, hit, cut,
                   start, seen, reply>>

\* journalSelect within the transaction, which sees its own writes.
ReadBack(p) ==
    /\ pc[p] = "tags"
    /\ LinksCleared(p)
    /\ todo[p] = {}
    /\ LET e == mine[p]
           names == {TagsAfter(p)[t].name :
                        t \in {t \in DOMAIN TagsAfter(p) : <<e, t>> \in LinksAfter(p)}}
       IN  reply' = [reply EXCEPT ![p] =
                [status |-> "ok", note |-> Note(e, EntriesAfter(p)[e], names)]]
    /\ pc' = [pc EXCEPT ![p] = "commit"]
    /\ UNCHANGED <<tables, seqs, bounds, call, writeSet, scratch>>

\* DELETE FROM entries ... WHERE id AND user_id writes the row.
EraseEntry(p) ==
    /\ pc[p] = "erase"
    /\ OwnsEntry(call[p].user, call[p].id)
    /\ EntryFree(p, call[p].id)
    /\ mine' = [mine EXCEPT ![p] = call[p].id]
    /\ reply' = [reply EXCEPT ![p] = [status |-> "ok"]]
    /\ pc' = [pc EXCEPT ![p] = "commit"]
    /\ UNCHANGED <<tables, seqs, bounds, call, hit, made, cut, scratch>>

\* DELETE FROM tags ... WHERE id AND user_id writes the row.
DetachTag(p) ==
    /\ pc[p] = "detach"
    /\ OwnsTag(call[p].user, call[p].id)
    /\ TagFree(p, call[p].id)
    /\ hit' = [hit EXCEPT ![p] = {call[p].id}]
    /\ reply' = [reply EXCEPT ![p] = [status |-> "ok"]]
    /\ pc' = [pc EXCEPT ![p] = "commit"]
    /\ UNCHANGED <<tables, seqs, bounds, call, mine, made, cut, scratch>>

\* The statement of a rename begins: its snapshot fixes the entry_count that
\* RETURNING will give, whatever the statement waits for afterwards.
LookAtTag(p) ==
    /\ pc[p] = "look"
    /\ OwnsTag(call[p].user, call[p].id)
    /\ seen' = [seen EXCEPT ![p] = EntryCount(call[p].id)]
    /\ pc' = [pc EXCEPT ![p] = "relabel"]
    /\ UNCHANGED <<tables, seqs, bounds, call, writeSet, start, todo, reply>>

\* UPDATE tags ... WHERE id AND user_id writes the row.
RelabelTag(p) ==
    /\ pc[p] = "relabel"
    /\ OwnsTag(call[p].user, call[p].id)
    /\ TagFree(p, call[p].id)
    /\ hit' = [hit EXCEPT ![p] = {call[p].id}]
    /\ pc' = [pc EXCEPT ![p] = "key"]
    /\ UNCHANGED <<tables, seqs, bounds, call, mine, made, cut, scratch, reply>>

\* The rename or the DELETE selects no tag, at once or after waiting.
TagMissing(p) ==
    /\ pc[p] \in {"look", "relabel", "detach"}
    /\ ~OwnsTag(call[p].user, call[p].id)
    /\ Refuse(p, "notFound")

Renamed(p) ==
    /\ reply' = [reply EXCEPT ![p] = [status |-> "ok",
            tag |-> [id |-> call[p].id, name |-> call[p].name, count |-> seen[p]]]]
    /\ pc' = [pc EXCEPT ![p] = "commit"]
    /\ UNCHANGED <<tables, seqs, bounds, call, mine, hit, cut, scratch>>

\* The new name equals the old one: the unique index is left alone.
KeepName(p) ==
    /\ pc[p] = "key"
    /\ call[p].name = tags[call[p].id].name
    /\ Renamed(p)
    /\ UNCHANGED made

\* The unique index takes the new name.
ClaimName(p) ==
    /\ pc[p] = "key"
    /\ NameFree(p, call[p].user, call[p].name)
    /\ TagsNamed(call[p].user, call[p].name) = {}
    /\ made' = [made EXCEPT ![p] = [t \in hit[p] |-> call[p].name]]
    /\ Renamed(p)

\* The unique index refuses it: another tag of the user has the name.
NameConflict(p) ==
    /\ pc[p] = "key"
    /\ NameFree(p, call[p].user, call[p].name)
    /\ TagsNamed(call[p].user, call[p].name) \ {call[p].id} # {}
    /\ Refuse(p, "conflict")

\* A read is one statement, with one snapshot of the tables.
ReadRow(p, r) ==
    /\ pc[p] = "read"
    /\ Answer(p, r)
    /\ UNCHANGED <<tables, seqs, bounds>>

\* An id of another user is an id that does not exist.
GetEntry(p) ==
    /\ call[p].op = "get"
    /\ IF OwnsEntry(call[p].user, call[p].id)
       THEN ReadRow(p, [status |-> "ok", note |-> StoredNote(call[p].id)])
       ELSE ReadRow(p, [status |-> "notFound"])

ListEntries(p) ==
    /\ call[p].op = "list"
    /\ ReadRow(p, [status |-> "ok", notes |->
            {StoredNote(e) : e \in {e \in DOMAIN entries : OwnsEntry(call[p].user, e)}}])

ListTags(p) ==
    /\ call[p].op = "tags"
    /\ ReadRow(p, [status |-> "ok", catalog |->
            {[id |-> t, name |-> tags[t].name, count |-> EntryCount(t)] :
                t \in {t \in DOMAIN tags : OwnsTag(call[p].user, t)}}])

\* The write set is installed, in one step for every reader.
Install(p) ==
    /\ pc[p] = "commit"
    /\ LinksCleared(p)
    /\ entries' = EntriesAfter(p)
    /\ tags' = TagsAfter(p)
    /\ links' = LinksAfter(p)
    /\ UNCHANGED <<seqs, bounds>>

Commit(p) == Install(p) /\ Answer(p, reply[p])

\* The commit takes place and its confirmation is lost: the client reads a 500.
CommitLost(p) == Install(p) /\ Answer(p, [status |-> "error"])

\* Mutant: the statements run on the pool, without a transaction.
Fail_NoTransaction(p) ==
    /\ pc[p] = "tags"
    /\ entries' = EntriesAfter(p)
    /\ tags' = TagsAfter(p)
    /\ links' = LinksAfter(p)
    /\ UNCHANGED <<seqs, bounds>>
    /\ Answer(p, [status |-> "error"])

\* Any statement may fail: lost connection, cancelled request, stopped task.
Fail(p) == pc[p] # "idle" /\ Refuse(p, "error")

\* PostgreSQL ends a deadlock by failing a statement of one of its members.
DeadlockAbort(p) == Deadlocked(p) /\ Refuse(p, "error")

Tick ==
    /\ clock < MaxClock
    /\ clock' = clock + 1
    /\ UNCHANGED <<tables, seqs, calls, pc, call, writeSet, scratch, reply>>

Step(p) ==
    \/ Begin(p) \/ InsertEntry(p) \/ UpdateEntry(p) \/ EntryMissing(p)
    \/ CutLink(p) \/ TakeTag(p) \/ MakeTag(p) \/ ReadBack(p)
    \/ EraseEntry(p) \/ DetachTag(p)
    \/ LookAtTag(p) \/ RelabelTag(p) \/ TagMissing(p)
    \/ KeepName(p) \/ ClaimName(p) \/ NameConflict(p)
    \/ GetEntry(p) \/ ListEntries(p) \/ ListTags(p) \/ Commit(p)

Next ==
    \/ \E p \in Procs :
        Call(p) \/ Step(p) \/ CommitLost(p) \/ Fail(p) \/ DeadlockAbort(p)
    \/ Tick

Spec == Init /\ [][Next]_vars

\* The database serves every statement it can serve, and breaks deadlocks
\* (deadlock_timeout); it owes no failure and no client owes a request.
Fairness == \A p \in Procs : WF_vars(Step(p)) /\ WF_vars(DeadlockAbort(p))
FairSpec == Spec /\ Fairness

=============================================================================

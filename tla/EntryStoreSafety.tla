-------------------------- MODULE EntryStoreSafety --------------------------
(***************************************************************************)
(* What must hold of EntryStore, the inductive invariant behind it, and    *)
(* the promise it keeps.                                                   *)
(***************************************************************************)
EXTENDS EntryStore

\* Every variable holds values of its kind.
TypeOK ==
    /\ DOMAIN entries \subseteq Nat
    /\ \A e \in DOMAIN entries :
        entries[e] \in [user: Users, text: Texts, created: Nat, updated: Nat]
    /\ DOMAIN tags \subseteq Nat
    /\ \A t \in DOMAIN tags : tags[t] \in [user: Users, name: Names]
    /\ links \subseteq Nat \X Nat
    /\ entrySeq \in Nat \ {0} /\ tagSeq \in Nat \ {0}
    /\ clock \in Nat /\ calls \in Nat
    /\ pc \in [Procs -> {"idle", "begin", "entry", "tags", "commit", "erase",
                         "look", "relabel", "key", "detach", "read"}]
    /\ DOMAIN call = Procs
    /\ \A p \in Procs : IF pc[p] = "idle" THEN call[p] = NoCall ELSE call[p] \in Calls
    /\ start \in [Procs -> Nat] /\ mine \in [Procs -> Nat]
    /\ hit \in [Procs -> SUBSET Nat]
    /\ cut \in [Procs -> SUBSET (Nat \X Nat)]
    /\ todo \in [Procs -> SUBSET Nat]
    /\ \A p \in Procs : pc[p] = "tags" => todo[p] \subseteq DOMAIN call[p].names
    /\ DOMAIN made = Procs
    /\ \A p \in Procs : /\ DOMAIN made[p] \subseteq Nat
                        /\ \A t \in DOMAIN made[p] : made[p][t] \in Names
    /\ DOMAIN seen = Procs /\ DOMAIN reply = Procs

-----------------------------------------------------------------------------
(* Safety. *)

\* No link points at a row that is gone: setTags holds the tag rows it
\* links, and a deleted row takes all its links along (ON DELETE CASCADE).
ForeignKeys == \A l \in links : l[1] \in DOMAIN entries /\ l[2] \in DOMAIN tags

\* An entry carries tags of its own user only.  No constraint of the schema
\* says so: it rests on setTags upserting under the user of the request and
\* on Update selecting by user_id.
LinksSameOwner ==
    \A l \in links : \A e \in DOMAIN entries : \A t \in DOMAIN tags :
        l = <<e, t>> => entries[e].user = tags[t].user

\* A user has one tag of each name, whatever upserts, renames and deletions
\* run at the same time (tags_user_id_name_key).
UniqueNames ==
    \A s, t \in DOMAIN tags : tags[s] = tags[t] => s = t

\* An answered create or update has stored what it answered, and this is
\* what was asked: the tags of the answer are the tags of the request, all
\* of them, although the answer is read before the commit.
AnswerIsStored ==
    [][\A p \in Procs :
        /\ pc[p] = "commit" /\ call[p].op \in {"create", "update"}
        /\ pc'[p] = "idle" /\ reply'[p].status = "ok"
        => /\ \E e \in DOMAIN entries' :
                e = mine[p] /\ reply'[p].note = StoredNote(e)'
           /\ reply'[p].note.names = {call[p].names[i] : i \in DOMAIN call[p].names}
           /\ reply'[p].note.text = call[p].text]_vars

\* A commit leaves the notes and the tags of every other user as they are,
\* tag names included.
OtherUsersUntouched ==
    [][\A p \in Procs :
        /\ pc[p] = "commit"
        /\ pc'[p] = "idle"
        => /\ \A e \in DOMAIN entries :
                entries[e].user # call[p].user =>
                    e \in DOMAIN entries' /\ StoredNote(e)' = StoredNote(e)
           /\ \A t \in DOMAIN tags :
                tags[t].user # call[p].user =>
                    t \in DOMAIN tags' /\ tags'[t] = tags[t]]_vars

\* An id names the same entry for ever: user_id and created_at stay (the comment
\* of Update), and a row appears only by the create that drew its id and alone
\* holds it, so that nothing brings an entry back that was deleted meanwhile.
EntryIdentityFixed ==
    [][/\ \A e \in DOMAIN entries \cap DOMAIN entries' :
            /\ entries'[e].user = entries[e].user
            /\ entries'[e].created = entries[e].created
       /\ \A e \in DOMAIN entries' \ DOMAIN entries :
            /\ e < entrySeq
            /\ \E p \in Procs :
                /\ pc[p] = "commit" /\ pc'[p] = "idle"
                /\ call[p].op = "create" /\ mine[p] = e
                /\ \A q \in Procs \ {p} : mine[q] # e]_vars

-----------------------------------------------------------------------------
(* The inductive invariant: what a transaction may rely on until it ends.  *)

Untouched(p) == mine[p] = 0 /\ hit[p] = {} /\ DOMAIN made[p] = {} /\ cut[p] = {}

\* Ids in the tables were drawn from the sequences.
Drawn ==
    /\ \A e \in DOMAIN entries : 0 < e /\ e < entrySeq
    /\ \A t \in DOMAIN tags : 0 < t /\ t < tagSeq

\* Where a handler is tells its operation, and what it has not written yet.
HandlerOK(p) ==
    /\ pc[p] \in {"begin", "entry", "tags"} => call[p].op \in {"create", "update"}
    /\ pc[p] \in {"look", "relabel", "key"} => call[p].op = "rename"
    /\ pc[p] = "erase" => call[p].op = "delete"
    /\ pc[p] = "detach" => call[p].op = "drop"
    /\ pc[p] = "read" => call[p].op \in {"get", "list", "tags"}
    /\ pc[p] = "commit" =>
            call[p].op \in {"create", "update", "delete", "rename", "drop"}
    /\ pc[p] \notin {"tags", "key", "commit"} => Untouched(p)
    /\ pc[p] = "key" => DOMAIN made[p] = {}

\* A new entry is not in the table yet, a rewritten one is there and owned.
EntryLockOK(p) ==
    pc[p] \in {"tags", "key", "commit"} =>
        /\ call[p].op = "create" =>
                0 < mine[p] /\ mine[p] < entrySeq /\ mine[p] \notin DOMAIN entries
        /\ call[p].op \in {"update", "delete"} =>
                /\ mine[p] # 0 /\ mine[p] = call[p].id
                /\ OwnsEntry(call[p].user, mine[p])
        /\ call[p].op \in {"rename", "drop"} => mine[p] = 0

\* The tag rows written in place are there and owned.
TagLockOK(p) ==
    pc[p] \in {"tags", "key", "commit"} =>
        /\ \A t \in hit[p] : OwnsTag(call[p].user, t)
        /\ call[p].op \in {"rename", "drop"} => hit[p] = {call[p].id}
        /\ call[p].op = "delete" => hit[p] = {}

\* The keys inserted are not in the table, and inserted once.
NameLockOK(p) ==
    pc[p] \in {"tags", "key", "commit"} =>
        /\ \A t \in DOMAIN made[p] :
            /\ TagsNamed(call[p].user, made[p][t]) = {}
            /\ call[p].op \in {"create", "update"} =>
                    0 < t /\ t < tagSeq /\ t \notin DOMAIN tags
        /\ \A s, t \in DOMAIN made[p] : made[p][s] = made[p][t] => s = t
        /\ call[p].op = "rename" => DOMAIN made[p] \subseteq hit[p]
        /\ call[p].op \in {"delete", "drop"} => DOMAIN made[p] = {}

\* Only rows the transaction has to delete are deleted.
LinkLockOK(p) == cut[p] \subseteq Doomed(p)

\* What one transaction holds, no other does.
Exclusive(p, q) ==
    /\ mine[p] # 0 => mine[p] # mine[q]
    /\ hit[p] \cap hit[q] = {}
    /\ cut[p] \cap cut[q] = {}
    /\ \A s \in DOMAIN made[p] : \A t \in DOMAIN made[q] :
            s # t /\ (made[p][s] = made[q][t] => call[p].user # call[q].user)

WriteSetOK(p) ==
    HandlerOK(p) /\ EntryLockOK(p) /\ TagLockOK(p) /\ NameLockOK(p) /\ LinkLockOK(p)

\* Together these hold in every state and are preserved by every step.
IInv ==
    /\ TypeOK /\ Drawn
    /\ ForeignKeys /\ LinksSameOwner /\ UniqueNames
    /\ \A p \in Procs : WriteSetOK(p)
    /\ \A p, q \in Procs : p # q => Exclusive(p, q)

-----------------------------------------------------------------------------
(* What the answers add to the invariant. *)

\* The names of the tags p has taken and made.
Upserted(p) == {tags[t].name : t \in hit[p]} \cup {made[p][t] : t \in DOMAIN made[p]}

\* The names that are not to be upserted any more have been, and one that is to be
\* has not: no statement touches a tag row twice, which PostgreSQL refuses.
UpsertsOK(p) ==
    pc[p] = "tags" =>
        /\ todo[p] \subseteq UniqueTags(call[p].names)
        /\ Upserted(p) = {call[p].names[i] : i \in UniqueTags(call[p].names) \ todo[p]}
        /\ \A i \in todo[p] : call[p].names[i] \notin Upserted(p)

\* The answer that waits for the commit is what the commit stores, whatever
\* the others commit before.
ReplyOK(p) ==
    pc[p] = "commit" =>
        /\ call[p].op \in {"create", "update"} =>
            /\ Upserted(p) = {call[p].names[i] : i \in DOMAIN call[p].names}
            /\ reply[p] = [status |-> "ok",
                           note   |-> Note(mine[p], EntriesAfter(p)[mine[p]], Upserted(p))]
        /\ call[p].op = "rename" =>
            /\ reply[p] = [status |-> "ok",
                           tag    |-> [id |-> call[p].id, name |-> call[p].name,
                                       count |-> seen[p]]]
            /\ \/ DOMAIN made[p] = hit[p] /\ made[p][call[p].id] = call[p].name
               \/ DOMAIN made[p] = {} /\ tags[call[p].id].name = call[p].name
        /\ call[p].op \in {"delete", "drop"} => reply[p] = [status |-> "ok"]

\* Tables are functions, and finite, as are the rows a transaction writes.
Finite ==
    /\ entries \in [DOMAIN entries -> [user: Users, text: Texts, created: Nat, updated: Nat]]
    /\ tags \in [DOMAIN tags -> [user: Users, name: Names]]
    /\ IsFiniteSet(links)
    /\ \A p \in Procs : IsFiniteSet(hit[p]) /\ IsFiniteSet(DOMAIN made[p])

\* The inductive invariant of the promise.
PInv == IInv /\ Finite /\ \A p \in Procs : UpsertsOK(p) /\ ReplyOK(p)

-----------------------------------------------------------------------------
(* Liveness. *)

\* Every request is answered: waiting for rows ends, by a commit, by a
\* rollback or by a broken deadlock.
EveryCallAnswered == \A p \in Procs : (pc[p] # "idle") ~> (pc[p] = "idle")

-----------------------------------------------------------------------------
(* Two statements of the documentation that the code does not keep.        *)

\* "updated_at だけ進める" (entries.go:336-337, README.md:237): of two updates of
\* an entry, the second does not move updated_at back behind the first.
UpdatedAtAdvances ==
    [][\A e \in DOMAIN entries \cap DOMAIN entries' :
            entries[e].updated > entries[e].created =>
                entries'[e].updated >= entries[e].updated]_vars

\* The entry_count that a rename answers is the number of entries carrying the
\* tag (design.go), at the latest when the row is renamed.
RenameCountIsCurrent ==
    [][\A p \in Procs :
            pc[p] = "relabel" /\ pc'[p] = "key" =>
                seen'[p] = EntryCount(call[p].id)]_vars

-----------------------------------------------------------------------------
(* The tables read as a Journal: notes that carry the names of their tags. *)

NotesView ==
    [e \in DOMAIN entries |->
        [user    |-> entries[e].user,
         text    |-> entries[e].text,
         created |-> entries[e].created,
         updated |-> entries[e].updated,
         names   |-> {tags[t].name : t \in TagsOf(e)}]]

StampView ==
    [p \in Procs |-> IF /\ pc[p] \in {"entry", "tags", "commit"}
                        /\ call[p].op \in {"create", "update"}
                     THEN {start[p]} ELSE {}]

\* A client sees an answer once the request is over; the entry_count of a
\* rename is not part of the promise.
AnswerView ==
    [p \in Procs |->
        IF pc[p] # "idle" THEN [status |-> "none"]
        ELSE IF "tag" \in DOMAIN reply[p]
             THEN [status |-> "ok", tag |-> [id   |-> reply[p].tag.id,
                                             name |-> reply[p].tag.name]]
             ELSE reply[p]]

J == INSTANCE Journal WITH
    notes   <- NotesView,
    catalog <- tags,
    time    <- clock,
    want    <- call,
    stamp   <- StampView,
    answer  <- AnswerView

\* The services implement the Journal: every call takes effect at one
\* instant between the request and the answer, or not at all.
JournalSpec == J!Spec

=============================================================================

----------------------------- MODULE JournalProofs -----------------------------
(***************************************************************************)
(* EntryStore implements Journal: whatever other requests do meanwhile,    *)
(* the write set a request commits is one step of the Journal, and the     *)
(* answer it has prepared is the answer of that step.                      *)
(***************************************************************************)
EXTENDS EntryStoreProofs, FiniteSetTheorems, WellFoundedInduction

-----------------------------------------------------------------------------
(* The tag list of a request. *)

\* A set of numbers that has one has a least one.
LEMMA Least ==
    ASSUME NEW S \in SUBSET Nat, S # {}
    PROVE  \E x \in S : \A y \in S : ~(y < x)
<1>1. PICK x \in S : \A y \in S : ~(<<y, x>> \in OpToRel(<, Nat))
  BY NatLessThanWellFounded, WFMin
<1> QED BY <1>1 DEF OpToRel

\* uniqueTags leaves no name out.
LEMMA UniqueTagsKeepNames ==
    ASSUME NEW ns \in Seq(Names)
    PROVE  {ns[i] : i \in UniqueTags(ns)} = {ns[i] : i \in DOMAIN ns}
<1>1. DOMAIN ns \in SUBSET Nat
  <2>1. DOMAIN ns = 1..Len(ns)
    OBVIOUS
  <2> QED BY <2>1
<1>2. ASSUME NEW i \in DOMAIN ns PROVE \E k \in UniqueTags(ns) : ns[k] = ns[i]
  <2> DEFINE S == {j \in DOMAIN ns : ns[j] = ns[i]}
  <2>1. S \in SUBSET Nat /\ S # {}
    BY <1>1
  <2>2. PICK k \in S : \A j \in S : ~(j < k)
    BY <2>1, Least
  <2> QED BY <2>2 DEF UniqueTags
<1> QED BY <1>2 DEF UniqueTags

\* uniqueTags keeps no name twice.
LEMMA UniqueTagsDiffer ==
    ASSUME NEW ns \in Seq(Names), NEW i \in UniqueTags(ns), NEW j \in UniqueTags(ns),
           ns[i] = ns[j]
    PROVE  i = j
<1>1. i \in Nat /\ j \in Nat /\ i \in DOMAIN ns /\ j \in DOMAIN ns
  BY DEF UniqueTags
<1>2. ~(i < j) /\ ~(j < i)
  BY <1>1 DEF UniqueTags
<1> QED BY <1>1, <1>2

-----------------------------------------------------------------------------
(* The inductive invariant. *)

\* The row an upsert or an insert of p leaves.
Row(p) == [user    |-> IF call[p].op = "create" THEN call[p].user ELSE entries[mine[p]].user,
           text    |-> call[p].text,
           created |-> IF call[p].op = "create" THEN start[p] ELSE entries[mine[p]].created,
           updated |-> start[p]]

\* It is the row of the write set.
LEMMA RowAfter ==
    ASSUME NEW p, call[p].op \in {"create", "update"}
    PROVE  EntriesAfter(p)[mine[p]] = Row(p)
BY DEF EntriesAfter, Row

\* Nothing is written and nothing asked at the start.
LEMMA InitP == Init => PInv
<1> SUFFICES ASSUME Init PROVE PInv
  OBVIOUS
<1>1. IInv
  BY InitInv
<1>2. Finite
  <2>1. IsFiniteSet({})
    BY FS_EmptySet
  <2> QED BY <2>1 DEF Init, Finite, NoRows
<1>3. \A p \in Procs : UpsertsOK(p) /\ ReplyOK(p)
  BY DEF Init, UpsertsOK, ReplyOK
<1> QED BY <1>1, <1>2, <1>3 DEF PInv

\* What a process keeps while another one steps.
Kept(q) ==
    /\ pc'[q] = pc[q] /\ call'[q] = call[q] /\ mine'[q] = mine[q]
    /\ hit'[q] = hit[q] /\ made'[q] = made[q]
    /\ todo'[q] = todo[q] /\ reply'[q] = reply[q] /\ seen'[q] = seen[q]
    /\ start'[q] = start[q]

\* A process goes on relying on its write set, if the rows it has locked stay.
LEMMA KeptOK ==
    ASSUME NEW q \in Procs, IInv, UpsertsOK(q), ReplyOK(q), Kept(q),
           pc[q] \in {"tags", "commit"} => \A t \in hit[q] : tags'[t].name = tags[t].name,
           pc[q] = "commit" /\ call[q].op = "update" =>
                /\ entries'[mine[q]].user = entries[mine[q]].user
                /\ entries'[mine[q]].created = entries[mine[q]].created
    PROVE  UpsertsOK(q)' /\ ReplyOK(q)'
<1>1. /\ pc'[q] = pc[q] /\ call'[q] = call[q] /\ mine'[q] = mine[q]
      /\ hit'[q] = hit[q] /\ made'[q] = made[q]
      /\ todo'[q] = todo[q] /\ reply'[q] = reply[q] /\ seen'[q] = seen[q]
      /\ start'[q] = start[q]
  BY DEF Kept
<1>2. pc[q] \in {"tags", "commit"} => Upserted(q)' = Upserted(q)
  BY <1>1 DEF Upserted
<1>3. UpsertsOK(q)'
  BY <1>1, <1>2 DEF UpsertsOK
<1>4. ReplyOK(q)'
  <2> SUFFICES ASSUME pc[q] = "commit" PROVE ReplyOK(q)'
    BY <1>1 DEF ReplyOK
  <2>1. call[q].op \in {"create", "update"} =>
            EntriesAfter(q)[mine[q]]' = EntriesAfter(q)[mine[q]]
    <3> SUFFICES ASSUME call[q].op \in {"create", "update"}
                 PROVE  EntriesAfter(q)[mine[q]]' = EntriesAfter(q)[mine[q]]
      OBVIOUS
    <3>1. EntriesAfter(q)[mine[q]]' = Row(q)'
      BY <1>1 DEF EntriesAfter, Row
    <3>2. Row(q)' = Row(q)
      BY <1>1 DEF Row
    <3> QED BY <3>1, <3>2, RowAfter
  <2>2. call[q].op = "rename" => hit[q] = {call[q].id}
    BY DEF IInv, WriteSetOK, TagLockOK
  <2>3. call[q].op \in {"create", "update"} => ReplyOK(q)'
    BY <1>1, <1>2, <2>1 DEF ReplyOK, Note
  <2>4. call[q].op = "rename" => ReplyOK(q)'
    BY <1>1, <2>2 DEF ReplyOK
  <2>5. call[q].op \notin {"create", "update", "rename"} => ReplyOK(q)'
    BY <1>1 DEF ReplyOK
  <2> QED BY <2>3, <2>4, <2>5
<1> QED BY <1>3, <1>4

\* The steps of a handler before its end.
Inner(p) ==
    \/ Begin(p) \/ InsertEntry(p) \/ UpdateEntry(p) \/ CutLink(p) \/ TakeTag(p)
    \/ MakeTag(p) \/ ReadBack(p) \/ EraseEntry(p) \/ DetachTag(p) \/ LookAtTag(p)
    \/ RelabelTag(p) \/ KeepName(p) \/ ClaimName(p)

\* A step of one process leaves the write sets and the answers of the others.
LEMMA OthersKept ==
    ASSUME IInv, NEW p \in Procs,
           Call(p) \/ Inner(p) \/ \E r : Answer(p, r),
           NEW q \in Procs \ {p}
    PROVE  Kept(q)
<1> USE DEF Kept, IInv, TypeOK, writeSet, scratch
<1>1. CASE Call(p)
  BY <1>1 DEF Call
<1>2. CASE \E r : Answer(p, r)
  BY <1>2 DEF Answer
<1>3. CASE Begin(p) \/ LookAtTag(p) \/ RelabelTag(p) \/ EraseEntry(p) \/ DetachTag(p)
  BY <1>3 DEF Begin, LookAtTag, RelabelTag, EraseEntry, DetachTag
<1>4. CASE InsertEntry(p) \/ UpdateEntry(p)
  BY <1>4 DEF InsertEntry, UpdateEntry, WroteEntry
<1>5. CASE CutLink(p) \/ ReadBack(p)
  BY <1>5 DEF CutLink, ReadBack
<1>6. CASE TakeTag(p)
  BY <1>6 DEF TakeTag
<1>7. CASE MakeTag(p)
  BY <1>7 DEF MakeTag
<1>8. CASE KeepName(p) \/ ClaimName(p)
  BY <1>8 DEF KeepName, ClaimName, Renamed
<1> QED BY <1>1, <1>2, <1>3, <1>4, <1>5, <1>6, <1>7, <1>8 DEF Inner

\* Once the old links are cut, the entry carries what was upserted.
LEMMA CarriesUpserted ==
    ASSUME IInv, NEW p \in Procs, pc[p] \in {"tags", "commit"},
           call[p].op \in {"create", "update"}, LinksCleared(p)
    PROVE  /\ {t \in DOMAIN TagsAfter(p) : <<mine[p], t>> \in LinksAfter(p)}
                  = hit[p] \cup DOMAIN made[p]
           /\ {TagsAfter(p)[t].name : t \in hit[p] \cup DOMAIN made[p]} = Upserted(p)
<1>1. /\ \A t \in hit[p] : t \in DOMAIN tags
      /\ \A t \in DOMAIN made[p] : t \notin DOMAIN tags
  BY DEF IInv, WriteSetOK, TagLockOK, NameLockOK, OwnsTag
<1>2. /\ DOMAIN TagsAfter(p) = DOMAIN tags \cup DOMAIN made[p]
      /\ \A t \in DOMAIN made[p] : TagsAfter(p)[t].name = made[p][t]
      /\ \A t \in hit[p] : TagsAfter(p)[t] = tags[t]
  BY <1>1 DEF TagsAfter
<1>3. \A t : <<mine[p], t>> \in links => <<mine[p], t>> \in cut[p]
  BY DEF LinksCleared, Doomed
<1>4. \A t : <<mine[p], t>> \in LinksAfter(p) <=> t \in hit[p] \cup DOMAIN made[p]
  BY <1>3 DEF LinksAfter
<1>5. {TagsAfter(p)[t].name : t \in hit[p] \cup DOMAIN made[p]} = Upserted(p)
  BY <1>1, <1>2 DEF Upserted
<1> QED BY <1>1, <1>2, <1>4, <1>5

\* An upsert moves one name from what is to do to what is done.
LEMMA UpsertOK ==
    ASSUME IInv, NEW p \in Procs, UpsertsOK(p), TakeTag(p) \/ MakeTag(p)
    PROVE  UpsertsOK(p)' /\ ReplyOK(p)'
<1>1. /\ pc[p] = "tags" /\ pc'[p] = "tags" /\ call'[p] = call[p] /\ tags' = tags
  BY DEF IInv, TypeOK, TakeTag, MakeTag, tables
<1>2. PICK i \in todo[p] : /\ todo'[p] = todo[p] \ {i}
                           /\ Upserted(p)' = Upserted(p) \cup {call[p].names[i]}
  <2>1. CASE TakeTag(p)
    <3>1. PICK i \in todo[p] :
              /\ \E t \in TagsNamed(call[p].user, call[p].names[i]) :
                    hit' = [hit EXCEPT ![p] = @ \cup {t}]
              /\ todo' = [todo EXCEPT ![p] = @ \ {i}]
      BY <2>1 DEF TakeTag
    <3>2. PICK t \in TagsNamed(call[p].user, call[p].names[i]) :
              hit' = [hit EXCEPT ![p] = @ \cup {t}]
      BY <3>1
    <3>3. /\ hit'[p] = hit[p] \cup {t} /\ made'[p] = made[p] /\ tags[t].name = call[p].names[i]
          /\ todo'[p] = todo[p] \ {i}
      BY <2>1, <3>1, <3>2 DEF IInv, TypeOK, TakeTag, TagsNamed
    <3>4. Upserted(p)' = Upserted(p) \cup {call[p].names[i]}
      BY <1>1, <3>3 DEF Upserted
    <3> QED BY <3>3, <3>4
  <2>2. CASE MakeTag(p)
    <3>1. PICK i \in todo[p] :
              /\ made' = [made EXCEPT ![p] =
                    [t \in DOMAIN @ \cup {tagSeq} |->
                        IF t = tagSeq THEN call[p].names[i] ELSE @[t]]]
              /\ todo' = [todo EXCEPT ![p] = @ \ {i}]
      BY <2>2 DEF MakeTag
    <3>2. /\ made'[p] = [t \in DOMAIN made[p] \cup {tagSeq} |->
                            IF t = tagSeq THEN call[p].names[i] ELSE made[p][t]]
          /\ hit'[p] = hit[p] /\ todo'[p] = todo[p] \ {i}
      BY <2>2, <3>1 DEF IInv, TypeOK, MakeTag
    <3>3. tagSeq \notin DOMAIN made[p]
      BY <1>1 DEF IInv, TypeOK, WriteSetOK, HandlerOK, NameLockOK
    <3>4. Upserted(p)' = Upserted(p) \cup {call[p].names[i]}
      BY <1>1, <3>2, <3>3 DEF Upserted
    <3> QED BY <3>2, <3>4
  <2> QED BY <2>1, <2>2
<1>3. /\ todo[p] \subseteq UniqueTags(call[p].names)
      /\ Upserted(p) = {call[p].names[j] : j \in UniqueTags(call[p].names) \ todo[p]}
  BY <1>1 DEF UpsertsOK
<1>4. UniqueTags(call[p].names) \ todo'[p] = (UniqueTags(call[p].names) \ todo[p]) \cup {i}
  BY <1>2, <1>3
<1>5. Upserted(p)' = {call[p].names[j] : j \in UniqueTags(call[p].names) \ todo'[p]}
  BY <1>2, <1>3, <1>4
<1>6. ASSUME NEW j \in todo'[p] PROVE call[p].names[j] \notin Upserted(p)'
  <2>1. call[p].names \in Seq(Names) /\ i \in UniqueTags(call[p].names)
    BY <1>1, <1>2, <1>3, CallFields DEF IInv, TypeOK
  <2>2. j \in todo[p] /\ j # i /\ j \in UniqueTags(call[p].names)
    BY <1>2, <1>3, <1>6
  <2>3. call[p].names[j] # call[p].names[i]
    BY <2>1, <2>2, UniqueTagsDiffer
  <2>4. call[p].names[j] \notin Upserted(p)
    BY <1>1, <2>2 DEF UpsertsOK
  <2> QED BY <1>2, <2>3, <2>4
<1> QED BY <1>1, <1>2, <1>3, <1>5, <1>6 DEF UpsertsOK, ReplyOK

\* The answer is what the commit will store.
LEMMA ReadBackOK ==
    ASSUME IInv, NEW p \in Procs, UpsertsOK(p), ReadBack(p)
    PROVE  UpsertsOK(p)' /\ ReplyOK(p)'
<1>1. /\ pc[p] = "tags" /\ LinksCleared(p) /\ todo[p] = {} /\ pc'[p] = "commit"
      /\ call[p].op \in {"create", "update"} /\ call[p] \in Calls
  BY DEF IInv, TypeOK, ReadBack, WriteSetOK, HandlerOK
<1>2. UNCHANGED <<entries, tags, links, call, mine, hit, made, start>>
  BY DEF ReadBack, tables, writeSet, scratch
<1>3. Upserted(p) = {call[p].names[i] : i \in DOMAIN call[p].names}
  <2>1. Upserted(p) = {call[p].names[i] : i \in UniqueTags(call[p].names)}
    BY <1>1 DEF UpsertsOK
  <2> QED BY <1>1, <2>1, CallFields, UniqueTagsKeepNames
<1>4. reply'[p] = [status |-> "ok",
                   note |-> Note(mine[p], EntriesAfter(p)[mine[p]], Upserted(p))]
  <2>1. reply'[p] = [status |-> "ok", note |-> Note(mine[p], EntriesAfter(p)[mine[p]],
            {TagsAfter(p)[t].name :
                t \in {t \in DOMAIN TagsAfter(p) : <<mine[p], t>> \in LinksAfter(p)}})]
    BY DEF IInv, TypeOK, ReadBack
  <2> QED BY <1>1, <2>1, CarriesUpserted
<1>5. Upserted(p)' = Upserted(p) /\ EntriesAfter(p)[mine[p]]' = EntriesAfter(p)[mine[p]]
  BY <1>2 DEF Upserted, EntriesAfter
<1> QED BY <1>1, <1>2, <1>3, <1>4, <1>5 DEF UpsertsOK, ReplyOK, Note

\* A step of a handler keeps what its answer relies on.
LEMMA InnerOK ==
    ASSUME IInv, NEW p \in Procs, UpsertsOK(p), ReplyOK(p), Inner(p)
    PROVE  UpsertsOK(p)' /\ ReplyOK(p)'
<1>1. CASE Begin(p) \/ LookAtTag(p) \/ RelabelTag(p)
  <2>1. pc'[p] \notin {"tags", "commit"}
    BY <1>1 DEF IInv, TypeOK, Begin, LookAtTag, RelabelTag
  <2> QED BY <2>1 DEF UpsertsOK, ReplyOK
<1>2. CASE InsertEntry(p) \/ UpdateEntry(p)
  <2>1. /\ pc'[p] = "tags" /\ call'[p] = call[p] /\ todo'[p] = UniqueTags(call[p].names)
        /\ hit'[p] = {} /\ DOMAIN made'[p] = {}
    BY <1>2 DEF IInv, TypeOK, InsertEntry, UpdateEntry, WroteEntry, WriteSetOK, HandlerOK,
                Untouched
  <2> QED BY <2>1 DEF UpsertsOK, ReplyOK, Upserted
<1>3. CASE CutLink(p)
  <2>1. Kept(p) /\ UNCHANGED tables
    BY <1>3 DEF CutLink, Kept, scratch
  <2> QED BY <2>1, KeptOK DEF tables
<1>4. CASE TakeTag(p) \/ MakeTag(p)
  BY <1>4, UpsertOK
<1>5. CASE ReadBack(p)
  BY <1>5, ReadBackOK
<1>6. CASE EraseEntry(p) \/ DetachTag(p)
  <2>1. /\ pc'[p] = "commit" /\ reply'[p] = [status |-> "ok"]
        /\ call'[p].op \in {"delete", "drop"}
    BY <1>6 DEF IInv, TypeOK, EraseEntry, DetachTag, WriteSetOK, HandlerOK
  <2> QED BY <2>1 DEF UpsertsOK, ReplyOK
<1>7. CASE KeepName(p) \/ ClaimName(p)
  <2>1. /\ pc[p] = "key" /\ pc'[p] = "commit" /\ call' = call /\ tags' = tags /\ seen' = seen
        /\ hit' = hit
        /\ reply'[p] = [status |-> "ok", tag |->
                [id |-> call[p].id, name |-> call[p].name, count |-> seen[p]]]
    BY <1>7 DEF IInv, TypeOK, KeepName, ClaimName, Renamed, tables, scratch
  <2>2. call[p].op = "rename" /\ hit[p] = {call[p].id} /\ DOMAIN made[p] = {}
    BY <2>1 DEF IInv, WriteSetOK, HandlerOK, TagLockOK
  <2>3. \/ DOMAIN made'[p] = hit[p] /\ made'[p][call[p].id] = call[p].name
        \/ DOMAIN made'[p] = {} /\ tags[call[p].id].name = call[p].name
    BY <1>7, <2>2 DEF IInv, TypeOK, KeepName, ClaimName
  <2> QED BY <2>1, <2>2, <2>3 DEF UpsertsOK, ReplyOK
<1> QED BY <1>1, <1>2, <1>3, <1>4, <1>5, <1>6, <1>7 DEF Inner

\* Another request's commit leaves the rows p has locked.
LEMMA InstallKeeps ==
    ASSUME IInv, NEW p \in Procs, NEW q \in Procs, q # p, Install(p)
    PROVE  /\ pc[q] \in {"tags", "commit"} => \A t \in hit[q] : tags'[t].name = tags[t].name
           /\ pc[q] = "commit" /\ call[q].op = "update" =>
                /\ entries'[mine[q]].user = entries[mine[q]].user
                /\ entries'[mine[q]].created = entries[mine[q]].created
<1>1. Exclusive(p, q) /\ Exclusive(q, p) /\ WriteSetOK(p) /\ WriteSetOK(q) /\ pc[p] = "commit"
  BY DEF IInv, Install
<1>2. ASSUME pc[q] \in {"tags", "commit"}, NEW t \in hit[q] PROVE tags'[t].name = tags[t].name
  <2>1. t \in DOMAIN tags /\ t \notin hit[p]
    BY <1>1, <1>2 DEF WriteSetOK, TagLockOK, OwnsTag, Exclusive
  <2>2. t \notin DOMAIN made[p]
    BY <1>1, <2>1 DEF WriteSetOK, HandlerOK, NameLockOK
  <2> QED BY <2>1, <2>2, InstallTags
<1>3. ASSUME pc[q] = "commit", call[q].op = "update"
      PROVE  /\ entries'[mine[q]].user = entries[mine[q]].user
             /\ entries'[mine[q]].created = entries[mine[q]].created
  <2>1. mine[q] \in DOMAIN entries /\ mine[q] # mine[p]
    BY <1>1, <1>3 DEF WriteSetOK, EntryLockOK, OwnsEntry, Exclusive
  <2>2. mine[q] \in DOMAIN entries'
    BY <2>1, InstallEntries
  <2> QED BY <2>1, <2>2, InstallKeepsIdentity
<1> QED BY <1>2, <1>3

\* Tables stay functions; what is added to a set of rows is finite.
LEMMA FiniteStep ==
    ASSUME IInv, Finite, IInv', [Next]_vars
    PROVE  Finite'
<1> DEFINE Rows(q) == IsFiniteSet(hit[q]) /\ IsFiniteSet(DOMAIN made[q])
<1>1. /\ entries \in [DOMAIN entries -> [user: Users, text: Texts, created: Nat, updated: Nat]]
      /\ tags \in [DOMAIN tags -> [user: Users, name: Names]]
      /\ IsFiniteSet(links) /\ \A q \in Procs : Rows(q)
  BY DEF Finite
<1>2. IsFiniteSet({}) /\ IsFiniteSet(DOMAIN NoRows)
  BY FS_EmptySet DEF NoRows
<1>3. ASSUME UNCHANGED tables, \A q \in Procs : Rows(q)' PROVE Finite'
  BY <1>1, <1>3 DEF Finite, tables
<1>4. ASSUME NEW p \in Procs, NEW r, Answer(p, r) PROVE \A q \in Procs : Rows(q)'
  BY <1>1, <1>2, <1>4 DEF Answer, IInv, TypeOK
<1>5. ASSUME UNCHANGED tables, NEW p \in Procs, Call(p) \/ Inner(p) \/ \E r : Answer(p, r),
             Rows(p)'
      PROVE  Finite'
  <2>1. ASSUME NEW q \in Procs \ {p} PROVE Rows(q)'
    BY <1>1, <1>5, <2>1, OthersKept DEF Kept
  <2> QED BY <1>3, <1>5, <2>1
<1>6. CASE UNCHANGED vars
  BY <1>1, <1>6 DEF vars, tables, writeSet, Finite
<1>7. CASE Tick
  BY <1>1, <1>7 DEF Tick, tables, writeSet, Finite
<1>8. ASSUME NEW p \in Procs, Call(p) PROVE Finite'
  BY <1>1, <1>8 DEF Call, tables, writeSet, Finite
<1>9. ASSUME NEW p \in Procs, Inner(p) PROVE Finite'
  <2>1. UNCHANGED tables
    BY <1>9 DEF Inner, Begin, InsertEntry, UpdateEntry, WroteEntry, CutLink, TakeTag,
              MakeTag, ReadBack, EraseEntry, DetachTag, LookAtTag, RelabelTag, KeepName,
              ClaimName, Renamed
  <2>2. CASE Begin(p) \/ InsertEntry(p) \/ UpdateEntry(p) \/ CutLink(p) \/ ReadBack(p)
             \/ EraseEntry(p) \/ LookAtTag(p) \/ KeepName(p)
    <3>1. hit' = hit /\ made' = made
      BY <2>2 DEF Begin, InsertEntry, UpdateEntry, WroteEntry, CutLink, ReadBack, EraseEntry,
                  LookAtTag, KeepName, Renamed, writeSet
    <3> QED BY <1>1, <1>3, <2>1, <3>1
  <2>3. CASE DetachTag(p) \/ RelabelTag(p)
    <3>1. hit'[p] = {call[p].id} /\ made' = made
      BY <2>3 DEF DetachTag, RelabelTag, IInv, TypeOK
    <3>2. IsFiniteSet({call[p].id})
      BY FS_Singleton
    <3> QED BY <1>1, <1>5, <1>9, <2>1, <3>1, <3>2
  <2>4. CASE TakeTag(p)
    <3>1. PICK i \in todo[p] : \E t \in TagsNamed(call[p].user, call[p].names[i]) :
              hit' = [hit EXCEPT ![p] = @ \cup {t}]
      BY <2>4 DEF TakeTag
    <3>2. PICK t : hit' = [hit EXCEPT ![p] = @ \cup {t}]
      BY <3>1
    <3>3. hit'[p] = hit[p] \cup {t} /\ made' = made
      BY <2>4, <3>2 DEF TakeTag, IInv, TypeOK
    <3>4. IsFiniteSet(hit[p] \cup {t})
      BY <1>1, FS_AddElement
    <3> QED BY <1>1, <1>5, <1>9, <2>1, <3>3, <3>4
  <2>5. CASE MakeTag(p)
    <3>1. PICK i \in todo[p] : made' = [made EXCEPT ![p] =
              [t \in DOMAIN @ \cup {tagSeq} |-> IF t = tagSeq THEN call[p].names[i] ELSE @[t]]]
      BY <2>5 DEF MakeTag
    <3>2. DOMAIN made'[p] = DOMAIN made[p] \cup {tagSeq} /\ hit' = hit
      BY <2>5, <3>1 DEF MakeTag, IInv, TypeOK
    <3>3. IsFiniteSet(DOMAIN made[p] \cup {tagSeq})
      BY <1>1, FS_AddElement
    <3> QED BY <1>1, <1>5, <1>9, <2>1, <3>2, <3>3
  <2>6. CASE ClaimName(p)
    <3>1. DOMAIN made'[p] = hit[p] /\ hit' = hit
      BY <2>6 DEF ClaimName, Renamed, IInv, TypeOK
    <3> QED BY <1>1, <1>5, <1>9, <2>1, <3>1
  <2> QED BY <1>9, <2>2, <2>3, <2>4, <2>5, <2>6 DEF Inner
<1>10. ASSUME NEW p \in Procs, NEW r, Answer(p, r), UNCHANGED tables PROVE Finite'
  BY <1>3, <1>4, <1>10
<1>11. ASSUME NEW p \in Procs, NEW r, Answer(p, r), Install(p) PROVE Finite'
  <2>1. \A q \in Procs : Rows(q)'
    BY <1>4, <1>11
  <2>2. entries' \in [DOMAIN entries' ->
                        [user: Users, text: Texts, created: Nat, updated: Nat]]
    <3>1. \A e \in DOMAIN entries' :
              entries'[e] \in [user: Users, text: Texts, created: Nat, updated: Nat]
      BY DEF IInv, TypeOK
    <3>2. entries' = EntriesAfter(p)
      BY <1>11 DEF Install
    <3>3. entries' = [e \in DOMAIN entries' |-> entries'[e]]
      <4>1. CASE call[p].op \in {"create", "update"}
        BY <3>2, <4>1 DEF EntriesAfter
      <4>2. CASE call[p].op = "delete"
        BY <3>2, <4>2 DEF EntriesAfter
      <4>3. CASE call[p].op \notin {"create", "update", "delete"}
        <5>1. entries' = entries
          BY <3>2, <4>3 DEF EntriesAfter
        <5> QED BY <1>1, <5>1
      <4> QED BY <4>1, <4>2, <4>3
    <3> QED BY <3>1, <3>3
  <2>3. tags' \in [DOMAIN tags' -> [user: Users, name: Names]]
    <3>1. \A t \in DOMAIN tags' : tags'[t] \in [user: Users, name: Names]
      BY DEF IInv, TypeOK
    <3> QED BY <1>11, <3>1 DEF Install, TagsAfter
  <2>4. IsFiniteSet(links')
    <3>1. IsFiniteSet(links \ cut[p])
      BY <1>1, FS_Difference
    <3>2. IsFiniteSet(hit[p] \cup DOMAIN made[p])
      BY <1>1, FS_Union
    <3>3. IsFiniteSet({mine[p]}) /\ IsFiniteSet({mine[p]} \X (hit[p] \cup DOMAIN made[p]))
      BY <3>2, FS_Singleton, FS_Product
    <3>4. IsFiniteSet((links \ cut[p]) \cup ({mine[p]} \X (hit[p] \cup DOMAIN made[p])))
      BY <3>1, <3>3, FS_Union
    <3> QED BY <1>2, <1>11, <3>1, <3>4 DEF Install, LinksAfter
  <2> QED BY <2>1, <2>2, <2>3, <2>4 DEF Finite
<1>12. ASSUME NEW p \in Procs, Step(p), ~Inner(p), ~Commit(p)
       PROVE  UNCHANGED tables /\ \E r : Answer(p, r)
  BY <1>12 DEF Step, Inner, EntryMissing, TagMissing, NameConflict, GetEntry, ListEntries,
              ListTags, ReadRow, Refuse
<1>13. ASSUME NEW p \in Procs, Fail(p) \/ DeadlockAbort(p)
       PROVE  UNCHANGED tables /\ \E r : Answer(p, r)
  BY <1>13 DEF Fail, DeadlockAbort, Refuse
<1> QED BY <1>6, <1>7, <1>8, <1>9, <1>10, <1>11, <1>12, <1>13 DEF Next, Commit, CommitLost

\* Every step preserves the invariant.
LEMMA NextP ==
    ASSUME PInv, [Next]_vars
    PROVE  PInv'
<1>1. IInv /\ Finite /\ IInv' /\ Finite'
  BY NextInv, FiniteStep DEF PInv
<1>2. \A q \in Procs : UpsertsOK(q) /\ ReplyOK(q)
  BY DEF PInv
<1>3. ASSUME NEW q \in Procs, Kept(q), UNCHANGED tables PROVE UpsertsOK(q)' /\ ReplyOK(q)'
  BY <1>1, <1>2, <1>3, KeptOK DEF tables
<1>4. ASSUME UNCHANGED vars, NEW q \in Procs PROVE UpsertsOK(q)' /\ ReplyOK(q)'
  BY <1>3, <1>4 DEF vars, writeSet, scratch, Kept
<1>5. ASSUME Tick, NEW q \in Procs PROVE UpsertsOK(q)' /\ ReplyOK(q)'
  BY <1>3, <1>5 DEF Tick, writeSet, scratch, Kept
<1>6. ASSUME NEW p \in Procs, Call(p) \/ Inner(p) \/ \E r : Answer(p, r), UNCHANGED tables,
             UpsertsOK(p)' /\ ReplyOK(p)', NEW q \in Procs
      PROVE  UpsertsOK(q)' /\ ReplyOK(q)'
  BY <1>1, <1>3, <1>6, OthersKept
<1>7. ASSUME NEW p \in Procs, NEW r, Answer(p, r) PROVE UpsertsOK(p)' /\ ReplyOK(p)'
  BY <1>1, <1>7 DEF IInv, TypeOK, Answer, UpsertsOK, ReplyOK
<1>8. ASSUME NEW p \in Procs, Call(p), NEW q \in Procs PROVE UpsertsOK(q)' /\ ReplyOK(q)'
  <2>1. pc'[p] \notin {"tags", "commit"} /\ UNCHANGED tables
    BY <1>1, <1>8 DEF IInv, TypeOK, Call, FirstStep
  <2> QED BY <1>6, <1>8, <2>1 DEF UpsertsOK, ReplyOK
<1>9. ASSUME NEW p \in Procs, Inner(p), NEW q \in Procs PROVE UpsertsOK(q)' /\ ReplyOK(q)'
  <2>1. UNCHANGED tables
    BY <1>9 DEF Inner, Begin, InsertEntry, UpdateEntry, WroteEntry, CutLink, TakeTag,
              MakeTag, ReadBack, EraseEntry, DetachTag, LookAtTag, RelabelTag, KeepName,
              ClaimName, Renamed
  <2> QED BY <1>1, <1>2, <1>6, <1>9, <2>1, InnerOK
<1>10. ASSUME NEW p \in Procs, NEW r, Answer(p, r), UNCHANGED tables, NEW q \in Procs
       PROVE  UpsertsOK(q)' /\ ReplyOK(q)'
  BY <1>6, <1>7, <1>10
<1>11. ASSUME NEW p \in Procs, NEW r, Answer(p, r), Install(p), NEW q \in Procs
       PROVE  UpsertsOK(q)' /\ ReplyOK(q)'
  <2>1. CASE q = p
    BY <1>7, <1>11, <2>1
  <2>2. CASE q # p
    <3>1. Kept(q)
      BY <1>1, <1>11, <2>2, OthersKept
    <3> QED BY <1>1, <1>2, <1>11, <2>2, <3>1, InstallKeeps, KeptOK
  <2> QED BY <2>1, <2>2
<1>12. ASSUME NEW p \in Procs, Step(p), ~Inner(p), ~Commit(p)
       PROVE  UNCHANGED tables /\ \E r : Answer(p, r)
  BY <1>12 DEF Step, Inner, EntryMissing, TagMissing, NameConflict, GetEntry, ListEntries,
              ListTags, ReadRow, Refuse
<1>13. ASSUME NEW p \in Procs, Fail(p) \/ DeadlockAbort(p)
       PROVE  UNCHANGED tables /\ \E r : Answer(p, r)
  BY <1>13 DEF Fail, DeadlockAbort, Refuse
<1>14. \A q \in Procs : UpsertsOK(q)' /\ ReplyOK(q)'
  BY <1>4, <1>5, <1>8, <1>9, <1>10, <1>11, <1>12, <1>13 DEF Next, Commit, CommitLost
<1> QED BY <1>1, <1>14 DEF PInv

\* What the answers rely on holds throughout.
THEOREM Promise == Spec => []PInv
<1>1. Init => PInv
  BY InitP
<1>2. PInv /\ [Next]_vars => PInv'
  BY NextP
<1> QED BY <1>1, <1>2, PTL DEF Spec

-----------------------------------------------------------------------------
(* What is answered is stored. *)

\* A commit stores the note that was to be answered.
LEMMA CommitStores ==
    ASSUME PInv, NEW p \in Procs, Install(p), call[p].op \in {"create", "update"},
           NEW e, e = mine[p]
    PROVE  /\ e \in DOMAIN entries'
           /\ reply[p].note = StoredNote(e)'
           /\ reply[p].note.names = {call[p].names[i] : i \in DOMAIN call[p].names}
           /\ reply[p].note.text = call[p].text
<1>1. IInv /\ pc[p] = "commit" /\ LinksCleared(p) /\ ReplyOK(p)
      /\ entries' = EntriesAfter(p) /\ tags' = TagsAfter(p) /\ links' = LinksAfter(p)
  BY DEF PInv, Install
<1>2. mine[p] \in DOMAIN entries'
  BY <1>1, InstallEntries
<1>3. /\ Upserted(p) = {call[p].names[i] : i \in DOMAIN call[p].names}
      /\ reply[p].note = Note(mine[p], EntriesAfter(p)[mine[p]], Upserted(p))
  BY <1>1 DEF ReplyOK
<1>4. {tags'[t].name : t \in {t \in DOMAIN tags' : <<mine[p], t>> \in links'}} = Upserted(p)
  BY <1>1, CarriesUpserted
<1>5. StoredNote(e)' = Note(e, EntriesAfter(p)[e], Upserted(p))
  BY <1>1, <1>4 DEF StoredNote, Note, TagsOf
<1>6. EntriesAfter(p)[mine[p]].text = call[p].text
  <2>1. EntriesAfter(p)[mine[p]] = Row(p)
    BY RowAfter
  <2> QED BY <2>1 DEF Row
<1> QED BY <1>2, <1>3, <1>5, <1>6 DEF Note

\* The one process whose request ends is the one that steps.
LEMMA EndsItsOwn ==
    ASSUME IInv, Next, NEW p \in Procs, pc[p] = "commit", pc'[p] = "idle"
    PROVE  Commit(p) \/ CommitLost(p) \/ Fail(p) \/ DeadlockAbort(p)
<1>1. ~Tick
  BY DEF Tick
<1>2. PICK q \in Procs : Call(q) \/ Step(q) \/ CommitLost(q) \/ Fail(q) \/ DeadlockAbort(q)
  BY <1>1 DEF Next
<1>3. Call(q) \/ Inner(q) \/ (\E r : Answer(q, r))
  BY <1>2 DEF Step, Inner, EntryMissing, TagMissing, NameConflict, GetEntry, ListEntries,
              ListTags, ReadRow, Refuse, Commit, CommitLost, Fail, DeadlockAbort
<1>4. q = p
  BY <1>3, OthersKept DEF Kept
<1>5. ~Call(p)
  BY DEF Call
<1>6. ASSUME Step(p) PROVE Commit(p)
  BY <1>6 DEF IInv, TypeOK, Step, Begin, InsertEntry, UpdateEntry, WroteEntry, EntryMissing,
              CutLink, TakeTag, MakeTag, ReadBack, EraseEntry, DetachTag, LookAtTag,
              RelabelTag, TagMissing, KeepName, ClaimName, NameConflict, Renamed, GetEntry,
              ListEntries, ListTags, ReadRow
<1> QED BY <1>2, <1>4, <1>5, <1>6

\* A create or an update that is answered has stored what it answers, whatever ran at
\* the same time: the tags and the text of the request.
THEOREM AnswersAreStored == Spec => AnswerIsStored
<1> DEFINE Stored(p) ==
        /\ pc[p] = "commit" /\ call[p].op \in {"create", "update"}
        /\ pc'[p] = "idle" /\ reply'[p].status = "ok"
        => /\ \E e \in DOMAIN entries' :
                e = mine[p] /\ reply'[p].note = StoredNote(e)'
           /\ reply'[p].note.names = {call[p].names[i] : i \in DOMAIN call[p].names}
           /\ reply'[p].note.text = call[p].text
<1>1. ASSUME PInv, Next, NEW p \in Procs PROVE Stored(p)
  <2> SUFFICES ASSUME pc[p] = "commit", call[p].op \in {"create", "update"},
                      pc'[p] = "idle", reply'[p].status = "ok"
               PROVE  /\ \E e \in DOMAIN entries' :
                            e = mine[p] /\ reply'[p].note = StoredNote(e)'
                      /\ reply'[p].note.names = {call[p].names[i] : i \in DOMAIN call[p].names}
                      /\ reply'[p].note.text = call[p].text
    OBVIOUS
  <2>1. IInv /\ DOMAIN reply = Procs
    BY <1>1 DEF PInv, IInv, TypeOK
  <2>2. Commit(p) \/ CommitLost(p) \/ Fail(p) \/ DeadlockAbort(p)
    BY <1>1, <2>1, EndsItsOwn
  <2>3. ~CommitLost(p) /\ ~Fail(p) /\ ~DeadlockAbort(p)
    BY <2>1 DEF CommitLost, Fail, DeadlockAbort, Refuse, Answer
  <2>4. Install(p) /\ reply'[p] = reply[p]
    BY <2>1, <2>2, <2>3 DEF Commit, Answer
  <2> QED BY <1>1, <2>4, CommitStores
<1>2. PInv /\ [Next]_vars => [\A p \in Procs : Stored(p)]_vars
  BY <1>1
<1> QED BY <1>2, Promise, PTL DEF Spec, AnswerIsStored

-----------------------------------------------------------------------------
(* The steps of EntryStore as steps of Journal: those that leave it alone. *)

\* An answer as the client of the Journal sees it.
Given(r) ==
    IF "tag" \in DOMAIN r
    THEN [status |-> "ok", tag |-> [id |-> r.tag.id, name |-> r.tag.name]]
    ELSE r

\* The answers without a tag are seen as they are.
LEMMA GivenIs ==
    /\ \A s : Given([status |-> s]) = [status |-> s]
    /\ \A s, n : Given([status |-> s, note |-> n]) = [status |-> s, note |-> n]
    /\ \A s, n : Given([status |-> s, notes |-> n]) = [status |-> s, notes |-> n]
    /\ \A s, n : Given([status |-> s, catalog |-> n]) = [status |-> s, catalog |-> n]
    /\ \A i, n, c : Given([status |-> "ok", tag |-> [id |-> i, name |-> n, count |-> c]])
                        = [status |-> "ok", tag |-> [id |-> i, name |-> n]]
BY DEF Given

\* The same tables are the same notes.
LEMMA SameNotes == ASSUME UNCHANGED tables PROVE NotesView' = NotesView
BY DEF tables, NotesView, TagsOf

\* The end of a request is the answer of the Journal.
LEMMA AnswerIs ==
    ASSUME IInv, NEW p \in Procs, NEW r, Answer(p, r), UNCHANGED clock
    PROVE  J!Answer(p, Given(r))
<1> USE DEF IInv, TypeOK
<1>1. ASSUME NEW q \in Procs \ {p} PROVE Kept(q)
  BY <1>1, OthersKept
<1>2. pc'[p] = "idle" /\ reply'[p] = r /\ call' = [call EXCEPT ![p] = NoCall]
  BY DEF Answer
<1>3. StampView' = [StampView EXCEPT ![p] = {}]
  BY <1>1, <1>2 DEF StampView, Kept
<1>4. AnswerView' = [AnswerView EXCEPT ![p] = Given(r)]
  <2> HIDE DEF IInv, TypeOK
  <2>1. \A q \in Procs : AnswerView[q] =
            IF pc[q] # "idle" THEN [status |-> "none"] ELSE Given(reply[q])
    BY DEF AnswerView, Given
  <2>2. \A q \in Procs : AnswerView'[q] =
            IF pc'[q] # "idle" THEN [status |-> "none"] ELSE Given(reply'[q])
    BY DEF AnswerView, Given
  <2>3. AnswerView'[p] = Given(r)
    BY <1>2, <2>2
  <2>4. \A q \in Procs \ {p} : AnswerView'[q] = AnswerView[q]
    BY <1>1, <2>1, <2>2 DEF Kept
  <2>5. /\ AnswerView' = [q \in Procs |-> AnswerView'[q]]
        /\ AnswerView = [q \in Procs |-> AnswerView[q]]
    BY DEF AnswerView
  <2> QED BY <2>3, <2>4, <2>5, Zenon
<1> QED BY <1>2, <1>3, <1>4 DEF J!Answer, J!NoCall, NoCall

\* A rollback is a refusal.
LEMMA RefuseIs ==
    ASSUME IInv, NEW p \in Procs, NEW s, Refuse(p, s)
    PROVE  J!Refused(p, s)
<1>1. J!Answer(p, [status |-> s])
  BY AnswerIs, GivenIs DEF Refuse, bounds
<1>2. NotesView' = NotesView /\ tags' = tags
  BY SameNotes DEF Refuse, tables
<1> QED BY <1>1, <1>2 DEF J!Refused

\* A call is being served exactly when its handler is not idle.
LEMMA ServedIs ==
    ASSUME IInv, NEW p \in Procs
    PROVE  /\ pc[p] = "idle" => call[p] = J!NoCall
           /\ pc[p] # "idle" => call[p] # J!NoCall /\ call[p] \in Calls
<1>1. ASSUME NEW c \in Calls PROVE c # J!NoCall
  BY <1>1, CallFields DEF Ops, J!NoCall
<1> QED BY <1>1 DEF IInv, TypeOK, NoCall, J!NoCall

\* The rows and the notes of a user are the same.
LEMMA OwnIs ==
    ASSUME NEW p, NEW e
    PROVE  /\ J!OwnNote(p, e) <=> OwnsEntry(call[p].user, e)
           /\ J!OwnTag(p, e) <=> OwnsTag(call[p].user, e)
<1>1. /\ DOMAIN NotesView = DOMAIN entries
      /\ \A x \in DOMAIN entries : NotesView[x].user = entries[x].user
  BY DEF NotesView
<1> QED BY <1>1 DEF J!OwnNote, J!OwnTag, OwnsEntry, OwnsTag

\* A note of the Journal with its id is the note that is answered.
LEMMA ShowIs ==
    ASSUME NEW e \in DOMAIN entries
    PROVE  J!Show(e) = StoredNote(e)
<1>1. NotesView[e] = [user |-> entries[e].user, text |-> entries[e].text,
                      created |-> entries[e].created, updated |-> entries[e].updated,
                      names |-> {tags[t].name : t \in TagsOf(e)}]
  BY DEF NotesView
<1> QED BY <1>1 DEF J!Show, J!Shown, StoredNote, Note

\* A request asked, dated, or at work within its transaction.
LEMMA InnerIs ==
    ASSUME IInv, NEW p \in Procs, Call(p) \/ Inner(p)
    PROVE  J!Ask(p) \/ J!Date(p) \/ UNCHANGED J!vars
<1> USE DEF IInv, TypeOK
<1>1. ASSUME NEW q \in Procs \ {p} PROVE Kept(q)
  BY <1>1, OthersKept
<1>2. UNCHANGED tables /\ UNCHANGED clock
  BY DEF Call, Inner, Begin, InsertEntry, UpdateEntry, WroteEntry, CutLink, TakeTag,
         MakeTag, ReadBack, EraseEntry, DetachTag, LookAtTag, RelabelTag, KeepName,
         ClaimName, Renamed, bounds
<1>3. NotesView' = NotesView /\ tags' = tags
  BY <1>2, SameNotes DEF tables
<1>4. CASE Call(p)
  <2>1. PICK c \in Calls : call' = [call EXCEPT ![p] = c] /\ pc' = [pc EXCEPT ![p] = FirstStep(c.op)]
    BY <1>4 DEF Call
  <2>2. pc[p] = "idle" /\ reply'[p] = [status |-> "none"]
    BY <1>4 DEF Call
  <2>3. pc'[p] \in {"begin", "erase", "look", "detach", "read"}
    BY <2>1 DEF FirstStep
  <2>4. AnswerView' = [AnswerView EXCEPT ![p] = [status |-> "none"]]
    BY <1>1, <2>3 DEF AnswerView, Kept
  <2>5. StampView' = StampView
    BY <1>1, <2>2, <2>3 DEF StampView, Kept
  <2>6. call[p] = J!NoCall
    BY <2>2, ServedIs
  <2> QED BY <1>2, <1>3, <2>1, <2>4, <2>5, <2>6 DEF J!Ask
<1>5. CASE Begin(p)
  <2>1. /\ pc[p] = "begin" /\ pc'[p] = "entry" /\ start'[p] = clock /\ call' = call
        /\ call[p].op \in {"create", "update"}
    BY <1>5 DEF Begin, WriteSetOK, HandlerOK
  <2>2. StampView[p] = {} /\ StampView' = [StampView EXCEPT ![p] = {clock}]
    <3>1. StampView[p] = {}
      BY <2>1 DEF StampView
    <3>2. StampView'[p] = {clock}
      BY <2>1 DEF StampView
    <3>3. \A q \in Procs \ {p} : StampView'[q] = StampView[q]
      BY <1>1, <2>1 DEF StampView, Kept
    <3>4. /\ StampView' = [q \in Procs |-> StampView'[q]]
          /\ StampView = [q \in Procs |-> StampView[q]]
      BY DEF StampView
    <3> HIDE DEF IInv, TypeOK
    <3> QED BY <3>1, <3>2, <3>3, <3>4, Zenon
  <2>3. AnswerView' = AnswerView
    BY <1>1, <2>1 DEF AnswerView, Kept
  <2> QED BY <1>2, <1>3, <2>1, <2>2, <2>3 DEF J!Date
<1>6. CASE Inner(p) /\ ~Begin(p)
  <2>1. /\ pc[p] # "idle" /\ pc'[p] # "idle" /\ call' = call /\ start' = start
        /\ pc[p] = "entry" => pc'[p] = "tags"
        /\ pc[p] = "tags" => pc'[p] \in {"tags", "commit"}
        /\ pc[p] = "commit" => pc'[p] = "commit"
        /\ pc[p] \notin {"entry", "tags", "commit"} =>
              call[p].op \notin {"create", "update"}
    <3>1. CASE InsertEntry(p) \/ UpdateEntry(p)
      BY <3>1 DEF InsertEntry, UpdateEntry, WroteEntry
    <3>2. CASE CutLink(p) \/ TakeTag(p) \/ MakeTag(p) \/ ReadBack(p)
      BY <3>2 DEF CutLink, TakeTag, MakeTag, ReadBack, scratch
    <3>3. CASE EraseEntry(p) \/ DetachTag(p)
      BY <3>3 DEF EraseEntry, DetachTag, scratch, WriteSetOK, HandlerOK
    <3>4. CASE LookAtTag(p) \/ RelabelTag(p)
      BY <3>4 DEF LookAtTag, RelabelTag, scratch, WriteSetOK, HandlerOK
    <3>5. CASE KeepName(p) \/ ClaimName(p)
      BY <3>5 DEF KeepName, ClaimName, Renamed, scratch, WriteSetOK, HandlerOK
    <3> QED BY <1>6, <3>1, <3>2, <3>3, <3>4, <3>5 DEF Inner
  <2>2. StampView' = StampView
    BY <1>1, <2>1 DEF StampView, Kept
  <2>3. AnswerView' = AnswerView
    BY <1>1, <2>1 DEF AnswerView, Kept
  <2> QED BY <1>2, <1>3, <2>1, <2>2, <2>3 DEF J!vars
<1> QED BY <1>4, <1>5, <1>6

\* Time passes.
LEMMA TickIs == ASSUME Tick PROVE J!Elapse
<1>1. NotesView' = NotesView
  BY SameNotes DEF Tick
<1>2. StampView' = StampView /\ AnswerView' = AnswerView
  BY DEF Tick, writeSet, scratch, StampView, AnswerView
<1> QED BY <1>1, <1>2 DEF Tick, tables, J!Elapse

\* Nothing happens.
LEMMA StutterIs == ASSUME UNCHANGED vars PROVE UNCHANGED J!vars
<1>1. NotesView' = NotesView
  BY SameNotes DEF vars
<1>2. StampView' = StampView /\ AnswerView' = AnswerView
  BY DEF vars, writeSet, scratch, StampView, AnswerView
<1> QED BY <1>1, <1>2 DEF vars, tables, bounds, J!vars

\* A row that is not found, a name that is taken, a statement that fails.
LEMMA RefusalIs ==
    ASSUME IInv, NEW p \in Procs,
           EntryMissing(p) \/ TagMissing(p) \/ NameConflict(p) \/ Fail(p) \/ DeadlockAbort(p)
    PROVE  J!NoNote(p) \/ J!NoTag(p) \/ J!Conflict(p) \/ J!Break(p)
<1> USE DEF IInv, WriteSetOK, HandlerOK
<1>1. CASE EntryMissing(p)
  <2>1. /\ Refuse(p, "notFound") /\ ~OwnsEntry(call[p].user, call[p].id)
        /\ call[p].op \in {"update", "delete"}
    BY <1>1 DEF EntryMissing
  <2>2. J!Refused(p, "notFound")
    BY <2>1, RefuseIs
  <2> QED BY <2>1, <2>2, OwnIs DEF J!NoNote
<1>2. CASE TagMissing(p)
  <2>1. /\ Refuse(p, "notFound") /\ ~OwnsTag(call[p].user, call[p].id)
        /\ call[p].op \in {"rename", "drop"}
    BY <1>2 DEF TagMissing
  <2>2. J!Refused(p, "notFound")
    BY <2>1, RefuseIs
  <2> QED BY <2>1, <2>2, OwnIs DEF J!NoTag
<1>3. CASE NameConflict(p)
  <2>1. /\ Refuse(p, "conflict") /\ pc[p] = "key" /\ call[p].op = "rename"
        /\ TagsNamed(call[p].user, call[p].name) \ {call[p].id} # {}
    BY <1>3 DEF NameConflict
  <2>2. OwnsTag(call[p].user, call[p].id)
    BY <2>1 DEF TagLockOK
  <2>3. J!Carrying(p, call[p].name) = TagsNamed(call[p].user, call[p].name)
    BY OwnIs DEF J!Carrying, OwnsTag, TagsNamed
  <2>4. J!Refused(p, "conflict")
    BY <2>1, RefuseIs
  <2> QED BY <2>1, <2>2, <2>3, <2>4, OwnIs DEF J!Conflict
<1>4. CASE Fail(p) \/ DeadlockAbort(p)
  <2>1. pc[p] # "idle" /\ Refuse(p, "error")
    <3>1. CASE Fail(p)
      BY <3>1 DEF Fail
    <3>2. CASE DeadlockAbort(p)
      <4>1. PICK S \in SUBSET Procs : p \in S /\ Stuck(S)
        BY <3>2 DEF DeadlockAbort, Deadlocked
      <4>2. PICK q \in S : WaitsFor(p, q)
        BY <4>1 DEF Stuck
      <4> QED BY <3>2, <4>2 DEF WaitsFor, DeadlockAbort
    <3> QED BY <1>4, <3>1, <3>2
  <2>2. call[p] # J!NoCall
    BY <2>1, ServedIs
  <2>3. J!Refused(p, "error")
    BY <2>1, RefuseIs
  <2> QED BY <2>2, <2>3 DEF J!Break
<1> QED BY <1>1, <1>2, <1>3, <1>4

\* The instance of Journal has a Cardinality of its own, which is the same.
LEMMA SameCardinality == ASSUME NEW S PROVE J!Cardinality(S) = Cardinality(S)
BY DEF J!Cardinality, Cardinality

\* A note carries the name of a tag of its user exactly when it is linked to it, and no
\* other tag of the note has that name.
LEMMA CarriesIs ==
    ASSUME IInv, NEW t \in DOMAIN tags, NEW e \in DOMAIN entries
    PROVE  /\ t \in TagsOf(e) <=> /\ entries[e].user = tags[t].user
                                  /\ tags[t].name \in {tags[s].name : s \in TagsOf(e)}
           /\ t \in TagsOf(e) => \A s \in TagsOf(e) : s # t => tags[s].name # tags[t].name
<1>1. /\ \A l \in links : \A x \in DOMAIN entries : \A s \in DOMAIN tags :
            l = <<x, s>> => entries[x].user = tags[s].user
      /\ \A r, s \in DOMAIN tags : tags[r] = tags[s] => r = s
      /\ \A s \in DOMAIN tags : tags[s] \in [user: Users, name: Names]
  BY DEF IInv, TypeOK, LinksSameOwner, UniqueNames
<1>2. \A s \in TagsOf(e) : s \in DOMAIN tags /\ tags[s].user = entries[e].user
  BY <1>1 DEF TagsOf
<1>3. \A s \in TagsOf(e) : entries[e].user = tags[t].user /\ tags[s].name = tags[t].name => s = t
  BY <1>1, <1>2
<1> QED BY <1>2, <1>3

\* The entries linked to a tag are the notes that carry its name.
LEMMA CountIs ==
    ASSUME IInv, IsFiniteSet(links), NEW t \in DOMAIN tags
    PROVE  EntryCount(t) = Cardinality(J!Carriers(t))
<1> DEFINE L == {l \in links : l[2] = t}
           C == J!Carriers(t)
           f == [l \in L |-> l[1]]
<1>1. /\ links \subseteq Nat \X Nat
      /\ \A l \in links : l[1] \in DOMAIN entries /\ l[2] \in DOMAIN tags
  BY DEF IInv, TypeOK, ForeignKeys
<1>2. /\ DOMAIN NotesView = DOMAIN entries
      /\ \A e \in DOMAIN entries :
            /\ NotesView[e].user = entries[e].user
            /\ NotesView[e].names = {tags[s].name : s \in TagsOf(e)}
  BY DEF NotesView
<1>3. \A e : e \in C <=> e \in DOMAIN entries /\ <<e, t>> \in links
  <2>1. \A e \in DOMAIN entries : e \in C <=> t \in TagsOf(e)
    BY <1>2, CarriesIs DEF J!Carriers
  <2>2. \A e \in C : e \in DOMAIN entries
    BY <1>2 DEF J!Carriers
  <2> QED BY <2>1, <2>2 DEF TagsOf
<1>4. \A l \in L : l = <<l[1], t>> /\ l[1] \in DOMAIN entries
  BY <1>1
<1>5. f \in Bijection(L, C)
  <2>1. f \in [L -> C]
    BY <1>3, <1>4
  <2>2. \A k, l \in L : f[k] = f[l] => k = l
    BY <1>4
  <2>3. \A e \in C : \E l \in L : f[l] = e
    <3> SUFFICES ASSUME NEW e \in C PROVE \E l \in L : f[l] = e
      OBVIOUS
    <3>1. <<e, t>> \in L
      BY <1>3
    <3>2. f[<<e, t>>] = e
      BY <3>1
    <3> QED BY <3>1, <3>2
  <2> QED BY <2>1, <2>2, <2>3 DEF Bijection, Injection, Surjection, IsInjective
<1>6. IsFiniteSet(L)
  BY FS_Subset
<1> HIDE DEF L, C, f
<1>7. Cardinality(C) = Cardinality(L)
  BY <1>5, <1>6, FS_Bijection DEF ExistsBijection
<1> QED BY <1>7 DEF L, C, EntryCount

\* The reads.
LEMMA ReadIs ==
    ASSUME IInv, IsFiniteSet(links), NEW p \in Procs,
           GetEntry(p) \/ ListEntries(p) \/ ListTags(p)
    PROVE  J!Get(p) \/ J!NoNote(p) \/ J!List(p) \/ J!Tags(p)
<1>1. ASSUME NEW r, ReadRow(p, r) PROVE J!Answer(p, Given(r)) /\ UNCHANGED <<NotesView, tags>>
  <2>1. J!Answer(p, Given(r))
    BY <1>1, AnswerIs DEF ReadRow, bounds
  <2> QED BY <1>1, <2>1, SameNotes DEF ReadRow, tables
<1>2. CASE GetEntry(p)
  <2>1. CASE OwnsEntry(call[p].user, call[p].id)
    <3>1. ReadRow(p, [status |-> "ok", note |-> StoredNote(call[p].id)]) /\ call[p].op = "get"
      BY <1>2, <2>1 DEF GetEntry
    <3>2. J!Show(call[p].id) = StoredNote(call[p].id)
      BY <2>1, ShowIs DEF OwnsEntry
    <3>3. /\ J!Answer(p, [status |-> "ok", note |-> J!Show(call[p].id)])
          /\ UNCHANGED <<NotesView, tags>>
      BY <1>1, <3>1, <3>2, GivenIs
    <3> QED BY <2>1, <3>1, <3>3, OwnIs DEF J!Get
  <2>2. CASE ~OwnsEntry(call[p].user, call[p].id)
    <3>1. ReadRow(p, [status |-> "notFound"]) /\ call[p].op = "get"
      BY <1>2, <2>2 DEF GetEntry
    <3>2. J!Answer(p, [status |-> "notFound"]) /\ UNCHANGED <<NotesView, tags>>
      BY <1>1, <3>1, GivenIs
    <3> QED BY <2>2, <3>1, <3>2, OwnIs DEF J!NoNote, J!Refused
  <2> QED BY <2>1, <2>2
<1>3. CASE ListEntries(p)
  <2> DEFINE own == {e \in DOMAIN entries : OwnsEntry(call[p].user, e)}
             all == {StoredNote(e) : e \in own}
  <2>1. ReadRow(p, [status |-> "ok", notes |-> all]) /\ call[p].op = "list"
    BY <1>3 DEF ListEntries
  <2>2. {e \in DOMAIN NotesView : J!OwnNote(p, e)} = own
    BY OwnIs DEF NotesView
  <2>3. {J!Show(e) : e \in {e \in DOMAIN NotesView : J!OwnNote(p, e)}} = all
    BY <2>2, ShowIs
  <2>4. J!Answer(p, [status |-> "ok", notes |-> all]) /\ UNCHANGED <<NotesView, tags>>
    BY <1>1, <2>1, GivenIs
  <2> QED BY <2>1, <2>3, <2>4 DEF J!List
<1>4. CASE ListTags(p)
  <2> DEFINE own == {t \in DOMAIN tags : OwnsTag(call[p].user, t)}
             all == {[id |-> t, name |-> tags[t].name, count |-> EntryCount(t)] : t \in own}
  <2>1. ReadRow(p, [status |-> "ok", catalog |-> all]) /\ call[p].op = "tags"
    BY <1>4 DEF ListTags
  <2>2. {t \in DOMAIN tags : J!OwnTag(p, t)} = own
    BY OwnIs
  <2>3. {[id |-> t, name |-> tags[t].name, count |-> Cardinality(J!Carriers(t))] :
            t \in {t \in DOMAIN tags : J!OwnTag(p, t)}} = all
    BY <2>2, CountIs
  <2>4. J!Answer(p, [status |-> "ok", catalog |-> all]) /\ UNCHANGED <<NotesView, tags>>
    BY <1>1, <2>1, GivenIs
  <2>5. {[id |-> t, name |-> tags[t].name, count |-> J!Cardinality(J!Carriers(t))] :
            t \in {t \in DOMAIN tags : J!OwnTag(p, t)}} = all
    BY <2>3, SameCardinality
  <2> QED BY <2>1, <2>4, <2>5 DEF J!Tags
<1> QED BY <1>2, <1>3, <1>4

-----------------------------------------------------------------------------
(* The steps of EntryStore as steps of Journal: the commits.               *)

\* What is known of a request that commits.
LEMMA AtCommit ==
    ASSUME PInv, NEW p \in Procs, Install(p)
    PROVE  /\ pc[p] = "commit" /\ LinksCleared(p) /\ call[p] \in Calls
           /\ entries' = EntriesAfter(p) /\ tags' = TagsAfter(p) /\ links' = LinksAfter(p)
           /\ clock' = clock
           /\ EntryLockOK(p) /\ TagLockOK(p) /\ NameLockOK(p) /\ ReplyOK(p)
           /\ cut[p] = Doomed(p)
BY DEF PInv, IInv, TypeOK, Install, WriteSetOK, LinkLockOK, LinksCleared, bounds

\* The answer leaves, or is lost on its way.
Ends(p) == Answer(p, reply[p]) \/ Answer(p, [status |-> "error"])

\* The end of a commit is the end of a call that has taken effect.
LEMMA DoneIs ==
    ASSUME PInv, NEW p \in Procs, Install(p), Ends(p)
    PROVE  J!Done(p, Given(reply[p]))
<1>1. IInv /\ UNCHANGED clock
  BY AtCommit DEF PInv
<1>2. CASE Answer(p, reply[p])
  BY <1>1, <1>2, AnswerIs DEF J!Done
<1>3. CASE Answer(p, [status |-> "error"])
  BY <1>1, <1>3, AnswerIs, GivenIs DEF J!Done
<1> QED BY <1>2, <1>3 DEF Ends

\* Writing or deleting a note leaves the other notes alone.
LEMMA OtherNotes ==
    ASSUME PInv, NEW p \in Procs, Install(p), call[p].op \in {"create", "update", "delete"},
           NEW e \in DOMAIN entries, e # mine[p]
    PROVE  e \in DOMAIN entries' /\ NotesView'[e] = NotesView[e]
<1>1. /\ DOMAIN tags' = DOMAIN tags \cup DOMAIN made[p]
      /\ \A t \in DOMAIN tags : tags'[t] = tags[t]
  <2>1. \A t \in DOMAIN made[p] : t \notin DOMAIN tags
    BY AtCommit DEF NameLockOK
  <2> QED BY <2>1, AtCommit DEF TagsAfter
<1>2. e \in DOMAIN entries' /\ entries'[e] = entries[e]
  <2>1. entries' = EntriesAfter(p)
    BY AtCommit
  <2> QED BY <2>1 DEF EntriesAfter
<1>3. \A t : <<e, t>> \in links' <=> <<e, t>> \in links
  <2>1. cut[p] = {l \in links : l[1] = mine[p]} /\ links' = LinksAfter(p)
    BY AtCommit DEF Doomed
  <2> QED BY <2>1 DEF LinksAfter
<1>4. \A t : <<e, t>> \in links => t \in DOMAIN tags
  BY DEF PInv, IInv, ForeignKeys
<1>5. /\ {t \in DOMAIN tags' : <<e, t>> \in links'} = {t \in DOMAIN tags : <<e, t>> \in links}
      /\ {tags'[t].name : t \in {t \in DOMAIN tags : <<e, t>> \in links}}
            = {tags[t].name : t \in {t \in DOMAIN tags : <<e, t>> \in links}}
  BY <1>1, <1>3, <1>4
<1> QED BY <1>2, <1>5 DEF NotesView, TagsOf

\* The note that a create or an update writes.
Written(p) ==
    [user    |-> call[p].user,
     text    |-> call[p].text,
     created |-> IF mine[p] \in DOMAIN entries THEN entries[mine[p]].created ELSE start[p],
     updated |-> start[p],
     names   |-> {call[p].names[i] : i \in DOMAIN call[p].names}]

\* It is stored, and it is what the answer shows.
LEMMA NoteIs ==
    ASSUME PInv, NEW p \in Procs, Install(p), call[p].op \in {"create", "update"},
           NEW e, e = mine[p]
    PROVE  /\ DOMAIN entries' = DOMAIN entries \cup {e}
           /\ NotesView'[e] = Written(p)
           /\ reply[p] = [status |-> "ok", note |-> J!Shown(e, Written(p))]
<1>1. DOMAIN entries' = DOMAIN entries \cup {e} /\ entries'[e] = Row(p)
  BY AtCommit DEF EntriesAfter, Row
<1>2. {tags'[t].name : t \in {t \in DOMAIN tags' : <<e, t>> \in links'}} = Upserted(p)
  BY AtCommit, CarriesUpserted DEF PInv
<1>3. /\ Upserted(p) = {call[p].names[i] : i \in DOMAIN call[p].names}
      /\ reply[p] = [status |-> "ok", note |-> Note(mine[p], EntriesAfter(p)[mine[p]], Upserted(p))]
  BY AtCommit DEF ReplyOK
<1>4. /\ Row(p).user = Written(p).user /\ Row(p).text = Written(p).text
      /\ Row(p).created = Written(p).created /\ Row(p).updated = Written(p).updated
      /\ Upserted(p) = Written(p).names
  BY <1>3, AtCommit DEF Row, Written, EntryLockOK, OwnsEntry
<1>5. NotesView'[e] = [user |-> Row(p).user, text |-> Row(p).text, created |-> Row(p).created,
                       updated |-> Row(p).updated, names |-> Upserted(p)]
  BY <1>1, <1>2 DEF NotesView, TagsOf
<1>6. NotesView'[e] = Written(p)
  BY <1>4, <1>5 DEF Written
<1>7. EntriesAfter(p)[mine[p]] = Row(p)
  BY RowAfter
<1>8. Note(mine[p], EntriesAfter(p)[mine[p]], Upserted(p)) = J!Shown(e, Written(p))
  BY <1>4, <1>7 DEF Note, J!Shown
<1> QED BY <1>1, <1>3, <1>6, <1>8

\* The rows the upserts have made are the tags the names asked for lack.
LEMMA AddTagsIs ==
    ASSUME PInv, NEW p \in Procs, Install(p), call[p].op \in {"create", "update"}
    PROVE  J!AddTags(p)
<1> DEFINE new == {n \in J!Asked(p) : J!Carrying(p, n) = {}}
           ids == DOMAIN tags' \ DOMAIN tags
           name == [t \in ids |-> made[p][t]]
<1>1. /\ \A t \in DOMAIN made[p] : /\ TagsNamed(call[p].user, made[p][t]) = {}
                                   /\ t \notin DOMAIN tags
      /\ \A s, t \in DOMAIN made[p] : made[p][s] = made[p][t] => s = t
      /\ \A t \in hit[p] : OwnsTag(call[p].user, t)
  BY AtCommit DEF NameLockOK, TagLockOK
<1>2. DOMAIN tags' = DOMAIN tags \cup DOMAIN made[p] /\ ids = DOMAIN made[p]
  BY <1>1, AtCommit DEF TagsAfter
<1>3. tags' = [t \in DOMAIN tags \cup ids |->
                    IF t \in ids THEN [user |-> call[p].user, name |-> name[t]] ELSE tags[t]]
  BY <1>1, <1>2, AtCommit DEF TagsAfter
<1>4. Upserted(p) = J!Asked(p)
  BY AtCommit DEF ReplyOK, J!Asked
<1>5. \A n : J!Carrying(p, n) = TagsNamed(call[p].user, n)
  BY OwnIs DEF J!Carrying, OwnsTag, TagsNamed
<1>6. \A t \in ids : name[t] \in new
  BY <1>1, <1>2, <1>4, <1>5 DEF Upserted
<1>7. \A n \in new : \E t \in ids : name[t] = n
  <2> SUFFICES ASSUME NEW n \in new PROVE \E t \in ids : name[t] = n
    OBVIOUS
  <2>1. n \in Upserted(p) /\ TagsNamed(call[p].user, n) = {}
    BY <1>4, <1>5
  <2>2. \A t \in hit[p] : tags[t].name # n
    BY <1>1, <2>1 DEF OwnsTag, TagsNamed
  <2>3. PICK t \in DOMAIN made[p] : made[p][t] = n
    BY <2>1, <2>2 DEF Upserted
  <2> QED BY <1>2, <2>3
<1>8. name \in J!Bijection(ids, new)
  <2>1. name \in [ids -> new]
    BY <1>6
  <2>2. \A s, t \in ids : name[s] = name[t] => s = t
    BY <1>1, <1>2
  <2> HIDE DEF ids, new, name
  <2> QED BY <1>7, <2>1, <2>2 DEF J!Bijection, J!Injection, J!Surjection, J!IsInjective
<1> HIDE DEF new, ids, name
<1>9. \E nm \in J!Bijection(ids, new) :
          tags' = [t \in DOMAIN tags \cup ids |->
                    IF t \in ids THEN [user |-> call[p].user, name |-> nm[t]] ELSE tags[t]]
  BY <1>3, <1>8
<1> QED BY <1>9, Zenon DEF J!AddTags, new, ids

\* A create or an update writes its note.
LEMMA WriteIs ==
    ASSUME PInv, NEW p \in Procs, Install(p), Ends(p), call[p].op \in {"create", "update"},
           NEW e, e = mine[p]
    PROVE  J!Write(p, e)
<1>1. start[p] \in StampView[p]
  BY AtCommit DEF StampView
<1>2. DOMAIN NotesView = DOMAIN entries /\ DOMAIN NotesView' = DOMAIN entries'
  BY DEF NotesView
<1>3. NotesView' = [x \in DOMAIN NotesView \cup {e} |-> IF x = e THEN Written(p) ELSE NotesView[x]]
  <2>1. DOMAIN NotesView' = DOMAIN NotesView \cup {e} /\ NotesView'[e] = Written(p)
    BY <1>2, NoteIs
  <2>2. \A x \in DOMAIN NotesView : x # e => NotesView'[x] = NotesView[x]
    BY <1>2, OtherNotes
  <2>3. NotesView' = [x \in DOMAIN NotesView' |-> NotesView'[x]]
    BY DEF NotesView
  <2> QED BY <2>1, <2>2, <2>3
<1>4. J!Done(p, [status |-> "ok", note |-> J!Shown(e, Written(p))])
  <2>1. Given(reply[p]) = reply[p] /\ reply[p] = [status |-> "ok", note |-> J!Shown(e, Written(p))]
    <3>1. reply[p] = [status |-> "ok", note |-> J!Shown(e, Written(p))]
      BY NoteIs
    <3> QED BY <3>1, GivenIs
  <2>2. J!Done(p, Given(reply[p]))
    BY DoneIs
  <2> QED BY <2>1, <2>2
<1>5. Written(p) = [user    |-> call[p].user,
                    text    |-> call[p].text,
                    created |-> IF e \in DOMAIN NotesView THEN NotesView[e].created ELSE start[p],
                    updated |-> start[p],
                    names   |-> J!Asked(p)]
  <2>1. e \in DOMAIN entries => NotesView[e].created = entries[e].created
    BY DEF NotesView
  <2> QED BY <1>2, <2>1 DEF Written, J!Asked
<1> HIDE DEF J!Write
<1> QED BY <1>1, <1>3, <1>4, <1>5, AddTagsIs DEF J!Write

\* A commit that writes a note is a create or an update of the Journal.
LEMMA CreateUpdateIs ==
    ASSUME PInv, NEW p \in Procs, Install(p), Ends(p), call[p].op \in {"create", "update"}
    PROVE  J!Create(p) \/ J!Update(p)
<1>1. EntryLockOK(p) /\ pc[p] = "commit"
  BY AtCommit
<1>2. J!Write(p, mine[p])
  BY WriteIs
<1>3. CASE call[p].op = "create"
  <2>1. mine[p] \in DOMAIN NotesView' \ DOMAIN NotesView
    <3>1. mine[p] \notin DOMAIN entries
      BY <1>1, <1>3 DEF EntryLockOK
    <3>2. DOMAIN entries' = DOMAIN entries \cup {mine[p]}
      BY NoteIs
    <3> QED BY <3>1, <3>2 DEF NotesView
  <2> QED BY <1>2, <1>3, <2>1 DEF J!Create
<1>4. CASE call[p].op = "update"
  <2>1. mine[p] = call[p].id /\ OwnsEntry(call[p].user, mine[p])
    BY <1>1, <1>4 DEF EntryLockOK
  <2> QED BY <1>2, <1>4, <2>1, OwnIs DEF J!Update
<1> QED BY <1>3, <1>4

\* The commit of a delete is a delete of the Journal.
LEMMA DeleteIs ==
    ASSUME PInv, NEW p \in Procs, Install(p), Ends(p), call[p].op = "delete"
    PROVE  J!Delete(p)
<1>1. mine[p] = call[p].id /\ OwnsEntry(call[p].user, mine[p])
  BY AtCommit DEF EntryLockOK
<1>2. tags' = tags
  <2>1. DOMAIN made[p] = {} /\ tags' = TagsAfter(p)
    BY AtCommit DEF NameLockOK
  <2>2. tags = [t \in DOMAIN tags |-> tags[t]]
    BY DEF PInv, Finite
  <2> QED BY <2>1, <2>2 DEF TagsAfter
<1>3. NotesView' = [x \in DOMAIN NotesView \ {call[p].id} |-> NotesView[x]]
  <2>1. DOMAIN NotesView' = DOMAIN NotesView \ {call[p].id} /\ DOMAIN NotesView = DOMAIN entries
    BY <1>1, AtCommit DEF NotesView, EntriesAfter
  <2>2. \A x \in DOMAIN NotesView : x # call[p].id => NotesView'[x] = NotesView[x]
    BY <1>1, <2>1, OtherNotes
  <2>3. NotesView' = [x \in DOMAIN NotesView' |-> NotesView'[x]]
    BY DEF NotesView
  <2> QED BY <2>1, <2>2, <2>3
<1>4. J!Done(p, [status |-> "ok"])
  <2>1. reply[p] = [status |-> "ok"]
    BY AtCommit DEF ReplyOK
  <2> QED BY <2>1, DoneIs, GivenIs
<1> QED BY <1>1, <1>2, <1>3, <1>4, OwnIs DEF J!Delete

\* A rename commits by writing its tag under the new name, or not at all when the tag has it.
LEMMA RenamedTags ==
    ASSUME PInv, NEW p \in Procs, Install(p), call[p].op = "rename"
    PROVE  /\ OwnsTag(call[p].user, call[p].id)
           /\ TagsNamed(call[p].user, call[p].name) \subseteq {call[p].id}
           /\ tags' = [tags EXCEPT ![call[p].id].name = call[p].name]
           /\ links' = links /\ entries' = entries
<1>1. /\ hit[p] = {call[p].id} /\ mine[p] = 0
      /\ OwnsTag(call[p].user, call[p].id)
      /\ \A t \in DOMAIN made[p] : TagsNamed(call[p].user, made[p][t]) = {}
      /\ \/ DOMAIN made[p] = {call[p].id} /\ made[p][call[p].id] = call[p].name
         \/ DOMAIN made[p] = {} /\ tags[call[p].id].name = call[p].name
  BY AtCommit DEF TagLockOK, EntryLockOK, NameLockOK, ReplyOK
<1>2. /\ tags \in [DOMAIN tags -> [user: Users, name: Names]]
      /\ \A r, s \in DOMAIN tags : tags[r] = tags[s] => r = s
      /\ links \subseteq Nat \X Nat /\ \A l \in links : l[1] > 0
  BY DEF PInv, Finite, IInv, TypeOK, ForeignKeys, UniqueNames, Drawn
<1>3. TagsNamed(call[p].user, call[p].name) \subseteq {call[p].id}
  BY <1>1, <1>2 DEF TagsNamed, OwnsTag
<1>4. tags' = [tags EXCEPT ![call[p].id].name = call[p].name]
  <2>1. tags' = [t \in DOMAIN tags \cup DOMAIN made[p] |->
                    IF t \in DOMAIN made[p] THEN [user |-> call[p].user, name |-> made[p][t]]
                    ELSE tags[t]]
    BY AtCommit DEF TagsAfter
  <2>2. \A t \in DOMAIN tags : tags[t] = [user |-> tags[t].user, name |-> tags[t].name]
    BY <1>2
  <2>3. DOMAIN tags' = DOMAIN tags
    BY <1>1, <2>1 DEF OwnsTag
  <2>4. \A t \in DOMAIN tags : t # call[p].id => tags'[t] = tags[t]
    BY <1>1, <2>1
  <2>5. tags'[call[p].id] = [tags[call[p].id] EXCEPT !.name = call[p].name]
    BY <1>1, <2>1, <2>2 DEF OwnsTag
  <2>6. tags' = [t \in DOMAIN tags' |-> tags'[t]]
    BY <2>1
  <2> QED BY <1>2, <2>3, <2>4, <2>5, <2>6
<1>5. links' = links /\ entries' = entries
  <2>1. cut[p] = {}
    <3>1. cut[p] = Doomed(p)
      BY AtCommit
    <3>2. Doomed(p) = {l \in links : l[1] = 0}
      BY <1>1 DEF Doomed
    <3> QED BY <1>2, <3>1, <3>2
  <2> QED BY <2>1, AtCommit DEF LinksAfter, EntriesAfter
<1> QED BY <1>1, <1>3, <1>4, <1>5

\* What a rename or a drop of a tag does to the notes, given what it does to the tags of each.
LEMMA RelabelledIs ==
    ASSUME IInv, NEW p \in Procs, OwnsTag(call[p].user, call[p].id), entries' = entries, NEW new,
           \A e \in DOMAIN entries :
                {tags'[t].name : t \in TagsOf(e)'}
                    = {tags[t].name : t \in TagsOf(e) \ {call[p].id}}
                      \cup (IF call[p].id \in TagsOf(e) THEN new ELSE {})
    PROVE  NotesView' = J!Relabelled(p, tags[call[p].id].name, new)
<1> DEFINE id == call[p].id
           N(e) == {tags[t].name : t \in TagsOf(e)}
           M(e) == {tags'[t].name : t \in TagsOf(e)'}
           R == J!Relabelled(p, tags[id].name, new)
<1>1. /\ id \in DOMAIN tags /\ tags[id].user = call[p].user
  BY DEF OwnsTag
<1>2. /\ DOMAIN NotesView = DOMAIN entries /\ DOMAIN NotesView' = DOMAIN entries
      /\ \A e \in DOMAIN entries :
            /\ NotesView[e] = [user |-> entries[e].user, text |-> entries[e].text,
                               created |-> entries[e].created, updated |-> entries[e].updated,
                               names |-> N(e)]
            /\ NotesView'[e] = [user |-> entries[e].user, text |-> entries[e].text,
                                created |-> entries[e].created, updated |-> entries[e].updated,
                                names |-> M(e)]
  BY DEF NotesView
<1>3. \A e \in DOMAIN entries :
        id \in TagsOf(e) <=> J!OwnNote(p, e) /\ tags[id].name \in NotesView[e].names
  BY <1>1, <1>2, CarriesIs DEF J!OwnNote
<1>4. ASSUME NEW e \in DOMAIN entries PROVE NotesView'[e] = R[e]
  <2>1. M(e) = {tags[t].name : t \in TagsOf(e) \ {id}}
               \cup (IF id \in TagsOf(e) THEN new ELSE {})
    OBVIOUS
  <2>2. CASE id \in TagsOf(e)
    <3>1. {tags[t].name : t \in TagsOf(e) \ {id}} = N(e) \ {tags[id].name}
      BY <1>1, <2>2, CarriesIs
    <3>2. M(e) = (NotesView[e].names \ {tags[id].name}) \cup new
      <4>1. NotesView[e].names = N(e)
        BY <1>2
      <4>2. M(e) = {tags[t].name : t \in TagsOf(e) \ {id}} \cup new
        BY <2>1, <2>2
      <4> QED BY <3>1, <4>1, <4>2
    <3>3. R[e] = [NotesView[e] EXCEPT !.names = (@ \ {tags[id].name}) \cup new]
      BY <1>2, <1>3, <2>2 DEF J!Relabelled
    <3> HIDE DEF R, M, N
    <3> QED BY <1>2, <3>2, <3>3
  <2>3. CASE id \notin TagsOf(e)
    <3>1. TagsOf(e) \ {id} = TagsOf(e)
      BY <2>3
    <3>2. M(e) = N(e)
      BY <2>1, <2>3, <3>1
    <3>3. R[e] = NotesView[e]
      BY <1>2, <1>3, <2>3 DEF J!Relabelled
    <3> HIDE DEF R, M, N
    <3> QED BY <1>2, <3>2, <3>3
  <2> QED BY <2>2, <2>3
<1>5. NotesView' = [e \in DOMAIN entries |-> NotesView'[e]]
  BY <1>2 DEF NotesView
<1>6. R = [e \in DOMAIN entries |-> R[e]]
  BY <1>2 DEF J!Relabelled
<1> HIDE DEF R
<1>7. NotesView' = R
  BY <1>4, <1>5, <1>6, Zenon
<1> QED BY <1>7 DEF R

\* The commit of a rename is a rename of the Journal: every note of the user that carried
\* the old name carries the new one.
LEMMA RenameIs ==
    ASSUME PInv, NEW p \in Procs, Install(p), Ends(p), call[p].op = "rename"
    PROVE  J!Rename(p)
<1> DEFINE id == call[p].id
<1>1. /\ OwnsTag(call[p].user, id) /\ TagsNamed(call[p].user, call[p].name) \subseteq {id}
      /\ tags' = [tags EXCEPT ![id].name = call[p].name]
      /\ links' = links /\ entries' = entries
  BY RenamedTags
<1>2. J!Carrying(p, call[p].name) \subseteq {id}
  BY <1>1, OwnIs DEF J!Carrying, OwnsTag, TagsNamed
<1>3. NotesView' = J!Relabelled(p, tags[id].name, {call[p].name})
  <2>1. ASSUME NEW e \in DOMAIN entries
        PROVE  {tags'[t].name : t \in TagsOf(e)'}
                    = {tags[t].name : t \in TagsOf(e) \ {id}}
                      \cup (IF id \in TagsOf(e) THEN {call[p].name} ELSE {})
    <3>1. TagsOf(e)' = TagsOf(e) /\ TagsOf(e) \subseteq DOMAIN tags
      BY <1>1 DEF TagsOf
    <3>2. /\ \A t \in TagsOf(e) \ {id} : tags'[t].name = tags[t].name
          /\ id \in TagsOf(e) => tags'[id].name = call[p].name
      <4>1. /\ \A t \in DOMAIN tags \ {id} : tags'[t] = tags[t]
            /\ tags'[id] = [tags[id] EXCEPT !.name = call[p].name]
        BY <1>1 DEF OwnsTag
      <4>2. tags[id] \in [user: Users, name: Names]
        BY <1>1 DEF PInv, IInv, TypeOK, OwnsTag
      <4> QED BY <3>1, <4>1, <4>2
    <3> QED BY <3>1, <3>2
  <2>2. IInv
    BY DEF PInv
  <2> QED BY <1>1, <2>1, <2>2, RelabelledIs
<1>4. J!Done(p, [status |-> "ok", tag |-> [id |-> id, name |-> call[p].name]])
  <2>1. reply[p] = [status |-> "ok",
                    tag    |-> [id |-> id, name |-> call[p].name, count |-> seen[p]]]
    BY AtCommit DEF ReplyOK
  <2>2. Given(reply[p]) = [status |-> "ok", tag |-> [id |-> id, name |-> call[p].name]]
    BY <2>1, GivenIs
  <2> QED BY <2>2, DoneIs
<1> QED BY <1>1, <1>2, <1>3, <1>4, OwnIs DEF J!Rename

\* The commit of the deletion of a tag takes its name off every note of the user.
LEMMA DropIs ==
    ASSUME PInv, NEW p \in Procs, Install(p), Ends(p), call[p].op = "drop"
    PROVE  J!Drop(p)
<1> DEFINE id == call[p].id
<1>1. /\ hit[p] = {id} /\ OwnsTag(call[p].user, id) /\ DOMAIN made[p] = {}
      /\ cut[p] = {l \in links : l[2] = id}
  BY AtCommit DEF TagLockOK, NameLockOK, Doomed
<1>2. /\ tags' = [t \in DOMAIN tags \ {id} |-> tags[t]]
      /\ links' = {l \in links : l[2] # id} /\ entries' = entries
  <2>1. links' = links \ cut[p]
    BY AtCommit DEF LinksAfter
  <2>2. tags' = [t \in DOMAIN tags \ {id} |-> tags[t]]
    <3>1. tags' = TagsAfter(p)
      BY AtCommit
    <3> HIDE DEF id
    <3> QED BY <1>1, <3>1 DEF TagsAfter
  <2>3. entries' = entries
    BY AtCommit DEF EntriesAfter
  <2> QED BY <1>1, <2>1, <2>2, <2>3
<1>3. NotesView' = J!Relabelled(p, tags[id].name, {})
  <2>1. ASSUME NEW e \in DOMAIN entries
        PROVE  {tags'[t].name : t \in TagsOf(e)'}
                    = {tags[t].name : t \in TagsOf(e) \ {id}}
                      \cup (IF id \in TagsOf(e) THEN {} ELSE {})
    <3>1. TagsOf(e)' = TagsOf(e) \ {id}
      BY <1>2 DEF TagsOf
    <3>2. \A t \in TagsOf(e) \ {id} : tags'[t].name = tags[t].name
      BY <1>2 DEF TagsOf
    <3> QED BY <3>1, <3>2
  <2>2. IInv
    BY DEF PInv
  <2> QED BY <1>1, <1>2, <2>1, <2>2, RelabelledIs
<1>4. J!Done(p, [status |-> "ok"])
  <2>1. reply[p] = [status |-> "ok"]
    BY AtCommit DEF ReplyOK
  <2> QED BY <2>1, DoneIs, GivenIs
<1> QED BY <1>1, <1>2, <1>3, <1>4, OwnIs DEF J!Drop

\* A commit takes effect as one step of the Journal, whether its answer arrives or not.
LEMMA CommitIs ==
    ASSUME PInv, NEW p \in Procs, Commit(p) \/ CommitLost(p)
    PROVE  J!Create(p) \/ J!Update(p) \/ J!Delete(p) \/ J!Rename(p) \/ J!Drop(p)
<1>1. Install(p) /\ Ends(p)
  BY DEF Commit, CommitLost, Ends
<1>2. call[p].op \in {"create", "update", "delete", "rename", "drop"}
  BY <1>1, AtCommit DEF PInv, IInv, WriteSetOK, HandlerOK
<1> QED BY <1>1, <1>2, CreateUpdateIs, DeleteIs, RenameIs, DropIs

-----------------------------------------------------------------------------
(* The refinement. *)

\* An empty database is an empty journal.
LEMMA InitIs == Init => J!Init
<1> SUFFICES ASSUME Init PROVE J!Init
  OBVIOUS
<1>1. NotesView = [e \in {} |-> ""] /\ tags = [t \in {} |-> ""] /\ clock = 0
  BY DEF Init, NotesView
<1>2. call = [p \in Procs |-> J!NoCall] /\ StampView = [p \in Procs |-> {}]
  BY DEF Init, StampView, NoCall, J!NoCall
<1>3. AnswerView = [p \in Procs |-> [status |-> "none"]]
  BY DEF Init, AnswerView
<1> QED BY <1>1, <1>2, <1>3 DEF J!Init

\* Every step is a step of the Journal or leaves it as it is.
LEMMA NextIs ==
    ASSUME PInv, [Next]_vars
    PROVE  [J!Next]_(J!vars)
<1>1. IInv /\ IsFiniteSet(links)
  BY DEF PInv, Finite
<1>2. CASE UNCHANGED vars
  BY <1>2, StutterIs
<1>3. CASE Tick
  BY <1>3, TickIs DEF J!Next
<1>4. ASSUME NEW p \in Procs, Call(p) \/ Inner(p) PROVE [J!Next]_(J!vars)
  <2>1. J!Ask(p) \/ J!Date(p) \/ UNCHANGED J!vars
    BY <1>1, <1>4, InnerIs
  <2> QED BY <2>1 DEF J!Next
<1>5. ASSUME NEW p \in Procs,
             EntryMissing(p) \/ TagMissing(p) \/ NameConflict(p) \/ Fail(p) \/ DeadlockAbort(p)
      PROVE  J!Next
  <2>1. J!NoNote(p) \/ J!NoTag(p) \/ J!Conflict(p) \/ J!Break(p)
    BY <1>1, <1>5, RefusalIs
  <2> QED BY <2>1 DEF J!Next
<1>6. ASSUME NEW p \in Procs, GetEntry(p) \/ ListEntries(p) \/ ListTags(p) PROVE J!Next
  <2>1. J!Get(p) \/ J!NoNote(p) \/ J!List(p) \/ J!Tags(p)
    BY <1>1, <1>6, ReadIs
  <2> QED BY <2>1 DEF J!Next
<1>7. ASSUME NEW p \in Procs, Commit(p) \/ CommitLost(p) PROVE J!Next
  <2>1. J!Create(p) \/ J!Update(p) \/ J!Delete(p) \/ J!Rename(p) \/ J!Drop(p)
    BY <1>7, CommitIs
  <2> QED BY <2>1 DEF J!Next
<1> QED BY <1>2, <1>3, <1>4, <1>5, <1>6, <1>7 DEF Next, Step, Inner

\* The entries and tags services implement the Journal: every call takes effect at one
\* instant between the request and the answer, or not at all, for any number of requests
\* served at once, any calls and any users.
THEOREM ImplementsJournal == Spec => JournalSpec
<1>1. Init => J!Init
  BY InitIs
<1>2. PInv /\ [Next]_vars => [J!Next]_(J!vars)
  BY NextIs
<1> QED BY <1>1, <1>2, Promise, PTL DEF Spec, JournalSpec, J!Spec

================================================================================

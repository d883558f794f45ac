-------------------------- MODULE EntryStoreProofs --------------------------
(***************************************************************************)
(* Theorems about EntryStore, for every number of requests, users, names   *)
(* and calls.                                                              *)
(***************************************************************************)
EXTENDS EntryStoreSafety, TLAPS

-----------------------------------------------------------------------------
(* Type correctness. *)

\* A call that is not idle has the fields of a request.
LEMMA CallFields ==
    ASSUME NEW c \in Calls
    PROVE  /\ c.op \in Ops /\ c.user \in Users /\ c.id \in Nat /\ c.text \in Texts
           /\ c.names \in Seq(Names) /\ c.name \in Names
BY CallsAssumption DEF CallType

\* uniqueTags keeps positions of the list.
LEMMA UniqueTagsType ==
    ASSUME NEW ns \in Seq(Names)
    PROVE  UniqueTags(ns) \subseteq DOMAIN ns \cap Nat
<1>1. DOMAIN ns = 1..Len(ns)
  OBVIOUS
<1> QED BY <1>1 DEF UniqueTags

\* The empty database and idle processes are well typed.
LEMMA InitType == Init => TypeOK
BY DEF Init, TypeOK, NoRows, NoCall

\* Ending a request keeps the types, if the tables and the rest keep theirs.
LEMMA AnswerType ==
    ASSUME TypeOK, NEW p \in Procs, NEW r, Answer(p, r)
    PROVE  /\ pc' \in [Procs -> {"idle", "begin", "entry", "tags", "commit", "erase",
                                 "look", "relabel", "key", "detach", "read"}]
           /\ DOMAIN call' = Procs
           /\ \A q \in Procs : IF pc'[q] = "idle" THEN call'[q] = NoCall ELSE call'[q] \in Calls
           /\ start' \in [Procs -> Nat] /\ mine' \in [Procs -> Nat]
           /\ DOMAIN seen' = Procs
           /\ hit' \in [Procs -> SUBSET Nat]
           /\ cut' \in [Procs -> SUBSET (Nat \X Nat)]
           /\ todo' \in [Procs -> SUBSET Nat]
           /\ \A q \in Procs :
                pc'[q] = "tags" => todo'[q] \subseteq DOMAIN call'[q].names
           /\ DOMAIN made' = Procs
           /\ \A q \in Procs : /\ DOMAIN made'[q] \subseteq Nat
                               /\ \A t \in DOMAIN made'[q] : made'[q][t] \in Names
           /\ DOMAIN reply' = Procs
BY DEF Answer, TypeOK, NoRows

\* A rollback keeps the types.
LEMMA RefuseType ==
    ASSUME TypeOK, NEW p \in Procs, NEW s, Refuse(p, s)
    PROVE  TypeOK'
BY AnswerType DEF Refuse, TypeOK, tables, seqs, bounds

\* The tables a commit leaves are well typed.
LEMMA InstallType ==
    ASSUME TypeOK, NEW p \in Procs, EntryLockOK(p), Install(p)
    PROVE  /\ DOMAIN entries' \subseteq Nat
           /\ \A e \in DOMAIN entries' :
                entries'[e] \in [user: Users, text: Texts, created: Nat, updated: Nat]
           /\ DOMAIN tags' \subseteq Nat
           /\ \A t \in DOMAIN tags' : tags'[t] \in [user: Users, name: Names]
           /\ links' \subseteq Nat \X Nat
<1> USE DEF TypeOK
<1>1. call[p] \in Calls /\ pc[p] = "commit"
  BY DEF Install
<1>2. call[p].user \in Users /\ call[p].text \in Texts
  BY <1>1, CallFields
<1>3. /\ DOMAIN entries' \subseteq Nat
      /\ \A e \in DOMAIN entries' :
            entries'[e] \in [user: Users, text: Texts, created: Nat, updated: Nat]
  <2>1. CASE call[p].op = "create"
    BY <1>2, <2>1 DEF Install, EntriesAfter
  <2>2. CASE call[p].op = "update"
    <3>1. entries[mine[p]] \in [user: Users, text: Texts, created: Nat, updated: Nat]
      BY <1>1, <2>2 DEF EntryLockOK, OwnsEntry
    <3> QED BY <1>2, <2>2, <3>1 DEF Install, EntriesAfter
  <2>3. CASE call[p].op = "delete"
    BY <2>3 DEF Install, EntriesAfter
  <2>4. CASE call[p].op \notin {"create", "update", "delete"}
    BY <2>4 DEF Install, EntriesAfter
  <2> QED BY <2>1, <2>2, <2>3, <2>4
<1>4. /\ DOMAIN tags' \subseteq Nat
      /\ \A t \in DOMAIN tags' : tags'[t] \in [user: Users, name: Names]
  BY <1>2 DEF Install, TagsAfter
<1>5. links' \subseteq Nat \X Nat
  BY DEF Install, LinksAfter
<1> QED BY <1>3, <1>4, <1>5

\* Every step keeps the types; it needs what IInv says of the write sets.
LEMMA TypeStep ==
    ASSUME TypeOK, \A p \in Procs : EntryLockOK(p), [Next]_vars
    PROVE  TypeOK'
<1> USE DEF TypeOK, tables, seqs, bounds, writeSet, scratch
<1>1. ASSUME NEW p \in Procs, Call(p) PROVE TypeOK'
  <2>1. \A c \in Calls : FirstStep(c.op) \in {"begin", "erase", "look", "detach", "read"}
    BY DEF FirstStep
  <2> QED BY <1>1, <2>1 DEF Call
<1>2. ASSUME NEW p \in Procs, Begin(p) PROVE TypeOK'
  BY <1>2 DEF Begin
<1>3. ASSUME NEW p \in Procs, InsertEntry(p) PROVE TypeOK'
  <2>1. UniqueTags(call[p].names) \subseteq DOMAIN call[p].names \cap Nat
    BY <1>3, CallFields, UniqueTagsType DEF InsertEntry
  <2> QED BY <1>3, <2>1 DEF InsertEntry, WroteEntry
<1>4. ASSUME NEW p \in Procs, UpdateEntry(p) PROVE TypeOK'
  <2>1. UniqueTags(call[p].names) \subseteq DOMAIN call[p].names \cap Nat
    BY <1>4, CallFields, UniqueTagsType DEF UpdateEntry
  <2>2. call[p].id \in Nat
    BY <1>4, CallFields DEF UpdateEntry
  <2> QED BY <1>4, <2>1, <2>2 DEF UpdateEntry, WroteEntry
<1>5. ASSUME NEW p \in Procs, EntryMissing(p) PROVE TypeOK'
  BY <1>5, RefuseType DEF EntryMissing
<1>6. ASSUME NEW p \in Procs, CutLink(p) PROVE TypeOK'
  BY <1>6 DEF CutLink, Doomed
<1>7. ASSUME NEW p \in Procs, TakeTag(p) PROVE TypeOK'
  BY <1>7 DEF TakeTag, TagsNamed
<1>8. ASSUME NEW p \in Procs, MakeTag(p) PROVE TypeOK'
  <2>1. PICK i \in todo[p] :
            /\ made' = [made EXCEPT ![p] =
                  [t \in DOMAIN @ \cup {tagSeq} |->
                      IF t = tagSeq THEN call[p].names[i] ELSE @[t]]]
            /\ todo' = [todo EXCEPT ![p] = @ \ {i}]
    BY <1>8 DEF MakeTag
  <2>2. call[p].names[i] \in Names
    <3>1. call[p].names \in Seq(Names) /\ i \in DOMAIN call[p].names
      BY <1>8, CallFields DEF MakeTag
    <3> QED BY <3>1
  <2> QED BY <1>8, <2>1, <2>2 DEF MakeTag
<1>9. ASSUME NEW p \in Procs, ReadBack(p) PROVE TypeOK'
  BY <1>9 DEF ReadBack
<1>10. ASSUME NEW p \in Procs, EraseEntry(p) PROVE TypeOK'
  BY <1>10, CallFields DEF EraseEntry
<1>11. ASSUME NEW p \in Procs, DetachTag(p) PROVE TypeOK'
  BY <1>11, CallFields DEF DetachTag
<1>12. ASSUME NEW p \in Procs, LookAtTag(p) PROVE TypeOK'
  BY <1>12 DEF LookAtTag
<1>13. ASSUME NEW p \in Procs, RelabelTag(p) PROVE TypeOK'
  BY <1>13, CallFields DEF RelabelTag
<1>14. ASSUME NEW p \in Procs, TagMissing(p) PROVE TypeOK'
  BY <1>14, RefuseType DEF TagMissing
<1>15. ASSUME NEW p \in Procs, KeepName(p) PROVE TypeOK'
  BY <1>15 DEF KeepName, Renamed
<1>16. ASSUME NEW p \in Procs, ClaimName(p) PROVE TypeOK'
  BY <1>16, CallFields DEF ClaimName, Renamed
<1>17. ASSUME NEW p \in Procs, NameConflict(p) PROVE TypeOK'
  BY <1>17, RefuseType DEF NameConflict
<1>18. ASSUME NEW p \in Procs, GetEntry(p) \/ ListEntries(p) \/ ListTags(p) PROVE TypeOK'
  <2>1. PICK r : ReadRow(p, r)
    BY <1>18 DEF GetEntry, ListEntries, ListTags
  <2> QED BY <2>1, AnswerType DEF ReadRow
<1>19. ASSUME NEW p \in Procs, NEW r, Install(p), Answer(p, r) PROVE TypeOK'
  <2>1. UNCHANGED <<seqs, bounds>>
    BY <1>19 DEF Install
  <2> QED BY <1>19, <2>1, AnswerType, InstallType
<1>20. CASE UNCHANGED vars
  BY <1>20 DEF vars
<1>21. CASE Tick
  BY <1>21 DEF Tick
<1> QED
  BY <1>1, <1>2, <1>3, <1>4, <1>5, <1>6, <1>7, <1>8, <1>9, <1>10, <1>11, <1>12,
     <1>13, <1>14, <1>15, <1>16, <1>17, <1>18, <1>19, <1>20, <1>21, RefuseType
     DEF Next, Step, Commit, CommitLost, Fail, DeadlockAbort

-----------------------------------------------------------------------------
(* The inductive invariant. *)

\* The invariant holds initially: no row, no lock.
LEMMA InitInv == Init => IInv
<1> SUFFICES ASSUME Init PROVE IInv
  OBVIOUS
<1>1. TypeOK
  BY InitType
<1>2. Drawn /\ ForeignKeys /\ LinksSameOwner /\ UniqueNames
  BY DEF Init, Drawn, ForeignKeys, LinksSameOwner, UniqueNames
<1>3. ASSUME NEW p \in Procs PROVE WriteSetOK(p)
  BY DEF Init, NoRows, WriteSetOK, HandlerOK, EntryLockOK, TagLockOK, NameLockOK,
         LinkLockOK, Untouched
<1>4. ASSUME NEW p \in Procs, NEW q \in Procs PROVE Exclusive(p, q)
  BY DEF Init, NoRows, Exclusive
<1> QED BY <1>1, <1>2, <1>3, <1>4 DEF IInv

\* Exclusive is symmetric.
LEMMA ExclusiveSymmetric ==
    ASSUME NEW p, NEW q, Exclusive(p, q)
    PROVE  Exclusive(q, p)
BY DEF Exclusive

\* What a process keeps while another one takes a step that commits nothing.
Still(q) ==
    /\ pc'[q] = pc[q] /\ call'[q] = call[q] /\ mine'[q] = mine[q]
    /\ hit'[q] = hit[q] /\ made'[q] = made[q] /\ cut'[q] = cut[q]

\* A step of another process that leaves the tables alone keeps a write set sound.
LEMMA StillOK ==
    ASSUME IInv, NEW q \in Procs, Still(q), UNCHANGED tables,
           entrySeq' \in Nat, entrySeq <= entrySeq', tagSeq' \in Nat, tagSeq <= tagSeq'
    PROVE  WriteSetOK(q)'
<1> USE DEF IInv, TypeOK, tables, Still, WriteSetOK
<1>1. HandlerOK(q)'
  BY DEF HandlerOK, Untouched
<1>2. EntryLockOK(q)'
  BY DEF EntryLockOK, OwnsEntry
<1>3. TagLockOK(q)'
  BY DEF TagLockOK, OwnsTag
<1>4. NameLockOK(q)'
  BY DEF NameLockOK, TagsNamed
<1>5. LinkLockOK(q)'
  BY DEF LinkLockOK, Doomed
<1> QED BY <1>1, <1>2, <1>3, <1>4, <1>5

\* A step of p that commits nothing preserves the invariant if it leaves p
\* with a sound write set that meets no other.
LEMMA LocalStep ==
    ASSUME IInv, NEW p \in Procs, TypeOK', UNCHANGED tables,
           entrySeq <= entrySeq', tagSeq <= tagSeq',
           \A q \in Procs \ {p} : Still(q),
           WriteSetOK(p)',
           \A q \in Procs \ {p} : Exclusive(p, q)'
    PROVE  IInv'
<1>1. Drawn'
  BY DEF IInv, TypeOK, Drawn, tables
<1>2. ForeignKeys' /\ LinksSameOwner' /\ UniqueNames'
  BY DEF IInv, ForeignKeys, LinksSameOwner, UniqueNames, tables
<1>3. ASSUME NEW q \in Procs PROVE WriteSetOK(q)'
  BY StillOK DEF TypeOK
<1>4. ASSUME NEW q \in Procs, NEW r \in Procs, q # r PROVE Exclusive(q, r)'
  <2>1. CASE q # p /\ r # p
    BY <1>4, <2>1 DEF IInv, Exclusive, Still
  <2>2. CASE q = p
    BY <1>4, <2>2
  <2>3. CASE r = p
    <3>1. Exclusive(p, q)'
      BY <1>4, <2>3
    <3> QED BY <3>1, <2>3 DEF Exclusive
  <2> QED BY <2>1, <2>2, <2>3
<1> QED BY <1>1, <1>2, <1>3, <1>4 DEF IInv

\* Ending a request without a commit preserves the invariant.
LEMMA AnswerInv ==
    ASSUME IInv, TypeOK', NEW p \in Procs, NEW r, Answer(p, r), UNCHANGED <<tables, seqs>>
    PROVE  IInv'
<1> USE DEF IInv, TypeOK
<1>1. UNCHANGED tables /\ entrySeq <= entrySeq' /\ tagSeq <= tagSeq'
  BY DEF seqs
<1>2. \A q \in Procs \ {p} : Still(q)
  BY DEF Answer, Still
<1>3. /\ pc'[p] = "idle" /\ mine'[p] = 0 /\ hit'[p] = {} /\ made'[p] = NoRows
      /\ cut'[p] = {}
  BY DEF Answer
<1>4. WriteSetOK(p)'
  BY <1>3 DEF WriteSetOK, HandlerOK, EntryLockOK, TagLockOK, NameLockOK, LinkLockOK,
              Untouched, NoRows
<1>5. \A q \in Procs \ {p} : Exclusive(p, q)'
  BY <1>3 DEF Exclusive, NoRows
<1> QED BY <1>1, <1>2, <1>4, <1>5, LocalStep

\* A rollback preserves the invariant.
LEMMA RefuseInv ==
    ASSUME IInv, TypeOK', NEW p \in Procs, NEW s, Refuse(p, s)
    PROVE  IInv'
BY AnswerInv DEF Refuse

\* A request that arrives has written nothing.
LEMMA CallInv ==
    ASSUME IInv, TypeOK', NEW p \in Procs, Call(p)
    PROVE  IInv'
<1> USE DEF IInv, TypeOK, Call, writeSet, tables, seqs, scratch
<1>1. PICK c \in Calls : call' = [call EXCEPT ![p] = c]
                        /\ pc' = [pc EXCEPT ![p] = FirstStep(c.op)]
  OBVIOUS
<1>2. \A q \in Procs \ {p} : Still(q)
  BY <1>1 DEF Still
<1>3. Untouched(p)'
  BY DEF WriteSetOK, HandlerOK, Untouched
<1>4. WriteSetOK(p)'
  <2>1. c.op \in Ops
    BY CallFields
  <2>2. /\ pc'[p] \in {"begin", "erase", "look", "detach", "read"}
        /\ call'[p] = c
    BY <1>1 DEF FirstStep
  <2>3. HandlerOK(p)'
    BY <1>1, <1>3, <2>1, <2>2 DEF HandlerOK, FirstStep, Ops
  <2>4. EntryLockOK(p)' /\ TagLockOK(p)' /\ NameLockOK(p)' /\ LinkLockOK(p)'
    BY <1>3, <2>2 DEF EntryLockOK, TagLockOK, NameLockOK, LinkLockOK, Untouched
  <2> QED BY <2>3, <2>4 DEF WriteSetOK
<1>5. \A q \in Procs \ {p} : Exclusive(p, q)'
  BY <1>3 DEF Exclusive, Untouched
<1>9. UNCHANGED tables /\ entrySeq <= entrySeq' /\ tagSeq <= tagSeq'
  OBVIOUS
<1> HIDE DEF IInv, TypeOK
<1> QED BY <1>2, <1>4, <1>5, <1>9, LocalStep

\* Begin and LookAtTag: the handler moves on and has written nothing yet.
LEMMA BeginInv ==
    ASSUME IInv, TypeOK', NEW p \in Procs, Begin(p) \/ LookAtTag(p)
    PROVE  IInv'
<1> USE DEF IInv, TypeOK, Begin, LookAtTag, writeSet, tables, seqs
<1>1. \A q \in Procs \ {p} : Still(q)
  BY DEF Still
<1>2. Untouched(p)'
  BY DEF WriteSetOK, HandlerOK, Untouched
<1>3. WriteSetOK(p)'
  <2>1. HandlerOK(p)'
    BY <1>2 DEF WriteSetOK, HandlerOK
  <2>2. EntryLockOK(p)' /\ TagLockOK(p)' /\ NameLockOK(p)' /\ LinkLockOK(p)'
    BY <1>2 DEF EntryLockOK, TagLockOK, NameLockOK, LinkLockOK, Untouched
  <2> QED BY <2>1, <2>2 DEF WriteSetOK
<1>4. \A q \in Procs \ {p} : Exclusive(p, q)'
  BY <1>2 DEF Exclusive, Untouched
<1>9. UNCHANGED tables /\ entrySeq <= entrySeq' /\ tagSeq <= tagSeq'
  OBVIOUS
<1> HIDE DEF IInv, TypeOK
<1> QED BY <1>1, <1>3, <1>4, <1>9, LocalStep

\* INSERT INTO entries: the id is fresh, so no other transaction holds it.
LEMMA InsertEntryInv ==
    ASSUME IInv, TypeOK', NEW p \in Procs, InsertEntry(p)
    PROVE  IInv'
<1> USE DEF IInv, TypeOK, InsertEntry, WroteEntry, tables
<1>1. \A q \in Procs \ {p} : Still(q)
  BY DEF Still
<1>2. /\ pc'[p] = "tags" /\ call'[p] = call[p] /\ mine'[p] = entrySeq
      /\ hit'[p] = {} /\ DOMAIN made'[p] = {} /\ cut'[p] = {}
  BY DEF WriteSetOK, HandlerOK, Untouched
<1>3. WriteSetOK(p)'
  <2>1. HandlerOK(p)'
    BY <1>2 DEF HandlerOK
  <2>2. EntryLockOK(p)'
    BY <1>2 DEF EntryLockOK, Drawn
  <2>3. TagLockOK(p)' /\ NameLockOK(p)' /\ LinkLockOK(p)'
    BY <1>2 DEF TagLockOK, NameLockOK, LinkLockOK
  <2> QED BY <2>1, <2>2, <2>3 DEF WriteSetOK
<1>4. \A q \in Procs \ {p} : mine[q] # entrySeq
  <2> SUFFICES ASSUME NEW q \in Procs \ {p}, mine[q] = entrySeq PROVE FALSE
    OBVIOUS
  <2>1. CASE pc[q] \notin {"tags", "key", "commit"}
    BY <2>1 DEF WriteSetOK, HandlerOK, Untouched
  <2>2. CASE pc[q] \in {"tags", "key", "commit"}
    <3>1. call[q].op \in {"create", "update", "delete", "rename", "drop"}
      BY <2>2 DEF WriteSetOK, HandlerOK
    <3> QED BY <2>2, <3>1 DEF WriteSetOK, EntryLockOK, OwnsEntry, Drawn
  <2> QED BY <2>1, <2>2
<1>5. \A q \in Procs \ {p} : Exclusive(p, q)'
  BY <1>1, <1>2, <1>4 DEF Exclusive, Still
<1>9. UNCHANGED tables /\ entrySeq <= entrySeq' /\ tagSeq <= tagSeq'
  OBVIOUS
<1> HIDE DEF IInv, TypeOK
<1> QED BY <1>1, <1>3, <1>5, <1>9, LocalStep

\* UPDATE entries: the row is there, owned, and held by nobody else.
LEMMA UpdateEntryInv ==
    ASSUME IInv, TypeOK', NEW p \in Procs, UpdateEntry(p)
    PROVE  IInv'
<1> USE DEF IInv, TypeOK, UpdateEntry, WroteEntry, tables
<1>1. \A q \in Procs \ {p} : Still(q)
  BY DEF Still
<1>2. /\ pc'[p] = "tags" /\ call'[p] = call[p] /\ mine'[p] = call[p].id
      /\ hit'[p] = {} /\ DOMAIN made'[p] = {} /\ cut'[p] = {}
  BY DEF WriteSetOK, HandlerOK, Untouched
<1>3. WriteSetOK(p)'
  <2>1. HandlerOK(p)'
    BY <1>2 DEF HandlerOK
  <2>2. EntryLockOK(p)'
    BY <1>2 DEF EntryLockOK, Drawn, OwnsEntry
  <2>3. TagLockOK(p)' /\ NameLockOK(p)' /\ LinkLockOK(p)'
    BY <1>2 DEF TagLockOK, NameLockOK, LinkLockOK
  <2> QED BY <2>1, <2>2, <2>3 DEF WriteSetOK
<1>4. \A q \in Procs \ {p} : Exclusive(p, q)'
  BY <1>1, <1>2 DEF Exclusive, Still, EntryFree
<1>9. UNCHANGED tables /\ entrySeq <= entrySeq' /\ tagSeq <= tagSeq'
  OBVIOUS
<1> HIDE DEF IInv, TypeOK
<1> QED BY <1>1, <1>3, <1>4, <1>9, LocalStep

\* DELETE FROM entries: the row is there, owned, and held by nobody else.
LEMMA EraseEntryInv ==
    ASSUME IInv, TypeOK', NEW p \in Procs, EraseEntry(p)
    PROVE  IInv'
<1> USE DEF IInv, TypeOK, EraseEntry, tables, seqs
<1>1. \A q \in Procs \ {p} : Still(q)
  BY DEF Still
<1>2. /\ pc'[p] = "commit" /\ call'[p] = call[p] /\ mine'[p] = call[p].id
      /\ hit'[p] = {} /\ DOMAIN made'[p] = {} /\ cut'[p] = {}
      /\ call[p].op = "delete"
  BY DEF WriteSetOK, HandlerOK, Untouched
<1>3. WriteSetOK(p)'
  <2>1. HandlerOK(p)'
    BY <1>2 DEF HandlerOK
  <2>2. EntryLockOK(p)'
    BY <1>2 DEF EntryLockOK, Drawn, OwnsEntry
  <2>3. TagLockOK(p)' /\ NameLockOK(p)' /\ LinkLockOK(p)'
    BY <1>2 DEF TagLockOK, NameLockOK, LinkLockOK
  <2> QED BY <2>1, <2>2, <2>3 DEF WriteSetOK
<1>4. \A q \in Procs \ {p} : Exclusive(p, q)'
  BY <1>1, <1>2 DEF Exclusive, Still, EntryFree
<1>9. UNCHANGED tables /\ entrySeq <= entrySeq' /\ tagSeq <= tagSeq'
  OBVIOUS
<1> HIDE DEF IInv, TypeOK
<1> QED BY <1>1, <1>3, <1>4, <1>9, LocalStep

\* A link is deleted by one transaction at a time.
LEMMA CutLinkInv ==
    ASSUME IInv, TypeOK', NEW p \in Procs, CutLink(p)
    PROVE  IInv'
<1> USE DEF IInv, TypeOK, CutLink, tables, seqs
<1>1. \A q \in Procs \ {p} : Still(q)
  BY DEF Still
<1>2. PICK l \in Doomed(p) \ cut[p] : LinkFree(p, l) /\ cut'[p] = cut[p] \cup {l}
  OBVIOUS
<1>3. WriteSetOK(p)'
  <2>1. HandlerOK(p)'
    BY DEF WriteSetOK, HandlerOK
  <2>2. EntryLockOK(p)' /\ TagLockOK(p)'
    BY DEF WriteSetOK, EntryLockOK, TagLockOK, OwnsEntry, OwnsTag
  <2>3. NameLockOK(p)'
    BY DEF WriteSetOK, NameLockOK, TagsNamed
  <2>4. LinkLockOK(p)'
    BY <1>2 DEF WriteSetOK, LinkLockOK, Doomed
  <2> QED BY <2>1, <2>2, <2>3, <2>4 DEF WriteSetOK
<1>4. \A q \in Procs \ {p} : Exclusive(p, q)'
  BY <1>1, <1>2 DEF Exclusive, Still, LinkFree
<1>9. UNCHANGED tables /\ entrySeq <= entrySeq' /\ tagSeq <= tagSeq'
  OBVIOUS
<1> HIDE DEF IInv, TypeOK
<1> QED BY <1>1, <1>3, <1>4, <1>9, LocalStep

\* ON CONFLICT DO UPDATE: the tag row taken is owned and held by nobody else.
LEMMA TakeTagInv ==
    ASSUME IInv, TypeOK', NEW p \in Procs, TakeTag(p)
    PROVE  IInv'
<1> USE DEF IInv, TypeOK, TakeTag, tables
<1>1. \A q \in Procs \ {p} : Still(q)
  BY DEF Still
<1>2. PICK i \in todo[p] : \E t \in TagsNamed(call[p].user, call[p].names[i]) :
          /\ NameFree(p, call[p].user, call[p].names[i])
          /\ hit' = [hit EXCEPT ![p] = @ \cup {t}]
  OBVIOUS
<1>6. PICK t \in TagsNamed(call[p].user, call[p].names[i]) :
          /\ NameFree(p, call[p].user, call[p].names[i])
          /\ hit'[p] = hit[p] \cup {t}
  BY <1>2
<1>3. call[p].op \in {"create", "update"}
  BY DEF WriteSetOK, HandlerOK
<1>4. WriteSetOK(p)'
  <2>1. HandlerOK(p)'
    BY DEF WriteSetOK, HandlerOK
  <2>2. EntryLockOK(p)'
    BY DEF WriteSetOK, EntryLockOK, OwnsEntry
  <2>3. TagLockOK(p)'
    BY <1>6, <1>3 DEF WriteSetOK, TagLockOK, OwnsTag, TagsNamed
  <2>4. NameLockOK(p)'
    BY <1>3 DEF WriteSetOK, NameLockOK, TagsNamed
  <2>5. LinkLockOK(p)'
    BY <1>3 DEF WriteSetOK, LinkLockOK, Doomed
  <2> QED BY <2>1, <2>2, <2>3, <2>4, <2>5 DEF WriteSetOK
<1>5. \A q \in Procs \ {p} : Exclusive(p, q)'
  <2>1. \A q \in Procs \ {p} : t \notin hit[q]
    BY <1>6 DEF NameFree, HoldsName
  <2> QED BY <1>1, <1>6, <2>1 DEF Exclusive, Still
<1>9. UNCHANGED tables /\ entrySeq <= entrySeq' /\ tagSeq <= tagSeq'
  OBVIOUS
<1> HIDE DEF IInv, TypeOK
<1> QED BY <1>1, <1>4, <1>5, <1>9, LocalStep

\* INSERT INTO tags: neither the tables nor another write set has the key.
LEMMA MakeTagInv ==
    ASSUME IInv, TypeOK', NEW p \in Procs, MakeTag(p)
    PROVE  IInv'
<1> USE DEF IInv, TypeOK, MakeTag, tables
<1>1. \A q \in Procs \ {p} : Still(q)
  BY DEF Still
<1>2. PICK i \in todo[p] :
          /\ NameFree(p, call[p].user, call[p].names[i])
          /\ TagsNamed(call[p].user, call[p].names[i]) = {}
          /\ \A t \in DOMAIN made[p] : made[p][t] # call[p].names[i]
          /\ made'[p] = [t \in DOMAIN made[p] \cup {tagSeq} |->
                            IF t = tagSeq THEN call[p].names[i] ELSE made[p][t]]
  OBVIOUS
<1>3. call[p].op \in {"create", "update"}
  BY DEF WriteSetOK, HandlerOK
<1>4. WriteSetOK(p)'
  <2>1. HandlerOK(p)'
    BY DEF WriteSetOK, HandlerOK
  <2>2. EntryLockOK(p)' /\ TagLockOK(p)'
    BY DEF WriteSetOK, EntryLockOK, TagLockOK, OwnsEntry, OwnsTag
  <2>3. tagSeq \notin DOMAIN tags /\ \A t \in DOMAIN made[p] : t < tagSeq
    BY <1>3 DEF WriteSetOK, NameLockOK, Drawn
  <2>4. NameLockOK(p)'
    BY <1>2, <1>3, <2>3 DEF WriteSetOK, NameLockOK, TagsNamed
  <2>5. LinkLockOK(p)'
    BY DEF WriteSetOK, LinkLockOK, Doomed
  <2> QED BY <2>1, <2>2, <2>4, <2>5 DEF WriteSetOK
<1>5. \A q \in Procs \ {p} : Exclusive(p, q)'
  <2> SUFFICES ASSUME NEW q \in Procs \ {p} PROVE Exclusive(p, q)'
    OBVIOUS
  <2>1. \A t \in DOMAIN made[q] : t # tagSeq
    <3>1. CASE pc[q] \notin {"tags", "key", "commit"}
      BY <3>1 DEF WriteSetOK, HandlerOK, Untouched
    <3>2. CASE pc[q] \in {"tags", "key", "commit"}
      <4>1. call[q].op \in {"create", "update", "delete", "rename", "drop"}
        BY <3>2 DEF WriteSetOK, HandlerOK
      <4> QED BY <3>2, <4>1 DEF WriteSetOK, NameLockOK, TagLockOK, OwnsTag, Drawn
    <3> QED BY <3>1, <3>2
  <2>2. \A t \in DOMAIN made[q] :
            made[q][t] = call[p].names[i] => call[q].user # call[p].user
    BY <1>2 DEF NameFree, HoldsName
  <2>3. Exclusive(p, q)
    OBVIOUS
  <2> QED BY <1>1, <1>2, <2>1, <2>2, <2>3 DEF Exclusive, Still
<1>9. UNCHANGED tables /\ entrySeq <= entrySeq' /\ tagSeq <= tagSeq'
  OBVIOUS
<1> HIDE DEF IInv, TypeOK
<1> QED BY <1>1, <1>4, <1>5, <1>9, LocalStep

\* Reading the answer writes no row.
LEMMA ReadBackInv ==
    ASSUME IInv, TypeOK', NEW p \in Procs, ReadBack(p)
    PROVE  IInv'
<1> USE DEF IInv, TypeOK, ReadBack, tables, seqs, writeSet
<1>1. \A q \in Procs \ {p} : Still(q)
  BY DEF Still
<1>2. WriteSetOK(p)'
  <2>1. HandlerOK(p)'
    BY DEF WriteSetOK, HandlerOK
  <2>2. EntryLockOK(p)' /\ TagLockOK(p)'
    BY DEF WriteSetOK, EntryLockOK, TagLockOK, OwnsEntry, OwnsTag
  <2>3. NameLockOK(p)' /\ LinkLockOK(p)'
    BY DEF WriteSetOK, NameLockOK, TagsNamed, LinkLockOK, Doomed
  <2> QED BY <2>1, <2>2, <2>3 DEF WriteSetOK
<1>3. \A q \in Procs \ {p} : Exclusive(p, q)'
  BY DEF Exclusive
<1>9. UNCHANGED tables /\ entrySeq <= entrySeq' /\ tagSeq <= tagSeq'
  OBVIOUS
<1> HIDE DEF IInv, TypeOK
<1> QED BY <1>1, <1>2, <1>3, <1>9, LocalStep

\* DELETE FROM tags: the row is there, owned, and held by nobody else.
LEMMA DetachTagInv ==
    ASSUME IInv, TypeOK', NEW p \in Procs, DetachTag(p)
    PROVE  IInv'
<1> USE DEF IInv, TypeOK, DetachTag, tables, seqs
<1>1. \A q \in Procs \ {p} : Still(q)
  BY DEF Still
<1>2. /\ pc'[p] = "commit" /\ call'[p] = call[p] /\ mine'[p] = 0
      /\ hit'[p] = {call[p].id} /\ DOMAIN made'[p] = {} /\ cut'[p] = {}
      /\ call[p].op = "drop"
  BY DEF WriteSetOK, HandlerOK, Untouched
<1>3. WriteSetOK(p)'
  BY <1>2 DEF WriteSetOK, HandlerOK, EntryLockOK, TagLockOK, NameLockOK, LinkLockOK,
              OwnsTag
<1>4. \A q \in Procs \ {p} : Exclusive(p, q)'
  BY <1>1, <1>2 DEF Exclusive, Still, TagFree
<1>9. UNCHANGED tables /\ entrySeq <= entrySeq' /\ tagSeq <= tagSeq'
  OBVIOUS
<1> HIDE DEF IInv, TypeOK
<1> QED BY <1>1, <1>3, <1>4, <1>9, LocalStep

\* UPDATE tags: the row is there, owned, and held by nobody else.
LEMMA RelabelTagInv ==
    ASSUME IInv, TypeOK', NEW p \in Procs, RelabelTag(p)
    PROVE  IInv'
<1> USE DEF IInv, TypeOK, RelabelTag, tables, seqs
<1>1. \A q \in Procs \ {p} : Still(q)
  BY DEF Still
<1>2. /\ pc'[p] = "key" /\ call'[p] = call[p] /\ mine'[p] = 0
      /\ hit'[p] = {call[p].id} /\ DOMAIN made'[p] = {} /\ cut'[p] = {}
      /\ call[p].op = "rename"
  BY DEF WriteSetOK, HandlerOK, Untouched
<1>3. WriteSetOK(p)'
  BY <1>2 DEF WriteSetOK, HandlerOK, EntryLockOK, TagLockOK, NameLockOK, LinkLockOK,
              OwnsTag
<1>4. \A q \in Procs \ {p} : Exclusive(p, q)'
  BY <1>1, <1>2 DEF Exclusive, Still, TagFree
<1>9. UNCHANGED tables /\ entrySeq <= entrySeq' /\ tagSeq <= tagSeq'
  OBVIOUS
<1> HIDE DEF IInv, TypeOK
<1> QED BY <1>1, <1>3, <1>4, <1>9, LocalStep

\* A rename onto the same name makes no key.
LEMMA KeepNameInv ==
    ASSUME IInv, TypeOK', NEW p \in Procs, KeepName(p)
    PROVE  IInv'
<1> USE DEF IInv, TypeOK, KeepName, Renamed, tables, seqs
<1>1. \A q \in Procs \ {p} : Still(q)
  BY DEF Still
<1>2. WriteSetOK(p)'
  <2>1. HandlerOK(p)'
    BY DEF WriteSetOK, HandlerOK
  <2>2. EntryLockOK(p)' /\ TagLockOK(p)'
    BY DEF WriteSetOK, EntryLockOK, TagLockOK, OwnsEntry, OwnsTag
  <2>3. NameLockOK(p)' /\ LinkLockOK(p)'
    BY DEF WriteSetOK, NameLockOK, TagsNamed, LinkLockOK, Doomed
  <2> QED BY <2>1, <2>2, <2>3 DEF WriteSetOK
<1>3. \A q \in Procs \ {p} : Exclusive(p, q)'
  BY DEF Exclusive
<1>9. UNCHANGED tables /\ entrySeq <= entrySeq' /\ tagSeq <= tagSeq'
  OBVIOUS
<1> HIDE DEF IInv, TypeOK
<1> QED BY <1>1, <1>2, <1>3, <1>9, LocalStep

\* A rename takes a key that neither the tables nor another write set has.
LEMMA ClaimNameInv ==
    ASSUME IInv, TypeOK', NEW p \in Procs, ClaimName(p)
    PROVE  IInv'
<1> USE DEF IInv, TypeOK, ClaimName, Renamed, tables, seqs
<1>1. \A q \in Procs \ {p} : Still(q)
  BY DEF Still
<1>2. /\ call[p].op = "rename" /\ hit[p] = {call[p].id}
      /\ OwnsTag(call[p].user, call[p].id)
  BY DEF WriteSetOK, HandlerOK, TagLockOK
<1>3. WriteSetOK(p)'
  <2>1. HandlerOK(p)'
    BY DEF WriteSetOK, HandlerOK
  <2>2. EntryLockOK(p)' /\ TagLockOK(p)'
    BY DEF WriteSetOK, EntryLockOK, TagLockOK, OwnsEntry, OwnsTag
  <2>3. NameLockOK(p)'
    BY <1>2 DEF NameLockOK, TagsNamed
  <2>4. LinkLockOK(p)'
    BY DEF WriteSetOK, LinkLockOK, Doomed
  <2> QED BY <2>1, <2>2, <2>3, <2>4 DEF WriteSetOK
<1>4. \A q \in Procs \ {p} : Exclusive(p, q)'
  <2> SUFFICES ASSUME NEW q \in Procs \ {p} PROVE Exclusive(p, q)'
    OBVIOUS
  <2>1. call[p].id \notin DOMAIN made[q]
    <3>1. CASE pc[q] \notin {"tags", "key", "commit"}
      BY <3>1 DEF WriteSetOK, HandlerOK, Untouched
    <3>2. CASE pc[q] \in {"tags", "key", "commit"}
      <4>1. call[q].op \in {"create", "update", "delete", "rename", "drop"}
        BY <3>2 DEF WriteSetOK, HandlerOK
      <4>2. call[p].id \notin hit[q]
        BY <1>2 DEF Exclusive
      <4> QED BY <1>2, <3>2, <4>1, <4>2 DEF WriteSetOK, NameLockOK, OwnsTag
    <3> QED BY <3>1, <3>2
  <2>2. \A t \in DOMAIN made[q] :
            made[q][t] = call[p].name => call[q].user # call[p].user
    BY DEF NameFree, HoldsName
  <2>3. Exclusive(p, q)
    OBVIOUS
  <2> QED BY <1>1, <1>2, <2>1, <2>2, <2>3 DEF Exclusive, Still
<1>9. UNCHANGED tables /\ entrySeq <= entrySeq' /\ tagSeq <= tagSeq'
  OBVIOUS
<1> HIDE DEF IInv, TypeOK
<1> QED BY <1>1, <1>3, <1>4, <1>9, LocalStep

\* Time preserves the invariant.
LEMMA TickInv ==
    ASSUME IInv, TypeOK', Tick \/ UNCHANGED vars
    PROVE  IInv'
<1> USE DEF IInv, TypeOK, Tick, vars, tables, seqs, writeSet
<1>1. Drawn' /\ ForeignKeys' /\ LinksSameOwner' /\ UniqueNames'
  BY DEF Drawn, ForeignKeys, LinksSameOwner, UniqueNames
<1>2. ASSUME NEW q \in Procs PROVE WriteSetOK(q)'
  BY StillOK DEF Still
<1>3. ASSUME NEW p \in Procs, NEW q \in Procs, p # q PROVE Exclusive(p, q)'
  BY <1>3 DEF Exclusive
<1> QED BY <1>1, <1>2, <1>3

-----------------------------------------------------------------------------
(* The commit. *)

\* What a commit does to the entries.
LEMMA InstallEntries ==
    ASSUME IInv, NEW p \in Procs, Install(p)
    PROVE  /\ \A e \in DOMAIN entries :
                (call[p].op = "delete" => e # mine[p]) =>
                    e \in DOMAIN entries' /\ entries'[e].user = entries[e].user
           /\ \A e \in DOMAIN entries' :
                \/ /\ e \in DOMAIN entries /\ entries'[e].user = entries[e].user
                   /\ call[p].op = "delete" => e # mine[p]
                \/ /\ call[p].op = "create" /\ e = mine[p]
                   /\ entries'[e].user = call[p].user
           /\ call[p].op \in {"create", "update"} =>
                mine[p] \in DOMAIN entries' /\ entries'[mine[p]].user = call[p].user
<1> USE DEF Install, EntriesAfter
<1>1. call[p].op \in {"create", "update", "delete", "rename", "drop"}
  BY DEF IInv, WriteSetOK, HandlerOK
<1>2. CASE call[p].op = "create"
  BY <1>2 DEF IInv, WriteSetOK, EntryLockOK
<1>3. CASE call[p].op = "update"
  BY <1>3 DEF IInv, WriteSetOK, EntryLockOK, OwnsEntry
<1>4. CASE call[p].op = "delete"
  BY <1>4
<1>5. CASE call[p].op \in {"rename", "drop"}
  BY <1>5
<1> QED BY <1>1, <1>2, <1>3, <1>4, <1>5

\* What a commit does to the tags.
LEMMA InstallTags ==
    ASSUME IInv, NEW p \in Procs, Install(p)
    PROVE  /\ \A t \in DOMAIN tags :
                (call[p].op = "drop" => t \notin hit[p]) =>
                    /\ t \in DOMAIN tags' /\ tags'[t].user = tags[t].user
                    /\ t \notin DOMAIN made[p] => tags'[t] = tags[t]
           /\ \A t \in DOMAIN tags' :
                \/ /\ t \in DOMAIN made[p]
                   /\ tags'[t] = [user |-> call[p].user, name |-> made[p][t]]
                \/ /\ t \notin DOMAIN made[p] /\ t \in DOMAIN tags
                   /\ tags'[t] = tags[t]
                   /\ call[p].op = "drop" => t \notin hit[p]
           /\ DOMAIN made[p] \subseteq DOMAIN tags'
<1> USE DEF Install, TagsAfter
<1>1. /\ call[p].op \in {"create", "update", "delete", "rename", "drop"}
      /\ \A t \in hit[p] : t \in DOMAIN tags /\ tags[t].user = call[p].user
      /\ call[p].op \in {"create", "update"} => DOMAIN made[p] \cap DOMAIN tags = {}
      /\ call[p].op = "rename" => DOMAIN made[p] \subseteq hit[p]
      /\ call[p].op \in {"delete", "drop"} => DOMAIN made[p] = {}
  BY DEF IInv, WriteSetOK, HandlerOK, TagLockOK, NameLockOK, OwnsTag
<1>2. \A t \in DOMAIN made[p] \cap DOMAIN tags : tags[t].user = call[p].user
  BY <1>1
<1> QED BY <1>1, <1>2

\* The tables a commit leaves satisfy the safety invariants.
LEMMA InstallSafety ==
    ASSUME IInv, TypeOK', NEW p \in Procs, Install(p)
    PROVE  Drawn' /\ ForeignKeys' /\ LinksSameOwner' /\ UniqueNames'
<1>1. /\ call[p].op \in {"create", "update", "delete", "rename", "drop"}
      /\ pc[p] = "commit" /\ UNCHANGED seqs /\ links' = LinksAfter(p)
      /\ Doomed(p) \subseteq cut[p]
  BY DEF IInv, WriteSetOK, HandlerOK, Install, LinksCleared
<1>2. Drawn'
  <2>1. ASSUME NEW e \in DOMAIN entries' PROVE 0 < e /\ e < entrySeq
    BY <1>1, InstallEntries DEF IInv, Drawn, WriteSetOK, EntryLockOK
  <2>2. ASSUME NEW t \in DOMAIN tags' PROVE 0 < t /\ t < tagSeq
    <3>1. \A x \in hit[p] : x \in DOMAIN tags
      BY <1>1 DEF IInv, WriteSetOK, TagLockOK, OwnsTag
    <3>2. \A x \in DOMAIN made[p] : x \in hit[p] \/ (0 < x /\ x < tagSeq)
      BY <1>1 DEF IInv, WriteSetOK, NameLockOK
    <3>3. t \in DOMAIN tags \/ t \in DOMAIN made[p]
      BY InstallTags
    <3> QED BY <3>1, <3>2, <3>3 DEF IInv, Drawn
  <2> QED BY <1>1, <2>1, <2>2 DEF Drawn, seqs
<1>3. ASSUME NEW l \in links'
      PROVE  \/ /\ l \in links
                /\ call[p].op = "delete" => l[1] # mine[p]
                /\ call[p].op = "drop" => l[2] \notin hit[p]
             \/ /\ call[p].op \in {"create", "update"}
                /\ l[1] = mine[p] /\ l[2] \in hit[p] \cup DOMAIN made[p]
  BY <1>1, <1>3 DEF LinksAfter, Doomed
<1>4. \A t \in hit[p] : t \in DOMAIN tags /\ tags[t].user = call[p].user
  BY <1>1 DEF IInv, WriteSetOK, TagLockOK, OwnsTag
<1>5. ForeignKeys'
  BY <1>3, <1>4, InstallEntries, InstallTags DEF IInv, ForeignKeys
<1>6. LinksSameOwner'
  <2> SUFFICES ASSUME NEW e \in DOMAIN entries', NEW t \in DOMAIN tags', <<e, t>> \in links'
               PROVE  entries'[e].user = tags'[t].user
    BY DEF LinksSameOwner
  <2>1. CASE call[p].op \in {"create", "update"} /\ e = mine[p]
                /\ t \in hit[p] \cup DOMAIN made[p]
    BY <1>4, <2>1, InstallEntries, InstallTags
  <2>2. CASE /\ <<e, t>> \in links
             /\ call[p].op = "delete" => e # mine[p]
             /\ call[p].op = "drop" => t \notin hit[p]
    <3>1. e \in DOMAIN entries /\ t \in DOMAIN tags /\ entries[e].user = tags[t].user
      BY <2>2 DEF IInv, ForeignKeys, LinksSameOwner
    <3> QED BY <2>2, <3>1, InstallEntries, InstallTags
  <2> QED BY <1>3, <2>1, <2>2
<1>7. UniqueNames'
  <2> SUFFICES ASSUME NEW s \in DOMAIN tags', NEW t \in DOMAIN tags', tags'[s] = tags'[t]
               PROVE  s = t
    BY DEF UniqueNames
  <2>1. \A x \in DOMAIN made[p] : TagsNamed(call[p].user, made[p][x]) = {}
    BY <1>1 DEF IInv, WriteSetOK, NameLockOK
  <2>2. \A x, y \in DOMAIN made[p] : made[p][x] = made[p][y] => x = y
    BY <1>1 DEF IInv, WriteSetOK, NameLockOK
  <2>3. \A x, y \in DOMAIN tags : tags[x] = tags[y] => x = y
    BY DEF IInv, UniqueNames
  <2>4. CASE s \in DOMAIN made[p] /\ t \in DOMAIN made[p]
    BY <2>2, <2>4, InstallTags
  <2>5. CASE s \notin DOMAIN made[p] /\ t \notin DOMAIN made[p]
    BY <2>3, <2>5, InstallTags
  <2>6. ASSUME NEW x \in DOMAIN tags', NEW y \in DOMAIN tags', tags'[x] = tags'[y],
               x \in DOMAIN made[p], y \notin DOMAIN made[p]
        PROVE  FALSE
    <3>1. /\ y \in DOMAIN tags
          /\ tags[y].user = call[p].user /\ tags[y].name = made[p][x]
      BY <2>6, InstallTags
    <3> QED BY <2>1, <2>6, <3>1 DEF TagsNamed
  <2> QED BY <2>4, <2>5, <2>6
<1> QED BY <1>2, <1>5, <1>6, <1>7

\* A commit leaves the write sets of the others sound.
LEMMA InstallOthers ==
    ASSUME IInv, TypeOK', NEW p \in Procs, NEW r, Install(p), Answer(p, r),
           NEW q \in Procs, q # p
    PROVE  WriteSetOK(q)'
<1>1. /\ pc'[q] = pc[q] /\ call'[q] = call[q] /\ mine'[q] = mine[q] /\ hit'[q] = hit[q]
      /\ made'[q] = made[q] /\ cut'[q] = cut[q] /\ UNCHANGED seqs
  BY DEF IInv, TypeOK, Install, Answer
<1>2. /\ Exclusive(p, q) /\ Exclusive(q, p)
      /\ WriteSetOK(p) /\ WriteSetOK(q)
      /\ call[p].op \in {"create", "update", "delete", "rename", "drop"}
      /\ pc[p] = "commit"
  BY DEF IInv, WriteSetOK, HandlerOK, Install
<1>3. HandlerOK(q)'
  BY <1>1, <1>2 DEF WriteSetOK, HandlerOK, Untouched
<1>4. EntryLockOK(q)'
  <2> SUFFICES ASSUME pc[q] \in {"tags", "key", "commit"} PROVE EntryLockOK(q)'
    BY <1>1 DEF EntryLockOK
  <2>1. CASE call[q].op = "create"
    BY <1>1, <1>2, <2>1, InstallEntries DEF WriteSetOK, EntryLockOK, Exclusive, seqs
  <2>2. CASE call[q].op \in {"update", "delete"}
    BY <1>1, <1>2, <2>2, InstallEntries DEF WriteSetOK, EntryLockOK, Exclusive, OwnsEntry
  <2>3. CASE call[q].op \notin {"create", "update", "delete"}
    BY <1>1, <1>2, <2>3 DEF WriteSetOK, EntryLockOK
  <2> QED BY <2>1, <2>2, <2>3
<1>5. TagLockOK(q)'
  BY <1>1, <1>2, InstallTags DEF WriteSetOK, TagLockOK, Exclusive, OwnsTag
<1>6. NameLockOK(q)'
  <2> SUFFICES ASSUME pc[q] \in {"tags", "key", "commit"} PROVE NameLockOK(q)'
    BY <1>1 DEF NameLockOK
  <2>1. ASSUME NEW t \in DOMAIN made[q], NEW s \in DOMAIN tags',
               tags'[s].user = call[q].user, tags'[s].name = made[q][t]
        PROVE  FALSE
    <3>1. CASE s \in DOMAIN made[p]
      BY <1>2, <2>1, <3>1, InstallTags DEF Exclusive
    <3>2. CASE s \notin DOMAIN made[p]
      BY <1>2, <2>1, <3>2, InstallTags DEF WriteSetOK, NameLockOK, TagsNamed
    <3> QED BY <3>1, <3>2
  <2>2. \A t \in DOMAIN made[q] : TagsNamed(call[q].user, made[q][t])' = {}
    BY <1>1, <2>1 DEF TagsNamed
  <2>3. \A t \in DOMAIN made[q] :
            call[q].op \in {"create", "update"} =>
                0 < t /\ t < tagSeq /\ t \notin DOMAIN tags'
    BY <1>2, InstallTags DEF WriteSetOK, NameLockOK, Exclusive
  <2>4. /\ \A s, t \in DOMAIN made[q] : made[q][s] = made[q][t] => s = t
        /\ call[q].op = "rename" => DOMAIN made[q] \subseteq hit[q]
        /\ call[q].op \in {"delete", "drop"} => DOMAIN made[q] = {}
    BY <1>2 DEF WriteSetOK, NameLockOK
  <2> QED BY <1>1, <2>2, <2>3, <2>4 DEF NameLockOK, seqs, TagsNamed
<1>7. LinkLockOK(q)'
  <2>1. cut[q] \subseteq Doomed(q) /\ cut[q] \cap cut[p] = {}
    BY <1>2 DEF WriteSetOK, LinkLockOK, Exclusive
  <2>2. links \ cut[p] \subseteq links'
    BY DEF Install, LinksAfter
  <2> QED BY <1>1, <2>1, <2>2 DEF LinkLockOK, Doomed
<1> QED BY <1>3, <1>4, <1>5, <1>6, <1>7 DEF WriteSetOK

\* A commit preserves the invariant.
LEMMA InstallInv ==
    ASSUME IInv, TypeOK', NEW p \in Procs, NEW r, Install(p), Answer(p, r)
    PROVE  IInv'
<1>1. Drawn' /\ ForeignKeys' /\ LinksSameOwner' /\ UniqueNames'
  BY InstallSafety
<1>2. /\ pc'[p] = "idle" /\ mine'[p] = 0 /\ hit'[p] = {} /\ DOMAIN made'[p] = {}
      /\ cut'[p] = {}
  BY DEF IInv, TypeOK, Answer, NoRows
<1>3. ASSUME NEW q \in Procs PROVE WriteSetOK(q)'
  <2>1. CASE q # p
    BY <2>1, InstallOthers
  <2>2. CASE q = p
    BY <1>2, <2>2 DEF WriteSetOK, HandlerOK, EntryLockOK, TagLockOK, NameLockOK,
                      LinkLockOK, Untouched
  <2> QED BY <2>1, <2>2
<1>4. ASSUME NEW q \in Procs, NEW s \in Procs, q # s PROVE Exclusive(q, s)'
  <2>1. CASE q = p \/ s = p
    BY <1>2, <1>4, <2>1 DEF Exclusive
  <2>2. CASE q # p /\ s # p
    BY <1>4, <2>2 DEF IInv, TypeOK, Exclusive, Answer
  <2> QED BY <2>1, <2>2
<1> QED BY <1>1, <1>3, <1>4 DEF IInv

\* Every step preserves the invariant.
LEMMA NextInv ==
    ASSUME IInv, [Next]_vars
    PROVE  IInv'
<1>1. TypeOK'
  BY TypeStep DEF IInv, WriteSetOK
<1>2. CASE Tick \/ UNCHANGED vars
  BY <1>1, <1>2, TickInv
<1>3. ASSUME NEW p \in Procs, Call(p) PROVE IInv'
  BY <1>1, <1>3, CallInv
<1>4. ASSUME NEW p \in Procs, Step(p) PROVE IInv'
  <2>1. CASE EntryMissing(p) \/ TagMissing(p) \/ NameConflict(p)
    BY <1>1, <2>1, RefuseInv DEF EntryMissing, TagMissing, NameConflict
  <2>2. CASE GetEntry(p) \/ ListEntries(p) \/ ListTags(p)
    <3>1. PICK r : ReadRow(p, r)
      BY <2>2 DEF GetEntry, ListEntries, ListTags
    <3> QED BY <1>1, <3>1, AnswerInv DEF ReadRow
  <2>3. CASE Commit(p)
    BY <1>1, <2>3, InstallInv DEF Commit
  <2>4. CASE Begin(p) \/ LookAtTag(p)
    BY <1>1, <2>4, BeginInv
  <2> QED BY <1>1, <1>4, <2>1, <2>2, <2>3, <2>4, InsertEntryInv, UpdateEntryInv,
             CutLinkInv, TakeTagInv, MakeTagInv, ReadBackInv, EraseEntryInv,
             DetachTagInv, RelabelTagInv, KeepNameInv, ClaimNameInv DEF Step
<1>5. ASSUME NEW p \in Procs, Fail(p) \/ DeadlockAbort(p) PROVE IInv'
  BY <1>1, <1>5, RefuseInv DEF Fail, DeadlockAbort
<1>6. ASSUME NEW p \in Procs, CommitLost(p) PROVE IInv'
  BY <1>1, <1>6, InstallInv DEF CommitLost
<1> QED BY <1>2, <1>3, <1>4, <1>5, <1>6 DEF Next

-----------------------------------------------------------------------------
(* The theorems. *)

\* The invariant holds in every state of every behaviour.
THEOREM Invariant == Spec => []IInv
<1>1. Init => IInv
  BY InitInv
<1>2. IInv /\ [Next]_vars => IInv'
  BY NextInv
<1> QED BY <1>1, <1>2, PTL DEF Spec

\* Every variable of the entries and tags services keeps its type.
THEOREM TypeCorrect == Spec => []TypeOK
<1>1. IInv => TypeOK
  BY DEF IInv
<1> QED BY <1>1, Invariant, PTL

\* No request commits a link to an entry or a tag that another request has
\* deleted meanwhile, or deletes a row and leaves links to it.
THEOREM NoDanglingLinks == Spec => []ForeignKeys
<1>1. IInv => ForeignKeys
  BY DEF IInv
<1> QED BY <1>1, Invariant, PTL

\* An entry never carries the tag of another user, though no constraint of
\* the schema forbids it: the code of setTags and Update is enough.
THEOREM OwnersAgree == Spec => []LinksSameOwner
<1>1. IInv => LinksSameOwner
  BY DEF IInv
<1> QED BY <1>1, Invariant, PTL

\* A user never has two tags of one name, whatever creates, updates, renames
\* and deletions run at the same time.
THEOREM NamesAreUnique == Spec => []UniqueNames
<1>1. IInv => UniqueNames
  BY DEF IInv
<1> QED BY <1>1, Invariant, PTL

\* The tables change when a write set is installed, and never otherwise.
LEMMA OnlyInstallWrites ==
    ASSUME [Next]_vars
    PROVE  \/ UNCHANGED tables
           \/ \E p \in Procs : Install(p) /\ pc' = [pc EXCEPT ![p] = "idle"]
<1>1. CASE UNCHANGED vars
  BY <1>1 DEF vars, tables
<1>2. CASE Tick
  BY <1>2 DEF Tick
<1>3. ASSUME NEW p \in Procs,
             Call(p) \/ Begin(p) \/ InsertEntry(p) \/ UpdateEntry(p) \/ CutLink(p)
             \/ TakeTag(p) \/ MakeTag(p) \/ ReadBack(p) \/ EraseEntry(p)
             \/ DetachTag(p) \/ LookAtTag(p) \/ RelabelTag(p)
             \/ KeepName(p) \/ ClaimName(p)
      PROVE  UNCHANGED tables
  BY <1>3 DEF Call, Begin, InsertEntry, UpdateEntry, WroteEntry, CutLink, TakeTag,
              MakeTag, ReadBack, EraseEntry, DetachTag, LookAtTag, RelabelTag,
              KeepName, ClaimName, Renamed
<1>4. ASSUME NEW p \in Procs,
             EntryMissing(p) \/ TagMissing(p) \/ NameConflict(p)
             \/ GetEntry(p) \/ ListEntries(p) \/ ListTags(p)
             \/ Fail(p) \/ DeadlockAbort(p)
      PROVE  UNCHANGED tables
  BY <1>4 DEF EntryMissing, TagMissing, NameConflict,
              GetEntry, ListEntries, ListTags, ReadRow, Fail, DeadlockAbort, Refuse
<1>5. ASSUME NEW p \in Procs, Commit(p) \/ CommitLost(p)
      PROVE  Install(p) /\ pc' = [pc EXCEPT ![p] = "idle"]
  BY <1>5 DEF Commit, CommitLost, Answer
<1> QED BY <1>1, <1>2, <1>3, <1>4, <1>5 DEF Next, Step

\* A commit keeps the owner and the creation date of every entry.
LEMMA InstallKeepsIdentity ==
    ASSUME IInv, NEW p \in Procs, Install(p)
    PROVE  /\ \A e \in DOMAIN entries \cap DOMAIN entries' :
                /\ entries'[e].user = entries[e].user
                /\ entries'[e].created = entries[e].created
           /\ \A e \in DOMAIN entries' \ DOMAIN entries :
                /\ e < entrySeq
                /\ pc[p] = "commit" /\ call[p].op = "create" /\ mine[p] = e
                /\ \A q \in Procs \ {p} : mine[q] # e
<1>1. /\ call[p].op \in {"create", "update", "delete", "rename", "drop"}
      /\ pc[p] = "commit"
      /\ call[p].op = "create" =>
            0 < mine[p] /\ mine[p] < entrySeq /\ mine[p] \notin DOMAIN entries
  BY DEF IInv, WriteSetOK, HandlerOK, EntryLockOK, Install
<1>2. \A e \in DOMAIN entries \cap DOMAIN entries' :
            /\ entries'[e].user = entries[e].user
            /\ entries'[e].created = entries[e].created
  BY <1>1 DEF Install, EntriesAfter
<1>3. \A e \in DOMAIN entries' \ DOMAIN entries : call[p].op = "create" /\ e = mine[p]
  BY InstallEntries
<1>4. \A q, r \in Procs : mine[q] # 0 /\ mine[q] = mine[r] => q = r
  BY DEF IInv, Exclusive
<1> QED BY <1>1, <1>2, <1>3, <1>4 DEF IInv, TypeOK

\* The owner and the creation date of an entry never change, and an entry appears only
\* by the create that drew its id from the sequence: none is brought back.
THEOREM IdentityIsFixed == Spec => EntryIdentityFixed
<1>1. ASSUME IInv, [Next]_vars
      PROVE  [/\ \A e \in DOMAIN entries \cap DOMAIN entries' :
                    /\ entries'[e].user = entries[e].user
                    /\ entries'[e].created = entries[e].created
              /\ \A e \in DOMAIN entries' \ DOMAIN entries :
                    /\ e < entrySeq
                    /\ \E p \in Procs :
                        /\ pc[p] = "commit" /\ pc'[p] = "idle"
                        /\ call[p].op = "create" /\ mine[p] = e
                        /\ \A q \in Procs \ {p} : mine[q] # e]_vars
  <2>1. CASE UNCHANGED tables
    BY <2>1 DEF tables
  <2>2. ASSUME NEW p \in Procs, Install(p), pc' = [pc EXCEPT ![p] = "idle"]
        PROVE  /\ \A e \in DOMAIN entries \cap DOMAIN entries' :
                    /\ entries'[e].user = entries[e].user
                    /\ entries'[e].created = entries[e].created
               /\ \A e \in DOMAIN entries' \ DOMAIN entries :
                    /\ e < entrySeq
                    /\ pc[p] = "commit" /\ pc'[p] = "idle"
                    /\ call[p].op = "create" /\ mine[p] = e
                    /\ \A q \in Procs \ {p} : mine[q] # e
    <3>1. pc'[p] = "idle"
      BY <1>1, <2>2 DEF IInv, TypeOK
    <3> QED BY <1>1, <2>2, <3>1, InstallKeepsIdentity
  <2> QED BY <1>1, <2>1, <2>2, OnlyInstallWrites
<1> QED BY <1>1, Invariant, PTL DEF Spec, EntryIdentityFixed

\* A commit leaves the rows of the other users, and the tags of their entries.
LEMMA InstallKeepsOthers ==
    ASSUME IInv, NEW p \in Procs, Install(p)
    PROVE  /\ \A e \in DOMAIN entries :
                entries[e].user # call[p].user =>
                    e \in DOMAIN entries' /\ StoredNote(e)' = StoredNote(e)
           /\ \A t \in DOMAIN tags :
                tags[t].user # call[p].user =>
                    t \in DOMAIN tags' /\ tags'[t] = tags[t]
<1>1. /\ call[p].op \in {"create", "update", "delete", "rename", "drop"}
      /\ pc[p] = "commit"
      /\ entries' = EntriesAfter(p) /\ tags' = TagsAfter(p) /\ links' = LinksAfter(p)
  BY DEF IInv, WriteSetOK, HandlerOK, Install
<1>2. /\ EntryLockOK(p) /\ TagLockOK(p) /\ NameLockOK(p) /\ cut[p] \subseteq Doomed(p)
      /\ Drawn /\ ForeignKeys /\ LinksSameOwner /\ DOMAIN entries \subseteq Nat
  BY DEF IInv, WriteSetOK, LinkLockOK, TypeOK
<1>3. ASSUME NEW e \in DOMAIN entries, entries[e].user # call[p].user
      PROVE  /\ e # mine[p]
             /\ e \in DOMAIN entries' /\ entries'[e] = entries[e]
  <2>1. e # mine[p]
    BY <1>1, <1>2, <1>3 DEF EntryLockOK, OwnsEntry, Drawn
  <2> QED BY <1>1, <2>1 DEF EntriesAfter
<1>4. ASSUME NEW t \in DOMAIN tags, tags[t].user # call[p].user
      PROVE  /\ t \notin hit[p]
             /\ t \in DOMAIN tags' /\ tags'[t] = tags[t]
  <2>1. t \notin hit[p]
    BY <1>1, <1>2, <1>4 DEF TagLockOK, OwnsTag
  <2>2. t \notin DOMAIN made[p]
    BY <1>1, <1>2, <2>1 DEF NameLockOK
  <2> QED BY <1>1, <2>1, <2>2, InstallTags
<1>5. ASSUME NEW e \in DOMAIN entries, entries[e].user # call[p].user
      PROVE  StoredNote(e)' = StoredNote(e)
  <2>1. ASSUME NEW t, <<e, t>> \in links
        PROVE  /\ t \in DOMAIN tags /\ tags[t].user # call[p].user
               /\ <<e, t>> \in links'
    <3>1. t \in DOMAIN tags /\ tags[t].user # call[p].user
      BY <1>2, <1>5, <2>1 DEF ForeignKeys, LinksSameOwner
    <3>2. <<e, t>> \notin Doomed(p)
      BY <1>3, <1>4, <1>5, <3>1 DEF Doomed
    <3> QED BY <1>1, <1>2, <2>1, <3>1, <3>2 DEF LinksAfter
  <2>2. ASSUME NEW t, <<e, t>> \in links'
        PROVE  <<e, t>> \in links
    BY <1>1, <1>3, <1>5, <2>2 DEF LinksAfter
  <2>3. ASSUME NEW t \in TagsOf(e) PROVE t \in TagsOf(e)' /\ tags'[t].name = tags[t].name
    BY <1>4, <2>1, <2>3 DEF TagsOf
  <2>4. ASSUME NEW t \in TagsOf(e)' PROVE t \in TagsOf(e)
    BY <2>1, <2>2, <2>4 DEF TagsOf
  <2>5. {tags[t].name : t \in TagsOf(e)}' = {tags[t].name : t \in TagsOf(e)}
    BY <2>3, <2>4
  <2> QED BY <1>3, <1>5, <2>5 DEF StoredNote
<1> QED BY <1>3, <1>4, <1>5

\* No request changes or removes anything of another user: the notes,
\* their tags and the names of these stay as they are.
THEOREM UsersAreIsolated == Spec => OtherUsersUntouched
<1>1. ASSUME IInv, [Next]_vars
      PROVE  [\A p \in Procs :
                /\ pc[p] = "commit"
                /\ pc'[p] = "idle"
                => /\ \A e \in DOMAIN entries :
                        entries[e].user # call[p].user =>
                            e \in DOMAIN entries' /\ StoredNote(e)' = StoredNote(e)
                   /\ \A t \in DOMAIN tags :
                        tags[t].user # call[p].user =>
                            t \in DOMAIN tags' /\ tags'[t] = tags[t]]_vars
  <2>1. CASE UNCHANGED tables
    BY <2>1 DEF tables, StoredNote, TagsOf
  <2>2. ASSUME NEW q \in Procs, Install(q), pc' = [pc EXCEPT ![q] = "idle"],
               NEW p \in Procs, pc[p] = "commit", pc'[p] = "idle"
        PROVE  p = q
    BY <1>1, <2>2 DEF IInv, TypeOK
  <2>3. CASE \E q \in Procs : Install(q) /\ pc' = [pc EXCEPT ![q] = "idle"]
    BY <1>1, <2>2, <2>3, InstallKeepsOthers
  <2> QED BY <1>1, <2>1, <2>3, OnlyInstallWrites
<1> QED BY <1>1, Invariant, PTL DEF Spec, OtherUsersUntouched

=============================================================================

------------------------------- MODULE Search -------------------------------
(***************************************************************************)
(* Searching the notes page by page (List in entries.go), while notes are  *)
(* written and tags renamed between the pages.  Every page is a request of *)
(* its own, and its SELECT one snapshot; that a write commits as a whole   *)
(* is EntryStore's.                                                        *)
(*                                                                         *)
(* A text is a sequence of characters, because the pattern that the code   *)
(* makes of a search text is what could go wrong.  A tag is an identity    *)
(* whose name changes; names are unique for a user (EntryStore).           *)
(***************************************************************************)
EXTENDS Integers, FiniteSets, Sequences, SequencesExt, Functions

CONSTANTS
    Reader,       \* the user who searches
    Users,
    Dates,        \* values of entry_date, in order
    Contents,     \* bound on what a note of each user says: title, body, tags
    Fold,         \* the lower-case form of each character
    Tags,         \* tag rows of the reader
    Names,        \* names of tags
    Searches,     \* what may be searched: tag, q, from, to, limit
    MaxNotes,     \* bound on notes ever made
    MaxWrites,    \* bound on writes during a search
    Nil

ASSUME SearchAssumption ==
    /\ Reader \in Users /\ Dates \subseteq Int /\ MaxNotes \in Nat /\ MaxWrites \in Nat
    /\ Nil \notin Searches /\ \A s \in Searches : s.limit \in 1..100

VARIABLES
    notes,    \* rows of entries, with the tags of each
    nextId,   \* the identity sequence of entries.id
    named,    \* the name of each tag
    search,   \* what the reader searches, Nil before
    seen,     \* history: the pages so far, as one sequence of ids
    over,     \* the last page was short
    atStart,  \* history: the answer as it was when the search began
    writes    \* history: writes of the reader's notes since then

vars == <<notes, nextId, named, search, seen, over, atStart, writes>>

-----------------------------------------------------------------------------
(* The conditions of the WHERE clause. *)

\* ILIKE with ESCAPE '\': f[i, j] compares the text from i on with the pattern
\* from j on.
ILike(text, pattern) ==
    LET n == Len(text)
        k == Len(pattern)
        Same(i, j) == i <= n /\ j <= k /\ Fold[text[i]] = Fold[pattern[j]]
        f[i \in 1..(n + 2), j \in 1..(k + 2)] ==
            IF j > k THEN i = n + 1
            ELSE CASE pattern[j] = "%" -> \E h \in i..(n + 1) : f[h, j + 1]
                   [] pattern[j] = "_" -> i <= n /\ f[i + 1, j + 1]
                   [] pattern[j] = "\\" -> Same(i, j + 1) /\ f[i + 1, j + 2]
                   [] OTHER -> Same(i, j) /\ f[i + 1, j + 1]
    IN f[1, 1]

\* Mutant: % _ and \ are not escaped.
likePattern_Plain(q) == <<"%">> \o q \o <<"%">>

Escaped(c) == IF c \in {"%", "_", "\\"} THEN <<"\\", c>> ELSE <<c>>

likePattern(q) == <<"%">> \o FlattenSeq([i \in DOMAIN q |-> Escaped(q[i])]) \o <<"%">>

uniqueTags(names) ==
    LET New(i) == \A j \in 1..(i - 1) : names[j] # names[i]
    IN [i \in DOMAIN names |-> IF New(i) THEN <<names[i]>> ELSE <<>>]

\* The count of the note's links whose tag has one of the names, compared with
\* the number of names.
HasTags(note, names) ==
    LET wanted == FlattenSeq(uniqueTags(names))
    IN Cardinality({t \in note.tags : named[t] \in Range(wanted)}) = Len(wanted)

HasText(note, q) ==
    \/ ILike(note.title, likePattern(q))
    \/ note.body # Nil /\ ILike(note.body, likePattern(q))

Where(s, note) ==
    /\ note.user = Reader
    /\ s.tag # <<>> => HasTags(note, s.tag)
    /\ s.q # Nil => HasText(note, s.q)
    /\ s.from # Nil => note.date >= s.from
    /\ s.to # Nil => note.date <= s.to

\* ORDER BY entry_date DESC, id DESC.
Precedes(m, n) == m.date > n.date \/ (m.date = n.date /\ m.id > n.id)

\* The orders in which the database may return the rows.
Orders(rows) ==
    {s \in SetToSeqs(rows) : \A i, j \in DOMAIN s : i < j => Precedes(s[i], s[j])}

\* Mutant: a row too many is skipped.
Limited_PastOffset(s, limit, offset) ==
    SubSeq(s, offset + 2, IF offset + limit + 1 < Len(s) THEN offset + limit + 1 ELSE Len(s))

Limited(s, limit, offset) ==
    SubSeq(s, offset + 1, IF offset + limit < Len(s) THEN offset + limit ELSE Len(s))

Ids(s) == [i \in DOMAIN s |-> s[i].id]

-----------------------------------------------------------------------------

Note(id, u, d, k) ==
    [id |-> id, user |-> u, date |-> d, title |-> k.title, body |-> k.body, tags |-> k.tags]

Init ==
    /\ notes = {} /\ nextId = 1
    /\ named \in Injection(Tags, Names)
    /\ search = Nil /\ seen = <<>> /\ over = FALSE /\ atStart = <<>> /\ writes = <<>>

MayWrite == Len(writes) < MaxWrites /\ ~over

Noted(u, kind) ==
    writes' = IF search = Nil \/ u # Reader THEN writes ELSE Append(writes, kind)

Create ==
    /\ MayWrite /\ nextId <= MaxNotes /\ nextId' = nextId + 1
    /\ \E u \in Users, d \in Dates : \E k \in Contents[u] :
        notes' = notes \cup {Note(nextId, u, d, k)} /\ Noted(u, "create")
    /\ UNCHANGED <<named, search, seen, over, atStart>>

Update ==
    /\ MayWrite
    /\ \E n \in notes, d \in Dates : \E k \in Contents[n.user] :
        notes' = (notes \ {n}) \cup {Note(n.id, n.user, d, k)} /\ Noted(n.user, "update")
    /\ UNCHANGED <<nextId, named, search, seen, over, atStart>>

Delete ==
    /\ MayWrite
    /\ \E n \in notes : notes' = notes \ {n} /\ Noted(n.user, "delete")
    /\ UNCHANGED <<nextId, named, search, seen, over, atStart>>

\* Mutant: names need not be unique.
Rename_AnyName ==
    /\ MayWrite
    /\ \E t \in Tags, n \in Names :
        named' = [named EXCEPT ![t] = n] /\ Noted(Reader, "rename")
    /\ UNCHANGED <<notes, nextId, search, seen, over, atStart>>

\* Update of the tags service: to a free name.
Rename ==
    /\ MayWrite
    /\ \E t \in Tags, n \in Names \ Range(named) :
        named' = [named EXCEPT ![t] = n] /\ Noted(Reader, "rename")
    /\ UNCHANGED <<notes, nextId, search, seen, over, atStart>>

Rows(s) == {n \in notes : Where(s, n)}

Start ==
    /\ search = Nil
    /\ \E s \in Searches : search' = s /\ \E o \in Orders(Rows(s)) : atStart' = Ids(o)
    /\ UNCHANGED <<notes, nextId, named, seen, over, writes>>

\* One page.  The client goes on at the offset after it until one is short.
List ==
    /\ search # Nil /\ ~over
    /\ \E o \in Orders(Rows(search)) :
        LET page == Limited(o, search.limit, Len(seen)) IN
        /\ seen' = seen \o Ids(page)
        /\ over' = (Len(page) < search.limit)
    /\ UNCHANGED <<notes, nextId, named, search, atStart, writes>>

Next == Create \/ Update \/ Delete \/ Rename \/ Start \/ List
Spec == Init /\ [][Next]_vars

=============================================================================

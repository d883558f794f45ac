----------------------------- MODULE SearchSafety -----------------------------
(***************************************************************************)
(* What a search promises, page by page and over all its pages.            *)
(***************************************************************************)
EXTENDS Search

\* One type invariant: ids are given once, and a name has one tag.
TypeOK ==
    /\ nextId \in 1..(MaxNotes + 1)
    /\ \A n \in notes : n.id \in 1..(nextId - 1) /\ n.user \in Users /\ n.date \in Dates
    /\ \A m, n \in notes : m.id = n.id => m = n
    /\ named \in [Tags -> Names] /\ IsInjective(named)
    /\ search \in Searches \cup {Nil} /\ over \in BOOLEAN
    /\ Range(seen) \cup Range(atStart) \subseteq 1..MaxNotes
    /\ search = Nil => seen = <<>> /\ writes = <<>> /\ ~over

-----------------------------------------------------------------------------
(* What README.md (検索) and design/design.go say of a search, with none of *)
(* the query's means: no counting, no pattern, no order of rows.            *)

Within(q, text) ==
    \E i \in 0..(Len(text) - Len(q)) :
        \A j \in DOMAIN q : Fold[text[i + j]] = Fold[q[j]]

Sought(s, n) ==
    /\ n.user = Reader
    /\ \A name \in Range(s.tag) : \E t \in n.tags : named[t] = name
    /\ s.q = Nil \/ \E text \in {n.title, n.body} \ {Nil} : Within(s.q, text)
    /\ s.from = Nil \/ s.from <= n.date
    /\ s.to = Nil \/ n.date <= s.to

Newer(m, n)  == m.date > n.date \/ (m.date = n.date /\ m.id > n.id)
Before(n, s) == {m \in notes : Sought(s, m) /\ Newer(m, n)}

\* A page has exactly the reader's notes that carry every tag sought, hold the
\* text sought in title or body in any case and literally, and lie in the
\* period, newest first, from the offset to the limit: whatever is repeated in
\* the tags, whatever characters the text has, and whatever was renamed
\* meanwhile (entries.go: List, likePattern, uniqueTags).
PageIsRight ==
    [][List =>
        LET first == Len(seen) IN
        /\ \A i \in (first + 1)..Len(seen') :
            \E n \in notes : /\ n.id = seen'[i] /\ Sought(search, n)
                             /\ Cardinality(Before(n, search)) = i - 1
        /\ \A n \in notes :
            Sought(search, n) /\ Cardinality(Before(n, search))
                                    \in first..(first + search.limit - 1)
            => \E i \in (first + 1)..Len(seen') : seen'[i] = n.id]_vars

Kinds == Range(writes)

\* Writes between the pages only shift them: notes made meanwhile never hide one
\* that was there, and notes deleted never make one appear twice; at worst the
\* first show one again and the second pass one over (entries.go: List's order
\* and OFFSET).
PagesOnlyShift ==
    /\ over /\ Kinds \subseteq {"create"} => Range(atStart) \subseteq Range(seen)
    /\ Kinds \subseteq {"delete"} => IsInjective(seen)

-----------------------------------------------------------------------------
(* The inductive invariant of the proofs: a row's place in the answer is   *)
(* the number of rows before it, which notes that are made only raise, and *)
(* notes that are deleted only lower.                                      *)

Rank(n) == Cardinality({m \in Rows(search) : Precedes(m, n)})

\* What was there at the start is ahead, or has been seen.
NotHidden ==
    \A i \in DOMAIN atStart : \E n \in Rows(search) :
        n.id = atStart[i] /\ (Rank(n) < Len(seen) => n.id \in Range(seen))

\* What has been seen and is there still has not moved on.
NotAhead == \A i \in DOMAIN seen : \A n \in Rows(search) : n.id = seen[i] => Rank(n) < i

Shifted ==
    /\ Kinds \subseteq {"create"} => NotHidden
    /\ Kinds \subseteq {"delete"} => NotAhead /\ IsInjective(seen)
    /\ over => Cardinality(Rows(search)) <= Len(seen)

IInv ==
    /\ TypeOK /\ IsFiniteSet(notes)
    /\ seen \in Seq(1..MaxNotes) /\ atStart \in Seq(1..MaxNotes)
    /\ writes \in Seq({"create", "update", "delete", "rename"})
    /\ search # Nil => Shifted

=============================================================================

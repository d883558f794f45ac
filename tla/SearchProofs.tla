----------------------------- MODULE SearchProofs -----------------------------
(***************************************************************************)
(* Theorems about Search, whatever the notes, the searches and the writes  *)
(* between the pages: the pattern of a search text stays a parameter here, *)
(* because all that matters of WHERE is that it looks at one note.         *)
(***************************************************************************)
EXTENDS SearchSafety, FiniteSetTheorems, SequenceTheorems, TLAPS

-----------------------------------------------------------------------------
(* The order of the rows. *)

\* Rows with numbers to be ordered by, and no two with one id.
Ordered(rows) ==
    /\ IsFiniteSet(rows)
    /\ \A n \in rows : n.date \in Int /\ n.id \in Int
    /\ \A m, n \in rows : m.id = n.id => m = n

Ahead(rows, n) == {m \in rows : Precedes(m, n)}

\* Of two rows that differ, exactly one comes first.
LEMMA PrecedesIsStrict ==
    ASSUME NEW rows, Ordered(rows), NEW m \in rows, NEW n \in rows
    PROVE  /\ ~Precedes(n, n)
           /\ Precedes(m, n) => ~Precedes(n, m)
BY DEF Ordered, Precedes

\* An order of the rows is a sequence of them all, and a row's place in it is the
\* number of the rows before it.
LEMMA PlaceIsRank ==
    ASSUME NEW rows, Ordered(rows), NEW o \in Orders(rows)
    PROVE  /\ o \in Seq(rows) /\ Len(o) = Cardinality(rows)
           /\ \A n \in rows : \E p \in 1..Len(o) : o[p] = n
           /\ \A p \in 1..Len(o) : Cardinality(Ahead(rows, o[p])) = p - 1
           /\ \A p, q \in 1..Len(o) : o[p].id = o[q].id => p = q
<1> DEFINE k == Cardinality(rows)
<1>1. /\ o \in [1..k -> rows] /\ \A i, j \in 1..k : i # j => o[i] # o[j]
      /\ \A i, j \in 1..k : i < j => Precedes(o[i], o[j])
  BY DEF Orders, SetToSeqs
<1>2. k \in Nat
  BY FS_CardinalityType DEF Ordered
<1> HIDE DEF k
<1>3. o \in Seq(rows) /\ Len(o) = k /\ DOMAIN o = 1..k
  BY <1>1, <1>2
<1>4. o \in Injection(1..k, rows)
  BY <1>1 DEF Injection, IsInjective
<1>5. IsFiniteSet(1..k) /\ Cardinality(1..k) = k
  BY <1>2, FS_Interval
<1>6. o \in Surjection(1..k, rows)
  BY <1>4, <1>5, FS_Injection DEF Ordered, k
<1>7. \A n \in rows : \E p \in 1..k : o[p] = n
  BY <1>6 DEF Surjection
<1>8. ASSUME NEW p \in 1..k PROVE Cardinality(Ahead(rows, o[p])) = p - 1
  <2> DEFINE A == Ahead(rows, o[p])
             g == [i \in 1..(p - 1) |-> o[i]]
  <2>1. \A i \in 1..(p - 1) : i \in 1..k /\ o[i] \in A
    BY <1>1, <1>2 DEF Ahead
  <2>2. ASSUME NEW n \in A PROVE \E i \in 1..(p - 1) : g[i] = n
    <3>1. n \in rows /\ Precedes(n, o[p])
      BY DEF Ahead
    <3>2. PICK i \in 1..k : o[i] = n
      BY <1>7, <3>1
    <3>3. o[p] \in rows
      BY <1>1
    <3>4. i # p /\ ~(p < i)
      BY <1>1, <3>1, <3>2, <3>3, PrecedesIsStrict
    <3>5. i \in 1..(p - 1)
      BY <3>4
    <3> QED BY <3>2, <3>5
  <2>3. g \in Bijection(1..(p - 1), A)
    <3>1. g \in [1..(p - 1) -> A]
      BY <2>1
    <3>2. IsInjective(g)
      BY <1>1, <2>1 DEF IsInjective
    <3> QED BY <2>2, <3>1, <3>2 DEF Bijection, Injection, Surjection
  <2> HIDE DEF A, g
  <2>4. IsFiniteSet(1..(p - 1)) /\ Cardinality(1..(p - 1)) = p - 1
    BY <1>2, FS_Interval
  <2>5. Cardinality(A) = Cardinality(1..(p - 1))
    BY <2>3, <2>4, FS_Bijection DEF ExistsBijection
  <2> QED BY <2>4, <2>5 DEF A
<1>9. \A p, q \in 1..k : o[p].id = o[q].id => p = q
  BY <1>1 DEF Ordered
<1> QED BY <1>3, <1>7, <1>8, <1>9 DEF k

\* More rows, no smaller places.
LEMMA RankGrows ==
    ASSUME NEW S, IsFiniteSet(S), NEW R \in SUBSET S, NEW n
    PROVE  /\ Cardinality(Ahead(R, n)) \in Nat /\ Cardinality(Ahead(S, n)) \in Nat
           /\ Cardinality(Ahead(R, n)) <= Cardinality(Ahead(S, n))
<1>1. Ahead(S, n) \in SUBSET S /\ Ahead(R, n) \in SUBSET Ahead(S, n)
  BY DEF Ahead
<1>2. IsFiniteSet(Ahead(S, n)) /\ IsFiniteSet(Ahead(R, n))
  BY <1>1, FS_Subset
<1> QED BY <1>1, <1>2, FS_Subset, FS_CardinalityType

\* The place of a row is one of as many as there are rows.
LEMMA RankBelow ==
    ASSUME NEW rows, Ordered(rows), NEW n \in rows
    PROVE  /\ Cardinality(rows) \in Nat /\ Cardinality(Ahead(rows, n)) \in Nat
           /\ Cardinality(Ahead(rows, n)) < Cardinality(rows)
<1>1. IsFiniteSet(rows) /\ Ahead(rows, n) \in SUBSET rows /\ n \notin Ahead(rows, n)
  BY PrecedesIsStrict DEF Ordered, Ahead
<1>2. /\ IsFiniteSet(Ahead(rows, n)) /\ Cardinality(Ahead(rows, n)) <= Cardinality(rows)
      /\ Cardinality(rows) = Cardinality(Ahead(rows, n)) => rows = Ahead(rows, n)
  BY <1>1, FS_Subset
<1>3. Cardinality(rows) \in Nat /\ Cardinality(Ahead(rows, n)) \in Nat
  BY <1>1, <1>2, FS_CardinalityType
<1> QED BY <1>1, <1>2, <1>3

GoesOn(M, o, s, limit, page) ==
    /\ s \o Ids(page) \in Seq(1..M)
    /\ Len(s \o Ids(page)) = Len(s) + Len(page) /\ Len(page) \in Nat
    /\ \A i \in 1..Len(s) : (s \o Ids(page))[i] = s[i]
    /\ \A p \in (Len(s) + 1)..(Len(s) + Len(page)) :
         p \in 1..Len(o) /\ (s \o Ids(page))[p] = o[p].id
    /\ \A p \in (Len(s) + 1)..Len(o) : p <= Len(s) + limit => p <= Len(s) + Len(page)
    /\ Len(page) <= limit
    /\ Len(page) < limit => Len(o) <= Len(s) + Len(page)

\* A page goes on where the ones before it ended, row by row in the order of now; one
\* that is short is the last.
LEMMA PageIs ==
    ASSUME NEW M \in Nat, NEW rows, Ordered(rows), \A n \in rows : n.id \in 1..M,
           NEW o \in Orders(rows), NEW s \in Seq(1..M), NEW limit \in 1..100,
           NEW page, page = Limited(o, limit, Len(s))
    PROVE  GoesOn(M, o, s, limit, page)
<1> DEFINE k == Len(s)
           e == IF k + limit < Len(o) THEN k + limit ELSE Len(o)
<1>1. o \in Seq(rows) /\ k \in Nat /\ Len(o) \in Nat /\ limit \in Nat /\ limit <= 100
  BY PlaceIsRank, LenProperties
<1>2. page = SubSeq(o, k + 1, e)
  BY DEF Limited
<1>3. \A i \in (k + 1)..e : i \in 1..Len(o) /\ o[i] \in rows
  BY <1>1, ElementOfSeq
<1>4. e \in Int
  BY <1>1
<1> HIDE DEF e, k
<1>5. /\ page \in Seq(rows) /\ Len(page) = IF k + 1 <= e THEN e - (k + 1) + 1 ELSE 0
      /\ \A i \in 1..(e - (k + 1) + 1) : page[i] = o[i + (k + 1) - 1]
  <2>1. k + 1 \in Int
    BY <1>1
  <2>2. /\ SubSeq(o, k + 1, e) \in Seq(rows)
        /\ Len(SubSeq(o, k + 1, e)) = IF k + 1 <= e THEN e - (k + 1) + 1 ELSE 0
        /\ \A i \in 1..(e - (k + 1) + 1) : SubSeq(o, k + 1, e)[i] = o[(k + 1) + i - 1]
    BY <1>3, <1>4, <2>1, SubSeqProperties
  <2> QED BY <1>1, <1>2, <1>4, <2>2
<1>6. /\ Len(page) = (IF k + 1 <= e THEN e - k ELSE 0) /\ Len(page) \in Nat
      /\ \A i \in 1..Len(page) : page[i] = o[i + k]
  BY <1>1, <1>4, <1>5
<1>7. /\ Ids(page) \in Seq(1..M) /\ Len(Ids(page)) = Len(page)
      /\ \A i \in 1..Len(page) : Ids(page)[i] = page[i].id
  <2>1. DOMAIN page = 1..Len(page) /\ \A i \in 1..Len(page) : page[i] \in rows
    BY <1>5, LenProperties
  <2>2. Ids(page) = [i \in 1..Len(page) |-> page[i].id]
    BY <2>1 DEF Ids
  <2>3. \A i \in 1..Len(page) : page[i].id \in 1..M
    BY <2>1
  <2>4. Len(page) \in Nat
    BY <1>6
  <2> HIDE DEF k, e
  <2>5. Ids(page) \in Seq(1..M) /\ Len(Ids(page)) = Len(page)
    BY <2>2, <2>3, <2>4
  <2> QED BY <2>2, <2>5
<1>8. /\ s \o Ids(page) \in Seq(1..M) /\ Len(s \o Ids(page)) = k + Len(page)
      /\ \A i \in 1..(k + Len(page)) :
            (s \o Ids(page))[i] = IF i <= k THEN s[i] ELSE Ids(page)[i - k]
  <2> DEFINE t == Ids(page)
  <2>1. t \in Seq(1..M) /\ Len(t) = Len(page)
    BY <1>7
  <2> HIDE DEF t
  <2>2. /\ s \o t \in Seq(1..M) /\ Len(s \o t) = Len(s) + Len(t)
        /\ \A i \in 1..(Len(s) + Len(t)) : (s \o t)[i] = IF i <= Len(s) THEN s[i] ELSE t[i - Len(s)]
    BY <2>1, ConcatProperties
  <2> QED BY <2>1, <2>2 DEF t, k
<1>9. \A i \in 1..k : (s \o Ids(page))[i] = s[i]
  <2>1. k \in Nat /\ Len(page) \in Nat
    BY <1>1, <1>6
  <2>2. \A i \in 1..k : i \in 1..(k + Len(page)) /\ i <= k
    BY <2>1
  <2> QED BY <1>8, <2>2
<1>10. ASSUME NEW p \in (k + 1)..(k + Len(page))
       PROVE  p \in 1..Len(o) /\ (s \o Ids(page))[p] = o[p].id
  <2>1. p - k \in 1..Len(page) /\ p \in 1..(k + Len(page)) /\ ~(p <= k) /\ p \in Int
    <3>1. k \in Nat /\ Len(page) \in Nat
      BY <1>1, <1>6
    <3>2. p \in Int /\ k + 1 <= p /\ p <= k + Len(page)
      BY <3>1
    <3> QED BY <3>1, <3>2
  <2>2. (s \o Ids(page))[p] = page[p - k].id
    BY <1>7, <1>8, <2>1
  <2>3. page[p - k] = o[(p - k) + k] /\ (p - k) + k = p
    BY <1>1, <1>6, <2>1
  <2>4. p \in (k + 1)..e
    BY <1>1, <1>4, <1>6
  <2> QED BY <1>3, <2>2, <2>3, <2>4
<1>11. /\ \A p \in (k + 1)..Len(o) : p <= k + limit => p <= k + Len(page)
       /\ Len(page) <= limit
       /\ Len(page) < limit => Len(o) <= k + Len(page)
  BY <1>1, <1>6 DEF e
<1> QED BY <1>6, <1>8, <1>9, <1>10, <1>11 DEF k, GoesOn

-----------------------------------------------------------------------------
(* What writes and pages do to what has been seen. *)

\* NotHidden and NotAhead, of rows and pages that need not be those of now.
NoneHidden(rows, pages, first) ==
    \A i \in DOMAIN first : \E n \in rows :
        n.id = first[i] /\ (Cardinality(Ahead(rows, n)) < Len(pages) => n.id \in Range(pages))

NoneAhead(rows, pages) ==
    \A i \in DOMAIN pages : \A n \in rows :
        n.id = pages[i] => Cardinality(Ahead(rows, n)) < i

\* A note that is made hides none.
LEMMA MadeHidesNone ==
    ASSUME NEW S, IsFiniteSet(S), NEW R \in SUBSET S, NEW M, NEW s \in Seq(M), NEW a,
           NoneHidden(R, s, a)
    PROVE  NoneHidden(S, s, a)
<1> SUFFICES ASSUME NEW i \in DOMAIN a
             PROVE  \E n \in S : /\ n.id = a[i]
                                 /\ Cardinality(Ahead(S, n)) < Len(s) => n.id \in Range(s)
  BY DEF NoneHidden
<1>1. PICK n \in R : n.id = a[i] /\ (Cardinality(Ahead(R, n)) < Len(s) => n.id \in Range(s))
  BY DEF NoneHidden
<1>2. /\ Cardinality(Ahead(R, n)) \in Nat /\ Cardinality(Ahead(S, n)) \in Nat
      /\ Cardinality(Ahead(R, n)) <= Cardinality(Ahead(S, n))
  BY RankGrows
<1>3. Len(s) \in Nat
  BY LenProperties
<1> QED BY <1>1, <1>2, <1>3

\* A note that is deleted puts none ahead.
LEMMA DeletedPutsNoneAhead ==
    ASSUME NEW S, IsFiniteSet(S), NEW R \in SUBSET S, NEW M, NEW s \in Seq(M),
           NoneAhead(S, s)
    PROVE  NoneAhead(R, s)
<1> SUFFICES ASSUME NEW i \in DOMAIN s, NEW n \in R, n.id = s[i]
             PROVE  Cardinality(Ahead(R, n)) < i
  BY DEF NoneAhead
<1>1. n \in S /\ Cardinality(Ahead(S, n)) < i
  BY DEF NoneAhead
<1>2. /\ Cardinality(Ahead(R, n)) \in Nat /\ Cardinality(Ahead(S, n)) \in Nat
      /\ Cardinality(Ahead(R, n)) <= Cardinality(Ahead(S, n))
  BY RankGrows
<1>3. i \in Nat
  BY LenProperties
<1> QED BY <1>1, <1>2, <1>3

\* Nor does a page: what it passes it shows, and shows no row but at its place.
LEMMA PageShifts ==
    ASSUME NEW M \in Nat, NEW rows, Ordered(rows), \A n \in rows : n.id \in 1..M,
           NEW o \in Orders(rows), NEW s \in Seq(1..M), NEW limit \in 1..100,
           NEW page, page = Limited(o, limit, Len(s)), NEW a
    PROVE  /\ NoneHidden(rows, s, a) => NoneHidden(rows, s \o Ids(page), a)
           /\ NoneAhead(rows, s) /\ IsInjective(s)
                => NoneAhead(rows, s \o Ids(page)) /\ IsInjective(s \o Ids(page))
           /\ Len(page) < limit => Cardinality(rows) <= Len(s \o Ids(page))
<1>0. GoesOn(M, o, s, limit, page)
  BY PageIs
<1> DEFINE t == s \o Ids(page)
           k == Len(s)
           z == Len(page)
<1>1. /\ t \in Seq(1..M) /\ Len(t) = k + z /\ z \in Nat
      /\ \A i \in 1..k : t[i] = s[i]
      /\ \A p \in (k + 1)..(k + z) : p \in 1..Len(o) /\ t[p] = o[p].id
      /\ Len(page) < limit => Len(o) <= k + z
  BY <1>0 DEF GoesOn
<1>2. /\ Len(o) = Cardinality(rows) /\ Len(o) \in Nat
      /\ \A p \in 1..Len(o) : o[p] \in rows /\ Cardinality(Ahead(rows, o[p])) = p - 1
      /\ \A n \in rows : \E p \in 1..Len(o) : o[p] = n
      /\ \A p, q \in 1..Len(o) : o[p].id = o[q].id => p = q
  <2>1. /\ o \in Seq(rows) /\ Len(o) = Cardinality(rows)
        /\ \A p \in 1..Len(o) : Cardinality(Ahead(rows, o[p])) = p - 1
        /\ \A n \in rows : \E p \in 1..Len(o) : o[p] = n
        /\ \A p, q \in 1..Len(o) : o[p].id = o[q].id => p = q
    BY PlaceIsRank
  <2>2. Len(o) \in Nat /\ \A p \in 1..Len(o) : o[p] \in rows
    BY <2>1, LenProperties, ElementOfSeq
  <2> QED BY <2>1, <2>2
<1>3. k \in Nat /\ DOMAIN s = 1..k
  BY LenProperties
<1> HIDE DEF t, k, z
<1>4. DOMAIN t = 1..(k + z)
  BY <1>1, LenProperties
<1>5. ASSUME NoneHidden(rows, s, a) PROVE NoneHidden(rows, t, a)
  <2> SUFFICES ASSUME NEW i \in DOMAIN a
               PROVE  \E n \in rows : /\ n.id = a[i]
                                      /\ Cardinality(Ahead(rows, n)) < Len(t) => n.id \in Range(t)
    BY DEF NoneHidden
  <2>1. PICK n \in rows : /\ n.id = a[i]
                          /\ Cardinality(Ahead(rows, n)) < k => n.id \in Range(s)
    BY <1>5 DEF NoneHidden, k
  <2>2. PICK p \in 1..Len(o) : o[p] = n
    BY <1>2
  <2>3. Cardinality(Ahead(rows, n)) = p - 1
    BY <1>2, <2>2
  <2>4. ASSUME p <= k + z PROVE n.id \in Range(t)
    <3>1. CASE p <= k
      <4>1. n.id \in Range(s)
        BY <1>3, <2>1, <2>3, <3>1
      <4>2. PICK j \in 1..k : s[j] = n.id
        BY <1>3, <4>1 DEF Range
      <4>3. j \in 1..(k + z) /\ t[j] = n.id
        BY <1>1, <1>3, <4>2
      <4> QED BY <1>4, <4>3 DEF Range
    <3>2. CASE ~(p <= k)
      <4>1. p \in (k + 1)..(k + z) /\ p \in 1..(k + z)
        BY <1>1, <1>3, <2>4, <3>2
      <4>2. t[p] = n.id
        BY <1>1, <2>2, <4>1
      <4> QED BY <1>4, <4>1, <4>2 DEF Range
    <3> QED BY <3>1, <3>2
  <2> QED BY <1>1, <1>3, <2>1, <2>3, <2>4
<1>6. ASSUME NoneAhead(rows, s), IsInjective(s) PROVE NoneAhead(rows, t) /\ IsInjective(t)
  <2>1. ASSUME NEW i \in 1..(k + z), NEW n \in rows, n.id = t[i]
        PROVE  Cardinality(Ahead(rows, n)) < i
    <3>1. CASE i <= k
      <4>1. i \in 1..k /\ n.id = s[i]
        BY <1>1, <1>3, <2>1, <3>1
      <4> QED BY <1>3, <1>6, <4>1 DEF NoneAhead
    <3>2. CASE ~(i <= k)
      <4>1. i \in (k + 1)..(k + z)
        BY <1>1, <1>3, <3>2
      <4>2. i \in 1..Len(o) /\ n.id = o[i].id
        BY <1>1, <2>1, <4>1
      <4>3. PICK p \in 1..Len(o) : o[p] = n
        BY <1>2
      <4>4. p = i
        BY <1>2, <4>2, <4>3
      <4> QED BY <1>2, <4>2, <4>3, <4>4
    <3> QED BY <3>1, <3>2
  <2>2. ASSUME NEW i \in 1..(k + z), NEW j \in 1..(k + z), i < j, t[i] = t[j] PROVE FALSE
    <3>1. CASE j <= k
      <4>1. i \in 1..k /\ j \in 1..k /\ s[i] = s[j]
        BY <1>1, <1>3, <2>2, <3>1
      <4> QED BY <1>3, <1>6, <2>2, <4>1 DEF IsInjective
    <3>2. CASE ~(j <= k)
      <4>1. j \in (k + 1)..(k + z)
        BY <1>1, <1>3, <3>2
      <4>2. j \in 1..Len(o) /\ t[j] = o[j].id /\ o[j] \in rows
            /\ Cardinality(Ahead(rows, o[j])) = j - 1
        BY <1>1, <1>2, <4>1
      <4>3. Cardinality(Ahead(rows, o[j])) < i
        BY <2>1, <2>2, <4>2
      <4> QED BY <2>2, <4>2, <4>3
    <3> QED BY <3>1, <3>2
  <2>3. NoneAhead(rows, t)
    BY <1>4, <2>1 DEF NoneAhead
  <2>4. IsInjective(t)
    BY <1>1, <1>3, <1>4, <2>2 DEF IsInjective
  <2> QED BY <2>3, <2>4
<1>7. Len(page) < limit => Cardinality(rows) <= Len(t)
  BY <1>1, <1>2
<1> QED BY <1>5, <1>6, <1>7 DEF t

-----------------------------------------------------------------------------
(* The invariant. *)

K == {"create", "update", "delete", "rename"}

\* The rows of a search are notes, to be ordered, with ids that were given.
LEMMA RowsAreNotes ==
    ASSUME SearchAssumption, IInv, NEW q
    PROVE  /\ Rows(q) \in SUBSET notes /\ IsFiniteSet(Rows(q)) /\ Ordered(Rows(q))
           /\ \A n \in Rows(q) : n.id \in 1..MaxNotes
<1>1. Rows(q) \in SUBSET notes
  BY DEF Rows
<1>2. IsFiniteSet(Rows(q))
  BY <1>1, FS_Subset DEF IInv
<1>3. /\ \A n \in notes : n.id \in 1..MaxNotes /\ n.id \in Int /\ n.date \in Int
      /\ \A m, n \in notes : m.id = n.id => m = n
  <2>1. MaxNotes \in Nat /\ Dates \subseteq Int
    BY DEF SearchAssumption
  <2>2. /\ nextId \in 1..(MaxNotes + 1)
        /\ \A n \in notes : n.id \in 1..(nextId - 1) /\ n.date \in Dates
        /\ \A m, n \in notes : m.id = n.id => m = n
    BY DEF IInv, TypeOK
  <2>3. ASSUME NEW n \in notes PROVE n.id \in 1..MaxNotes /\ n.id \in Int /\ n.date \in Int
    <3>1. n.id \in 1..(nextId - 1) /\ n.date \in Dates
      BY <2>2
    <3>2. nextId \in Int /\ nextId - 1 <= MaxNotes
      BY <2>1, <2>2
    <3>3. n.id \in Int /\ 1 <= n.id /\ n.id <= nextId - 1
      BY <3>1, <3>2
    <3>4. n.id \in 1..MaxNotes
      BY <2>1, <3>2, <3>3
    <3>5. n.date \in Int
      BY <2>1, <3>1
    <3> QED BY <3>3, <3>4, <3>5
  <2> QED BY <2>2, <2>3
<1> QED BY <1>1, <1>2, <1>3 DEF Ordered

\* The history of writes has kinds of writes, and the last one if it is the reader's.
LEMMA Noticed ==
    ASSUME writes \in Seq(K), NEW u, NEW kind \in K, Noted(u, kind)
    PROVE  /\ writes' \in Seq(K)
           /\ search = Nil => writes' = writes
           /\ u # Reader => writes' = writes
           /\ search # Nil /\ u = Reader => Kinds' = Kinds \cup {kind}
<1>1. CASE search = Nil \/ u # Reader
  BY <1>1 DEF Noted
<1>2. CASE search # Nil /\ u = Reader
  <2> DEFINE w == writes
             v == Append(writes, kind)
  <2>1. writes' = v
    BY <1>2 DEF Noted
  <2>2. /\ v \in Seq(K) /\ Len(v) = Len(w) + 1 /\ v[Len(w) + 1] = kind
        /\ \A i \in 1..Len(w) : v[i] = w[i]
    BY AppendProperties
  <2>3. DOMAIN w = 1..Len(w) /\ DOMAIN v = 1..(Len(w) + 1) /\ Len(w) \in Nat
    BY <2>2, LenProperties
  <2> HIDE DEF w, v
  <2>4. Range(v) = Range(w) \cup {kind}
    BY <2>2, <2>3 DEF Range
  <2> QED BY <1>2, <2>1, <2>2, <2>4 DEF Kinds, w
<1> QED BY <1>1, <1>2

\* Shifted, in the words of the lemmas above.
LEMMA ShiftedIs ==
    Shifted <=> /\ Kinds \subseteq {"create"} => NoneHidden(Rows(search), seen, atStart)
                /\ Kinds \subseteq {"delete"}
                        => NoneAhead(Rows(search), seen) /\ IsInjective(seen)
                /\ over => Cardinality(Rows(search)) <= Len(seen)
BY DEF Shifted, NotHidden, NotAhead, Rank, NoneHidden, NoneAhead, Ahead

\* A write of a note during the search: what is made is added, what is deleted taken
\* away, and another user's is no row.
LEMMA WriteShifts ==
    ASSUME SearchAssumption, IInv, search # Nil, search' = search, seen' = seen,
           atStart' = atStart, over' = over, ~over, NEW u, NEW kind \in K,
           Noted(u, kind), IsFiniteSet(Rows(search)'),
           u # Reader => Rows(search)' = Rows(search),
           kind = "create" => Rows(search) \subseteq Rows(search)',
           kind = "delete" => Rows(search)' \subseteq Rows(search)
    PROVE  Shifted'
<1>1. /\ writes' = writes \/ Kinds' = Kinds \cup {kind}
      /\ u # Reader => writes' = writes
      /\ u = Reader => Kinds' = Kinds \cup {kind}
  BY Noticed DEF IInv, K
<1>2. /\ Kinds \subseteq {"create"} => NoneHidden(Rows(search), seen, atStart)
      /\ Kinds \subseteq {"delete"} => NoneAhead(Rows(search), seen) /\ IsInjective(seen)
  BY ShiftedIs DEF IInv
<1>3. IsFiniteSet(Rows(search)) /\ seen \in Seq(1..MaxNotes)
  BY RowsAreNotes DEF IInv
<1> DEFINE R == Rows(search)
           S == Rows(search)'
<1>4. /\ Kinds' \subseteq {"create"} => NoneHidden(S, seen, atStart)
      /\ Kinds' \subseteq {"delete"} => NoneAhead(S, seen) /\ IsInjective(seen)
  <2>1. CASE u # Reader
    <3>1. Kinds' = Kinds /\ S = R
      BY <1>1, <2>1 DEF Kinds
    <3> QED BY <1>2, <3>1
  <2>2. CASE u = Reader
    <3>1. Kinds' = Kinds \cup {kind}
      BY <1>1, <2>2
    <3>2. CASE kind = "create"
      <4>1. ~(Kinds' \subseteq {"delete"}) /\ (Kinds' \subseteq {"create"} => Kinds \subseteq {"create"})
        BY <3>1, <3>2
      <4>2. R \in SUBSET S
        BY <3>2
      <4> HIDE DEF R, S
      <4>3. NoneHidden(R, seen, atStart) => NoneHidden(S, seen, atStart)
        BY <1>3, <4>2, MadeHidesNone DEF S
      <4> QED BY <1>2, <4>1, <4>3 DEF R
    <3>3. CASE kind = "delete"
      <4>1. ~(Kinds' \subseteq {"create"}) /\ (Kinds' \subseteq {"delete"} => Kinds \subseteq {"delete"})
        BY <3>1, <3>3
      <4>2. S \in SUBSET R
        BY <3>3
      <4> HIDE DEF R, S
      <4>3. NoneAhead(R, seen) => NoneAhead(S, seen)
        BY <1>3, <4>2, DeletedPutsNoneAhead DEF R
      <4> QED BY <1>2, <4>1, <4>3 DEF R
    <3>4. CASE kind # "create" /\ kind # "delete"
      BY <3>1, <3>4 
    <3> QED BY <3>2, <3>3, <3>4
  <2> QED BY <2>1, <2>2
<1>5. Shifted' <=> /\ Kinds' \subseteq {"create"} => NoneHidden(Rows(search)', seen', atStart')
                   /\ Kinds' \subseteq {"delete"}
                         => NoneAhead(Rows(search)', seen') /\ IsInjective(seen')
                   /\ over' => Cardinality(Rows(search)') <= Len(seen')
  BY DEF Shifted, NotHidden, NotAhead, Rank, NoneHidden, NoneAhead, Ahead
<1> QED BY <1>4, <1>5

-----------------------------------------------------------------------------

\* Nothing is searched or seen at the start.
LEMMA StartsShifted == ASSUME SearchAssumption, Init PROVE IInv
<1>1. /\ Range(<< >>) = {} /\ << >> \in Seq(1..MaxNotes) /\ << >> \in Seq(K)
      /\ IsFiniteSet({})
  BY FS_EmptySet, EmptySeq DEF Range
<1>2. nextId \in 1..(MaxNotes + 1)
  BY DEF Init, SearchAssumption
<1>3. named \in [Tags -> Names] /\ IsInjective(named)
  BY DEF Init, Injection
<1> QED BY <1>1, <1>2, <1>3 DEF Init, IInv, TypeOK, K

\* A write keeps what has been seen.
LEMMA WriteKeepsTypes ==
    ASSUME SearchAssumption, IInv, ~over, NEW u, NEW kind \in K, Noted(u, kind),
           UNCHANGED <<search, seen, over, atStart>>,
           IsFiniteSet(notes'), nextId' \in 1..(MaxNotes + 1),
           named' \in [Tags -> Names], IsInjective(named'),
           \A n \in notes' : n.id \in 1..(nextId' - 1) /\ n.user \in Users /\ n.date \in Dates,
           \A m, n \in notes' : m.id = n.id => m = n,
           u # Reader => Rows(search)' = Rows(search),
           kind = "create" => Rows(search) \subseteq Rows(search)',
           kind = "delete" => Rows(search)' \subseteq Rows(search)
    PROVE  IInv'
<1>1. writes' \in Seq(K) /\ (search = Nil => writes' = writes)
  BY Noticed DEF IInv, K
<1>2. TypeOK'
  BY <1>1 DEF IInv, TypeOK
<1>3. IsFiniteSet(Rows(search)')
  <2>1. Rows(search)' \in SUBSET notes'
    BY DEF Rows
  <2> QED BY <2>1, FS_Subset
<1>4. search # Nil => Shifted'
  BY <1>3, WriteShifts
<1> QED BY <1>1, <1>2, <1>4 DEF IInv, K

\* Create.
LEMMA CreateKeeps == ASSUME SearchAssumption, IInv, Create PROVE IInv'
<1>1. PICK u \in Users, d \in Dates : \E k \in Contents[u] :
          notes' = notes \cup {Note(nextId, u, d, k)} /\ Noted(u, "create")
  BY DEF Create
<1>2. PICK k \in Contents[u] :
          notes' = notes \cup {Note(nextId, u, d, k)} /\ Noted(u, "create")
  BY <1>1
<1> DEFINE new == Note(nextId, u, d, k)
<1>3. new.id = nextId /\ new.user = u /\ new.date = d
  BY DEF Note
<1>4. /\ ~over /\ nextId <= MaxNotes /\ nextId' = nextId + 1
      /\ UNCHANGED <<named, search, seen, over, atStart>>
  BY DEF Create, MayWrite
<1> HIDE DEF new
<1>5. notes' = notes \cup {new} /\ Noted(u, "create")
  BY <1>2 DEF new
<1>6. IsFiniteSet(notes')
  BY <1>5, FS_AddElement DEF IInv
<1>7. /\ nextId \in 1..(MaxNotes + 1) /\ MaxNotes \in Nat
      /\ \A n \in notes : n.id \in 1..(nextId - 1) /\ n.user \in Users /\ n.date \in Dates
      /\ \A m, n \in notes : m.id = n.id => m = n
      /\ named \in [Tags -> Names] /\ IsInjective(named)
  BY DEF IInv, TypeOK, SearchAssumption
<1>8. nextId' \in 1..(MaxNotes + 1)
  BY <1>4, <1>7
<1>9. ASSUME NEW n \in notes'
      PROVE  n.id \in 1..(nextId' - 1) /\ n.user \in Users /\ n.date \in Dates
  <2>1. CASE n \in notes
    <3>1. n.id \in 1..(nextId - 1) /\ n.user \in Users /\ n.date \in Dates
      BY <1>7, <2>1
    <3>2. 1..(nextId - 1) \subseteq 1..(nextId' - 1)
      BY <1>4, <1>7
    <3> QED BY <3>1, <3>2
  <2>2. CASE n = new
    <3>1. nextId \in 1..(nextId' - 1)
      BY <1>4, <1>7
    <3> QED BY <1>3, <2>2, <3>1
  <2> QED BY <1>5, <2>1, <2>2
<1>10. \A n \in notes : n.id # new.id
  <2> SUFFICES ASSUME NEW n \in notes PROVE n.id # new.id
    OBVIOUS
  <2>1. n.id \in 1..(nextId - 1) /\ nextId \in Int
    BY <1>7
  <2>2. nextId \notin 1..(nextId - 1)
    BY <2>1
  <2> QED BY <1>3, <2>1, <2>2
<1>11. \A m, n \in notes' : m.id = n.id => m = n
  BY <1>5, <1>7, <1>10
<1>12. \A n : Where(search, n)' = Where(search, n)
  BY <1>4 DEF Where, HasTags
<1>13. Rows(search) \subseteq Rows(search)'
  BY <1>5, <1>12 DEF Rows
<1>14. u # Reader => Rows(search)' = Rows(search)
  <2>1. u # Reader => ~Where(search, new)
    BY <1>3 DEF Where
  <2> QED BY <1>5, <1>12, <2>1 DEF Rows
<1> QED
  BY <1>4, <1>5, <1>6, <1>7, <1>8, <1>9, <1>11, <1>13, <1>14, WriteKeepsTypes DEF K

\* Update.
LEMMA UpdateKeeps == ASSUME SearchAssumption, IInv, Update PROVE IInv'
<1>1. PICK o \in notes, d \in Dates : \E k \in Contents[o.user] :
          notes' = (notes \ {o}) \cup {Note(o.id, o.user, d, k)} /\ Noted(o.user, "update")
  BY DEF Update
<1>2. PICK k \in Contents[o.user] :
          notes' = (notes \ {o}) \cup {Note(o.id, o.user, d, k)} /\ Noted(o.user, "update")
  BY <1>1
<1> DEFINE new == Note(o.id, o.user, d, k)
           u == o.user
<1>3. new.id = o.id /\ new.user = u /\ new.date = d
  BY DEF Note
<1>4. ~over /\ UNCHANGED <<nextId, named, search, seen, over, atStart>>
  BY DEF Update, MayWrite
<1> HIDE DEF new, u
<1>5. notes' = (notes \ {o}) \cup {new} /\ Noted(u, "update")
  BY <1>2 DEF new, u
<1>6. IsFiniteSet(notes')
  <2>1. IsFiniteSet(notes \ {o})
    BY FS_RemoveElement DEF IInv
  <2> QED BY <1>5, <2>1, FS_AddElement
<1>7. /\ nextId \in 1..(MaxNotes + 1)
      /\ \A n \in notes : n.id \in 1..(nextId - 1) /\ n.user \in Users /\ n.date \in Dates
      /\ \A m, n \in notes : m.id = n.id => m = n
      /\ named \in [Tags -> Names] /\ IsInjective(named)
  BY DEF IInv, TypeOK
<1>8. \A n \in notes' : n.id \in 1..(nextId' - 1) /\ n.user \in Users /\ n.date \in Dates
  <2>1. new.id \in 1..(nextId - 1) /\ new.user \in Users /\ new.date \in Dates
    BY <1>3, <1>7 DEF u
  <2> QED BY <1>4, <1>5, <1>7, <2>1
<1>9. \A m, n \in notes' : m.id = n.id => m = n
  BY <1>3, <1>5, <1>7
<1>10. \A n : Where(search, n)' = Where(search, n)
  BY <1>4 DEF Where, HasTags
<1>11. u # Reader => Rows(search)' = Rows(search)
  <2>1. u # Reader => ~Where(search, new) /\ ~Where(search, o)
    BY <1>3 DEF Where, u
  <2> QED BY <1>5, <1>10, <2>1 DEF Rows
<1> QED
  BY <1>4, <1>5, <1>6, <1>7, <1>8, <1>9, <1>11, WriteKeepsTypes DEF K

\* Delete.
LEMMA DeleteKeeps == ASSUME SearchAssumption, IInv, Delete PROVE IInv'
<1>1. PICK o \in notes : notes' = notes \ {o} /\ Noted(o.user, "delete")
  BY DEF Delete
<1>2. ~over /\ UNCHANGED <<nextId, named, search, seen, over, atStart>>
  BY DEF Delete, MayWrite
<1>3. IsFiniteSet(notes')
  BY <1>1, FS_RemoveElement DEF IInv
<1>4. /\ nextId \in 1..(MaxNotes + 1)
      /\ \A n \in notes : n.id \in 1..(nextId - 1) /\ n.user \in Users /\ n.date \in Dates
      /\ \A m, n \in notes : m.id = n.id => m = n
      /\ named \in [Tags -> Names] /\ IsInjective(named)
  BY DEF IInv, TypeOK
<1>5. /\ \A n \in notes' : n.id \in 1..(nextId' - 1) /\ n.user \in Users /\ n.date \in Dates
      /\ \A m, n \in notes' : m.id = n.id => m = n
  BY <1>1, <1>2, <1>4
<1>6. \A n : Where(search, n)' = Where(search, n)
  BY <1>2 DEF Where, HasTags
<1>7. Rows(search)' \subseteq Rows(search)
  BY <1>1, <1>6 DEF Rows
<1>8. o.user # Reader => Rows(search)' = Rows(search)
  <2>1. o.user # Reader => ~Where(search, o)
    BY DEF Where
  <2> QED BY <1>1, <1>6, <2>1 DEF Rows
<1> QED
  BY <1>1, <1>2, <1>3, <1>4, <1>5, <1>7, <1>8, WriteKeepsTypes DEF K

\* Rename: any tag, to a name none has.
LEMMA RenameKeeps == ASSUME SearchAssumption, IInv, Rename PROVE IInv'
<1>1. PICK t \in Tags, n \in Names \ Range(named) :
          named' = [named EXCEPT ![t] = n] /\ Noted(Reader, "rename")
  BY DEF Rename
<1>2. ~over /\ UNCHANGED <<notes, nextId, search, seen, over, atStart>>
  BY DEF Rename, MayWrite
<1>3. /\ IsFiniteSet(notes) /\ nextId \in 1..(MaxNotes + 1)
      /\ \A m \in notes : m.id \in 1..(nextId - 1) /\ m.user \in Users /\ m.date \in Dates
      /\ \A m, l \in notes : m.id = l.id => m = l
      /\ named \in [Tags -> Names] /\ IsInjective(named)
  BY DEF IInv, TypeOK
<1>4. named' \in [Tags -> Names]
  BY <1>1, <1>3
<1>5. IsInjective(named')
  <2>1. \A x \in Tags : named[x] # n
    BY <1>1, <1>3 DEF Range
  <2> QED BY <1>1, <1>3, <2>1 DEF IsInjective
<1>6. /\ IsFiniteSet(notes') /\ nextId' \in 1..(MaxNotes + 1)
      /\ \A m \in notes' : m.id \in 1..(nextId' - 1) /\ m.user \in Users /\ m.date \in Dates
      /\ \A m, l \in notes' : m.id = l.id => m = l
  BY <1>2, <1>3
<1> QED BY <1>1, <1>2, <1>4, <1>5, <1>6, WriteKeepsTypes DEF K

\* Start: everything is ahead.
LEMMA StartKeeps == ASSUME SearchAssumption, IInv, Start PROVE IInv'
<1>1. PICK q \in Searches : search' = q /\ \E o \in Orders(Rows(q)) : atStart' = Ids(o)
  BY DEF Start
<1>2. PICK o \in Orders(Rows(q)) : atStart' = Ids(o)
  BY <1>1
<1>3. search = Nil /\ UNCHANGED <<notes, nextId, named, seen, over, writes>>
  BY DEF Start
<1>4. seen = << >> /\ writes = << >> /\ ~over
  BY <1>3 DEF IInv, TypeOK
<1>5. /\ Ordered(Rows(q)) /\ IsFiniteSet(Rows(q))
      /\ \A n \in Rows(q) : n.id \in 1..MaxNotes
  BY RowsAreNotes
<1>6. /\ o \in Seq(Rows(q)) /\ Len(o) \in Nat /\ DOMAIN o = 1..Len(o)
      /\ \A i \in 1..Len(o) : o[i] \in Rows(q)
  BY <1>5, PlaceIsRank, LenProperties, ElementOfSeq
<1>7. DOMAIN Ids(o) = 1..Len(o) /\ \A i \in 1..Len(o) : Ids(o)[i] = o[i].id
  BY <1>6 DEF Ids
<1>8. Ids(o) \in Seq(1..MaxNotes) /\ Range(Ids(o)) \subseteq 1..MaxNotes
  <2>1. Ids(o) = [i \in 1..Len(o) |-> o[i].id]
    BY <1>6 DEF Ids
  <2> QED BY <1>5, <1>6, <1>7, <2>1 DEF Range
<1>9. Rows(search)' = Rows(q)
  <2>1. \A n : Where(search, n)' = Where(q, n)
    BY <1>1, <1>3 DEF Where, HasTags
  <2> QED BY <1>3, <2>1 DEF Rows
<1>10. NoneHidden(Rows(q), << >>, Ids(o))
  <2>1. ASSUME NEW n \in Rows(q) PROVE ~(Cardinality(Ahead(Rows(q), n)) < Len(<< >>))
    <3>1. Cardinality(Ahead(Rows(q), n)) \in Nat
      BY <1>5, RankBelow
    <3> QED BY <3>1
  <2> QED BY <1>6, <1>7, <2>1 DEF NoneHidden
<1>11. NoneAhead(Rows(q), << >>) /\ IsInjective(<< >>)
  BY DEF NoneAhead, IsInjective
<1>12. Shifted'
  <2>1. /\ NoneHidden(Rows(search)', seen', atStart')
        /\ NoneAhead(Rows(search)', seen') /\ IsInjective(seen') /\ ~over'
    BY <1>2, <1>3, <1>4, <1>9, <1>10, <1>11
  <2> QED
    BY <2>1 DEF Shifted, NotHidden, NotAhead, Rank, NoneHidden, NoneAhead, Ahead
<1>13. Nil \notin Searches
  BY DEF SearchAssumption
<1>14. TypeOK'
  BY <1>1, <1>2, <1>3, <1>8, <1>13 DEF IInv, TypeOK
<1> QED BY <1>2, <1>3, <1>8, <1>12, <1>14 DEF IInv

\* List: what the page passes it shows.
LEMMA ListKeeps == ASSUME SearchAssumption, IInv, List PROVE IInv'
<1>1. PICK o \in Orders(Rows(search)) :
          LET page == Limited(o, search.limit, Len(seen)) IN
          seen' = seen \o Ids(page) /\ over' = (Len(page) < search.limit)
  BY DEF List
<1> DEFINE page == Limited(o, search.limit, Len(seen))
           limit == search.limit
<1>2. /\ search # Nil /\ ~over /\ UNCHANGED <<notes, nextId, named, search, atStart, writes>>
      /\ seen' = seen \o Ids(page) /\ over' = (Len(page) < limit)
  BY <1>1 DEF List
<1>3. /\ Ordered(Rows(search)) /\ \A n \in Rows(search) : n.id \in 1..MaxNotes
      /\ MaxNotes \in Nat
  BY RowsAreNotes DEF SearchAssumption
<1>4. search \in Searches /\ limit \in 1..100 /\ seen \in Seq(1..MaxNotes)
  BY <1>2 DEF IInv, TypeOK, SearchAssumption
<1>5. page = Limited(o, limit, Len(seen))
  OBVIOUS
<1> HIDE DEF page, limit
<1>6. GoesOn(MaxNotes, o, seen, limit, page)
  BY <1>3, <1>4, <1>5, PageIs
<1>7. /\ NoneHidden(Rows(search), seen, atStart)
             => NoneHidden(Rows(search), seen \o Ids(page), atStart)
      /\ NoneAhead(Rows(search), seen) /\ IsInjective(seen)
             => NoneAhead(Rows(search), seen \o Ids(page)) /\ IsInjective(seen \o Ids(page))
      /\ Len(page) < limit => Cardinality(Rows(search)) <= Len(seen \o Ids(page))
  BY <1>3, <1>4, <1>5, PageShifts
<1>8. Rows(search)' = Rows(search)
  <2>1. \A n : Where(search, n)' = Where(search, n)
    BY <1>2 DEF Where, HasTags
  <2> QED BY <1>2, <2>1 DEF Rows
<1>9. seen' \in Seq(1..MaxNotes) /\ Range(seen') \subseteq 1..MaxNotes
  <2>1. seen' \in Seq(1..MaxNotes)
    BY <1>2, <1>6 DEF GoesOn
  <2>2. DOMAIN seen' = 1..Len(seen') /\ \A i \in 1..Len(seen') : seen'[i] \in 1..MaxNotes
    BY <2>1, LenProperties, ElementOfSeq
  <2> QED BY <2>1, <2>2 DEF Range
<1>10. Shifted'
  <2>1. Shifted /\ Kinds' = Kinds
    BY <1>2 DEF IInv, Kinds
  <2>2. /\ Kinds \subseteq {"create"} => NoneHidden(Rows(search), seen, atStart)
        /\ Kinds \subseteq {"delete"} => NoneAhead(Rows(search), seen) /\ IsInjective(seen)
    BY <2>1, ShiftedIs
  <2>3. /\ Kinds' \subseteq {"create"} => NoneHidden(Rows(search)', seen', atStart')
        /\ Kinds' \subseteq {"delete"} => NoneAhead(Rows(search)', seen') /\ IsInjective(seen')
        /\ over' => Cardinality(Rows(search)') <= Len(seen')
    BY <1>2, <1>7, <1>8, <2>1, <2>2
  <2> QED
    BY <2>3 DEF Shifted, NotHidden, NotAhead, Rank, NoneHidden, NoneAhead, Ahead
<1>11. TypeOK'
  BY <1>2, <1>9 DEF IInv, TypeOK
<1> QED BY <1>2, <1>9, <1>10, <1>11 DEF IInv

\* The invariant is inductive.
THEOREM Invariant == Spec => []IInv
<1>1. Init => IInv
  BY StartsShifted, SearchAssumption
<1>2. IInv /\ [Next]_vars => IInv'
  <2> SUFFICES ASSUME IInv, [Next]_vars PROVE IInv'
    OBVIOUS
  <2>1. CASE Create
    BY <2>1, CreateKeeps, SearchAssumption
  <2>2. CASE Update
    BY <2>2, UpdateKeeps, SearchAssumption
  <2>3. CASE Delete
    BY <2>3, DeleteKeeps, SearchAssumption
  <2>4. CASE Rename
    BY <2>4, RenameKeeps, SearchAssumption
  <2>5. CASE Start
    BY <2>5, StartKeeps, SearchAssumption
  <2>6. CASE List
    BY <2>6, ListKeeps, SearchAssumption
  <2>7. CASE UNCHANGED vars
    <3>1. Rows(search)' = Rows(search)
      <4>1. \A n : Where(search, n)' = Where(search, n)
        BY <2>7 DEF vars, Where, HasTags
      <4> QED BY <2>7, <4>1 DEF vars, Rows
    <3>2. Shifted => Shifted'
      BY <2>7, <3>1 DEF vars, Shifted, NotHidden, NotAhead, Rank, Kinds
    <3> QED BY <2>7, <3>2 DEF vars, IInv, TypeOK
  <2> QED BY <2>1, <2>2, <2>3, <2>4, <2>5, <2>6, <2>7 DEF Next
<1> QED BY <1>1, <1>2, PTL DEF Spec

\* Ids are given once, names have one tag, and nothing is seen before a search.
THEOREM Typing == Spec => []TypeOK
BY Invariant, PTL DEF IInv

\* Notes made between the pages hide none, notes deleted show none twice.
THEOREM WritesOnlyShift == Spec => []PagesOnlyShift
<1>1. IInv => PagesOnlyShift
  <2> SUFFICES ASSUME IInv PROVE PagesOnlyShift
    OBVIOUS
  <2>1. CASE search = Nil
    <3>1. ~over /\ seen = << >> /\ IsInjective(<< >>)
      BY <2>1 DEF IInv, TypeOK, IsInjective
    <3> QED BY <3>1 DEF PagesOnlyShift
  <2>2. CASE search # Nil
    <3>1. /\ Kinds \subseteq {"create"} => NoneHidden(Rows(search), seen, atStart)
          /\ Kinds \subseteq {"delete"} => IsInjective(seen)
          /\ over => Cardinality(Rows(search)) <= Len(seen)
      BY <2>2, ShiftedIs DEF IInv
    <3>2. ASSUME over, Kinds \subseteq {"create"}, NEW i \in DOMAIN atStart
          PROVE  atStart[i] \in Range(seen)
      <4>1. PICK n \in Rows(search) :
                /\ n.id = atStart[i]
                /\ Cardinality(Ahead(Rows(search), n)) < Len(seen) => n.id \in Range(seen)
        BY <3>1, <3>2 DEF NoneHidden
      <4>2. /\ Cardinality(Rows(search)) \in Nat
            /\ Cardinality(Ahead(Rows(search), n)) \in Nat
            /\ Cardinality(Ahead(Rows(search), n)) < Cardinality(Rows(search))
        BY RowsAreNotes, RankBelow, SearchAssumption
      <4>3. Len(seen) \in Nat
        BY LenProperties DEF IInv
      <4> QED BY <3>1, <3>2, <4>1, <4>2, <4>3
    <3> QED BY <3>1, <3>2 DEF PagesOnlyShift, Range
  <2> QED BY <2>1, <2>2
<1> QED BY <1>1, Invariant, PTL

\* A page has the rows whose places in the answer of now are those after the pages
\* before, as many as the limit, each at its place: what PageIsRight says of the notes
\* sought, said of those the condition lets through.
THEOREM PageIsItsWindow ==
    Spec => [][List =>
        LET first == Len(seen) IN
        /\ \A i \in (first + 1)..Len(seen') :
            \E n \in Rows(search) : n.id = seen'[i] /\ Rank(n) = i - 1
        /\ \A n \in Rows(search) :
            Rank(n) \in first..(first + search.limit - 1)
            => \E i \in (first + 1)..Len(seen') : seen'[i] = n.id]_vars
<1> DEFINE Window ==
        LET first == Len(seen) IN
        /\ \A i \in (first + 1)..Len(seen') :
            \E n \in Rows(search) : n.id = seen'[i] /\ Rank(n) = i - 1
        /\ \A n \in Rows(search) :
            Rank(n) \in first..(first + search.limit - 1)
            => \E i \in (first + 1)..Len(seen') : seen'[i] = n.id
<1>1. IInv /\ [Next]_vars => [List => Window]_vars
  <2> SUFFICES ASSUME IInv, List PROVE Window
    OBVIOUS
  <2>1. PICK o \in Orders(Rows(search)) :
            LET page == Limited(o, search.limit, Len(seen)) IN
            seen' = seen \o Ids(page) /\ over' = (Len(page) < search.limit)
    BY DEF List
  <2> DEFINE page == Limited(o, search.limit, Len(seen))
             limit == search.limit
             k == Len(seen)
  <2>2. seen' = seen \o Ids(page) /\ search # Nil
    BY <2>1 DEF List
  <2>3. /\ Ordered(Rows(search)) /\ \A n \in Rows(search) : n.id \in 1..MaxNotes
        /\ MaxNotes \in Nat
    BY RowsAreNotes, SearchAssumption DEF SearchAssumption
  <2>4. limit \in 1..100 /\ seen \in Seq(1..MaxNotes) /\ k \in Nat
    BY <2>2, SearchAssumption, LenProperties DEF IInv, TypeOK, SearchAssumption
  <2>5. page = Limited(o, limit, Len(seen))
    OBVIOUS
  <2> HIDE DEF page, limit
  <2>6. GoesOn(MaxNotes, o, seen, limit, page)
    BY <2>3, <2>4, <2>5, PageIs
  <2>7. /\ Len(seen') = k + Len(page) /\ Len(page) \in Nat
        /\ \A p \in (k + 1)..(k + Len(page)) : p \in 1..Len(o) /\ seen'[p] = o[p].id
        /\ \A p \in (k + 1)..Len(o) : p <= k + limit => p <= k + Len(page)
    BY <2>2, <2>6 DEF GoesOn
  <2>8. /\ Len(o) \in Nat
        /\ \A p \in 1..Len(o) : o[p] \in Rows(search) /\ Rank(o[p]) = p - 1
        /\ \A n \in Rows(search) : \E p \in 1..Len(o) : o[p] = n
    BY <2>3, PlaceIsRank, LenProperties, ElementOfSeq DEF Rank, Ahead
  <2> HIDE DEF k
  <2>9. ASSUME NEW i \in (k + 1)..Len(seen')
        PROVE  \E n \in Rows(search) : n.id = seen'[i] /\ Rank(n) = i - 1
    BY <2>7, <2>8
  <2>10. ASSUME NEW n \in Rows(search), Rank(n) \in k..(k + limit - 1)
         PROVE  \E i \in (k + 1)..Len(seen') : seen'[i] = n.id
    <3>1. PICK p \in 1..Len(o) : o[p] = n
      BY <2>8
    <3>2. Rank(n) = p - 1
      BY <2>8, <3>1
    <3>3. p \in (k + 1)..Len(o) /\ p <= k + limit
      BY <2>4, <2>8, <2>10, <3>2
    <3>4. p \in (k + 1)..(k + Len(page))
      BY <2>4, <2>7, <3>3
    <3> QED BY <2>7, <3>1, <3>4
  <2> QED BY <2>9, <2>10 DEF k, limit
<1> QED BY <1>1, Invariant, PTL DEF Spec

=============================================================================

----------------------------- MODULE IndexProofs -----------------------------
(***************************************************************************)
(* Proofs about the symbol index, for every set of files, databases and    *)
(* symbols, and any number of writes, edits and refreshes.                 *)
(*                                                                         *)
(*   IndexIsCurrent       once a refresh has read the databases as they    *)
(*                        are, the published index is what they say        *)
(*   ReadersSeeOneMoment  a client gets the result of one revision and the *)
(*                        occurrences of one moment                        *)
(*                                                                         *)
(* PublicationInv adds what a refresh relies on when it skips a source:    *)
(* a copy with the fingerprint that the database has now is its rows.      *)
(* ReadingInv adds where a client is in its result, and what a reader has  *)
(* collected, as long as the revision or the fingerprints are still those  *)
(* that it has seen.  Both rest on facts about finite sets in order, which *)
(* come first.                                                             *)
(***************************************************************************)
EXTENDS SymbolIndex, FiniteSetTheorems, SequenceTheorems, TLAPS

-----------------------------------------------------------------------------
(* Finite sets in order.  An order is a set of pairs here, since the        *)
(* operator that InOrder takes cannot be the parameter of a lemma.          *)

Orders(R, S) ==
    /\ \A x \in S : <<x, x>> \notin R
    /\ \A x, y \in S : x # y => <<x, y>> \in R \/ <<y, x>> \in R
    /\ \A x, y, z \in S : <<x, y>> \in R /\ <<y, z>> \in R => <<x, z>> \in R

Enumerates(s, R, S) ==
    /\ s \in [1..Cardinality(S) -> S]
    /\ \A i, j \in 1..Cardinality(S) : i < j => <<s[i], s[j]>> \in R

\* A smallest set with a property: finite sets have no infinite descent.
LEMMA SmallestSet ==
    ASSUME NEW S, IsFiniteSet(S), NEW C, C \subseteq SUBSET S, C # {}
    PROVE  \E T \in C : \A U \in C : U \subseteq T => U = T
<1>1. C \subseteq FiniteSubsetsOf(S)
  BY FS_Subset DEF FiniteSubsetsOf
<1>2. PICK T \in C : \A U \in C : <<U, T>> \notin StrictSubsetOrdering(S)
  BY <1>1, FS_StrictSubsetOrderingWellFounded, WFMin
<1> QED BY <1>2 DEF StrictSubsetOrdering

LEMMA LastExists ==
    ASSUME NEW S, IsFiniteSet(S), S # {}, NEW R, Orders(R, S)
    PROVE  \E x \in S : \A y \in S \ {x} : <<y, x>> \in R
<1> DEFINE above(x) == {y \in S : <<x, y>> \in R}
<1> DEFINE C == {above(x) : x \in S}
<1>1. C \subseteq SUBSET S /\ C # {}
  OBVIOUS
<1>2. PICK T \in C : \A U \in C : U \subseteq T => U = T
  <2> HIDE DEF C
  <2> QED BY <1>1, SmallestSet
<1>3. PICK x \in S : T = above(x)
  BY <1>2
<1>4. ASSUME NEW y \in S \ {x} PROVE <<y, x>> \in R
  <2>1. SUFFICES ASSUME <<x, y>> \in R PROVE FALSE
    BY <1>4 DEF Orders
  <2>2. above(y) \subseteq above(x)
    BY <2>1 DEF Orders
  <2>3. above(y) = above(x)
    <3>1. above(y) \in C
      OBVIOUS
    <3> HIDE DEF C
    <3> QED BY <1>2, <1>3, <2>2, <3>1
  <2>4. y \in above(x) /\ y \notin above(y)
    BY <2>1 DEF Orders
  <2> QED BY <2>3, <2>4
<1> QED BY <1>4

LEMMA EnumerationExists ==
    ASSUME NEW S, IsFiniteSet(S), NEW R, Orders(R, S)
    PROVE  \E s : Enumerates(s, R, S)
<1> DEFINE C == {T \in SUBSET S : ~\E s : Enumerates(s, R, T)}
<1>1. SUFFICES ASSUME C # {} PROVE FALSE
  OBVIOUS
<1>2. PICK T \in C : \A U \in C : U \subseteq T => U = T
  <2>1. C \subseteq SUBSET S
    OBVIOUS
  <2> HIDE DEF C
  <2> QED BY <1>1, <2>1, SmallestSet
<1>3. IsFiniteSet(T) /\ Orders(R, T) /\ T \subseteq S
  BY FS_Subset DEF Orders
<1>4. T # {}
  <2>1. Cardinality({}) = 0
    BY FS_EmptySet
  <2>2. Enumerates([i \in 1..0 |-> 0], R, {})
    BY <2>1 DEF Enumerates
  <2> QED BY <2>2
<1>5. PICK x \in T : \A y \in T \ {x} : <<y, x>> \in R
  BY <1>3, <1>4, LastExists
<1>6. PICK U : U = T \ {x}
  OBVIOUS
<1>7. PICK s : Enumerates(s, R, U)
  <2>1. U \in SUBSET S /\ U \subseteq T /\ U # T
    BY <1>3, <1>5, <1>6
  <2>2. U \notin C
    <3> HIDE DEF C
    <3> QED BY <1>2, <2>1
  <2> QED BY <2>1, <2>2
<1>8. Cardinality(U) \in Nat /\ Cardinality(T) = Cardinality(U) + 1
  <2>1. Cardinality(T) \in Nat /\ IsFiniteSet(U) /\ Cardinality(U) = Cardinality(T) - 1
    BY <1>3, <1>5, <1>6, FS_RemoveElement, FS_CardinalityType
  <2>2. Cardinality(U) \in Nat
    BY <2>1, FS_CardinalityType
  <2> QED BY <2>1, <2>2
<1>9. PICK n \in Nat : n = Cardinality(U)
  BY <1>8
<1>10. PICK e : e = [i \in 1..n + 1 |-> IF i = n + 1 THEN x ELSE s[i]]
  OBVIOUS
<1>11. \A i \in 1..n : s[i] \in U
  BY <1>7, <1>9 DEF Enumerates
<1>12. e \in [1..n + 1 -> T]
  <2>1. \A i \in 1..n + 1 : i # n + 1 => i \in 1..n
    OBVIOUS
  <2> QED BY <1>5, <1>6, <1>10, <1>11, <2>1
<1>13. ASSUME NEW i \in 1..n + 1, NEW j \in 1..n + 1, i < j
       PROVE  <<e[i], e[j]>> \in R
  <2>1. i \in 1..n /\ e[i] = s[i] /\ (j # n + 1 => j \in 1..n)
    BY <1>10, <1>13
  <2>2. CASE j = n + 1
    BY <1>5, <1>6, <1>10, <1>11, <2>1, <2>2
  <2>3. CASE j # n + 1
    BY <1>7, <1>9, <1>10, <1>13, <2>1, <2>3 DEF Enumerates
  <2> QED BY <2>2, <2>3
<1>14. Enumerates(e, R, T)
  BY <1>8, <1>9, <1>12, <1>13 DEF Enumerates
<1> QED BY <1>14

LEMMA EnumerationReaches ==
    ASSUME NEW S, IsFiniteSet(S), NEW R, Orders(R, S), NEW s, Enumerates(s, R, S)
    PROVE  /\ \A x \in S : \E i \in 1..Cardinality(S) : s[i] = x
           /\ \A i, j \in 1..Cardinality(S) : <<s[i], s[j]>> \in R => i < j
           /\ \A i, j \in 1..Cardinality(S) : s[i] = s[j] => i = j
<1>1. Cardinality(S) \in Nat
  BY FS_CardinalityType
<1>2. PICK n \in Nat : n = Cardinality(S)
  BY <1>1
<1>3. s \in [1..n -> S] /\ \A i, j \in 1..n : i < j => <<s[i], s[j]>> \in R
  BY <1>2 DEF Enumerates
<1>4. \A i, j \in 1..n : s[i] = s[j] => i = j
  <2>1. SUFFICES ASSUME NEW i \in 1..n, NEW j \in 1..n, s[i] = s[j], i # j PROVE FALSE
    OBVIOUS
  <2>2. s[i] \in S /\ (i < j \/ j < i)
    BY <1>3, <2>1
  <2>3. <<s[i], s[i]>> \in R
    BY <1>3, <2>1, <2>2
  <2> QED BY <2>2, <2>3 DEF Orders
<1>5. \A i, j \in 1..n : <<s[i], s[j]>> \in R => i < j
  <2>1. SUFFICES ASSUME NEW i \in 1..n, NEW j \in 1..n, <<s[i], s[j]>> \in R, ~(i < j) PROVE FALSE
    OBVIOUS
  <2>2. i = j \/ j < i
    BY <2>1
  <2>3. s[i] \in S /\ s[j] \in S
    BY <1>3
  <2>4. CASE i = j
    BY <2>1, <2>3, <2>4 DEF Orders
  <2>5. CASE j < i
    <3>1. <<s[j], s[i]>> \in R
      BY <1>3, <2>5
    <3> QED BY <2>1, <2>3, <3>1 DEF Orders
  <2> QED BY <2>2, <2>4, <2>5
<1>6. s \in Injection(1..n, S)
  BY <1>3, <1>4 DEF Injection, IsInjective
<1>7. IsFiniteSet(1..n) /\ Cardinality(1..n) = n
  BY FS_Interval
<1>8. s \in Surjection(1..n, S)
  BY <1>2, <1>6, <1>7, FS_Injection
<1> QED BY <1>2, <1>4, <1>5, <1>8 DEF Surjection

-----------------------------------------------------------------------------
(* The symbol index: types *)

FiniteRows == {R \in SUBSET SymbolRows : IsFiniteSet(R)}
Copies == [stamp : Nat \cup {None}, rows : FiniteRows]
Caches == UNION {[S -> Copies] : S \in SUBSET Databases}

IsListing(l) ==
    /\ l = [p \in DOMAIN l |-> l[p]]
    /\ DOMAIN l \subseteq Nat \ {0} /\ IsFiniteSet(DOMAIN l)
    /\ \A p \in DOMAIN l : l[p] \in SymbolRows

IndexTypeOK ==
    /\ owned \in [FileIds -> Databases \cup {None, NoDatabase}]
    /\ store \in [Databases -> FiniteRows \cup {None}]
    /\ stamp \in [Databases -> Nat]
    /\ cache \in Caches
    /\ IsListing(published)
    /\ revision \in Nat \cup {None}

\* What is published is shown: edits of the catalog take it away at once.
AllShown ==
    /\ \A p \in DOMAIN published : published[p].file \in Registered \ invalid
    /\ revision = None => DOMAIN published = {}

-----------------------------------------------------------------------------
(* The symbol index: what a refresh relies on *)

\* A copy with the fingerprint that its database has now is its rows.
CopiesHonest(c) ==
    \A d \in DOMAIN c :
        /\ c[d].stamp = None => c[d].rows = {}
        /\ c[d].stamp \in Nat => c[d].stamp <= stamp[d] /\ (c[d].stamp = stamp[d] => c[d].rows = StoredRows(d))

First(S) == CHOOSE d \in S : \A e \in S : d <= e

Begun == [phase |-> "begin"]
Refreshes ==
    [phase : {"source", "copy", "confirm"}, todo : SUBSET Databases, before : Nat \cup {None},
     stamp : Nat \cup {None}, cache : Caches]

\* The catalog rests while a refresh is under way: a source stays blocked or
\* does not, and each one is taken or still to be looked at.
RefreshOK(j) ==
    /\ CopiesHonest(j.cache)
    /\ DOMAIN j.cache \subseteq Linked /\ Linked \subseteq j.todo \cup DOMAIN j.cache
    /\ j.phase # "source" => j.todo # {}
    /\ j.phase = "copy" =>
         /\ j.stamp = None <=> Blocked(First(j.todo))
         /\ j.stamp \in Nat => j.stamp <= stamp[First(j.todo)]
         /\ First(j.todo) \in Linked
    /\ j.phase = "confirm" => First(j.todo) \in DOMAIN j.cache
    /\ j.todo \subseteq Linked

JobOK(j) ==
    /\ j \in {AtRest, Begun} \cup Refreshes
    /\ j.phase # "idle" => revision # None
    /\ j \in Refreshes => RefreshOK(j)

PublicationInv == IndexTypeOK /\ AllShown /\ CopiesHonest(cache) /\ JobOK(job) /\ IndexIsCurrent

-----------------------------------------------------------------------------
(* The symbol index: what its readers rely on *)

Searches ==
    [phase : {"reading", "done"}, query : DOMAIN NameOf \cup {None}, revision : Nat,
     position : Nat, got : Seq(SymbolRows), due : Seq(SymbolRows)]

\* As long as the revision is the client's, it has the first rows of the
\* result, and its cursor is at the last of them.
ClientOK(c) ==
    /\ c \in {AtRest, Nobody} \cup Searches
    /\ c.phase = "done" => c.got = c.due
    /\ c.phase = "reading" =>
         /\ revision # None /\ c.revision <= revision
         /\ c.revision = revision =>
              /\ c.due = Result(c.query)
              /\ \E k \in DOMAIN Positions(c.query) :
                    c.position = Positions(c.query)[k] /\ c.got = [i \in 1..k |-> c.due[i]]

ScopesUsed == {ScopeOf[f] : f \in FileIds}
Finds == [phase : {"found"}, usr : DOMAIN NameOf, scope : ScopesUsed, revision : Nat]
Readings ==
    [phase : {"reading", "checked", "done"}, usr : DOMAIN NameOf, scope : ScopesUsed, revision : Nat,
     valid : SUBSET FileIds, todo : SUBSET Databases, seen : UNION {[S -> Nat] : S \in SUBSET Databases},
     got : SUBSET SymbolRows, due : SUBSET SymbolRows, known : BOOLEAN]

Occurring(r, S) == UNION {{x \in StoredRows(d) : x.usr = r.usr /\ x.file \in r.valid} : d \in S}

ReaderOK(r) ==
    /\ r \in {AtRest, Nobody} \cup Finds \cup Readings
    /\ r.phase = "found" =>
         /\ revision # None /\ r.revision <= revision
         /\ r.revision = revision => \E p \in Matching(r.usr) : ScopeOf[published[p].file] = r.scope
    /\ r.phase \in {"reading", "checked"} =>
         /\ revision # None /\ r.revision <= revision
         /\ r.revision = revision => r.known
    /\ r.phase = "reading" =>
         /\ r.todo \subseteq DOMAIN r.seen
         /\ \A d \in DOMAIN r.seen : r.seen[d] <= stamp[d]
         /\ (\A d \in DOMAIN r.seen : r.seen[d] = stamp[d]) =>
              r.due = Occurring(r, DOMAIN r.seen) /\ r.got = Occurring(r, DOMAIN r.seen \ r.todo)
    /\ r.phase \in {"checked", "done"} => r.got = r.due
    /\ r.phase = "done" => r.known

ReadingInv == ClientOK(client) /\ ReaderOK(reader)

-----------------------------------------------------------------------------
(* The symbol index: its orders *)

\* The rows that a refresh publishes have a position each.
LEMMA RowsInOrder ==
    ASSUME NEW S, S \subseteq SymbolRows, IsFiniteSet(S), \A x, y \in S : Same(x, y) => x = y
    PROVE  /\ IsListing(InOrder(S, Before))
           /\ {InOrder(S, Before)[p] : p \in DOMAIN InOrder(S, Before)} = S
<1> DEFINE R == {xy \in S \X S : Before(xy[1], xy[2])}
<1>1. \A x, y \in S : <<x, y>> \in R <=> Before(x, y)
  OBVIOUS
<1>2. \A x \in S : x.usr \in Nat /\ x.file \in Nat
  BY IndexAssumption DEF SymbolRows
<1> HIDE DEF R
<1>3. Orders(R, S)
  <2>1. \A x \in S : <<x, x>> \notin R
    BY <1>1, <1>2 DEF Before
  <2>2. \A x, y \in S : x # y => <<x, y>> \in R \/ <<y, x>> \in R
    BY <1>1, <1>2 DEF Before, Same
  <2>3. \A x, y, z \in S : <<x, y>> \in R /\ <<y, z>> \in R => <<x, z>> \in R
    BY <1>1, <1>2 DEF Before
  <2> QED BY <2>1, <2>2, <2>3 DEF Orders
<1>4. PICK n \in Nat : n = Cardinality(S)
  BY FS_CardinalityType
<1>5. \E s \in [1..n -> S] : \A i, j \in DOMAIN s : i < j => Before(s[i], s[j])
  <2>1. PICK s : Enumerates(s, R, S)
    BY <1>3, EnumerationExists
  <2>2. s \in [1..n -> S] /\ \A i, j \in 1..n : i < j => <<s[i], s[j]>> \in R
    BY <1>4, <2>1 DEF Enumerates
  <2> QED BY <1>1, <2>2
<1>6. PICK s : s = InOrder(S, Before)
  OBVIOUS
<1>7. s \in [1..n -> S] /\ \A i, j \in DOMAIN s : i < j => Before(s[i], s[j])
  BY <1>4, <1>5, <1>6 DEF InOrder
<1>8. Enumerates(s, R, S)
  BY <1>1, <1>4, <1>7 DEF Enumerates
<1>9. \A x \in S : \E i \in 1..n : s[i] = x
  BY <1>3, <1>4, <1>8, EnumerationReaches
<1>10. IsListing(s)
  <2>1. IsFiniteSet(1..n)
    BY FS_Interval
  <2> QED BY <1>7, <2>1 DEF IsListing
<1> QED BY <1>6, <1>7, <1>9, <1>10

\* The result of a query has every symbol that it matches, once, in order.
LEMMA PositionsInOrder ==
    ASSUME IsListing(published), NEW query \in DOMAIN NameOf \cup {None},
           NEW n, n = Cardinality(Matching(query)), NEW e, e = Positions(query)
    PROVE  /\ n \in Nat /\ e \in [1..n -> Matching(query)]
           /\ \A i, j \in 1..n : i < j <=> Precedes(query, e[i], e[j])
           /\ \A p \in Matching(query) : \E i \in 1..n : e[i] = p
           /\ \A i, j \in 1..n : e[i] = e[j] => i = j
<1> DEFINE S == Matching(query)
<1> DEFINE R == {pq \in S \X S : Precedes(query, pq[1], pq[2])}
<1>1. \A p, q \in S : <<p, q>> \in R <=> Precedes(query, p, q)
  OBVIOUS
<1>2. IsFiniteSet(S) /\ \A p \in S : p \in Nat /\ NameOf[published[p].usr] \in Nat
  <2>1. S \subseteq DOMAIN published
    BY DEF Matching
  <2>2. \A p \in DOMAIN published : p \in Nat /\ published[p].usr \in DOMAIN NameOf
    BY DEF IsListing, SymbolRows
  <2> QED BY <2>1, <2>2, FS_Subset, IndexAssumption DEF IsListing
<1>3. Orders(R, S)
  <2> HIDE DEF R, S
  <2>1. \A p \in S : <<p, p>> \notin R
    BY <1>1, <1>2 DEF Precedes
  <2>2. \A p, q \in S : p # q => <<p, q>> \in R \/ <<q, p>> \in R
    BY <1>1, <1>2 DEF Precedes
  <2>3. \A p, q, r \in S : <<p, q>> \in R /\ <<q, r>> \in R => <<p, r>> \in R
    BY <1>1, <1>2 DEF Precedes
  <2> QED BY <2>1, <2>2, <2>3 DEF Orders
<1>4. n \in Nat /\ n = Cardinality(S)
  BY <1>2, FS_CardinalityType
<1>5. e = InOrder(S, LAMBDA p, q : Precedes(query, p, q))
  BY DEF Positions
<1> HIDE DEF R, S
<1>6. \E s \in [1..n -> S] : \A i, j \in DOMAIN s : i < j => Precedes(query, s[i], s[j])
  <2>1. PICK s : Enumerates(s, R, S)
    BY <1>2, <1>3, EnumerationExists
  <2>2. s \in [1..n -> S] /\ \A i, j \in 1..n : i < j => <<s[i], s[j]>> \in R
    BY <1>4, <2>1 DEF Enumerates
  <2> QED BY <1>1, <2>2
<1>7. e \in [1..n -> S] /\ \A i, j \in DOMAIN e : i < j => Precedes(query, e[i], e[j])
  BY <1>4, <1>5, <1>6 DEF InOrder
<1>8. Enumerates(e, R, S)
  BY <1>1, <1>4, <1>7 DEF Enumerates
<1>9. /\ \A p \in S : \E i \in 1..n : e[i] = p
      /\ \A i, j \in 1..n : <<e[i], e[j]>> \in R => i < j
      /\ \A i, j \in 1..n : e[i] = e[j] => i = j
  BY <1>2, <1>3, <1>4, <1>8, EnumerationReaches
<1>10. ASSUME NEW i \in 1..n, NEW j \in 1..n PROVE i < j <=> Precedes(query, e[i], e[j])
  <2>1. e[i] \in S /\ e[j] \in S
    BY <1>7
  <2>2. Precedes(query, e[i], e[j]) <=> <<e[i], e[j]>> \in R
    BY <1>1, <2>1
  <2>3. DOMAIN e = 1..n
    BY <1>7
  <2>4. i < j => Precedes(query, e[i], e[j])
    BY <1>7, <2>3
  <2> QED BY <1>9, <2>2, <2>4
<1> QED BY <1>4, <1>7, <1>9, <1>10 DEF S

LEMMA FirstIn ==
    ASSUME NEW S, S \subseteq Databases, S # {}
    PROVE  First(S) \in S
<1> DEFINE R == {xy \in S \X S : xy[2] < xy[1]}
<1>1. IsFiniteSet(S) /\ S \subseteq Nat
  BY IndexAssumption, FS_Subset
<1>2. \A x, y \in S : <<x, y>> \in R <=> y < x
  OBVIOUS
<1> HIDE DEF R
<1>3. Orders(R, S)
  <2>1. \A x \in S : <<x, x>> \notin R
    BY <1>1, <1>2
  <2>2. \A x, y \in S : x # y => <<x, y>> \in R \/ <<y, x>> \in R
    BY <1>1, <1>2
  <2>3. \A x, y, z \in S : <<x, y>> \in R /\ <<y, z>> \in R => <<x, z>> \in R
    BY <1>1, <1>2
  <2> QED BY <2>1, <2>2, <2>3 DEF Orders
<1>4. IsFiniteSet(S)
  BY <1>1
<1>5. PICK x \in S : \A y \in S \ {x} : <<y, x>> \in R
  BY <1>3, <1>4, LastExists
<1>6. ASSUME NEW y \in S PROVE x <= y
  <2>1. y = x \/ <<y, x>> \in R
    BY <1>5
  <2>2. y = x \/ x < y
    BY <1>2, <2>1
  <2>3. x \in Nat /\ y \in Nat
    BY <1>1
  <2> QED BY <2>2, <2>3
<1> QED BY <1>6 DEF First

-----------------------------------------------------------------------------
(* The symbol index: the steps of a refresh *)

LEMMA RowsTyped ==
    ASSUME IndexTypeOK
    PROVE  \A d \in Databases : StoredRows(d) \in FiniteRows
BY FS_EmptySet DEF IndexTypeOK, StoredRows, FiniteRows

LEMMA CopiesStay ==
    ASSUME NEW c, UNCHANGED <<store, stamp>>, CopiesHonest(c)
    PROVE  CopiesHonest(c)'
BY DEF CopiesHonest, StoredRows

LEMMA CatalogStays ==
    ASSUME UNCHANGED <<owned, invalid>>
    PROVE  /\ Registered' = Registered /\ Linked' = Linked
           /\ \A d : Blocked(d)' = Blocked(d)
BY DEF Linked, Blocked, OwnersOf, Registered

LEMMA JobMoves ==
    ASSUME PublicationInv, UNCHANGED <<projectVars, cache, settled, store, stamp>>,
           NEW j, job' = j, JobOK(j)
    PROVE  PublicationInv'
<1>1. UNCHANGED <<owned, invalid, store, stamp, published, revision, cache, settled>>
  BY DEF projectVars
<1>2. IndexTypeOK' /\ AllShown'
  BY <1>1 DEF PublicationInv, IndexTypeOK, AllShown, Registered, IsListing
<1>3. CopiesHonest(cache)'
  BY <1>1 DEF PublicationInv, CopiesHonest, StoredRows
<1>4. JobOK(j)'
  <2>1. Linked' = Linked /\ \A d : Blocked(d)' = Blocked(d)
    BY <1>1, CatalogStays
  <2>2. CopiesHonest(j.cache) => CopiesHonest(j.cache)'
    BY <1>1, CopiesStay
  <2> QED BY <1>1, <2>1, <2>2 DEF JobOK, RefreshOK
<1>5. IndexIsCurrent'
  <2>1. Linked' = Linked /\ Registered' = Registered /\ \A d : Blocked(d)' = Blocked(d)
    BY <1>1, CatalogStays
  <2>2. \A d : StoredRows(d)' = StoredRows(d)
    BY <1>1 DEF StoredRows
  <2>3. \A f : Described(f)' = Described(f)
    BY <1>1, <2>1, <2>2 DEF Described
  <2>4. Reported' = Reported
    BY <1>1, <2>1, <2>3 DEF Reported
  <2> QED BY <1>1, <2>4 DEF PublicationInv, IndexIsCurrent
<1> QED BY <1>2, <1>3, <1>4, <1>5 DEF PublicationInv

LEMMA BeginRefreshStep ==
    ASSUME PublicationInv, BeginRefresh
    PROVE  PublicationInv'
<1>1. PICK c : c = [d \in DOMAIN cache \cap Linked |-> cache[d]]
  OBVIOUS
<1>2. PICK j : j = [phase |-> "source", todo |-> Linked, before |-> None, stamp |-> None, cache |-> c]
  OBVIOUS
<1>3. job' = j /\ UNCHANGED <<projectVars, cache, settled, store, stamp>> /\ job.phase = "begin"
  BY <1>1, <1>2 DEF BeginRefresh, quiet
<1>4. c \in Caches /\ CopiesHonest(c) /\ DOMAIN c \subseteq Linked
  <2>1. cache \in Caches /\ CopiesHonest(cache)
    BY DEF PublicationInv, IndexTypeOK
  <2> QED BY <1>1, <2>1 DEF Caches, CopiesHonest
<1>5. Linked \subseteq Databases
  BY DEF Linked
<1>6. JobOK(j)
  <2>1. j \in Refreshes
    BY <1>2, <1>4, <1>5 DEF Refreshes
  <2>2. RefreshOK(j)
    BY <1>2, <1>4 DEF RefreshOK
  <2> QED BY <1>3, <2>1, <2>2 DEF JobOK, PublicationInv
<1> QED BY <1>3, <1>6, JobMoves

LEMMA LookStep ==
    ASSUME PublicationInv, Look
    PROVE  PublicationInv'
<1>1. PICK s : s = Source
  OBVIOUS
<1>2. /\ job.phase = "source" /\ job.todo # {} /\ job \in Refreshes /\ RefreshOK(job)
      /\ revision # None
  BY DEF Look, PublicationInv, JobOK, AtRest, Begun
<1>3. s \in job.todo /\ s = First(job.todo) /\ s \in Databases /\ s \in Linked
  <2>1. job.todo \subseteq Databases
    BY <1>2 DEF Refreshes
  <2> QED BY <1>1, <1>2, <2>1, FirstIn DEF Source, First, RefreshOK
<1>4. stamp[s] \in Nat /\ Stamp(s) = IF Blocked(s) THEN None ELSE stamp[s]
  BY <1>3 DEF PublicationInv, IndexTypeOK, Stamp, Fingerprint
<1>5. UNCHANGED <<projectVars, cache, settled, store, stamp>>
  BY DEF Look, quiet
<1>6. CASE s \in DOMAIN job.cache /\ job.cache[s].stamp = Stamp(s)
  <2>1. PICK j : j = [job EXCEPT !.todo = @ \ {s}]
    OBVIOUS
  <2>2. job' = j
    BY <1>1, <1>6, <2>1 DEF Look
  <2>3. /\ j \in Refreshes /\ j.phase = "source" /\ j.todo = job.todo \ {s} /\ j.cache = job.cache
    BY <1>2, <2>1 DEF Refreshes
  <2>4. JobOK(j)
    BY <1>2, <1>6, <2>3 DEF JobOK, RefreshOK
  <2> QED BY <1>5, <2>2, <2>4, JobMoves
<1>7. CASE ~(s \in DOMAIN job.cache /\ job.cache[s].stamp = Stamp(s))
  <2>1. PICK j : j = [job EXCEPT !.phase = "copy", !.before = Fingerprint(s), !.stamp = Stamp(s)]
    OBVIOUS
  <2>2. job' = j
    BY <1>1, <1>7, <2>1 DEF Look
  <2>3. /\ j \in Refreshes /\ j.phase = "copy" /\ j.todo = job.todo /\ j.cache = job.cache
        /\ j.stamp = Stamp(s)
    BY <1>2, <1>4, <2>1 DEF Refreshes, Fingerprint
  <2>4. RefreshOK(j)
    <3>1. j.stamp = None <=> Blocked(s)
      BY <1>4, <2>3, IndexAssumption
    <3>2. j.stamp \in Nat => j.stamp <= stamp[s]
      BY <1>4, <2>3, IndexAssumption
    <3> QED BY <1>2, <1>3, <2>3, <3>1, <3>2 DEF RefreshOK
  <2>5. JobOK(j)
    BY <1>2, <2>3, <2>4 DEF JobOK
  <2> QED BY <1>5, <2>2, <2>5, JobMoves
<1> QED BY <1>6, <1>7

LEMMA CopyStep ==
    ASSUME PublicationInv, Copy
    PROVE  PublicationInv'
<1>1. PICK s : s = Source
  OBVIOUS
<1>2. /\ job.phase = "copy" /\ job \in Refreshes /\ RefreshOK(job) /\ revision # None /\ job.todo # {}
  BY DEF Copy, PublicationInv, JobOK, AtRest, Begun, RefreshOK
<1>3. s \in job.todo /\ s = First(job.todo) /\ s \in Databases /\ s \in Linked
  <2>1. job.todo \subseteq Databases
    BY <1>2 DEF Refreshes
  <2> QED BY <1>1, <1>2, <2>1, FirstIn DEF Source, First, RefreshOK
<1>4. stamp[s] \in Nat /\ StoredRows(s) \in FiniteRows /\ {} \in FiniteRows
  BY <1>3, RowsTyped, FS_EmptySet DEF PublicationInv, IndexTypeOK, FiniteRows
<1>5. PICK row : row = [stamp |-> job.stamp, rows |-> IF Blocked(s) THEN {} ELSE StoredRows(s)]
  OBVIOUS
<1>6. row \in Copies /\ row.stamp = job.stamp /\ row.rows = IF Blocked(s) THEN {} ELSE StoredRows(s)
  BY <1>2, <1>4, <1>5 DEF Copies, Refreshes
<1>7. PICK c : c = [d \in DOMAIN job.cache \cup {s} |-> IF d = s THEN row ELSE job.cache[d]]
  OBVIOUS
<1>8. c \in Caches
  <2>1. job.cache \in Caches
    BY <1>2 DEF Refreshes
  <2> QED BY <1>3, <1>6, <1>7, <2>1 DEF Caches
<1>9. CopiesHonest(c)
  <2>1. row.stamp = None => row.rows = {}
    BY <1>2, <1>3, <1>6 DEF RefreshOK
  <2>2. row.stamp \in Nat => row.stamp <= stamp[s] /\ row.rows = StoredRows(s)
    BY <1>2, <1>3, <1>6, IndexAssumption DEF RefreshOK
  <2> QED BY <1>2, <1>7, <2>1, <2>2 DEF CopiesHonest, RefreshOK
<1>10. PICK j : j = [job EXCEPT !.phase = "confirm", !.cache = c]
  OBVIOUS
<1>11. job' = j /\ UNCHANGED <<projectVars, cache, settled, store, stamp>>
  BY <1>1, <1>5, <1>7, <1>10 DEF Copy, quiet
<1>12. j \in Refreshes /\ j.phase = "confirm" /\ j.todo = job.todo /\ j.cache = c
  BY <1>2, <1>8, <1>10 DEF Refreshes
<1>13. DOMAIN c = DOMAIN job.cache \cup {s}
  BY <1>7
<1>14. RefreshOK(j)
  BY <1>2, <1>3, <1>9, <1>12, <1>13 DEF RefreshOK
<1>15. JobOK(j)
  BY <1>2, <1>12, <1>14 DEF JobOK
<1> QED BY <1>11, <1>15, JobMoves

LEMMA ConfirmStep ==
    ASSUME PublicationInv, Confirm
    PROVE  PublicationInv'
<1>1. PICK s : s = Source
  OBVIOUS
<1>2. /\ job.phase = "confirm" /\ job \in Refreshes /\ RefreshOK(job) /\ revision # None
  BY DEF Confirm, PublicationInv, JobOK, AtRest, Begun
<1>3. s = First(job.todo)
  BY <1>1 DEF Source, First
<1>4. UNCHANGED <<projectVars, cache, settled, store, stamp>>
  BY DEF Confirm, quiet
<1>5. CASE Fingerprint(s) = job.before
  <2>1. PICK j : j = [job EXCEPT !.phase = "source", !.todo = @ \ {s}]
    OBVIOUS
  <2>2. job' = j
    BY <1>1, <1>5, <2>1 DEF Confirm
  <2>3. j \in Refreshes /\ j.phase = "source" /\ j.todo = job.todo \ {s} /\ j.cache = job.cache
    BY <1>2, <2>1 DEF Refreshes
  <2>4. JobOK(j)
    BY <1>2, <1>3, <2>3 DEF JobOK, RefreshOK
  <2> QED BY <1>4, <2>2, <2>4, JobMoves
<1>6. CASE Fingerprint(s) # job.before
  <2>1. job' = AtRest
    BY <1>1, <1>6 DEF Confirm
  <2>2. JobOK(AtRest)
    BY DEF JobOK, AtRest, Refreshes
  <2> QED BY <1>4, <2>1, <2>2, JobMoves
<1> QED BY <1>5, <1>6

-----------------------------------------------------------------------------
(* The symbol index: what a refresh publishes *)

\* The rows that all databases with a copy have for their own files.
Owned(c) == UNION {{r \in c[d].rows : owned[r.file] \in {None, NoDatabase, d}} : d \in DOMAIN c}

LEMMA PublishableTyped ==
    ASSUME NEW c \in Caches
    PROVE  /\ Publishable(c) \subseteq SymbolRows /\ IsFiniteSet(Publishable(c))
           /\ \A x, y \in Publishable(c) : Same(x, y) => x = y
           /\ \A r \in Publishable(c) : r.file \in Registered \ invalid
<1>1. PICK D \in SUBSET Databases : c \in [D -> Copies]
  BY DEF Caches
<1>2. \A d \in D : c[d].rows \subseteq SymbolRows /\ IsFiniteSet(c[d].rows)
  BY <1>1 DEF Copies, FiniteRows
<1>3. PICK f : f = [d \in D |-> c[d].rows]
  OBVIOUS
<1>4. PICK T : T = {c[d].rows : d \in D}
  OBVIOUS
<1>5. IsFiniteSet(D)
  BY FS_Subset, IndexAssumption
<1>6. f \in Surjection(D, T)
  BY <1>3, <1>4 DEF Surjection
<1>7. IsFiniteSet(T)
  BY <1>5, <1>6, FS_Surjection
<1>8. IsFiniteSet(UNION T) /\ UNION T \subseteq SymbolRows
  BY <1>2, <1>4, <1>7, FS_UNION
<1>9. Publishable(c) \subseteq Staged(c) /\ Staged(c) \subseteq Owned(c)
  BY DEF Publishable, Staged, Owned
<1>10. Owned(c) \subseteq UNION T
  BY <1>1, <1>4 DEF Owned
<1>11. Publishable(c) \subseteq SymbolRows /\ IsFiniteSet(Publishable(c))
  BY <1>8, <1>9, <1>10, FS_Subset
<1>12. ASSUME NEW x \in Publishable(c), NEW y \in Publishable(c), Same(x, y)
       PROVE  x = y
  <2>1. x \in SymbolRows /\ y \in SymbolRows /\ x.usr = y.usr /\ x.file = y.file
    BY <1>11, <1>12 DEF Same
  <2>2. x \in Staged(c) /\ y \in Staged(c) /\ x \in Owned(c) /\ y \in Owned(c) /\ Same(y, x)
    BY <1>9, <2>1 DEF Same
  <2>3. x.def = y.def
    BY <1>12, <2>1, <2>2 DEF Staged, Owned, SymbolRows
  <2> QED BY <2>1, <2>3 DEF SymbolRows
<1>13. \A r \in Publishable(c) : r.file \in Registered \ invalid
  BY DEF Publishable
<1> QED BY <1>11, <1>12, <1>13

LEMMA OwnedIsReported ==
    ASSUME IndexTypeOK, NEW c \in Caches, CopiesHonest(c), DOMAIN c = Linked,
           \A d \in Linked : c[d].stamp = Stamp(d)
    PROVE  {r \in Owned(c) : r.file \in Registered \ invalid} = Reported
<1>1. \A d \in Linked : d \in Databases /\ stamp[d] \in Nat
  BY DEF Linked, IndexTypeOK
<1>2. \A d \in Linked : c[d].rows = IF Blocked(d) THEN {} ELSE StoredRows(d)
  BY <1>1 DEF CopiesHonest, Stamp, Fingerprint
<1>3. \A f \in Registered : f \in FileIds /\ owned[f] \in Databases \cup {NoDatabase} /\ owned[f] # None
  BY DEF Registered, IndexTypeOK
<1>4. NoDatabase \notin Databases
  BY IndexAssumption
<1>5. \A f \in Registered \ invalid : owned[f] \in Databases => owned[f] \in Linked /\ ~Blocked(owned[f])
  BY DEF Linked, Blocked, OwnersOf
<1>6. ASSUME NEW r \in Owned(c), r.file \in Registered \ invalid
      PROVE  r \in Reported
  <2>1. PICK d \in Linked : r \in c[d].rows /\ owned[r.file] \in {None, NoDatabase, d}
    BY DEF Owned
  <2>2. ~Blocked(d) /\ r \in StoredRows(d)
    BY <1>2, <2>1
  <2>3. owned[r.file] \in {NoDatabase, d} /\ d \in Databases
    BY <1>1, <1>3, <1>6, <2>1
  <2>4. r \in Described(r.file)
    BY <2>2, <2>3 DEF Described
  <2> QED BY <1>6, <2>4 DEF Reported
<1>7. ASSUME NEW r \in Reported
      PROVE  r \in Owned(c) /\ r.file \in Registered \ invalid
  <2>1. r.file \in Registered \ invalid /\ r \in Described(r.file)
    BY DEF Reported
  <2>2. CASE owned[r.file] = NoDatabase
    <3>1. PICK d \in Linked : ~Blocked(d) /\ r \in StoredRows(d)
      BY <2>1, <2>2 DEF Described
    <3>2. r \in c[d].rows
      BY <1>2, <3>1
    <3> QED BY <2>1, <2>2, <3>2 DEF Owned
  <2>3. CASE owned[r.file] # NoDatabase
    <3>1. owned[r.file] \in Linked /\ ~Blocked(owned[r.file]) /\ r \in StoredRows(owned[r.file])
      BY <1>3, <1>5, <2>1, <2>3 DEF Described
    <3>2. r \in c[owned[r.file]].rows
      BY <1>2, <3>1
    <3> QED BY <2>1, <3>1, <3>2 DEF Owned
  <2> QED BY <2>2, <2>3
<1> QED BY <1>6, <1>7

LEMMA PublishableIsCurrent ==
    ASSUME NEW c, {r \in Owned(c) : r.file \in Registered \ invalid} = Reported
    PROVE  {<<r.usr, r.file>> : r \in Publishable(c)} =
           {<<r.usr, r.file>> : r \in {x \in Reported :
               (\E y \in Reported : Same(x, y) /\ y.def)
               \/ ~\E y \in Reported : y.usr = x.usr /\ y.def /\ ScopeOf[y.file] = ScopeOf[x.file]}}
<1>1. \A r : r \in Staged(c) <=> r \in Owned(c) /\ (r.def \/ ~\E q \in Owned(c) : Same(q, r) /\ q.def)
  BY DEF Staged, Owned
<1>2. \A r : r \in Reported <=> r \in Owned(c) /\ r.file \in Registered \ invalid
  OBVIOUS
<1>3. ASSUME NEW r \in Publishable(c)
      PROVE  /\ r \in Reported
             /\ \/ \E y \in Reported : Same(r, y) /\ y.def
                \/ ~\E y \in Reported : y.usr = r.usr /\ y.def /\ ScopeOf[y.file] = ScopeOf[r.file]
  <2>1. r \in Staged(c) /\ r.file \in Registered \ invalid
    BY DEF Publishable
  <2>2. r \in Reported
    BY <1>1, <1>2, <2>1
  <2>3. CASE r.def
    BY <2>2, <2>3 DEF Same
  <2>4. CASE ~r.def
    <3>1. ASSUME NEW y \in Reported, y.usr = r.usr, y.def, ScopeOf[y.file] = ScopeOf[r.file] PROVE FALSE
      <4>1. y \in Staged(c) /\ y.file \in Registered \ invalid
        BY <1>1, <1>2, <3>1
      <4> QED BY <2>4, <3>1, <4>1 DEF Publishable
    <3> QED BY <2>2, <3>1
  <2> QED BY <2>3, <2>4
<1>4. ASSUME NEW x \in Reported,
             \/ \E y \in Reported : Same(x, y) /\ y.def
             \/ ~\E y \in Reported : y.usr = x.usr /\ y.def /\ ScopeOf[y.file] = ScopeOf[x.file]
      PROVE  \E r \in Publishable(c) : r.usr = x.usr /\ r.file = x.file
  <2>1. CASE \E y \in Reported : Same(x, y) /\ y.def
    <3>1. PICK y \in Reported : Same(x, y) /\ y.def
      BY <2>1
    <3>2. y \in Staged(c) /\ y.file \in Registered \ invalid
      BY <1>1, <1>2, <3>1
    <3>3. y \in Publishable(c)
      BY <3>1, <3>2 DEF Publishable
    <3> QED BY <3>1, <3>3 DEF Same
  <2>2. CASE ~\E y \in Reported : y.usr = x.usr /\ y.def /\ ScopeOf[y.file] = ScopeOf[x.file]
    <3>1. \A q \in Owned(c) : Same(q, x) => q \in Reported
      BY <1>2 DEF Same
    <3>2. x \in Staged(c) /\ x.file \in Registered \ invalid
      BY <1>1, <1>2, <2>2, <3>1 DEF Same
    <3>3. \A q \in Staged(c) : q.file \in Registered \ invalid => q \in Reported
      BY <1>1, <1>2
    <3>4. x \in Publishable(c)
      BY <2>2, <3>2, <3>3 DEF Publishable
    <3> QED BY <3>4
  <2> QED BY <1>4, <2>1, <2>2
<1> QED BY <1>3, <1>4

LEMMA CommitStep ==
    ASSUME PublicationInv, Commit
    PROVE  PublicationInv'
<1>1. PICK c : c = job.cache
  OBVIOUS
<1>2. PICK rows : rows = InOrder(Publishable(c), Before)
  OBVIOUS
<1>3. PICK was : was = {published[p] : p \in DOMAIN published}
  OBVIOUS
<1>4. /\ published' = IF Publishable(c) # was THEN rows ELSE published
      /\ revision' = IF Publishable(c) # was \/ revision = 0 THEN revision + 1 ELSE revision
      /\ cache' = c /\ settled' = (\A d \in Linked : c[d].stamp = Stamp(d)) /\ job' = AtRest
      /\ UNCHANGED <<owned, invalid, store, stamp>>
  BY <1>1, <1>2, <1>3 DEF Commit, quiet
<1>5. /\ job.phase = "source" /\ job.todo = {} /\ job \in Refreshes /\ RefreshOK(job) /\ revision # None
  BY DEF Commit, PublicationInv, JobOK, AtRest, Begun
<1>6. c \in Caches /\ CopiesHonest(c) /\ DOMAIN c = Linked
  BY <1>1, <1>5 DEF Refreshes, RefreshOK
<1>7. IndexTypeOK /\ AllShown
  BY DEF PublicationInv
<1>8. IsListing(rows) /\ {rows[p] : p \in DOMAIN rows} = Publishable(c)
  BY <1>2, <1>6, PublishableTyped, RowsInOrder
<1>9. IsListing(published') /\ {published'[p] : p \in DOMAIN published'} = Publishable(c)
  <2>1. PICK l : l = published'
    OBVIOUS
  <2>2. IsListing(l) /\ {l[p] : p \in DOMAIN l} = Publishable(c)
    BY <1>3, <1>4, <1>7, <1>8, <2>1 DEF IndexTypeOK
  <2> QED BY <2>1, <2>2
<1>10. revision \in Nat /\ revision' \in Nat /\ revision' # None
  BY <1>4, <1>5, <1>7, IndexAssumption DEF IndexTypeOK
<1>11. Registered' = Registered
  BY <1>4 DEF Registered
<1>12. AllShown'
  <2>1. \A p \in DOMAIN published' : published'[p] \in Publishable(c)
    BY <1>9
  <2>2. \A p \in DOMAIN published' : published'[p].file \in Registered \ invalid
    BY <1>6, <2>1, PublishableTyped
  <2> QED BY <1>4, <1>10, <1>11, <2>2 DEF AllShown
<1>13. IndexTypeOK'
  BY <1>4, <1>6, <1>7, <1>9, <1>10 DEF IndexTypeOK, IsListing
<1>14. CopiesHonest(cache)'
  BY <1>4, <1>6, CopiesStay DEF CopiesHonest, StoredRows
<1>15. JobOK(job)'
  BY <1>4 DEF JobOK, AtRest, Refreshes
<1>16. IndexIsCurrent'
  <2>1. SUFFICES ASSUME settled' PROVE IndexIsCurrent'
    BY DEF IndexIsCurrent
  <2>2. Linked' = Linked /\ Registered' = Registered /\ \A d : Blocked(d)' = Blocked(d)
    BY <1>4, CatalogStays
  <2>3. Reported' = Reported
    <3>1. \A d : StoredRows(d)' = StoredRows(d)
      BY <1>4 DEF StoredRows
    <3>2. \A f : Described(f)' = Described(f)
      BY <1>4, <2>2, <3>1 DEF Described
    <3> QED BY <1>4, <2>2, <3>2 DEF Reported
  <2>4. {r \in Owned(c) : r.file \in Registered \ invalid} = Reported
    BY <1>4, <1>6, <1>7, <2>1, OwnedIsReported
  <2>5. PICK pairs : pairs = {<<r.usr, r.file>> : r \in Publishable(c)}
    OBVIOUS
  <2>6. pairs = {<<published'[p].usr, published'[p].file>> : p \in DOMAIN published'}
    BY <1>9, <2>5
  <2> QED BY <2>3, <2>4, <2>5, <2>6, PublishableIsCurrent DEF IndexIsCurrent
<1> QED BY <1>12, <1>13, <1>14, <1>15, <1>16 DEF PublicationInv

-----------------------------------------------------------------------------
(* The symbol index: the writers *)

\* Nothing is claimed of the index after a change, until the next refresh.
LEMMA IndexChanges ==
    ASSUME IndexTypeOK', AllShown', CopiesHonest(cache)', JobOK(job)', ~settled'
    PROVE  PublicationInv'
BY DEF PublicationInv, IndexIsCurrent

\* Without a refresh under way the catalog may change under the job.
LEMMA UnlockedJob ==
    ASSUME PublicationInv, ~Locked, UNCHANGED job, revision # None => revision' # None
    PROVE  JobOK(job)'
<1>1. job \in {AtRest, Begun}
  BY DEF PublicationInv, JobOK, Locked, Refreshes
<1>2. job' \in {AtRest, Begun} /\ job' \notin Refreshes
  BY <1>1 DEF AtRest, Begun, Refreshes
<1> QED BY <1>1, <1>2 DEF JobOK, PublicationInv, AtRest, Begun

LEMMA InitializeIndexStep ==
    ASSUME PublicationInv, InitializeIndex
    PROVE  PublicationInv'
<1>1. /\ invalid' \subseteq invalid /\ settled' = (settled /\ invalid' = invalid) /\ job' = Begun
      /\ revision' = (IF revision = None THEN 0 ELSE revision)
      /\ UNCHANGED <<owned, published, cache, store, stamp>>
  BY DEF InitializeIndex, quiet, Begun
<1>2. IndexTypeOK'
  BY <1>1 DEF PublicationInv, IndexTypeOK, IsListing
<1>3. revision' # None
  BY <1>1, IndexAssumption
<1>4. AllShown'
  BY <1>1, <1>3 DEF PublicationInv, AllShown, Registered
<1>5. CopiesHonest(cache)'
  BY <1>1 DEF PublicationInv, CopiesHonest, StoredRows
<1>6. JobOK(job)'
  BY <1>1, <1>3 DEF JobOK, Begun, Refreshes
<1>7. CASE settled'
  <2>1. UNCHANGED <<owned, invalid, store>> /\ settled
    BY <1>1, <1>7
  <2>2. Linked' = Linked /\ Registered' = Registered /\ \A d : Blocked(d)' = Blocked(d)
    BY <2>1, CatalogStays
  <2>3. \A d : StoredRows(d)' = StoredRows(d)
    BY <2>1 DEF StoredRows
  <2>4. \A f : Described(f)' = Described(f)
    BY <2>1, <2>2, <2>3 DEF Described
  <2>5. Reported' = Reported
    BY <2>1, <2>2, <2>4 DEF Reported
  <2>6. IndexIsCurrent'
    BY <1>1, <2>1, <2>5 DEF PublicationInv, IndexIsCurrent
  <2> QED BY <1>2, <1>4, <1>5, <1>6, <2>6 DEF PublicationInv
<1>8. CASE ~settled'
  BY <1>2, <1>4, <1>5, <1>6, <1>8, IndexChanges
<1> QED BY <1>7, <1>8

LEMMA WriteFactsStep ==
    ASSUME PublicationInv, WriteFacts
    PROVE  /\ PublicationInv'
           /\ \A d \in Databases : /\ stamp[d] <= stamp'[d]
                                   /\ stamp'[d] = stamp[d] => StoredRows(d)' = StoredRows(d)
<1>1. PICK d \in Databases : \E rows \in Contents[d] \ {store[d]} :
        store' = [store EXCEPT ![d] = rows] /\ stamp' = [stamp EXCEPT ![d] = @ + 1]
  BY DEF WriteFacts
<1>2. PICK rows \in Contents[d] :
        store' = [store EXCEPT ![d] = rows] /\ stamp' = [stamp EXCEPT ![d] = @ + 1]
  BY <1>1
<1>3. UNCHANGED <<owned, current, invalid, published, revision, cache, job>> /\ ~settled'
  BY DEF WriteFacts, projectVars
<1>4. IndexTypeOK
  BY DEF PublicationInv
<1>5. rows \in FiniteRows \cup {None}
  BY IndexAssumption DEF FiniteRows
<1>6. IndexTypeOK'
  BY <1>2, <1>3, <1>4, <1>5 DEF IndexTypeOK, IsListing
<1>7. \A e \in Databases : /\ stamp[e] \in Nat /\ stamp[e] <= stamp'[e]
                           /\ e # d => stamp'[e] = stamp[e] /\ StoredRows(e)' = StoredRows(e)
  BY <1>2, <1>4 DEF IndexTypeOK, StoredRows
<1>8. stamp'[d] = stamp[d] + 1 /\ stamp[d] \in Nat
  BY <1>2, <1>4 DEF IndexTypeOK
<1>9. \A e \in Databases : stamp'[e] = stamp[e] => StoredRows(e)' = StoredRows(e)
  BY <1>7, <1>8
<1>10. ASSUME NEW c \in Caches, CopiesHonest(c) PROVE CopiesHonest(c)'
  <2>1. DOMAIN c \subseteq Databases
    BY DEF Caches
  <2>2. ASSUME NEW e \in DOMAIN c, c[e].stamp \in Nat
        PROVE  c[e].stamp <= stamp'[e] /\ (c[e].stamp = stamp'[e] => c[e].rows = StoredRows(e)')
    <3>1. e \in Databases /\ c[e].stamp <= stamp[e] /\ (c[e].stamp = stamp[e] => c[e].rows = StoredRows(e))
      BY <1>10, <2>1, <2>2 DEF CopiesHonest
    <3>2. CASE e = d
      BY <1>8, <2>2, <3>1, <3>2
    <3>3. CASE e # d
      BY <1>7, <3>1, <3>3
    <3> QED BY <3>2, <3>3
  <2>3. \A e \in DOMAIN c : c[e].stamp = None => c[e].rows = {}
    BY <1>10 DEF CopiesHonest
  <2> QED BY <2>2, <2>3 DEF CopiesHonest
<1>11. CopiesHonest(cache)'
  <2>1. PICK c : c = cache /\ c = cache'
    BY <1>3
  <2>2. CopiesHonest(c)'
    BY <1>4, <1>10, <2>1 DEF PublicationInv, IndexTypeOK
  <2> QED BY <2>1, <2>2 DEF CopiesHonest
<1>12. AllShown'
  BY <1>3 DEF PublicationInv, AllShown, Registered
<1>13. JobOK(job)'
  <2>1. PICK j : j = job /\ j = job'
    BY <1>3
  <2>2. Linked' = Linked /\ \A e : Blocked(e)' = Blocked(e)
    BY <1>3, CatalogStays
  <2>3. JobOK(j)
    BY <2>1 DEF PublicationInv
  <2>4. ASSUME j \in Refreshes PROVE RefreshOK(j)'
    <3>1. j.cache \in Caches /\ j.todo \subseteq Databases /\ RefreshOK(j)
      BY <2>3, <2>4 DEF Refreshes, JobOK
    <3>2. CopiesHonest(j.cache)'
      BY <1>10, <3>1 DEF RefreshOK
    <3>3. j.phase = "copy" => First(j.todo) \in Databases
      BY <3>1 DEF RefreshOK, Linked
    <3>4. j.phase = "copy" /\ j.stamp \in Nat => j.stamp <= stamp'[First(j.todo)]
      BY <1>7, <1>6, <3>1, <3>3 DEF RefreshOK, IndexTypeOK
    <3> QED BY <2>2, <3>1, <3>2, <3>4 DEF RefreshOK
  <2> QED BY <1>3, <2>1, <2>3, <2>4 DEF JobOK
<1> QED BY <1>3, <1>6, <1>7, <1>9, <1>11, <1>12, <1>13, IndexChanges

LEMMA RecordFactsStep ==
    ASSUME PublicationInv, RecordFacts
    PROVE  PublicationInv'
<1>1. PICK f \in Registered, d \in Databases : owned' = [owned EXCEPT ![f] = d]
  BY DEF RecordFacts
<1>2. ~Locked /\ ~settled' /\ UNCHANGED <<invalid, published, revision, store, stamp, cache, job>>
  BY DEF RecordFacts
<1>3. IndexTypeOK /\ AllShown
  BY DEF PublicationInv
<1>4. IndexTypeOK'
  BY <1>1, <1>2, <1>3 DEF IndexTypeOK, IsListing
<1>5. Registered' = Registered
  BY <1>1, <1>3, IndexAssumption DEF Registered, IndexTypeOK
<1>6. AllShown'
  BY <1>2, <1>3, <1>5 DEF AllShown
<1>7. CopiesHonest(cache)'
  BY <1>2 DEF PublicationInv, CopiesHonest, StoredRows
<1>8. JobOK(job)'
  BY <1>2, UnlockedJob
<1> QED BY <1>2, <1>4, <1>6, <1>7, <1>8, IndexChanges

\* Taking rows away leaves a listing.
LEMMA FewerRows ==
    ASSUME NEW l, IsListing(l), NEW S, S \subseteq DOMAIN l, NEW m, m = [p \in S |-> l[p]]
    PROVE  IsListing(m)
BY FS_Subset DEF IsListing

LEMMA EditCatalogStep ==
    ASSUME PublicationInv, NEW files, EditCatalog(files)
    PROVE  PublicationInv'
<1>1. /\ ~Locked /\ ~settled' /\ UNCHANGED <<owned, store, stamp, cache, job>>
      /\ invalid' = invalid \cup files
      /\ revision' = IF revision = None THEN None ELSE revision + 1
      /\ published' = IF revision = None THEN published
                      ELSE [p \in {q \in DOMAIN published : published[q].file \notin invalid'} |-> published[p]]
  BY DEF EditCatalog, Invalidate
<1>2. IndexTypeOK /\ AllShown
  BY DEF PublicationInv
<1>3. IsListing(published')
  <2>1. PICK l : l = published'
    OBVIOUS
  <2>2. IsListing(l)
    BY <1>1, <1>2, <2>1, FewerRows DEF IndexTypeOK
  <2> QED BY <2>1, <2>2
<1>4. revision' \in Nat \cup {None}
  BY <1>1, <1>2 DEF IndexTypeOK
<1>5. IndexTypeOK'
  BY <1>1, <1>2, <1>3, <1>4 DEF IndexTypeOK, IsListing
<1>6. Registered' = Registered
  BY <1>1 DEF Registered
<1>7. AllShown'
  <2>1. CASE revision = None
    BY <1>1, <1>2, <2>1 DEF AllShown
  <2>2. CASE revision # None
    <3>1. revision' # None
      BY <1>1, <1>2, <2>2, IndexAssumption DEF IndexTypeOK
    <3>2. \A p \in DOMAIN published' : p \in DOMAIN published /\ published'[p] = published[p]
                                       /\ published[p].file \notin invalid'
      BY <1>1, <2>2
    <3> QED BY <1>2, <1>6, <3>1, <3>2 DEF AllShown
  <2> QED BY <2>1, <2>2
<1>8. CopiesHonest(cache)'
  BY <1>1 DEF PublicationInv, CopiesHonest, StoredRows
<1>9. JobOK(job)'
  <2>1. revision # None => revision' # None
    BY <1>1, <1>2, IndexAssumption DEF IndexTypeOK
  <2> QED BY <1>1, <2>1, UnlockedJob
<1> QED BY <1>1, <1>5, <1>7, <1>8, <1>9, IndexChanges

LEMMA RemoveFileStep ==
    ASSUME PublicationInv, NEW f \in Registered, NEW counted \in BOOLEAN, RemoveFile(f, counted)
    PROVE  PublicationInv'
<1>1. /\ ~Locked /\ ~settled' /\ UNCHANGED <<invalid, store, stamp, cache, job>>
      /\ owned' = [owned EXCEPT ![f] = None]
      /\ revision' = IF counted /\ revision # None THEN revision + 1 ELSE revision
      /\ published' = [p \in {q \in DOMAIN published : published[q].file # f} |-> published[p]]
  BY DEF RemoveFile
<1>2. IndexTypeOK /\ AllShown
  BY DEF PublicationInv
<1>3. IsListing(published')
  <2>1. PICK l : l = published'
    OBVIOUS
  <2>2. IsListing(l)
    BY <1>1, <1>2, <2>1, FewerRows DEF IndexTypeOK
  <2> QED BY <2>1, <2>2
<1>4. revision' \in Nat \cup {None} /\ (revision # None => revision' # None)
  BY <1>1, <1>2, IndexAssumption DEF IndexTypeOK
<1>5. IndexTypeOK'
  BY <1>1, <1>2, <1>3, <1>4 DEF IndexTypeOK, IsListing
<1>6. Registered' = Registered \ {f}
  BY <1>1, <1>2 DEF Registered, IndexTypeOK
<1>7. AllShown'
  <2>1. \A p \in DOMAIN published' : p \in DOMAIN published /\ published'[p] = published[p]
                                     /\ published[p].file # f
    BY <1>1
  <2>2. revision' = None => DOMAIN published = {}
    BY <1>2, <1>4 DEF AllShown
  <2> QED BY <1>1, <1>2, <1>6, <2>1, <2>2 DEF AllShown
<1>8. CopiesHonest(cache)'
  BY <1>1 DEF PublicationInv, CopiesHonest, StoredRows
<1>9. JobOK(job)'
  BY <1>1, <1>4, UnlockedJob
<1> QED BY <1>1, <1>5, <1>7, <1>8, <1>9, IndexChanges

\* Whoever only reads leaves the index alone.
LEMMA ReadersLeaveIndex ==
    ASSUME PublicationInv, UNCHANGED <<projectVars, store, stamp, cache, job, settled>>
    PROVE  PublicationInv'
BY JobMoves DEF PublicationInv

LEMMA PublicationInitOK ==
    ASSUME SymbolIndexInit
    PROVE  PublicationInv
<1>1. /\ owned \in [FileIds -> Databases \cup {None, NoDatabase}]
      /\ stamp = [d \in Databases |-> 0] /\ cache = NoCache /\ published = NoRows
      /\ revision = None /\ job = AtRest /\ settled = FALSE
  BY DEF SymbolIndexInit
<1>2. store \in [Databases -> FiniteRows \cup {None}]
  <2>1. store \in [Databases -> UNION {Contents[d] : d \in Databases}]
        /\ \A d \in Databases : store[d] \in Contents[d]
    BY DEF SymbolIndexInit
  <2>2. \A d \in Databases : Contents[d] \subseteq FiniteRows \cup {None}
    BY IndexAssumption DEF FiniteRows
  <2> QED BY <2>1, <2>2
<1>3. DOMAIN published = {} /\ DOMAIN cache = {}
  BY <1>1 DEF NoRows, NoCache
<1>4. IsListing(published)
  BY <1>1, <1>3, FS_EmptySet DEF IsListing, NoRows
<1>5. cache \in Caches
  <2>1. cache \in [{} -> Copies]
    BY <1>1 DEF NoCache
  <2> QED BY <2>1 DEF Caches
<1>6. IndexTypeOK
  BY <1>1, <1>2, <1>4, <1>5 DEF IndexTypeOK
<1>7. AllShown /\ CopiesHonest(cache) /\ JobOK(job) /\ IndexIsCurrent
  BY <1>1, <1>3 DEF AllShown, CopiesHonest, JobOK, AtRest, Refreshes, IndexIsCurrent
<1> QED BY <1>6, <1>7 DEF PublicationInv

LEMMA PublicationNextOK ==
    ASSUME PublicationInv, [SymbolIndexNext]_indexVars
    PROVE  PublicationInv'
<1>1. CASE UNCHANGED indexVars
  BY <1>1, ReadersLeaveIndex DEF indexVars, projectVars
<1>2. CASE InitializeIndex \/ BeginRefresh \/ Look \/ Copy \/ Confirm \/ Commit \/ WriteFacts \/ RecordFacts
  BY <1>2, InitializeIndexStep, BeginRefreshStep, LookStep, CopyStep, ConfirmStep, CommitStep,
     WriteFactsStep, RecordFactsStep
<1>3. CASE EditCommand \/ EditRepository \/ EditDisplay
  BY <1>3, EditCatalogStep DEF EditCommand, EditRepository, EditDisplay
<1>4. CASE RemoveByServer \/ RemoveByCommand
  BY <1>4, RemoveFileStep DEF RemoveByServer, RemoveByCommand
<1>5. CASE Search \/ ReadPage \/ Find \/ Plan \/ CollectFrom \/ CheckSources \/ Answer
  <2>1. UNCHANGED <<projectVars, store, stamp, cache, job, settled>>
    BY <1>5 DEF Search, ReadPage, Find, Plan, CollectFrom, CheckSources, Answer
  <2> QED BY <2>1, ReadersLeaveIndex
<1> QED BY <1>1, <1>2, <1>3, <1>4, <1>5 DEF SymbolIndexNext

\* Once a refresh has read the databases as they are, the published index is
\* what they say, however much of it was skipped as unchanged and whatever
\* was written, edited and removed before.
THEOREM IndexIsTheFacts == SymbolIndexSpec => []IndexIsCurrent
<1>1. SymbolIndexInit => PublicationInv
  BY PublicationInitOK
<1>2. PublicationInv /\ [SymbolIndexNext]_indexVars => PublicationInv'
  BY PublicationNextOK
<1>3. PublicationInv => IndexIsCurrent
  BY DEF PublicationInv
<1> QED BY <1>1, <1>2, <1>3, PTL DEF SymbolIndexSpec

-----------------------------------------------------------------------------
(* The symbol index: its readers.  What a search matches depends only on    *)
(* what is published, because all of it is shown.                           *)

PlainlyMatching(query) ==
    {p \in DOMAIN published :
        /\ \A q \in {x \in DOMAIN published : SameSymbol(x, p)} \ {p} :
             IF published[p].def = published[q].def THEN p < q ELSE published[p].def
        /\ query \in {None, published[p].usr}}

LEMMA MatchingStays ==
    ASSUME AllShown, AllShown', published' = published
    PROVE  \A query : Matching(query)' = Matching(query) /\ Positions(query)' = Positions(query)
                      /\ Result(query)' = Result(query)
<1>1. ASSUME NEW query PROVE Matching(query) = PlainlyMatching(query)
  BY DEF AllShown, Matching, PlainlyMatching, Shown, Chosen
<1>2. ASSUME NEW query PROVE Matching(query)' = PlainlyMatching(query)'
  BY DEF AllShown, Matching, PlainlyMatching, Shown, Chosen, SameSymbol
<1>3. ASSUME NEW query PROVE PlainlyMatching(query)' = PlainlyMatching(query)
  BY DEF PlainlyMatching, SameSymbol
<1>4. ASSUME NEW query PROVE Positions(query)' = Positions(query)
  <2>1. Matching(query)' = Matching(query)
    BY <1>1, <1>2, <1>3
  <2> QED BY <2>1 DEF Positions, InOrder, Precedes
<1> QED BY <1>1, <1>2, <1>3, <1>4 DEF Result

\* What writers may do to a client: the revision grows with what they publish,
\* and the fingerprints with what they write.
LEMMA ReadersKeep ==
    ASSUME PublicationInv, PublicationInv', ReadingInv, UNCHANGED <<client, reader>>,
           \A d \in Databases : /\ stamp[d] <= stamp'[d]
                                /\ stamp'[d] = stamp[d] => StoredRows(d)' = StoredRows(d),
           revision \in Nat => revision' \in Nat /\ revision <= revision',
           \/ published' = published
           \/ revision \in Nat /\ revision' # revision
           \/ {client.phase, reader.phase} \subseteq {"absent", "idle", "done"}
    PROVE  ReadingInv'
<1>1. revision \in Nat \cup {None} /\ revision' \in Nat \cup {None}
  BY DEF PublicationInv, IndexTypeOK
<1>2. AllShown /\ AllShown'
  BY DEF PublicationInv
<1>3. PICK c : c = client /\ c = client'
  OBVIOUS
<1>4. PICK r : r = reader /\ r = reader'
  OBVIOUS
<1>5. ClientOK(c) /\ ReaderOK(r)
  BY <1>3, <1>4 DEF ReadingInv
<1>6. ClientOK(c)'
  <2>1. CASE c.phase # "reading"
    BY <1>5, <2>1 DEF ClientOK
  <2>2. CASE c.phase = "reading"
    <3>1. c \in Searches /\ c.revision \in Nat /\ revision \in Nat /\ c.revision <= revision
      BY <1>1, <1>5, <2>2 DEF ClientOK, Searches, AtRest, Nobody
    <3>2. revision' \in Nat /\ revision' # None /\ c.revision <= revision'
      BY <3>1, IndexAssumption
    <3>3. CASE c.revision = revision'
      <4>1. revision' = revision /\ published' = published
        BY <1>3, <2>2, <3>1, <3>2, <3>3
      <4>2. Positions(c.query)' = Positions(c.query) /\ Result(c.query)' = Result(c.query)
        BY <1>2, <4>1, MatchingStays
      <4> QED BY <1>5, <2>2, <3>2, <4>1, <4>2 DEF ClientOK
    <3>4. CASE c.revision # revision'
      BY <1>5, <2>2, <3>2, <3>4 DEF ClientOK
    <3> QED BY <3>3, <3>4
  <2> QED BY <2>1, <2>2
<1>7. ReaderOK(r)'
  <2>1. CASE r.phase \notin {"found", "reading", "checked"}
    BY <1>5, <2>1 DEF ReaderOK
  <2>2. CASE r.phase \in {"found", "reading", "checked"}
    <3>1. r \in Finds \cup Readings /\ r.revision \in Nat /\ revision \in Nat /\ r.revision <= revision
      BY <1>1, <1>5, <2>2 DEF ReaderOK, Finds, Readings, AtRest, Nobody
    <3>2. revision' \in Nat /\ revision' # None /\ r.revision <= revision'
      BY <3>1, IndexAssumption
    <3>3. r.revision = revision' => revision' = revision /\ published' = published
      BY <1>4, <2>2, <3>1, <3>2
    <3>4. r.phase = "found" /\ r.revision = revision' =>
            \E p \in Matching(r.usr)' : ScopeOf[published'[p].file] = r.scope
      <4>1. SUFFICES ASSUME r.phase = "found", r.revision = revision'
                     PROVE  \E p \in Matching(r.usr)' : ScopeOf[published'[p].file] = r.scope
        OBVIOUS
      <4>2. Matching(r.usr)' = Matching(r.usr) /\ published' = published /\ revision' = revision
        BY <1>2, <3>3, <4>1, MatchingStays
      <4>3. \E p \in Matching(r.usr) : ScopeOf[published[p].file] = r.scope
        BY <1>5, <4>1, <4>2 DEF ReaderOK
      <4> QED BY <4>2, <4>3
    <3>5. r.phase = "reading" =>
            /\ \A d \in DOMAIN r.seen : r.seen[d] <= stamp'[d]
            /\ (\A d \in DOMAIN r.seen : r.seen[d] = stamp'[d]) =>
                  r.due = Occurring(r, DOMAIN r.seen)' /\ r.got = Occurring(r, DOMAIN r.seen \ r.todo)'
      <4>1. SUFFICES ASSUME r.phase = "reading"
                     PROVE  /\ \A d \in DOMAIN r.seen : r.seen[d] <= stamp'[d]
                            /\ (\A d \in DOMAIN r.seen : r.seen[d] = stamp'[d]) =>
                                  /\ r.due = Occurring(r, DOMAIN r.seen)'
                                  /\ r.got = Occurring(r, DOMAIN r.seen \ r.todo)'
        OBVIOUS
      <4>2. PICK D \in SUBSET Databases : r.seen \in [D -> Nat]
        BY <3>1, <4>1 DEF Finds, Readings
      <4>3. \A d \in D : r.seen[d] \in Nat /\ stamp[d] \in Nat /\ stamp'[d] \in Nat /\ r.seen[d] <= stamp[d]
        BY <1>5, <4>1, <4>2 DEF ReaderOK, PublicationInv, IndexTypeOK
      <4>4. \A d \in D : r.seen[d] <= stamp'[d] /\ (r.seen[d] = stamp'[d] => stamp'[d] = stamp[d])
        BY <4>2, <4>3
      <4>5. ASSUME \A d \in D : r.seen[d] = stamp'[d]
            PROVE  /\ r.due = Occurring(r, DOMAIN r.seen)'
                   /\ r.got = Occurring(r, DOMAIN r.seen \ r.todo)'
        <5>1. \A d \in D : stamp'[d] = stamp[d] /\ StoredRows(d)' = StoredRows(d)
          BY <4>2, <4>4, <4>5
        <5>2. r.due = Occurring(r, DOMAIN r.seen) /\ r.got = Occurring(r, DOMAIN r.seen \ r.todo)
          BY <1>5, <4>1, <4>2, <4>5, <5>1 DEF ReaderOK
        <5>3. ASSUME NEW S \in SUBSET D PROVE Occurring(r, S)' = Occurring(r, S)
          BY <5>1 DEF Occurring
        <5> QED BY <4>2, <5>2, <5>3
      <4> QED BY <4>2, <4>4, <4>5
    <3>6. r.revision = revision' /\ r.phase \in {"reading", "checked"} => r.known
      BY <1>5, <3>3 DEF ReaderOK
    <3> QED BY <1>5, <2>2, <3>2, <3>4, <3>5, <3>6 DEF ReaderOK
  <2> QED BY <2>1, <2>2
<1> QED BY <1>3, <1>4, <1>6, <1>7 DEF ReadingInv, ClientOK, ReaderOK

LEMMA OneMore ==
    ASSUME NEW due, NEW k \in Nat, NEW got \in Seq(SymbolRows), got = [i \in 1..k |-> due[i]]
    PROVE  Append(got, due[k + 1]) = [i \in 1..k + 1 |-> due[i]]
<1>1. Len(got) = k
  BY LenProperties
<1>2. Append(got, due[k + 1]) = [i \in 1..k + 1 |-> IF i = k + 1 THEN due[k + 1] ELSE got[i]]
  BY <1>1
<1>3. \A i \in 1..k + 1 : i # k + 1 => i \in 1..k
  OBVIOUS
<1> QED BY <1>2, <1>3

\* A page continues where the last one ended, and the last page ends.
LEMMA PageFollows ==
    ASSUME PublicationInv, NEW c \in Searches, c.phase = "reading", c.revision = revision,
           c.due = Result(c.query),
           \/ c.position = 0 /\ c.got = <<>>
           \/ \E k \in DOMAIN Positions(c.query) :
                 c.position = Positions(c.query)[k] /\ c.got = [i \in 1..k |-> c.due[i]]
    PROVE  ClientOK(Page(c))
<1>1. IsListing(published) /\ c.query \in DOMAIN NameOf \cup {None} /\ revision \in Nat /\ revision # None
  BY IndexAssumption DEF PublicationInv, IndexTypeOK, Searches
<1>2. PICK n : n = Cardinality(Matching(c.query))
  OBVIOUS
<1>3. PICK e : e = Positions(c.query)
  OBVIOUS
<1>4. /\ n \in Nat /\ e \in [1..n -> Matching(c.query)]
      /\ \A i, j \in 1..n : i < j <=> Precedes(c.query, e[i], e[j])
      /\ \A p \in Matching(c.query) : \E i \in 1..n : e[i] = p
      /\ \A i, j \in 1..n : e[i] = e[j] => i = j
  BY <1>1, <1>2, <1>3, PositionsInOrder
<1>5. \A i \in 1..n : e[i] \in DOMAIN published /\ e[i] # 0 /\ e[i] \in Nat /\ published[e[i]] \in SymbolRows
  BY <1>1, <1>4 DEF Matching, IsListing
<1>6. c.due = [i \in 1..n |-> published[e[i]]]
  BY <1>3, <1>4 DEF Result
<1>7. PICK k \in 0..n : /\ c.got = [i \in 1..k |-> c.due[i]]
                        /\ Following(c.query, c.position) = {e[j] : j \in k + 1..n}
  <2>1. CASE c.position = 0 /\ c.got = <<>>
    <3>1. Following(c.query, c.position) = {e[j] : j \in 1..n}
      BY <1>4, <2>1 DEF Following
    <3>2. c.got = [i \in 1..0 |-> c.due[i]]
      BY <2>1
    <3>3. 0 \in 0..n /\ 0 + 1 = 1
      BY <1>4
    <3> QED BY <3>1, <3>2, <3>3
  <2>2. CASE \E k \in DOMAIN Positions(c.query) :
               c.position = Positions(c.query)[k] /\ c.got = [i \in 1..k |-> c.due[i]]
    <3>1. PICK k \in 1..n : c.position = e[k] /\ c.got = [i \in 1..k |-> c.due[i]]
      BY <1>3, <1>4, <2>2
    <3>2. Following(c.query, c.position) = {p \in Matching(c.query) : Precedes(c.query, e[k], p)}
      BY <1>5, <3>1 DEF Following
    <3>3. \A j \in 1..n : j \in k + 1..n <=> Precedes(c.query, e[k], e[j])
      BY <1>4
    <3>4. {p \in Matching(c.query) : Precedes(c.query, e[k], p)} = {e[j] : j \in k + 1..n}
      <4>1. \A j \in k + 1..n : j \in 1..n
        OBVIOUS
      <4> QED BY <1>4, <3>3, <4>1
    <3> QED BY <3>1, <3>2, <3>4
  <2> QED BY <2>1, <2>2
<1>8. PICK rows : rows = {e[j] : j \in k + 1..n}
  OBVIOUS
<1>9. PICK d : d = Page(c)
  OBVIOUS
<1>10. CASE k = n
  <2>1. rows = {}
    BY <1>8, <1>10
  <2>2. d = [c EXCEPT !.phase = "done"]
    BY <1>7, <1>8, <1>9, <2>1 DEF Page
  <2>3. d \in Searches /\ d.phase = "done" /\ d.got = c.got /\ d.due = c.due
    BY <2>2 DEF Searches
  <2>4. c.got = c.due
    BY <1>6, <1>7, <1>10
  <2> QED BY <1>9, <2>3, <2>4 DEF ClientOK
<1>11. CASE k # n
  <2>1. k + 1 \in 1..n /\ e[k + 1] \in rows
    BY <1>4, <1>8, <1>11
  <2>2. \A j \in k + 1..n : j # k + 1 => Precedes(c.query, e[k + 1], e[j]) /\ ~Precedes(c.query, e[j], e[k + 1])
    <3>1. ASSUME NEW j \in k + 1..n, j # k + 1 PROVE j \in 1..n /\ k + 1 < j /\ ~(j < k + 1)
      BY <3>1
    <3> QED BY <1>4, <2>1, <3>1
  <2>3. PICK first : first = CHOOSE p \in rows : \A q \in rows \ {p} : Precedes(c.query, p, q)
    OBVIOUS
  <2>4. first = e[k + 1]
    <3>1. \A q \in rows \ {e[k + 1]} : Precedes(c.query, e[k + 1], q) /\ ~Precedes(c.query, q, e[k + 1])
      BY <1>8, <2>2
    <3>2. first \in rows /\ \A q \in rows \ {first} : Precedes(c.query, first, q)
      BY <2>1, <2>3, <3>1
    <3> QED BY <2>1, <3>1, <3>2
  <2>5. rows = {first} <=> k + 1 = n
    <3>1. CASE k + 1 = n
      BY <1>8, <2>4, <3>1
    <3>2. CASE k + 1 # n
      <4>1. n \in k + 1..n /\ n \in 1..n
        BY <1>4, <2>1
      <4>2. e[n] \in rows /\ e[n] # e[k + 1]
        BY <1>4, <1>8, <2>1, <3>2, <4>1
      <4> QED BY <2>4, <3>2, <4>2
    <3> QED BY <3>1, <3>2
  <2>6. d = [c EXCEPT !.phase = IF rows = {first} THEN "done" ELSE "reading",
                      !.position = first, !.got = Append(@, published[first])]
    BY <1>7, <1>8, <1>9, <2>1, <2>3 DEF Page
  <2>7. c.due[k + 1] = published[first]
    BY <1>6, <2>1, <2>4
  <2>8. Append(c.got, published[first]) = [i \in 1..k + 1 |-> c.due[i]]
    <3>1. c.got \in Seq(SymbolRows)
      BY DEF Searches
    <3> QED BY <1>7, <2>7, <3>1, OneMore
  <2>9. Append(c.got, published[first]) \in Seq(SymbolRows) /\ first \in Nat
    <3>1. c.got \in Seq(SymbolRows) /\ published[first] \in SymbolRows /\ first \in Nat
      BY <1>5, <2>1, <2>4 DEF Searches
    <3> QED BY <3>1
  <2>10. /\ d \in Searches /\ d.phase = (IF k + 1 = n THEN "done" ELSE "reading")
         /\ d.position = e[k + 1] /\ d.got = [i \in 1..k + 1 |-> c.due[i]]
         /\ d.due = c.due /\ d.query = c.query /\ d.revision = revision
    <3>1. d \in Searches
      BY <2>6, <2>9 DEF Searches
    <3> QED BY <2>4, <2>5, <2>6, <2>8, <3>1 DEF Searches
  <2>11. k + 1 = n => d.got = d.due
    BY <1>6, <2>10
  <2>12. k + 1 \in DOMAIN Positions(d.query)
    BY <1>3, <1>4, <2>1, <2>10
  <2>13. \E l \in DOMAIN Positions(d.query) : d.position = Positions(d.query)[l] /\ d.got = [i \in 1..l |-> d.due[i]]
    BY <1>3, <2>10, <2>12
  <2> QED BY <1>1, <1>9, <2>10, <2>11, <2>13 DEF ClientOK
<1> QED BY <1>10, <1>11

\* A reader moves; the client rests and the index stays.
LEMMA ClientMoves ==
    ASSUME PublicationInv, ReadingInv, UNCHANGED <<projectVars, store, stamp, reader>>,
           NEW c, client' = c, ClientOK(c)
    PROVE  ReadingInv'
<1>1. UNCHANGED <<owned, invalid, published, revision, store, stamp>>
  BY DEF projectVars
<1>2. AllShown /\ AllShown'
  BY <1>1 DEF PublicationInv, AllShown, Registered
<1>3. \A query : Matching(query)' = Matching(query) /\ Positions(query)' = Positions(query)
                 /\ Result(query)' = Result(query)
  BY <1>1, <1>2, MatchingStays
<1>4. ClientOK(c)'
  BY <1>1, <1>3 DEF ClientOK
<1>5. PICK r : r = reader /\ r = reader'
  OBVIOUS
<1>6. ReaderOK(r)'
  <2>1. ReaderOK(r)
    BY <1>5 DEF ReadingInv
  <2>2. \A S : Occurring(r, S)' = Occurring(r, S)
    BY <1>1 DEF Occurring, StoredRows
  <2> QED BY <1>1, <1>3, <2>1, <2>2 DEF ReaderOK
<1> QED BY <1>4, <1>5, <1>6 DEF ReadingInv, ClientOK, ReaderOK

LEMMA ReaderMoves ==
    ASSUME PublicationInv, ReadingInv, UNCHANGED <<projectVars, store, stamp, client>>,
           NEW r, reader' = r, ReaderOK(r)
    PROVE  ReadingInv'
<1>1. UNCHANGED <<owned, invalid, published, revision, store, stamp>>
  BY DEF projectVars
<1>2. AllShown /\ AllShown'
  BY <1>1 DEF PublicationInv, AllShown, Registered
<1>3. \A query : Matching(query)' = Matching(query) /\ Positions(query)' = Positions(query)
                 /\ Result(query)' = Result(query)
  BY <1>1, <1>2, MatchingStays
<1>4. PICK c : c = client /\ c = client'
  OBVIOUS
<1>5. ClientOK(c)'
  <2>1. ClientOK(c)
    BY <1>4 DEF ReadingInv
  <2> QED BY <1>1, <1>3, <2>1 DEF ClientOK
<1>6. ReaderOK(r)'
  <2>1. \A S : Occurring(r, S)' = Occurring(r, S)
    BY <1>1 DEF Occurring, StoredRows
  <2> QED BY <1>1, <1>3, <2>1 DEF ReaderOK
<1> QED BY <1>4, <1>5, <1>6 DEF ReadingInv, ClientOK, ReaderOK

LEMMA TurnedAway == ClientOK(AtRest) /\ ReaderOK(AtRest) /\ ClientOK(Nobody) /\ ReaderOK(Nobody)
BY DEF ClientOK, ReaderOK, AtRest, Nobody

LEMMA SearchStep ==
    ASSUME PublicationInv, ReadingInv, Search
    PROVE  ReadingInv'
<1>1. revision # None /\ UNCHANGED <<projectVars, store, stamp, reader>>
  BY DEF Search
<1>2. PICK query \in {None} \cup DOMAIN NameOf :
        client' = Page([phase |-> "reading", query |-> query, revision |-> revision, position |-> 0,
                        got |-> <<>>, due |-> Result(query)])
  BY DEF Search
<1>3. PICK c : c = [phase |-> "reading", query |-> query, revision |-> revision, position |-> 0,
                    got |-> <<>>, due |-> Result(query)]
  OBVIOUS
<1>4. client' = Page(c)
  BY <1>2, <1>3
<1>5. Result(query) \in Seq(SymbolRows)
  <2>1. IsListing(published)
    BY DEF PublicationInv, IndexTypeOK
  <2>2. PICK n : n = Cardinality(Matching(query))
    OBVIOUS
  <2>3. PICK e : e = Positions(query)
    OBVIOUS
  <2>4. n \in Nat /\ e \in [1..n -> Matching(query)]
    BY <2>1, <2>2, <2>3, PositionsInOrder
  <2>5. \A i \in 1..n : published[e[i]] \in SymbolRows
    BY <2>1, <2>4 DEF Matching, IsListing
  <2>6. Result(query) = [i \in 1..n |-> published[e[i]]]
    BY <2>3, <2>4 DEF Result
  <2> QED BY <2>4, <2>5, <2>6
<1>6. revision \in Nat
  BY <1>1 DEF PublicationInv, IndexTypeOK
<1>7. /\ c \in Searches /\ c.phase = "reading" /\ c.revision = revision /\ c.query = query
      /\ c.due = Result(query) /\ c.position = 0 /\ c.got = <<>>
  BY <1>3, <1>5, <1>6 DEF Searches
<1>8. ClientOK(Page(c))
  BY <1>7, PageFollows
<1>9. PICK d : d = Page(c)
  OBVIOUS
<1> QED BY <1>1, <1>4, <1>8, <1>9, ClientMoves

LEMMA ReadPageStep ==
    ASSUME PublicationInv, ReadingInv, ReadPage
    PROVE  ReadingInv'
<1>1. client.phase = "reading" /\ UNCHANGED <<projectVars, store, stamp, reader>>
  BY DEF ReadPage
<1>2. CASE Expired
  BY <1>1, <1>2, TurnedAway, ClientMoves DEF ReadPage
<1>3. CASE ~Expired
  <2>1. client.revision = revision /\ client' = Page(client)
    BY <1>3 DEF Expired, ReadPage
  <2>2. PICK c : c = client
    OBVIOUS
  <2>3. ClientOK(c) /\ c.phase = "reading" /\ c.revision = revision
    BY <1>1, <2>1, <2>2 DEF ReadingInv
  <2>4. c \in Searches
    BY <2>3 DEF ClientOK, AtRest, Nobody
  <2>5. /\ c.due = Result(c.query)
        /\ \E k \in DOMAIN Positions(c.query) :
              c.position = Positions(c.query)[k] /\ c.got = [i \in 1..k |-> c.due[i]]
    BY <2>3 DEF ClientOK
  <2>6. ClientOK(Page(c))
    BY <2>3, <2>4, <2>5, PageFollows
  <2>7. PICK d : d = Page(c)
    OBVIOUS
  <2> QED BY <1>1, <2>1, <2>2, <2>6, <2>7, ClientMoves
<1> QED BY <1>2, <1>3

LEMMA FindStep ==
    ASSUME PublicationInv, ReadingInv, Find
    PROVE  ReadingInv'
<1>1. revision # None /\ UNCHANGED <<projectVars, store, stamp, client>>
  BY DEF Find
<1>2. PICK p \in Matching(None) :
        reader' = [phase |-> "found", usr |-> published[p].usr, scope |-> ScopeOf[published[p].file],
                   revision |-> revision]
  BY DEF Find
<1>3. PICK r : r = [phase |-> "found", usr |-> published[p].usr, scope |-> ScopeOf[published[p].file],
                    revision |-> revision]
  OBVIOUS
<1>4. p \in DOMAIN published /\ published[p] \in SymbolRows /\ revision \in Nat
  BY <1>1, <1>2 DEF PublicationInv, IndexTypeOK, IsListing, Matching
<1>5. /\ r \in Finds /\ r.phase = "found" /\ r.revision = revision
      /\ r.usr = published[p].usr /\ r.scope = ScopeOf[published[p].file]
  BY <1>3, <1>4 DEF Finds, ScopesUsed, SymbolRows
<1>6. p \in Matching(r.usr)
  BY <1>2, <1>5 DEF Matching
<1>7. ReaderOK(r)
  BY <1>1, <1>4, <1>5, <1>6 DEF ReaderOK
<1> QED BY <1>1, <1>2, <1>3, <1>7, ReaderMoves

LEMMA PlanStep ==
    ASSUME PublicationInv, ReadingInv, Plan
    PROVE  ReadingInv'
<1>1. PICK f : f = reader
  OBVIOUS
<1>2. f.phase = "found" /\ UNCHANGED <<projectVars, store, stamp, client>>
  BY <1>1 DEF Plan
<1>3. f \in Finds /\ ReaderOK(f)
  BY <1>1, <1>2 DEF ReadingInv, ReaderOK, Readings, AtRest, Nobody
<1>4. PICK valid : valid = {x \in Registered \ invalid : ScopeOf[x] = f.scope}
  OBVIOUS
<1>5. PICK from : from = {owned[x] : x \in valid} \ {NoDatabase}
  OBVIOUS
<1>6. PICK r : r = [phase |-> "reading", usr |-> f.usr, scope |-> f.scope, revision |-> f.revision,
                    valid |-> valid, todo |-> from, seen |-> [d \in from |-> Fingerprint(d)], got |-> {},
                    due |-> UNION {{x \in StoredRows(d) : x.usr = f.usr /\ x.file \in valid} : d \in from},
                    known |-> \E p \in Matching(f.usr) : ScopeOf[published[p].file] = f.scope]
  OBVIOUS
<1>7. reader' = r
  BY <1>1, <1>4, <1>5, <1>6 DEF Plan
<1>8. IndexTypeOK
  BY DEF PublicationInv
<1>9. valid \subseteq FileIds /\ from \subseteq Databases
  BY <1>4, <1>5, <1>8 DEF Registered, IndexTypeOK
<1>10. \A d \in from : stamp[d] \in Nat /\ StoredRows(d) \subseteq SymbolRows
  BY <1>8, <1>9, RowsTyped DEF IndexTypeOK, FiniteRows
<1>11. /\ r.phase = "reading" /\ r.usr = f.usr /\ r.revision = f.revision /\ r.scope = f.scope /\ r.valid = valid
       /\ r.todo = from /\ r.seen = [d \in from |-> stamp[d]] /\ r.got = {}
       /\ r.known = (\E p \in Matching(f.usr) : ScopeOf[published[p].file] = f.scope)
  BY <1>6 DEF Fingerprint
<1>12. r.due = Occurring(r, from)
  BY <1>6, <1>11 DEF Occurring
<1>13. r.due \subseteq SymbolRows
  BY <1>10, <1>12 DEF Occurring
<1>14. r.known \in BOOLEAN
  BY <1>11
<1>15. r.seen \in [from -> Nat]
  BY <1>10, <1>11
<1>16. r.seen \in UNION {[S -> Nat] : S \in SUBSET Databases}
  BY <1>9, <1>15
<1>17. r \in Readings
  <2>1. f.usr \in DOMAIN NameOf /\ f.scope \in ScopesUsed /\ f.revision \in Nat
    BY <1>3 DEF Finds
  <2>2. r = [phase |-> "reading", usr |-> f.usr, scope |-> f.scope, revision |-> f.revision, valid |-> valid,
             todo |-> from, seen |-> r.seen, got |-> {}, due |-> r.due, known |-> r.known]
    BY <1>6
  <2> QED BY <1>9, <1>13, <1>14, <1>16, <2>1, <2>2 DEF Readings
<1>18. Occurring(r, DOMAIN r.seen \ r.todo) = {} /\ DOMAIN r.seen = from
  BY <1>11 DEF Occurring
<1>19. revision # None /\ r.revision <= revision /\ (r.revision = revision => r.known)
  BY <1>2, <1>3, <1>11 DEF ReaderOK
<1>20. ReaderOK(r)
  BY <1>10, <1>11, <1>12, <1>17, <1>18, <1>19 DEF ReaderOK
<1> QED BY <1>2, <1>7, <1>20, ReaderMoves

LEMMA CollectFromStep ==
    ASSUME PublicationInv, ReadingInv, CollectFrom
    PROVE  ReadingInv'
<1>1. PICK q : q = reader
  OBVIOUS
<1>2. q.phase = "reading" /\ q.todo # {} /\ UNCHANGED <<projectVars, store, stamp, client>>
  BY <1>1 DEF CollectFrom
<1>3. q \in Readings /\ ReaderOK(q)
  BY <1>1, <1>2 DEF ReadingInv, ReaderOK, Finds, AtRest, Nobody
<1>4. PICK d : d = First(q.todo)
  OBVIOUS
<1>5. d \in q.todo /\ d \in Databases
  <2>1. q.todo \subseteq Databases
    BY <1>3 DEF Readings
  <2> QED BY <1>2, <1>4, <2>1, FirstIn
<1>6. PICK r : r = [q EXCEPT !.todo = @ \ {d},
                       !.got = @ \cup {x \in StoredRows(d) : x.usr = q.usr /\ x.file \in q.valid}]
  OBVIOUS
<1>7. reader' = r
  BY <1>1, <1>4, <1>6 DEF CollectFrom, First
<1>8. StoredRows(d) \subseteq SymbolRows
  BY <1>5, RowsTyped DEF PublicationInv, FiniteRows
<1>9. /\ r \in Readings /\ r.phase = "reading" /\ r.todo = q.todo \ {d} /\ r.seen = q.seen /\ r.due = q.due
      /\ r.revision = q.revision /\ r.known = q.known /\ r.usr = q.usr /\ r.valid = q.valid
      /\ r.got = q.got \cup {x \in StoredRows(d) : x.usr = q.usr /\ x.file \in q.valid}
  BY <1>2, <1>3, <1>6, <1>8 DEF Readings
<1>10. \A S : Occurring(r, S) = Occurring(q, S)
  BY <1>9 DEF Occurring
<1>11. d \in DOMAIN q.seen
  BY <1>2, <1>3, <1>5 DEF ReaderOK
<1>12. Occurring(q, DOMAIN q.seen \ (q.todo \ {d})) =
         Occurring(q, DOMAIN q.seen \ q.todo) \cup {x \in StoredRows(d) : x.usr = q.usr /\ x.file \in q.valid}
  BY <1>5, <1>11 DEF Occurring
<1>13. /\ r.todo \subseteq DOMAIN r.seen /\ \A e \in DOMAIN r.seen : r.seen[e] <= stamp[e]
       /\ revision # None /\ r.revision <= revision /\ (r.revision = revision => r.known)
  BY <1>2, <1>3, <1>9 DEF ReaderOK
<1>14. (\A e \in DOMAIN r.seen : r.seen[e] = stamp[e]) =>
         r.due = Occurring(r, DOMAIN r.seen) /\ r.got = Occurring(r, DOMAIN r.seen \ r.todo)
  <2>1. SUFFICES ASSUME \A e \in DOMAIN r.seen : r.seen[e] = stamp[e]
                 PROVE  r.due = Occurring(r, DOMAIN r.seen) /\ r.got = Occurring(r, DOMAIN r.seen \ r.todo)
    OBVIOUS
  <2>2. q.due = Occurring(q, DOMAIN q.seen) /\ q.got = Occurring(q, DOMAIN q.seen \ q.todo)
    BY <1>2, <1>3, <1>9, <2>1 DEF ReaderOK
  <2> QED BY <1>9, <1>10, <1>12, <2>2
<1>15. ReaderOK(r)
  BY <1>9, <1>13, <1>14 DEF ReaderOK
<1> QED BY <1>2, <1>7, <1>15, ReaderMoves

LEMMA CheckSourcesStep ==
    ASSUME PublicationInv, ReadingInv, CheckSources
    PROVE  ReadingInv'
<1>1. PICK q : q = reader
  OBVIOUS
<1>2. q.phase = "reading" /\ q.todo = {} /\ UNCHANGED <<projectVars, store, stamp, client>>
  BY <1>1 DEF CheckSources
<1>3. q \in Readings /\ ReaderOK(q)
  BY <1>1, <1>2 DEF ReadingInv, ReaderOK, Finds, AtRest, Nobody
<1>4. CASE Unchanged
  <2>1. PICK r : r = [q EXCEPT !.phase = "checked"]
    OBVIOUS
  <2>2. reader' = r
    BY <1>1, <1>4, <2>1 DEF CheckSources
  <2>3. \A d \in DOMAIN q.seen : q.seen[d] = stamp[d]
    BY <1>1, <1>4 DEF Unchanged, Fingerprint
  <2>4. DOMAIN q.seen \ q.todo = DOMAIN q.seen
    BY <1>2
  <2>5. q.got = q.due
    BY <1>2, <1>3, <2>3, <2>4 DEF ReaderOK
  <2>6. /\ r \in Readings /\ r.phase = "checked" /\ r.got = q.got /\ r.due = q.due
        /\ r.revision = q.revision /\ r.known = q.known
    BY <1>3, <2>1 DEF Readings
  <2>7. ReaderOK(r)
    BY <1>2, <1>3, <2>5, <2>6 DEF ReaderOK
  <2> QED BY <1>2, <2>2, <2>7, ReaderMoves
<1>5. CASE ~Unchanged
  BY <1>2, <1>5, TurnedAway, ReaderMoves DEF CheckSources
<1> QED BY <1>4, <1>5

LEMMA AnswerStep ==
    ASSUME PublicationInv, ReadingInv, Answer
    PROVE  ReadingInv'
<1>1. PICK q : q = reader
  OBVIOUS
<1>2. q.phase = "checked" /\ UNCHANGED <<projectVars, store, stamp, client>>
  BY <1>1 DEF Answer
<1>3. q \in Readings /\ ReaderOK(q)
  BY <1>1, <1>2 DEF ReadingInv, ReaderOK, Finds, AtRest, Nobody
<1>4. CASE revision = q.revision
  <2>1. PICK r : r = [q EXCEPT !.phase = "done"]
    OBVIOUS
  <2>2. reader' = r
    BY <1>1, <1>4, <2>1 DEF Answer
  <2>3. r \in Readings /\ r.phase = "done" /\ r.got = q.got /\ r.due = q.due /\ r.known = q.known
    BY <1>3, <2>1 DEF Readings
  <2>4. ReaderOK(r)
    BY <1>2, <1>3, <1>4, <2>3 DEF ReaderOK
  <2> QED BY <1>2, <2>2, <2>4, ReaderMoves
<1>5. CASE revision # q.revision
  BY <1>1, <1>2, <1>5, TurnedAway, ReaderMoves DEF Answer
<1> QED BY <1>4, <1>5

LEMMA WritersLeaveReaders ==
    ASSUME PublicationInv, PublicationInv', ReadingInv, UNCHANGED <<client, reader, stamp, store>>,
           revision \in Nat => revision' \in Nat /\ revision <= revision',
           \/ published' = published
           \/ revision \in Nat /\ revision' # revision
           \/ {client.phase, reader.phase} \subseteq {"absent", "idle", "done"}
    PROVE  ReadingInv'
<1>1. \A d \in Databases : /\ stamp[d] <= stamp'[d]
                           /\ stamp'[d] = stamp[d] => StoredRows(d)' = StoredRows(d)
  BY DEF PublicationInv, IndexTypeOK, StoredRows
<1> QED BY <1>1, ReadersKeep

LEMMA ReadingInitOK ==
    ASSUME SymbolIndexInit
    PROVE  ReadingInv
BY TurnedAway DEF SymbolIndexInit, ReadingInv

LEMMA ReadingNextOK ==
    ASSUME ~RemovesWhileRead, PublicationInv, ReadingInv, [SymbolIndexNext]_indexVars
    PROVE  ReadingInv'
<1>1. PublicationInv'
  BY PublicationNextOK
<1>2. revision \in Nat \cup {None} /\ (revision = None => DOMAIN published = {})
  BY DEF PublicationInv, IndexTypeOK, AllShown
<1>3. CASE UNCHANGED indexVars
  BY <1>1, <1>3, WritersLeaveReaders DEF indexVars
<1>4. CASE InitializeIndex \/ BeginRefresh \/ Look \/ Copy \/ Confirm \/ RecordFacts
  <2>1. UNCHANGED <<client, reader, stamp, store, published>> /\ (revision # None => revision' = revision)
    BY <1>4 DEF InitializeIndex, BeginRefresh, Look, Copy, Confirm, RecordFacts, quiet, projectVars
  <2> QED BY <1>1, <1>2, <2>1, IndexAssumption, WritersLeaveReaders
<1>5. CASE Commit
  <2>1. revision \in Nat
    <3>1. job.phase = "source"
      BY <1>5 DEF Commit
    <3> QED BY <1>2, <3>1 DEF PublicationInv, JobOK
  <2>2. /\ UNCHANGED <<client, reader, stamp, store>>
        /\ \/ revision' = revision + 1
           \/ revision' = revision /\ published' = published
    BY <1>5 DEF Commit, quiet
  <2> QED BY <1>1, <2>1, <2>2, WritersLeaveReaders
<1>6. CASE WriteFacts
  <2>1. UNCHANGED <<client, reader, published, revision>>
    BY <1>6 DEF WriteFacts, projectVars
  <2> QED BY <1>1, <1>6, <2>1, WriteFactsStep, ReadersKeep
<1>7. CASE EditCommand \/ EditRepository \/ EditDisplay
  <2>1. /\ UNCHANGED <<client, reader, stamp, store>>
        /\ revision' = IF revision = None THEN None ELSE revision + 1
        /\ revision = None => published' = published
    BY <1>7 DEF EditCommand, EditRepository, EditDisplay, EditCatalog, Invalidate
  <2> QED BY <1>1, <1>2, <2>1, IndexAssumption, WritersLeaveReaders
<1>8. CASE RemoveByServer
  <2>1. PICK f \in Registered : RemoveFile(f, TRUE)
    BY <1>8 DEF RemoveByServer
  <2>2. /\ UNCHANGED <<client, reader, stamp, store>>
        /\ revision' = IF revision # None THEN revision + 1 ELSE revision
        /\ published' = [p \in {q \in DOMAIN published : published[q].file # f} |-> published[p]]
    BY <2>1 DEF RemoveFile
  <2>3. revision = None => published' = published
    BY <1>2, <2>2 DEF PublicationInv, IndexTypeOK, IsListing
  <2> QED BY <1>1, <1>2, <2>2, <2>3, IndexAssumption, WritersLeaveReaders
<1>9. CASE RemoveByCommand
  <2>1. {client.phase, reader.phase} \subseteq {"absent", "idle", "done"}
    BY <1>9 DEF RemoveByCommand
  <2>2. UNCHANGED <<client, reader, stamp, store, revision>>
    BY <1>9 DEF RemoveByCommand, RemoveFile
  <2> QED BY <1>1, <2>1, <2>2, WritersLeaveReaders
<1>10. CASE Search \/ ReadPage \/ Find \/ Plan \/ CollectFrom \/ CheckSources \/ Answer
  BY <1>10, SearchStep, ReadPageStep, FindStep, PlanStep, CollectFromStep, CheckSourcesStep, AnswerStep
<1> QED BY <1>3, <1>4, <1>5, <1>6, <1>7, <1>8, <1>9, <1>10 DEF SymbolIndexNext

\* The published index is the facts', and whoever follows its pages or asks
\* for occurrences gets one moment of it, as long as the command line removes
\* no file while somebody reads.
THEOREM IndexServesReaders ==
    ASSUME ~RemovesWhileRead
    PROVE  SymbolIndexSpec => []IndexServesFacts
<1>1. SymbolIndexInit => PublicationInv /\ ReadingInv
  BY PublicationInitOK, ReadingInitOK
<1>2. PublicationInv /\ ReadingInv /\ [SymbolIndexNext]_indexVars => (PublicationInv /\ ReadingInv)'
  BY PublicationNextOK, ReadingNextOK
<1>3. PublicationInv /\ ReadingInv => IndexServesFacts
  <2>1. ClientOK(client) /\ ReaderOK(reader) => ReadersSeeOneMoment
    BY DEF ClientOK, ReaderOK, ReadersSeeOneMoment
  <2> QED BY <2>1 DEF PublicationInv, ReadingInv, IndexServesFacts
<1> QED BY <1>1, <1>2, <1>3, PTL DEF SymbolIndexSpec

=============================================================================

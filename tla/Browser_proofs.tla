---------------------------- MODULE Browser_proofs ----------------------------
(* Proofs about Browser, for every list of findings, services, texts and sizes. *)
EXTENDS Browser, FiniteSetTheorems, TLAPS

-----------------------------------------------------------------------------
(* InOrder puts the members of a finite set in a total order of it. *)

TotalOrder(S, R) ==
    /\ \A x \in S : <<x, x>> \in R
    /\ \A x, y \in S : <<x, y>> \in R \/ <<y, x>> \in R
    /\ \A x, y \in S : <<x, y>> \in R /\ <<y, x>> \in R => x = y
    /\ \A x, y, z \in S : <<x, y>> \in R /\ <<y, z>> \in R => <<x, z>> \in R

DownTo(S, R, x) == {y \in S : <<y, x>> \in R}
Place(S, R, x) == Cardinality(DownTo(S, R, x))

LEMMA IntervalCard ==
    ASSUME NEW n \in Nat
    PROVE  IsFiniteSet(1..n) /\ Cardinality(1..n) = n
<1>1. 1 \in Int /\ n \in Int
  OBVIOUS
<1>2. IsFiniteSet(1..n) /\ Cardinality(1..n) = IF 1 > n THEN 0 ELSE n - 1 + 1
  BY <1>1, FS_Interval, Zenon
<1> QED
  BY <1>2

LEMMA PlaceType ==
    ASSUME NEW S, NEW R, IsFiniteSet(S), TotalOrder(S, R), NEW x \in S
    PROVE  Place(S, R, x) \in 1..Cardinality(S)
<1>1. DownTo(S, R, x) \in SUBSET S
  BY DEF DownTo
<1>2. IsFiniteSet(DownTo(S, R, x)) /\ Place(S, R, x) <= Cardinality(S)
  BY <1>1, FS_Subset DEF Place
<1>3. Place(S, R, x) \in Nat /\ Cardinality(S) \in Nat
  BY <1>2, FS_CardinalityType DEF Place
<1>4. x \in DownTo(S, R, x)
  BY DEF DownTo, TotalOrder
<1>5. Place(S, R, x) # 0
  BY <1>2, <1>4, FS_EmptySet DEF Place
<1> QED
  BY <1>2, <1>3, <1>5

LEMMA PlaceNat ==
    ASSUME NEW S, NEW R, IsFiniteSet(S), TotalOrder(S, R), NEW x \in S
    PROVE  Place(S, R, x) \in Nat
<1>1. Cardinality(S) \in Nat
  BY FS_CardinalityType
<1> QED
  BY <1>1, PlaceType

LEMMA PlaceGrows ==
    ASSUME NEW S, NEW R, IsFiniteSet(S), TotalOrder(S, R),
           NEW x \in S, NEW y \in S, <<x, y>> \in R, x # y
    PROVE  Place(S, R, x) < Place(S, R, y)
<1>1. DownTo(S, R, x) \in SUBSET DownTo(S, R, y)
  BY DEF DownTo, TotalOrder
<1>2. y \in DownTo(S, R, y) /\ y \notin DownTo(S, R, x)
  BY DEF DownTo, TotalOrder
<1>3. IsFiniteSet(DownTo(S, R, y))
  BY FS_Subset DEF DownTo
<1>4. Place(S, R, x) <= Place(S, R, y) /\ Place(S, R, x) # Place(S, R, y)
  BY <1>1, <1>2, <1>3, FS_Subset DEF Place
<1>5. Place(S, R, x) \in Nat /\ Place(S, R, y) \in Nat
  BY PlaceNat
<1> QED
  BY <1>4, <1>5

LEMMA PlaceIsOne ==
    ASSUME NEW S, NEW R, IsFiniteSet(S), TotalOrder(S, R),
           NEW x \in S, NEW y \in S, Place(S, R, x) = Place(S, R, y)
    PROVE  x = y
<1>1. Place(S, R, x) \in Nat /\ Place(S, R, y) \in Nat
  BY PlaceNat
<1>2. ~(Place(S, R, x) < Place(S, R, y)) /\ ~(Place(S, R, y) < Place(S, R, x))
  BY <1>1
<1>3. <<x, y>> \in R \/ <<y, x>> \in R
  BY DEF TotalOrder
<1> QED
  BY <1>2, <1>3, PlaceGrows, Zenon

LEMMA PlaceOnto ==
    ASSUME NEW S, NEW R, IsFiniteSet(S), TotalOrder(S, R), NEW k \in 1..Cardinality(S)
    PROVE  \E x \in S : Place(S, R, x) = k
<1> DEFINE place == [x \in S |-> Place(S, R, x)]
           T == 1..Cardinality(S)
<1>1. Cardinality(S) \in Nat
  BY FS_CardinalityType
<1>2. place \in [S -> T]
  BY PlaceType
<1>3. \A x, y \in S : place[x] = place[y] => x = y
  BY PlaceIsOne
<1>4. place \in Injection(S, T)
  BY <1>2, <1>3 DEF Injection, IsInjective
<1>6. IsFiniteSet(T) /\ Cardinality(T) = Cardinality(S)
  BY <1>1, IntervalCard
<1>7. place \in Surjection(S, T)
  BY <1>4, <1>6, FS_Injection
<1> QED
  BY <1>7 DEF Surjection

\* What InOrder returns: every member once, and the earlier one is the lesser.
Enumerates(s, S, R) ==
    /\ s \in [1..Cardinality(S) -> S]
    /\ \A x \in S : \E k \in 1..Cardinality(S) : s[k] = x
    /\ \A k, l \in 1..Cardinality(S) : k < l => s[k] # s[l] /\ <<s[k], s[l]>> \in R

LEMMA InOrderIs ==
    ASSUME NEW S, NEW R, IsFiniteSet(S), TotalOrder(S, R)
    PROVE  Enumerates(InOrder(S, R), S, R)
<1> DEFINE s == InOrder(S, R)
           n == Cardinality(S)
<1>1. s = [k \in 1..n |-> CHOOSE x \in S : Place(S, R, x) = k]
  BY Zenon DEF InOrder, Place, DownTo
<1>2. ASSUME NEW k \in 1..n PROVE s[k] \in S /\ Place(S, R, s[k]) = k
  <2>1. s[k] = CHOOSE x \in S : Place(S, R, x) = k
    BY <1>1, Zenon
  <2>2. \E x \in S : Place(S, R, x) = k
    BY PlaceOnto
  <2> QED
    BY <2>1, <2>2, Zenon
<1> HIDE DEF s
<1>3. s \in [1..n -> S]
  BY <1>1, <1>2
<1>4. ASSUME NEW x \in S PROVE \E k \in 1..n : s[k] = x
  <2>1. Place(S, R, x) \in 1..n
    BY PlaceType
  <2>2. s[Place(S, R, x)] \in S /\ Place(S, R, s[Place(S, R, x)]) = Place(S, R, x)
    BY <1>2, <2>1
  <2>3. s[Place(S, R, x)] = x
    BY <2>2, PlaceIsOne
  <2> QED
    BY <2>1, <2>3
<1>5. n \in Nat
  BY FS_CardinalityType
<1>6. ASSUME NEW k \in 1..n, NEW l \in 1..n, k < l
      PROVE s[k] # s[l] /\ <<s[k], s[l]>> \in R
  <2>1. Place(S, R, s[k]) = k /\ Place(S, R, s[l]) = l /\ s[k] \in S /\ s[l] \in S
    BY <1>2
  <2>2. k # l /\ ~(l < k)
    BY <1>6, <1>5, SMT
  <2>3. s[k] # s[l]
    BY <2>1, <2>2
  <2>4. <<s[l], s[k]>> \notin R
    BY <2>1, <2>2, <2>3, PlaceGrows
  <2> QED
    BY <2>1, <2>3, <2>4 DEF TotalOrder
<1>7. Enumerates(s, S, R)
  BY <1>3, <1>4, <1>6 DEF Enumerates
<1> QED
  BY <1>7 DEF s

-----------------------------------------------------------------------------
(* The sort and the filter. *)

FindingSet == [rank : 0..3, rule : Nat, service : {Services[i] : i \in DOMAIN Services}]

LEMMA FindingFields ==
    ASSUME NEW f \in FindingSet
    PROVE  f.rank \in 0..3 /\ f.rank \in Nat /\ f.rule \in Nat
BY DEF FindingSet

LEMMA PrecedesIsOrder ==
    ASSUME NEW fs \in Seq(FindingSet) PROVE TotalOrder(DOMAIN fs, Precedes(fs))
<1> DEFINE S == DOMAIN fs
           B(i, j) == Before(fs[i], fs[j])
<1>1. S = 1..Len(fs) /\ Len(fs) \in Nat
  OBVIOUS
<1>2. \A i \in S : fs[i].rank \in Nat /\ fs[i].rule \in Nat
  <2>1. \A i \in S : fs[i] \in FindingSet
    OBVIOUS
  <2> QED
    BY <2>1, FindingFields, Zenon
<1>3. \A i, j \in S : B(i, j) => ~B(j, i)
  BY <1>2 DEF Before
<1>4. \A i, j, k \in S : B(i, j) /\ B(j, k) => B(i, k)
  BY <1>2 DEF Before
<1>5. \A i, j, k \in S : B(i, j) => B(i, k) \/ B(k, j)
  BY <1>2 DEF Before
<1>6. \A i, j \in S : <<i, j>> \in Precedes(fs) <=> B(i, j) \/ (~B(j, i) /\ i <= j)
  BY DEF Precedes
<1> HIDE DEF B, S
<1>7. \A i, j \in S : i \in Nat /\ (i <= j \/ j <= i) /\ (i <= j /\ j <= i => i = j)
  BY <1>1
<1>8. \A i, j, k \in S : i <= j /\ j <= k => i <= k
  BY <1>1
<1>9. TotalOrder(S, Precedes(fs))
  BY <1>3, <1>4, <1>5, <1>6, <1>7, <1>8 DEF TotalOrder
<1> QED
  BY <1>9 DEF S

\* What a finding is drawn after, and what a stable sort may not do.
Sorted(fs) == \A i, j \in DOMAIN fs : i <= j => fs[i].rank <= fs[j].rank
Stable(fs, place) ==
    \A k, l \in DOMAIN fs : k < l =>
        /\ ~Before(fs[place[l]], fs[place[k]])
        /\ Before(fs[place[k]], fs[place[l]]) \/ place[k] < place[l]

\* SortFindings, for every list of findings: each is there once, in the order of
\* severity and rule, and those that tie stay in the order they were handed in.
THEOREM SortIsStable ==
    \A fs \in Seq(FindingSet) :
        \E place \in Bijection(DOMAIN fs, DOMAIN fs) :
            SortFindings(fs) = [k \in DOMAIN fs |-> fs[place[k]]] /\ Stable(fs, place)
<1> SUFFICES ASSUME NEW fs \in Seq(FindingSet)
             PROVE  \E place \in Bijection(DOMAIN fs, DOMAIN fs) :
                      /\ SortFindings(fs) = [k \in DOMAIN fs |-> fs[place[k]]]
                      /\ Stable(fs, place)
  OBVIOUS
<1> DEFINE S == DOMAIN fs
           place == InOrder(S, Precedes(fs))
<1>1. S = 1..Len(fs) /\ Len(fs) \in Nat
  OBVIOUS
<1>2. IsFiniteSet(S) /\ Cardinality(S) = Len(fs)
  BY <1>1, IntervalCard
<1>3. Enumerates(place, S, Precedes(fs))
  BY <1>2, PrecedesIsOrder, InOrderIs
<1>4. SortFindings(fs) = [k \in S |-> fs[place[k]]]
  BY DEF SortFindings
<1> HIDE DEF place, S
<1>5. place \in [S -> S] /\ \A x \in S : \E k \in S : place[k] = x
  BY <1>1, <1>2, <1>3 DEF Enumerates
<1>6. \A k, l \in S : k < l => place[k] # place[l] /\ <<place[k], place[l]>> \in Precedes(fs)
  BY <1>1, <1>2, <1>3 DEF Enumerates
<1>7. \A k, l \in S : place[k] = place[l] => k = l
  <2> SUFFICES ASSUME NEW k \in S, NEW l \in S, k # l PROVE place[k] # place[l]
    OBVIOUS
  <2>1. k < l \/ l < k
    BY <1>1
  <2> QED
    BY <2>1, <1>6
<1>8. place \in Bijection(S, S)
  BY <1>5, <1>7 DEF Bijection, Injection, Surjection, IsInjective
<1>9. Stable(fs, place)
  <2> SUFFICES ASSUME NEW k \in S, NEW l \in S, k < l
               PROVE  /\ ~Before(fs[place[l]], fs[place[k]])
                      /\ Before(fs[place[k]], fs[place[l]]) \/ place[k] < place[l]
    BY DEF Stable, S
  <2>1. place[k] \in S /\ place[l] \in S /\ place[k] # place[l]
    BY <1>5, <1>6
  <2>2. \/ Before(fs[place[k]], fs[place[l]])
        \/ ~Before(fs[place[l]], fs[place[k]]) /\ place[k] <= place[l]
    BY <1>6 DEF Precedes
  <2>3. fs[place[k]].rank \in Nat /\ fs[place[k]].rule \in Nat
        /\ fs[place[l]].rank \in Nat /\ fs[place[l]].rule \in Nat
    <3>1. fs[place[k]] \in FindingSet /\ fs[place[l]] \in FindingSet
      BY <2>1 DEF S
    <3> QED
      BY <3>1, FindingFields, Zenon
  <2>4. Before(fs[place[k]], fs[place[l]]) => ~Before(fs[place[l]], fs[place[k]])
    BY <2>3 DEF Before
  <2>5. place[k] <= place[l] => place[k] < place[l]
    BY <2>1, <1>1
  <2> QED
    BY <2>2, <2>4, <2>5
<1> QED
  BY <1>4, <1>8, <1>9 DEF S

LEMMA SortFindingsIs ==
    ASSUME NEW fs \in Seq(FindingSet)
    PROVE  /\ SortFindings(fs) \in [1..Len(fs) -> FindingSet]
           /\ \A i \in 1..Len(fs) : \E j \in 1..Len(fs) : SortFindings(fs)[i] = fs[j]
           /\ Sorted(SortFindings(fs))
<1> DEFINE S == 1..Len(fs)
           sf == SortFindings(fs)
<1>1. DOMAIN fs = S /\ Len(fs) \in Nat /\ fs \in [S -> FindingSet]
  OBVIOUS
<1>2. PICK place \in Bijection(S, S) : sf = [k \in S |-> fs[place[k]]] /\ Stable(fs, place)
  BY <1>1, SortIsStable
<1>3. place \in [S -> S]
  BY <1>2 DEF Bijection, Injection
<1> HIDE DEF S, sf
<1>4. sf \in [S -> FindingSet] /\ \A i \in S : \E j \in S : sf[i] = fs[j]
  BY <1>1, <1>2, <1>3
<1>5. ASSUME NEW i \in S, NEW j \in S, i <= j PROVE sf[i].rank <= sf[j].rank
  <2>1. sf[i] \in FindingSet /\ sf[j] \in FindingSet
    BY <1>4
  <2>2. sf[i].rank \in Nat /\ sf[j].rank \in Nat /\ sf[i].rule \in Nat /\ sf[j].rule \in Nat
    BY <2>1, FindingFields, Zenon
  <2>3. i < j => ~Before(sf[j], sf[i])
    BY <1>1, <1>2 DEF Stable
  <2>4. i = j \/ i < j
    BY <1>5 DEF S
  <2> QED
    BY <2>2, <2>3, <2>4 DEF Before
<1>6. Sorted(sf)
  BY <1>4, <1>5 DEF Sorted
<1> QED
  BY <1>4, <1>6 DEF S, sf

LEMMA UpToIsOrder ==
    ASSUME NEW S, S \subseteq Nat PROVE TotalOrder(S, UpTo(S))
<1>1. \A x, y \in S : <<x, y>> \in UpTo(S) <=> x <= y
  BY DEF UpTo
<1>2. \A x, y \in S : x \in Nat /\ (x <= y \/ y <= x) /\ (x <= y /\ y <= x => x = y)
  OBVIOUS
<1>3. \A x, y, z \in S : x <= y /\ y <= z => x <= z
  OBVIOUS
<1> QED
  BY <1>1, <1>2, <1>3, Zenon DEF TotalOrder

\* ApplyFilters, for every list and filter: each finding that matches, once, in the
\* order of the list, and no other.
Lists(rows, matching) ==
    /\ rows \in Seq(matching)
    /\ \A i \in matching : \E k \in DOMAIN rows : rows[k] = i
    /\ \A k, l \in DOMAIN rows : k < l => rows[k] < rows[l]

THEOREM FilterIsExact ==
    \A fs \in Seq(FindingSet) : \A flt : Lists(ApplyFilters(fs, flt), Matching(fs, flt))
<1> SUFFICES ASSUME NEW fs \in Seq(FindingSet), NEW flt
             PROVE  Lists(ApplyFilters(fs, flt), Matching(fs, flt))
  OBVIOUS
<1> DEFINE M == Matching(fs, flt)
           rows == ApplyFilters(fs, flt)
           n == Cardinality(M)
<1>1. DOMAIN fs = 1..Len(fs) /\ Len(fs) \in Nat
  OBVIOUS
<1>2. M \in SUBSET DOMAIN fs /\ M \subseteq Nat
  BY <1>1 DEF Matching
<1>3. IsFiniteSet(M)
  BY <1>1, <1>2, IntervalCard, FS_Subset
<1>4. Enumerates(rows, M, UpTo(M))
  BY <1>2, <1>3, UpToIsOrder, InOrderIs DEF ApplyFilters
<1>5. n \in Nat
  BY <1>3, FS_CardinalityType
<1> HIDE DEF M, rows, n
<1>6. rows \in [1..n -> M] /\ \A i \in M : \E k \in 1..n : rows[k] = i
  BY <1>4 DEF Enumerates, n
<1>7. \A k, l \in 1..n : k < l => rows[k] # rows[l] /\ <<rows[k], rows[l]>> \in UpTo(M)
  BY <1>4 DEF Enumerates, n
<1>8. ASSUME NEW k \in 1..n, NEW l \in 1..n, k < l PROVE rows[k] < rows[l]
  <2>1. rows[k] \in Nat /\ rows[l] \in Nat
    BY <1>2, <1>6
  <2>2. rows[k] # rows[l] /\ rows[k] <= rows[l]
    BY <1>7, <1>8 DEF UpTo
  <2> QED
    BY <2>1, <2>2
<1>9. rows \in Seq(M) /\ DOMAIN rows = 1..n
  BY <1>5, <1>6
<1> QED
  BY <1>6, <1>8, <1>9 DEF Lists, M, rows

LEMMA ApplyFiltersIs ==
    ASSUME NEW fs \in Seq(FindingSet), NEW flt
    PROVE  /\ ApplyFilters(fs, flt) \in Seq(DOMAIN fs)
           /\ Len(ApplyFilters(fs, flt)) \in Nat
           /\ DOMAIN ApplyFilters(fs, flt) = 1..Len(ApplyFilters(fs, flt))
           /\ \A k, l \in DOMAIN ApplyFilters(fs, flt) :
                k <= l => ApplyFilters(fs, flt)[k] <= ApplyFilters(fs, flt)[l]
<1> DEFINE rows == ApplyFilters(fs, flt)
<1>1. Lists(rows, Matching(fs, flt))
  BY FilterIsExact
<1>2. Matching(fs, flt) \subseteq DOMAIN fs
  BY DEF Matching
<1> HIDE DEF rows
<1>3. rows \in Seq(DOMAIN fs)
  BY <1>1, <1>2 DEF Lists
<1>4. Len(rows) \in Nat /\ DOMAIN rows = 1..Len(rows)
  BY <1>3
<1>5. \A k \in DOMAIN rows : rows[k] \in Nat
  <2>1. \A k \in DOMAIN rows : rows[k] \in DOMAIN fs
    BY <1>3
  <2>2. DOMAIN fs \subseteq Nat
    OBVIOUS
  <2> QED
    BY <2>1, <2>2
<1>6. ASSUME NEW k \in DOMAIN rows, NEW l \in DOMAIN rows, k <= l PROVE rows[k] <= rows[l]
  <2>1. k < l \/ k = l
    BY <1>4, <1>6
  <2>2. k < l => rows[k] < rows[l]
    BY <1>1 DEF Lists
  <2> QED
    BY <1>5, <2>1, <2>2
<1> QED
  BY <1>3, <1>4, <1>6 DEF rows

LEMMA NumbersInOrder ==
    ASSUME NEW n \in Nat PROVE InOrder(1..n, UpTo(1..n)) = [k \in 1..n |-> k]
<1> DEFINE S == 1..n
<1>1. IsFiniteSet(S) /\ Cardinality(S) = n
  BY IntervalCard
<1>2. ASSUME NEW x \in S PROVE Place(S, UpTo(S), x) = x
  <2>1. x \in Nat
    OBVIOUS
  <2>2. DownTo(S, UpTo(S), x) = {y \in S : y <= x}
    BY DEF DownTo, UpTo
  <2>3. {y \in S : y <= x} = 1..x
    OBVIOUS
  <2> QED
    BY <2>1, <2>2, <2>3, IntervalCard DEF Place
<1>3. InOrder(S, UpTo(S)) = [k \in 1..Cardinality(S) |-> CHOOSE x \in S : Place(S, UpTo(S), x) = k]
  BY Zenon DEF InOrder, Place, DownTo
<1> HIDE DEF S
<1>4. ASSUME NEW k \in S PROVE (CHOOSE x \in S : Place(S, UpTo(S), x) = k) = k
  BY <1>2
<1>5. 1..Cardinality(S) = S
  BY <1>1 DEF S
<1>6. InOrder(S, UpTo(S)) = [k \in S |-> k]
  BY <1>3, <1>4, <1>5, Zenon
<1> QED
  BY <1>6 DEF S

\* Without a filter the list is the findings, each at its own row.
LEMMA NoFilterShowsAll ==
    ASSUME NEW n \in Nat, NEW fs \in [1..n -> FindingSet],
           \A i \in 1..n : Contains(fs[i], "")
    PROVE  ApplyFilters(fs, NoFilter) = [i \in 1..n |-> i]
<1>1. \A i \in 1..n : Shown(fs[i], NoFilter)
  BY DEF Shown, NoFilter, All
<1>2. Matching(fs, NoFilter) = 1..n
  BY <1>1 DEF Matching
<1> QED
  BY <1>2, NumbersInOrder DEF ApplyFilters

-----------------------------------------------------------------------------
(* The inductive invariant: the findings are the sorted ones, and the list is theirs. *)

N == Len(Findings)
FindingsInv ==
    /\ findings \in [1..N -> FindingSet] /\ Sorted(findings)
    /\ \A i \in 1..N : Contains(findings[i], "")
Inv == FindingsInv /\ TypeOK /\ SelectionSound

LEMMA FindingsAre == N \in Nat /\ Findings \in Seq(FindingSet) /\ DOMAIN Findings = 1..N
<1>1. Findings \in Seq(FindingSet)
  BY BrowserAssumption, Zenon DEF FindingSet
<1> QED
  BY <1>1 DEF N

LEMMA InitFindings == findings = SortFindings(Findings) => FindingsInv
<1> SUFFICES ASSUME findings = SortFindings(Findings) PROVE FindingsInv
  OBVIOUS
<1>1. findings \in [1..N -> FindingSet] /\ Sorted(findings)
  BY FindingsAre, SortFindingsIs DEF N
<1>2. \A i \in 1..N : \E j \in 1..N : findings[i] = Findings[j]
  BY FindingsAre, SortFindingsIs DEF N
<1>3. \A j \in 1..N : Contains(Findings[j], "")
  BY FindingsAre, BrowserAssumption, Zenon
<1> QED
  BY <1>1, <1>2, <1>3 DEF FindingsInv

LEMMA RowsAre == FindingsInv => /\ findings \in Seq(FindingSet) /\ DOMAIN findings = 1..N
                                /\ Rows = 1..N /\ Rows \subseteq Nat
<1> SUFFICES ASSUME FindingsInv
             PROVE  /\ findings \in Seq(FindingSet) /\ DOMAIN findings = 1..N
                    /\ Rows = 1..N /\ Rows \subseteq Nat
  OBVIOUS
<1>1. N \in Nat /\ findings \in [1..N -> FindingSet]
  BY FindingsAre, Zenon DEF FindingsInv
<1>2. findings \in Seq(FindingSet) /\ DOMAIN findings = 1..N
  BY <1>1
<1>3. Rows = 1..N
  BY <1>2, Zenon DEF Rows
<1> QED
  BY <1>1, <1>2, <1>3

LEMMA TypeParts ==
    ASSUME TypeOK
    PROVE  /\ filtered \in Seq(Rows) /\ cursor \in Nat \ {0} /\ cursor \in Int /\ offset \in Nat
           /\ size.width \in Nat /\ size.height \in Nat /\ detail \in Rows \cup {0}
<1>1. /\ filtered \in Seq(Rows) /\ cursor \in Nat \ {0} /\ offset \in Nat
      /\ size \in [width : Widths \cup {0}, height : Heights \cup {0}] /\ detail \in Rows \cup {0}
  BY Zenon DEF TypeOK
<1>2. Widths \subseteq Nat /\ Heights \subseteq Nat
  BY BrowserAssumption, Zenon
<1>3. size.width \in Nat /\ size.height \in Nat
  <2>1. size \in [width : Widths \cup {0}, height : Heights \cup {0}]
    BY <1>1, Zenon
  <2>2. size.width \in Widths \cup {0} /\ size.height \in Heights \cup {0}
    BY <2>1
  <2>3. 0 \in Nat
    OBVIOUS
  <2> QED
    BY <2>2, <2>3, <1>2, Zenon
<1> QED
  BY <1>1, <1>3

\* What the list, the cursor and the pane are after a filter has been applied.
Selects(fl, cur, d) ==
    /\ fl \in Seq(Rows) /\ cur \in Nat \ {0} /\ d \in Rows \cup {0}
    /\ fl # <<>> => cur \in DOMAIN fl
    /\ d = SelectedFinding(fl, cur)

LEMMA SelectedType ==
    ASSUME FindingsInv, NEW fl \in Seq(Rows), NEW cur \in Nat \ {0}
    PROVE  SelectedFinding(fl, cur) \in Rows \cup {0}
<1>1. cur \in DOMAIN fl => fl[cur] \in Rows
  OBVIOUS
<1> QED
  BY <1>1 DEF SelectedFinding

LEMMA ClampIs ==
    ASSUME NEW k \in Int, NEW len \in Nat
    PROVE  Clamp(k, len) \in Nat \ {0} /\ (len # 0 => Clamp(k, len) \in 1..len)
BY DEF Clamp

LEMMA FilterSelects ==
    ASSUME FindingsInv, TypeOK, NEW flt, ApplyFilter(flt)
    PROVE  /\ Selects(filtered', cursor', detail')
           /\ filtered' = ApplyFilters(findings, flt) /\ filter' = flt /\ offset' = 0
<1> DEFINE fl == ApplyFilters(findings, flt)
<1>1. /\ filter' = flt /\ filtered' = fl /\ offset' = 0
      /\ cursor' = Clamp(cursor, Len(fl)) /\ detail' = SelectedFinding(fl, cursor')
  BY Zenon DEF ApplyFilter
<1>2. findings \in Seq(FindingSet) /\ DOMAIN findings = Rows
  BY RowsAre
<1>3. fl \in Seq(Rows)
  BY <1>2, ApplyFiltersIs
<1> HIDE DEF fl
<1>4. cursor \in Int
  BY TypeParts
<1>5. Len(fl) \in Nat /\ DOMAIN fl = 1..Len(fl) /\ (fl # <<>> => Len(fl) # 0)
  BY <1>3
<1>6. cursor' \in Nat \ {0} /\ (Len(fl) # 0 => cursor' \in 1..Len(fl))
  BY <1>1, <1>4, <1>5, ClampIs
<1>7. detail' \in Rows \cup {0}
  BY <1>1, <1>3, <1>6, SelectedType
<1> QED
  BY <1>1, <1>3, <1>5, <1>6, <1>7 DEF Selects, fl

LEMMA VisibleCountIs ==
    ASSUME NEW h \in Nat
    PROVE  /\ Body(h) \in Nat /\ VisibleCount(h) \in Nat \ {0}
           /\ \/ VisibleCount(h) = 1 /\ Body(h) >= 1
              \/ VisibleCount(h) + 3 = Body(h)
<1>1. MainHeight(h) \in Nat /\ MainHeight(h) >= 4
  BY DEF MainHeight
<1> QED
  BY <1>1 DEF Body, VisibleCount

\* The window after a move: the cursor is in it, and it is one page at most.
LEMMA ScrolledIs ==
    ASSUME TypeOK, NEW cur \in Nat \ {0}
    PROVE  /\ Scrolled(cur) \in Nat /\ Scrolled(cur) < cur
           /\ cur - Scrolled(cur) <= VisibleCount(size.height)
<1>1. offset \in Nat
  BY TypeParts
<1>2. size.height \in Nat
  BY TypeParts
<1>3. VisibleCount(size.height) \in Nat \ {0}
  BY <1>2, VisibleCountIs
<1> DEFINE vc == VisibleCount(size.height)
<1>4. Scrolled(cur) = IF cur - 1 < offset THEN cur - 1
                      ELSE IF cur - 1 >= offset + vc THEN cur - vc ELSE offset
  BY DEF Scrolled
<1> HIDE DEF vc
<1>5. vc \in Nat \ {0}
  BY <1>3 DEF vc
<1>6. Scrolled(cur) \in Nat /\ Scrolled(cur) < cur /\ cur - Scrolled(cur) <= vc
  BY <1>1, <1>4, <1>5
<1> QED
  BY <1>6 DEF vc

LEMMA MoveSelects ==
    ASSUME FindingsInv, TypeOK, NEW cur \in Nat \ {0}, filtered # <<>> => cur \in DOMAIN filtered,
           MoveTo(cur)
    PROVE  Selects(filtered, cursor', detail') /\ offset' \in Nat
<1>1. cursor' = cur /\ offset' = Scrolled(cur) /\ detail' = SelectedFinding(filtered, cur)
  BY DEF MoveTo
<1>2. filtered \in Seq(Rows)
  BY TypeParts
<1>3. detail' \in Rows \cup {0}
  BY <1>1, <1>2, SelectedType
<1> QED
  BY <1>1, <1>2, <1>3, ScrolledIs DEF Selects

-----------------------------------------------------------------------------
(* Every step keeps the invariant. *)

\* The part of the type invariant no filter and no movement changes.
RestType ==
    /\ filter \in [search : Texts, severity : 0..All,
                   service : {Services[i] : i \in DOMAIN Services} \cup {""}]
    /\ searching \in BOOLEAN /\ quitting \in BOOLEAN
    /\ mode \in {"list", "detail", "help", "open"} /\ focus \in {"list", "detail"}
    /\ size \in [width : Widths \cup {0}, height : Heights \cup {0}]

LEMMA TypeSplits ==
    TypeOK <=> /\ RestType /\ filtered \in Seq(Rows) /\ cursor \in Nat \ {0} /\ offset \in Nat
               /\ detail \in Rows \cup {0}
BY Zenon DEF TypeOK, RestType

LEMMA FindingsKept == FindingsInv /\ UNCHANGED findings => FindingsInv' /\ Rows' = Rows
BY DEF FindingsInv, Sorted, Rows, N

Filtering == Type \/ AcceptSearch \/ CycleSev \/ CycleSvc \/ Reset
Moving == Up \/ Down \/ PageUp \/ PageDown \/ Top \/ Bottom
Showing == OpenSearch \/ LeaveSearch \/ Enter \/ Back \/ Tab \/ Help \/ Open \/ OpenReport
           \/ QuitKey \/ Done

LEMMA FindingsFixed == Next => UNCHANGED findings
<1>1. ASSUME Filtering PROVE UNCHANGED findings
  BY <1>1, Zenon DEF Filtering, Type, AcceptSearch, CycleSev, CycleSvc, Reset
<1>2. ASSUME Moving PROVE UNCHANGED findings
  BY <1>2, Zenon DEF Moving, Up, Down, PageUp, PageDown, Top, Bottom, MoveCursor, MoveTo
<1>3. ASSUME Showing PROVE UNCHANGED findings
  BY <1>3, Zenon DEF Showing, OpenSearch, LeaveSearch, Enter, Back, Tab, Help, Open,
     OpenReport, QuitKey, Quit, Show, Done, vars
<1>4. ASSUME Resize PROVE UNCHANGED findings
  BY <1>4, Zenon DEF Resize
<1> QED
  BY <1>1, <1>2, <1>3, <1>4, Zenon DEF Next, Filtering, Moving, Showing

\* A filter is one the keys can make.
LEMMA NextServiceIs ==
    NextService(filter.service) \in {Services[i] : i \in DOMAIN Services} \cup {""}
<1> DEFINE s == filter.service
           at == {i \in DOMAIN Services : Services[i] = s}
           i == CHOOSE i \in at : TRUE
<1>1. Services \in Seq(STRING)
  BY BrowserAssumption, Zenon
<1>2. DOMAIN Services = 1..Len(Services) /\ Len(Services) \in Nat
  BY <1>1
<1>3. NextService(s) = IF at = {} THEN (IF Services = <<>> THEN "" ELSE Services[1])
                       ELSE IF i = Len(Services) THEN "" ELSE Services[i + 1]
  BY Zenon DEF NextService
<1>4. CASE at = {}
  <2>1. Services # <<>> => 1 \in DOMAIN Services
    BY <1>1
  <2> QED
    BY <1>3, <1>4, <2>1
<1>5. CASE at # {}
  <2>1. i \in DOMAIN Services
    BY <1>5
  <2> HIDE DEF i, at
  <2>2. i # Len(Services) => i + 1 \in DOMAIN Services
    BY <1>2, <2>1
  <2> QED
    BY <1>3, <1>5, <2>2
<1> QED
  BY <1>4, <1>5

LEMMA NoFilterType ==
    NoFilter \in [search : Texts, severity : 0..All,
                  service : {Services[i] : i \in DOMAIN Services} \cup {""}]
<1>1. All \in 0..All
  BY DEF All
<1>2. "" \in {Services[i] : i \in DOMAIN Services} \cup {""}
  BY Zenon
<1>3. "" \in Texts
  BY BrowserAssumption, Zenon
<1> QED
  BY <1>1, <1>2, <1>3, Zenon DEF NoFilter

LEMMA SeverityCycles ==
    ASSUME NEW s \in 0..4
    PROVE  (IF s = 4 THEN 0 ELSE IF s = 3 THEN 4 ELSE s + 1) \in 0..4
OBVIOUS

LEMMA FilteringIs ==
    ASSUME FindingsInv, TypeOK, Filtering
    PROVE  RestType' /\ \E flt : ApplyFilter(flt)
<1> DEFINE F == [search : Texts, severity : 0..All,
                 service : {Services[i] : i \in DOMAIN Services} \cup {""}]
<1>1. RestType /\ filter \in F
  BY TypeSplits, Zenon DEF RestType
<1>2. filter.search \in Texts /\ filter.severity \in 0..4 /\ "" \in Texts
  <2>1. "" \in Texts
    BY BrowserAssumption, Zenon
  <2> QED
    BY <1>1, <2>1 DEF All
<1>3. \A flt : ApplyFilter(flt) => filter' = flt
  BY Zenon DEF ApplyFilter
<1>4. CASE Type
  <2>1. PICK t \in Texts : ApplyFilter([filter EXCEPT !.search = t])
    BY <1>4, Zenon DEF Type
  <2>2. [filter EXCEPT !.search = t] \in F
    BY <1>1
  <2>3. filter' \in F
    BY <1>3, <2>1, <2>2, Zenon
  <2>4. UNCHANGED <<searching, mode, focus, size, quitting>>
    BY <1>4, Zenon DEF Type
  <2> QED
    BY <1>1, <2>1, <2>3, <2>4, Zenon DEF RestType
<1>5. CASE AcceptSearch
  <2>1. ApplyFilter(filter) /\ searching' = FALSE /\ UNCHANGED <<mode, focus, size, quitting>>
    BY <1>5, Zenon DEF AcceptSearch
  <2>2. filter' \in F
    BY <1>1, <1>3, <2>1, Zenon
  <2> QED
    BY <1>1, <2>1, <2>2, Zenon DEF RestType
<1>6. CASE CycleSev
  <2>1. /\ ApplyFilter([filter EXCEPT !.severity = IF @ = All THEN 0 ELSE IF @ = 3 THEN All ELSE @ + 1])
        /\ UNCHANGED <<searching, mode, focus, size, quitting>>
    BY <1>6, Zenon DEF CycleSev
  <2> DEFINE sev == IF filter.severity = All THEN 0 ELSE IF filter.severity = 3 THEN All ELSE filter.severity + 1
  <2>2. sev \in 0..All
    BY <1>2, SeverityCycles DEF All
  <2>3. [filter EXCEPT !.severity = sev] \in F
    <3> HIDE DEF sev
    <3> QED
      BY <1>1, <2>2
  <2>4. filter' \in F
    BY <1>3, <2>1, <2>3, Zenon
  <2> QED
    BY <1>1, <2>1, <2>4, Zenon DEF RestType
<1>7. CASE CycleSvc
  <2>1. /\ ApplyFilter([filter EXCEPT !.service = NextService(@)])
        /\ UNCHANGED <<searching, mode, focus, size, quitting>>
    BY <1>7, Zenon DEF CycleSvc
  <2>2. [filter EXCEPT !.service = NextService(@)] \in F
    BY <1>1, NextServiceIs
  <2>3. filter' \in F
    BY <1>3, <2>1, <2>2, Zenon
  <2> QED
    BY <1>1, <2>1, <2>3, Zenon DEF RestType
<1>8. CASE Reset
  <2>1. ApplyFilter(NoFilter) /\ UNCHANGED <<searching, mode, focus, size, quitting>>
    BY <1>8, Zenon DEF Reset
  <2>2. NoFilter \in F
    BY NoFilterType
  <2>3. filter' \in F
    BY <1>3, <2>1, <2>2, Zenon
  <2> QED
    BY <1>1, <2>1, <2>3, Zenon DEF RestType
<1> QED
  BY <1>4, <1>5, <1>6, <1>7, <1>8, Zenon DEF Filtering

\* Where a move ends: on a row of the list, in a window of one page.
Moved ==
    /\ Selects(filtered, cursor', detail') /\ offset' \in Nat
    /\ offset' < cursor' /\ cursor' - offset' <= VisibleCount(size.height)
    /\ UNCHANGED <<findings, filtered, filter, searching, mode, focus, size, quitting>>

LEMMA MoveToIs ==
    ASSUME FindingsInv, TypeOK, NEW cur \in Nat \ {0}, filtered # <<>> => cur \in DOMAIN filtered,
           MoveTo(cur)
    PROVE  Moved
<1>1. Selects(filtered, cursor', detail') /\ offset' \in Nat
  BY MoveSelects
<1>2. /\ cursor' = cur /\ offset' = Scrolled(cur)
      /\ UNCHANGED <<findings, filtered, filter, searching, mode, focus, size, quitting>>
  BY Zenon DEF MoveTo
<1>3. offset' < cursor' /\ cursor' - offset' <= VisibleCount(size.height)
  BY <1>2, ScrolledIs
<1> QED
  BY <1>1, <1>2, <1>3, Zenon DEF Moved

LEMMA MovingIs == ASSUME FindingsInv, TypeOK, Moving PROVE Moved
<1>1. /\ filtered \in Seq(Rows) /\ cursor \in Int /\ Len(filtered) \in Nat
      /\ DOMAIN filtered = 1..Len(filtered) /\ (filtered # <<>> => Len(filtered) # 0)
  <2>1. filtered \in Seq(Rows) /\ cursor \in Int
    BY TypeParts
  <2> QED
    BY <2>1
<1>2. VisibleCount(size.height) \in Nat \ {0}
  BY TypeParts, VisibleCountIs
<1>3. ASSUME NEW delta \in Int, MoveCursor(delta) PROVE Moved
  <2>1. MoveTo(Clamp(cursor + delta, Len(filtered)))
    BY <1>3, Zenon DEF MoveCursor
  <2>2. cursor + delta \in Int
    BY <1>1
  <2>3. /\ Clamp(cursor + delta, Len(filtered)) \in Nat \ {0}
        /\ Len(filtered) # 0 => Clamp(cursor + delta, Len(filtered)) \in 1..Len(filtered)
    BY <1>1, <2>2, ClampIs
  <2>4. filtered # <<>> => Clamp(cursor + delta, Len(filtered)) \in DOMAIN filtered
    BY <1>1, <2>3
  <2> QED
    BY <2>1, <2>3, <2>4, MoveToIs
<1>4. CASE Up
  BY <1>3, <1>4 DEF Up
<1>5. CASE Down
  BY <1>3, <1>5 DEF Down
<1>6. CASE PageUp \/ PageDown
  <2>1. VisibleCount(size.height) \in Int /\ -VisibleCount(size.height) \in Int
    BY <1>2
  <2> QED
    BY <1>3, <1>6, <2>1, Zenon DEF PageUp, PageDown
<1>7. CASE Bottom
  <2> DEFINE cur == IF filtered = <<>> THEN 1 ELSE Len(filtered)
  <2>1. MoveTo(cur)
    BY <1>7, Zenon DEF Bottom
  <2>2. cur \in Nat \ {0} /\ (filtered # <<>> => cur \in DOMAIN filtered)
    BY <1>1
  <2> QED
    BY <2>1, <2>2, MoveToIs
<1>8. CASE Top
  <2>1. /\ cursor' = 1 /\ offset' = 0 /\ detail' = SelectedFinding(filtered, 1)
        /\ UNCHANGED <<findings, filtered, filter, searching, mode, focus, size, quitting>>
    BY <1>8, Zenon DEF Top
  <2>2. 1 \in Nat \ {0} /\ (filtered # <<>> => 1 \in DOMAIN filtered)
    BY <1>1
  <2>3. SelectedFinding(filtered, 1) \in Rows \cup {0}
    BY <1>1, <2>2, SelectedType
  <2>4. Selects(filtered, cursor', detail')
    BY <1>1, <2>1, <2>2, <2>3 DEF Selects
  <2>5. offset' \in Nat /\ offset' < cursor' /\ cursor' - offset' <= VisibleCount(size.height)
    BY <1>2, <2>1
  <2> QED
    BY <2>1, <2>4, <2>5, Zenon DEF Moved
<1> QED
  BY <1>4, <1>5, <1>6, <1>7, <1>8, Zenon DEF Moving

\* What an overlay or a pane changes: at most the pane's text, to that of the selected row.
LEMMA ShowingIs ==
    ASSUME FindingsInv, TypeOK, Showing
    PROVE  /\ RestType' /\ UNCHANGED <<findings, list, filter, size>>
           /\ detail' = detail \/ detail' = SelectedFinding(filtered, cursor)
<1>1. RestType
  BY TypeSplits
<1>2. ASSUME NEW m \in {"list", "detail", "help", "open"}, NEW f \in {"list", "detail"}, Show(m, f)
      PROVE  RestType' /\ UNCHANGED <<findings, list, filter, size, detail>>
  BY <1>1, <1>2, Zenon DEF RestType, Show
<1>3. focus \in {"list", "detail"}
  BY <1>1, Zenon DEF RestType
<1>4. ASSUME Quit PROVE RestType' /\ UNCHANGED <<findings, list, filter, size, detail>>
  BY <1>1, <1>4, Zenon DEF RestType, Quit
<1>5. CASE OpenSearch \/ LeaveSearch
  BY <1>1, <1>5, Zenon DEF RestType, OpenSearch, LeaveSearch
<1>6. CASE Enter
  <2>1. CASE Show("list", "detail")
    BY <1>2, <2>1
  <2>2. CASE /\ mode' = "detail" /\ detail' = SelectedFinding(filtered, cursor)
             /\ UNCHANGED <<findings, list, filter, searching, focus, size, quitting>>
    BY <1>1, <2>2, Zenon DEF RestType
  <2> QED
    BY <1>6, <2>1, <2>2, Zenon DEF Enter
<1>7. CASE Back
  <2>1. CASE Show("list", focus) \/ Show("list", "list")
    BY <1>2, <1>3, <2>1
  <2>2. CASE /\ mode' = "list" /\ detail' = SelectedFinding(filtered, cursor)
             /\ UNCHANGED <<findings, list, filter, searching, focus, size, quitting>>
    BY <1>1, <2>2, Zenon DEF RestType
  <2>3. CASE Quit
    BY <1>4, <2>3
  <2> QED
    BY <1>7, <2>1, <2>2, <2>3, Zenon DEF Back
<1>8. CASE Tab
  BY <1>2, <1>8 DEF Tab
<1>9. CASE Help
  BY <1>2, <1>3, <1>9 DEF Help
<1>10. CASE Open \/ OpenReport
  BY <1>2, <1>3, <1>10 DEF Open, OpenReport
<1>11. CASE QuitKey
  BY <1>4, <1>11 DEF QuitKey
<1>12. CASE Done
  BY <1>1, <1>12, Zenon DEF Done, vars, RestType
<1> QED
  BY <1>5, <1>6, <1>7, <1>8, <1>9, <1>10, <1>11, <1>12, Zenon DEF Showing

LEMMA SoundAfter ==
    ASSUME FindingsInv, UNCHANGED findings, RestType', offset' \in Nat,
           Selects(filtered', cursor', detail'), filtered' = ApplyFilters(findings, filter')
    PROVE  Inv'
<1>1. FindingsInv' /\ Rows' = Rows
  BY FindingsKept
<1>2. filtered' \in Seq(Rows') /\ cursor' \in Nat \ {0} /\ detail' \in (Rows \cup {0})'
  BY <1>1, Zenon DEF Selects
<1>3. TypeOK'
  BY <1>2, Zenon DEF TypeOK, RestType
<1>4. SelectionSound'
  BY Zenon DEF Selects, SelectionSound, SelectedFinding
<1> QED
  BY <1>1, <1>3, <1>4, Zenon DEF Inv

LEMMA SelectedAre ==
    ASSUME Inv
    PROVE  /\ Selects(filtered, cursor, SelectedFinding(filtered, cursor))
           /\ filtered = ApplyFilters(findings, filter) /\ offset \in Nat /\ RestType
<1>1. FindingsInv /\ filtered \in Seq(Rows) /\ cursor \in Nat \ {0} /\ offset \in Nat
  BY TypeParts DEF Inv
<1>2. /\ filtered # <<>> => cursor \in DOMAIN filtered
      /\ filtered = ApplyFilters(findings, filter)
  BY Zenon DEF Inv, SelectionSound
<1>3. SelectedFinding(filtered, cursor) \in Rows \cup {0}
  BY <1>1, SelectedType
<1>4. RestType
  BY TypeSplits DEF Inv
<1> QED
  BY <1>1, <1>2, <1>3, <1>4, Zenon DEF Selects

LEMMA InitInv == Init => Inv
<1> SUFFICES ASSUME Init PROVE Inv
  OBVIOUS
<1>1. FindingsInv
  BY InitFindings DEF Init
<1>2. Rows = 1..N /\ DOMAIN findings = 1..N /\ N \in Nat
  BY <1>1, RowsAre, FindingsAre
<1>3. filtered = [i \in 1..N |-> i] /\ filtered \in Seq(Rows)
  BY <1>2 DEF Init
<1>4. filtered # <<>> => 1 \in DOMAIN filtered
  BY <1>2, <1>3
<1>5. filtered = ApplyFilters(findings, filter)
  <2>1. ApplyFilters(findings, NoFilter) = [i \in 1..N |-> i]
    BY <1>1, <1>2, NoFilterShowsAll DEF FindingsInv
  <2> QED
    BY <1>3, <2>1, Zenon DEF Init
<1>6. size.width = 0
  BY DEF Init
<1>7. SelectionSound
  BY <1>4, <1>5, <1>6 DEF SelectionSound, Init
<1>8. RestType
  <2>1. size \in [width : Widths \cup {0}, height : Heights \cup {0}]
    BY DEF Init
  <2>2. NoFilter \in [search : Texts, severity : 0..All,
                      service : {Services[i] : i \in DOMAIN Services} \cup {""}]
    BY NoFilterType
  <2> QED
    BY <2>1, <2>2, Zenon DEF Init, RestType
<1>9. cursor \in Nat \ {0} /\ offset \in Nat /\ detail \in Rows \cup {0}
  BY DEF Init
<1>10. TypeOK
  BY <1>3, <1>8, <1>9, TypeSplits
<1> QED
  BY <1>1, <1>7, <1>10 DEF Inv

LEMMA NextInv == Inv /\ [Next]_vars => Inv'
<1> SUFFICES ASSUME Inv, [Next]_vars PROVE Inv'
  OBVIOUS
<1>1. FindingsInv /\ TypeOK
  BY DEF Inv
<1>2. /\ Selects(filtered, cursor, SelectedFinding(filtered, cursor))
      /\ filtered = ApplyFilters(findings, filter) /\ offset \in Nat /\ RestType
  BY SelectedAre
<1>3. Next => UNCHANGED findings
  BY FindingsFixed
<1>4. CASE Filtering
  <2>1. UNCHANGED findings
    BY <1>3, <1>4, Zenon DEF Next, Filtering
  <2>2. RestType' /\ \E flt : ApplyFilter(flt)
    BY <1>1, <1>4, FilteringIs
  <2>3. PICK flt : ApplyFilter(flt)
    BY <2>2
  <2>4. /\ Selects(filtered', cursor', detail') /\ offset' = 0
        /\ filtered' = ApplyFilters(findings, filter')
    BY <1>1, <2>3, FilterSelects
  <2>5. offset' \in Nat
    BY <2>4
  <2> QED
    BY <1>1, <2>1, <2>2, <2>4, <2>5, SoundAfter
<1>5. CASE Moving
  <2>1. Moved
    BY <1>1, <1>5, MovingIs
  <2>2. /\ UNCHANGED findings /\ filtered' = filtered /\ filter' = filter /\ offset' \in Nat
        /\ Selects(filtered', cursor', detail')
    BY <2>1, Zenon DEF Moved
  <2>3. RestType'
    BY <1>2, <2>1, Zenon DEF Moved, RestType
  <2> QED
    BY <1>1, <1>2, <2>2, <2>3, SoundAfter
<1>6. CASE Resize
  <2>1. /\ UNCHANGED <<findings, list, filter>> /\ detail' = SelectedFinding(filtered, cursor)
        /\ UNCHANGED <<searching, mode, focus, quitting>>
        /\ size' \in [width : Widths, height : Heights]
    BY <1>6, Zenon DEF Resize
  <2>2. size' \in [width : Widths \cup {0}, height : Heights \cup {0}]
    BY <2>1
  <2>3. RestType'
    BY <1>2, <2>1, <2>2, Zenon DEF RestType
  <2>4. /\ UNCHANGED findings /\ filtered' = filtered /\ filter' = filter /\ offset' \in Nat
        /\ Selects(filtered', cursor', detail')
    BY <1>2, <2>1, Zenon DEF list
  <2> QED
    BY <1>1, <1>2, <2>3, <2>4, SoundAfter
<1>7. ASSUME /\ RestType' /\ UNCHANGED <<findings, list, filter, size>>
             /\ detail' = detail \/ detail' = SelectedFinding(filtered, cursor)
      PROVE  Inv'
  <2>1. /\ UNCHANGED findings /\ filtered' = filtered /\ cursor' = cursor /\ offset' = offset
        /\ filter' = filter /\ size' = size
    BY <1>7, Zenon DEF list
  <2>2. CASE detail' = SelectedFinding(filtered, cursor)
    <3>1. Selects(filtered', cursor', detail')
      BY <1>2, <2>1, <2>2, Zenon
    <3> QED
      BY <1>1, <1>2, <1>7, <2>1, <3>1, SoundAfter
  <2>3. CASE detail' = detail
    <3>1. FindingsInv' /\ Rows' = Rows
      BY <1>1, <2>1, FindingsKept
    <3>2. filtered \in Seq(Rows) /\ cursor \in Nat \ {0} /\ detail \in Rows \cup {0}
      BY <1>1, TypeParts
    <3>3. /\ filtered' \in Seq(Rows') /\ cursor' \in Nat \ {0} /\ offset' \in Nat
          /\ detail' \in (Rows \cup {0})'
      BY <1>2, <2>1, <2>3, <3>1, <3>2, Zenon
    <3>4. TypeOK'
      BY <1>7, <3>3, Zenon DEF TypeOK, RestType
    <3>5. SelectionSound'
      BY <2>1, <2>3, Zenon DEF Inv, SelectionSound, SelectedFinding
    <3> QED
      BY <3>1, <3>4, <3>5, Zenon DEF Inv
  <2> QED
    BY <1>7, <2>2, <2>3
<1>8. CASE Showing
  BY <1>1, <1>7, <1>8, ShowingIs
<1>9. CASE UNCHANGED vars
  BY <1>2, <1>7, <1>9, Zenon DEF vars, RestType
<1> QED
  BY <1>4, <1>5, <1>6, <1>8, <1>9, Zenon DEF Next, Filtering, Moving, Showing

LEMMA InvAlways == Spec => []Inv
BY InitInv, NextInv, PTL DEF Spec

\* The state of the browser has its types, for every list of findings and every window.
THEOREM TypeCorrect == Spec => []TypeOK
<1>1. Inv => TypeOK
  BY DEF Inv
<1> QED
  BY <1>1, InvAlways, PTL

\* The list is the filter's, the cursor is on one of its rows, and the pane shows that
\* row, through every sequence of keys and resizes.
THEOREM SelectionAlwaysSound == Spec => []SelectionSound
<1>1. Inv => SelectionSound
  BY DEF Inv
<1> QED
  BY <1>1, InvAlways, PTL

-----------------------------------------------------------------------------
(* What the list panel draws. *)

LEMMA ElementOf == ASSUME NEW T, NEW s \in Seq(T), NEW i \in 1..Len(s) PROVE s[i] \in T
OBVIOUS

Severity(i) == findings[filtered[i]].rank

\* Down the list the severity only gets lower.
LEMMA SeverityRises ==
    ASSUME Inv
    PROVE  /\ Len(filtered) \in Nat /\ DOMAIN filtered = 1..Len(filtered)
           /\ \A i \in 1..Len(filtered) : Severity(i) \in 0..3
           /\ \A i, j \in 1..Len(filtered) : i <= j => Severity(i) <= Severity(j)
<1>1. FindingsInv /\ filtered = ApplyFilters(findings, filter)
  BY Zenon DEF Inv, SelectionSound
<1>2. findings \in Seq(FindingSet) /\ DOMAIN findings = 1..N /\ findings \in [1..N -> FindingSet]
  BY <1>1, RowsAre DEF FindingsInv
<1>3. /\ Len(filtered) \in Nat /\ DOMAIN filtered = 1..Len(filtered)
      /\ filtered \in Seq(1..N)
      /\ \A k, l \in DOMAIN filtered : k <= l => filtered[k] <= filtered[l]
  BY <1>1, <1>2, ApplyFiltersIs
<1>4. \A i \in 1..Len(filtered) : filtered[i] \in 1..N
  <2> SUFFICES ASSUME NEW i \in 1..Len(filtered) PROVE filtered[i] \in 1..N
    OBVIOUS
  <2>1. filtered \in Seq(1..N)
    BY <1>3
  <2> QED
    BY <2>1, ElementOf, Zenon
<1>5. ASSUME NEW i \in 1..Len(filtered) PROVE Severity(i) \in 0..3
  <2>1. findings[filtered[i]] \in FindingSet
    BY <1>2, <1>4
  <2> QED
    BY <2>1, FindingFields DEF Severity
<1>6. ASSUME NEW i \in 1..Len(filtered), NEW j \in 1..Len(filtered), i <= j
      PROVE  Severity(i) <= Severity(j)
  <2>1. filtered[i] <= filtered[j] /\ filtered[i] \in DOMAIN findings /\ filtered[j] \in DOMAIN findings
    BY <1>2, <1>3, <1>4, <1>6
  <2>2. \A a, b \in DOMAIN findings : a <= b => findings[a].rank <= findings[b].rank
    BY <1>1, Zenon DEF FindingsInv, Sorted
  <2> QED
    BY <2>1, <2>2, Zenon DEF Severity
<1> QED
  BY <1>3, <1>5, <1>6

\* Between any two rows there are three dividers at most, and none above a single row.
LEMMA DividersFew ==
    ASSUME Inv, NEW row \in DOMAIN filtered, NEW off \in Nat, off < row
    PROVE  /\ LinesTo(row, off) \in Int /\ LinesTo(row, off) <= row - off + 3
           /\ row - off = 1 => LinesTo(row, off) = 1
<1> DEFINE C == {i \in off + 2..row : Severity(i) # Severity(i - 1)}
           up == [i \in C |-> Severity(i)]
           n == Len(filtered)
<1>1. n \in Nat /\ row \in 1..n
  BY SeverityRises
<1>2. /\ \A i \in 1..n : Severity(i) \in 0..3
      /\ \A i, j \in 1..n : i <= j => Severity(i) <= Severity(j)
  BY SeverityRises
<1>3. LinesTo(row, off) = row - off + Cardinality(C)
  BY Zenon DEF LinesTo, Severity
<1>4. \A i \in C : i \in Nat /\ i \in 1..n /\ i - 1 \in 1..n
  BY <1>1
<1>5. \A i \in C : Severity(i) # Severity(i - 1)
  OBVIOUS
<1> HIDE DEF C, n
<1>6. ASSUME NEW i \in C PROVE Severity(i) \in 1..3 /\ Severity(i - 1) < Severity(i)
  <2>1. i \in Nat /\ i \in 1..n /\ i - 1 \in 1..n
    BY <1>4
  <2>2. i - 1 <= i
    BY <2>1
  <2>3. Severity(i - 1) <= Severity(i) /\ Severity(i) \in 0..3 /\ Severity(i - 1) \in 0..3
    BY <1>2, <2>1, <2>2
  <2>4. Severity(i) # Severity(i - 1)
    BY <1>5
  <2> QED
    BY <2>3, <2>4
<1>7. ASSUME NEW i \in C, NEW j \in C, i < j PROVE Severity(i) # Severity(j)
  <2>1. i \in Nat /\ j \in Nat /\ i \in 1..n /\ j - 1 \in 1..n
    BY <1>4
  <2>2. i <= j - 1
    BY <1>7, <2>1
  <2>3. Severity(i) <= Severity(j - 1)
    BY <1>2, <2>1, <2>2
  <2>4. Severity(j - 1) < Severity(j)
    BY <1>6
  <2>5. Severity(i) \in 0..3 /\ Severity(j - 1) \in 0..3
    BY <1>2, <2>1
  <2>6. Severity(j) \in 1..3
    BY <1>6
  <2> QED
    BY <2>3, <2>4, <2>5, <2>6
<1>8. \A i, j \in C : up[i] = up[j] => i = j
  <2> SUFFICES ASSUME NEW i \in C, NEW j \in C, i # j PROVE up[i] # up[j]
    OBVIOUS
  <2>1. i < j \/ j < i
    BY <1>4
  <2> QED
    BY <2>1, <1>7
<1>9. up \in [C -> 1..3]
  BY <1>6
<1>10. up \in Injection(C, 1..3)
  BY <1>8, <1>9 DEF Injection, IsInjective
<1>11. IsFiniteSet(1..3) /\ Cardinality(1..3) = 3
  BY IntervalCard
<1> HIDE DEF up
<1>12. IsFiniteSet(C) /\ Cardinality(C) <= 3
  BY <1>10, <1>11, FS_Injection
<1>13. Cardinality(C) \in Nat
  BY <1>12, FS_CardinalityType
<1>14. row - off = 1 => C = {}
  BY <1>1 DEF C
<1>15. Cardinality({}) = 0
  BY FS_EmptySet
<1> QED
  BY <1>1, <1>3, <1>12, <1>13, <1>14, <1>15

LEMMA MovedIsDrawn ==
    ASSUME Inv, Moved, filtered # <<>>
    PROVE  Drawn(cursor', offset', size.height)
<1>1. cursor' \in DOMAIN filtered /\ offset' \in Nat /\ offset' < cursor'
  BY Zenon DEF Moved, Selects
<1>2. cursor' - offset' <= VisibleCount(size.height)
  BY DEF Moved
<1>3. size.height \in Nat
  BY TypeParts DEF Inv
<1> DEFINE h == size.height
           vc == VisibleCount(h)
<1>4. /\ Body(h) \in Nat /\ vc \in Nat \ {0}
      /\ (vc = 1 /\ Body(h) >= 1) \/ vc + 3 = Body(h)
  BY <1>3, VisibleCountIs
<1>5. /\ LinesTo(cursor', offset') \in Int /\ LinesTo(cursor', offset') <= cursor' - offset' + 3
      /\ cursor' - offset' = 1 => LinesTo(cursor', offset') = 1
  BY <1>1, DividersFew
<1>6. cursor' \in Nat
  BY <1>1, SeverityRises
<1> HIDE DEF h, vc
<1>7. cursor' - offset' <= vc
  BY <1>2 DEF vc, h
<1>8. LinesTo(cursor', offset') <= Body(h)
  BY <1>1, <1>4, <1>5, <1>6, <1>7
<1> QED
  BY <1>1, <1>8 DEF Drawn, h

\* A key that moves the cursor leaves it on a row that is drawn, whatever the window and
\* however many findings of each severity there are.
THEOREM MovementAlwaysVisible == Spec => MovementVisible
<1>1. Inv /\ [Next]_vars =>
        [(Up \/ Down \/ PageUp \/ PageDown \/ Top \/ Bottom) /\ size.height # 0 /\ filtered # <<>> =>
            Drawn(cursor', offset', size.height)]_vars
  <2> SUFFICES ASSUME Inv, Moving, filtered # <<>>
               PROVE  Drawn(cursor', offset', size.height)
    BY Zenon DEF Moving
  <2>1. Moved
    BY MovingIs DEF Inv
  <2> QED
    BY <2>1, MovedIsDrawn
<1> QED
  BY <1>1, InvAlways, PTL DEF Spec, MovementVisible
=============================================================================

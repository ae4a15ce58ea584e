------------------------ MODULE ClusterBrowserProofs ------------------------
(***************************************************************************)
(* What TLAPS proves of ClusterBrowser, for any repositories, any finite    *)
(* sets of clusters and members, any archive that replaces the first, and   *)
(* any number of keys, changes and loads.                                   *)
(***************************************************************************)
EXTENDS ClusterBrowser, FiniteSetTheorems, SequenceTheorems, TLAPS

-----------------------------------------------------------------------------
(* Lists *)

\* A strict order in which any two elements of S are comparable.
Orders(before, S) ==
  /\ \A x \in S : <<x, x>> \notin before
  /\ \A x, y \in S : x # y => <<x, y>> \in before \/ <<y, x>> \in before
  /\ \A x, y, z \in S : <<x, y>> \in before /\ <<y, z>> \in before => <<x, z>> \in before

(* Every element of a set that is arranged has a place of its own: no two   *)
(* have as many others before them, and there are as many places.           *)
LEMMA ArrangedIs ==
  ASSUME NEW S, IsFiniteSet(S), NEW before, Orders(before, S)
  PROVE  /\ Cardinality(S) \in Nat
         /\ Arranged(S, before) \in [1..Cardinality(S) -> S]
         /\ \A x \in S : \E i \in 1..Cardinality(S) : Arranged(S, before)[i] = x
         /\ \A i, j \in 1..Cardinality(S) : Arranged(S, before)[i] = Arranged(S, before)[j] => i = j
         /\ \A i \in 1..Cardinality(S) :
              Cardinality({y \in S : <<y, Arranged(S, before)[i]>> \in before}) = i - 1
<1> DEFINE n == Cardinality(S)
           Before(x) == {y \in S : <<y, x>> \in before}
           rank == [x \in S |-> Cardinality(Before(x))]
           Place(i) == CHOOSE x \in S : Cardinality(Before(x)) = i - 1
<1>1. n \in Nat /\ IsFiniteSet(0..n - 1) /\ Cardinality(0..n - 1) = n
  <2>1. n \in Nat
    BY FS_CardinalityType
  <2> HIDE DEF n
  <2>2. IsFiniteSet(0..n - 1) /\ Cardinality(0..n - 1) = IF 0 > n - 1 THEN 0 ELSE n - 1 - 0 + 1
    <3>1. 0 \in Int /\ n - 1 \in Int
      BY <2>1
    <3>2. QED
      BY <3>1, FS_Interval
  <2>3. QED
    BY <2>1, <2>2
<1>2. ASSUME NEW x \in S
      PROVE  IsFiniteSet(Before(x)) /\ Cardinality(Before(x)) \in 0..n - 1
  <2>1. Before(x) \subseteq S /\ x \notin Before(x)
    BY DEF Orders
  <2>2. IsFiniteSet(Before(x)) /\ Cardinality(Before(x)) <= n /\ Cardinality(Before(x)) # n
    BY <2>1, FS_Subset
  <2>3. Cardinality(Before(x)) \in Nat
    BY <2>2, FS_CardinalityType
  <2> HIDE DEF Before, n
  <2>4. QED
    BY <1>1, <2>2, <2>3
<1>3. ASSUME NEW x \in S, NEW y \in S, <<x, y>> \in before
      PROVE  Cardinality(Before(x)) # Cardinality(Before(y))
  <2>1. Before(x) \subseteq Before(y)
    BY <1>3 DEF Orders
  <2>2. x \in Before(y) /\ x \notin Before(x)
    BY <1>3 DEF Orders
  <2>3. IsFiniteSet(Before(y))
    BY <1>2
  <2> HIDE DEF Before
  <2>4. QED
    BY <2>1, <2>2, <2>3, FS_Subset
<1>4. rank \in [S -> 0..n - 1] /\ \A x, y \in S : rank[x] = rank[y] => x = y
  <2>1. rank \in [S -> 0..n - 1]
    BY <1>2
  <2>2. ASSUME NEW x \in S, NEW y \in S, x # y PROVE rank[x] # rank[y]
    <3>1. <<x, y>> \in before \/ <<y, x>> \in before
      BY <2>2 DEF Orders
    <3>2. Cardinality(Before(x)) # Cardinality(Before(y))
      <4> HIDE DEF Before
      <4>1. QED
        BY <3>1, <1>3
    <3>3. rank[x] = Cardinality(Before(x)) /\ rank[y] = Cardinality(Before(y))
      OBVIOUS
    <3>4. QED
      BY <3>2, <3>3
  <2>3. QED
    BY <2>1, <2>2
<1>5. \A k \in 0..n - 1 : \E x \in S : rank[x] = k
  <2> HIDE DEF rank, n
  <2>1. rank \in Injection(S, 0..n - 1)
    BY <1>4 DEF Injection, IsInjective
  <2>2. rank \in Surjection(S, 0..n - 1)
    BY <1>1, <2>1, FS_Injection DEF n
  <2>3. QED
    BY <2>2 DEF Surjection
<1>6. \A x \in S : rank[x] = Cardinality(Before(x))
  OBVIOUS
<1> HIDE DEF rank, Before, n
<1>7. ASSUME NEW i \in 1..n PROVE Place(i) \in S /\ rank[Place(i)] = i - 1
  <2>1. PICK x \in S : rank[x] = i - 1
    BY <1>1, <1>5
  <2>2. QED
    BY <1>6, <2>1
<1>8. Arranged(S, before) = [i \in 1..n |-> Place(i)]
  BY DEF Arranged, n, Before
<1>9. \A x \in S : \E i \in 1..n : Place(i) = x
  <2>1. SUFFICES ASSUME NEW x \in S PROVE \E i \in 1..n : Place(i) = x
    OBVIOUS
  <2>2. rank[x] \in 0..n - 1
    BY <1>4
  <2>3. rank[x] + 1 \in 1..n /\ (rank[x] + 1) - 1 = rank[x]
    BY <1>1, <2>2
  <2>4. rank[Place(rank[x] + 1)] = rank[x] /\ Place(rank[x] + 1) \in S
    BY <1>7, <2>3
  <2>5. QED
    BY <1>4, <2>3, <2>4
<1>10. ASSUME NEW i \in 1..n, NEW j \in 1..n, Place(i) = Place(j) PROVE i = j
  BY <1>1, <1>7, <1>10
<1>11. \A i \in 1..n : Cardinality({y \in S : <<y, Place(i)>> \in before}) = i - 1
  <2> SUFFICES ASSUME NEW i \in 1..n
               PROVE  Cardinality({y \in S : <<y, Place(i)>> \in before}) = i - 1
    OBVIOUS
  <2>1. Cardinality(Before(Place(i))) = i - 1
    BY <1>6, <1>7
  <2> HIDE DEF Place
  <2>2. QED
    BY <2>1 DEF Before
<1> HIDE DEF Place
<1>12. QED
  BY <1>1, <1>7, <1>8, <1>9, <1>10, <1>11 DEF n

(* The least of a set of naturals is one of them.                           *)
LEMMA LeastIs ==
  ASSUME NEW S, S \subseteq Nat, IsFiniteSet(S), S # {}
  PROVE  Least(S) \in S
<1> DEFINE before == {p \in S \X S : p[1] < p[2]}
           x == Arranged(S, before)[1]
<1>1. Orders(before, S)
  BY DEF Orders
<1> HIDE DEF before
<1>2. 1 \in 1..Cardinality(S)
  BY FS_EmptySet, FS_CardinalityType
<1>3. x \in S /\ Cardinality({y \in S : <<y, x>> \in before}) = 0
  BY <1>1, <1>2, ArrangedIs
<1> HIDE DEF x
<1>4. {y \in S : <<y, x>> \in before} = {}
  <2>1. {y \in S : <<y, x>> \in before} \subseteq S
    OBVIOUS
  <2>2. IsFiniteSet({y \in S : <<y, x>> \in before})
    BY <2>1, FS_Subset
  <2>3. QED
    BY <1>3, <2>2, FS_EmptySet
<1>5. \A y \in S : x <= y
  <2>1. \A y \in S : ~(y < x)
    BY <1>3, <1>4 DEF before
  <2>2. QED
    BY <1>3, <2>1
<1>6. QED
  BY <1>3, <1>5 DEF Least

(* What is chosen of a list are its elements at those places.               *)
LEMMA ChosenIs ==
  ASSUME NEW T, NEW list \in Seq(T), NEW places \in SUBSET DOMAIN list
  PROVE  /\ Chosen(list, places) \in Seq(T)
         /\ \A j \in DOMAIN Chosen(list, places) : \E p \in places : Chosen(list, places)[j] = list[p]
         /\ \A p \in places : \E j \in DOMAIN Chosen(list, places) : Chosen(list, places)[j] = list[p]
         /\ Len(Chosen(list, places)) <= Len(list)
<1> DEFINE before == {p \in places \X places : p[1] < p[2]}
           order == Arranged(places, before)
           n == Cardinality(places)
<1>1. /\ DOMAIN list = 1..Len(list) /\ Len(list) \in Nat /\ IsFiniteSet(DOMAIN list)
      /\ Cardinality(DOMAIN list) = Len(list)
  <2>1. DOMAIN list = 1..Len(list) /\ Len(list) \in Nat
    OBVIOUS
  <2>2. \A m \in Nat : IsFiniteSet(1..m) /\ Cardinality(1..m) = m
    <3>1. \A m \in Nat : IsFiniteSet(1..m) /\ Cardinality(1..m) = IF 1 > m THEN 0 ELSE m - 1 + 1
      BY FS_Interval
    <3>2. QED
      BY <3>1
  <2>3. QED
    BY <2>1, <2>2
<1>2. IsFiniteSet(places) /\ n \in Nat /\ n <= Len(list)
  BY <1>1, FS_Subset, FS_CardinalityType
<1>3. Orders(before, places)
  <2>1. places \subseteq Nat
    BY <1>1
  <2>2. QED
    BY <2>1 DEF Orders
<1>4. Chosen(list, places) = [i \in DOMAIN order |-> list[order[i]]]
  BY DEF Chosen
<1> HIDE DEF before
<1>5. /\ order \in [1..n -> places]
      /\ \A p \in places : \E i \in 1..n : order[i] = p
  BY <1>2, <1>3, ArrangedIs
<1> HIDE DEF order, n
<1>6. DOMAIN order = 1..n /\ \A i \in 1..n : order[i] \in places /\ list[order[i]] \in T
  BY <1>1, <1>5
<1>7. Chosen(list, places) \in [1..n -> T] /\ \A i \in 1..n : Chosen(list, places)[i] = list[order[i]]
  BY <1>4, <1>6
<1>8. Chosen(list, places) \in Seq(T) /\ Len(Chosen(list, places)) = n
      /\ DOMAIN Chosen(list, places) = 1..n
  BY <1>2, <1>7, SeqDef, LenProperties
<1>9. QED
  BY <1>2, <1>5, <1>6, <1>7, <1>8

(* A set that is arranged is a list of its elements.                        *)
LEMMA ArrangedSeq ==
  ASSUME NEW S, IsFiniteSet(S), NEW before, Orders(before, S)
  PROVE  /\ Arranged(S, before) \in Seq(S) /\ Len(Arranged(S, before)) = Cardinality(S)
         /\ ToSet(Arranged(S, before)) = S
<1> DEFINE n == Cardinality(S)
           list == Arranged(S, before)
<1>1. /\ n \in Nat /\ list \in [1..n -> S]
      /\ \A x \in S : \E i \in 1..n : list[i] = x
  BY ArrangedIs
<1> HIDE DEF n, list
<1>2. list \in Seq(S)
  BY <1>1, SeqDef
<1>3. Len(list) = n /\ DOMAIN list = 1..n
  BY <1>1, <1>2, LenProperties
<1>4. ToSet(list) = S
  BY <1>1, <1>3 DEF ToSet
<1>5. QED
  BY <1>2, <1>3, <1>4 DEF n, list

LEMMA ChosenElements ==
  ASSUME NEW T, NEW list \in Seq(T), NEW places \in SUBSET DOMAIN list
  PROVE  /\ Chosen(list, places) \in Seq(T) /\ Len(Chosen(list, places)) <= Len(list)
         /\ ToSet(Chosen(list, places)) = {list[p] : p \in places}
<1>1. ToSet(Chosen(list, places)) = {list[p] : p \in places}
  BY ChosenIs DEF ToSet
<1>2. QED
  BY <1>1, ChosenIs

(* What is cut off a list was at its end.                                   *)
LEMMA CutIs ==
  ASSUME NEW T, NEW list \in Seq(T), NEW limit \in Nat
  PROVE  /\ Cut(list, limit) \in Seq(T) /\ ToSet(Cut(list, limit)) \subseteq ToSet(list)
         /\ limit >= Len(list) => Cut(list, limit) = list
<1> DEFINE m == IF limit < Len(list) THEN limit ELSE Len(list)
<1>1. Len(list) \in Nat /\ DOMAIN list = 1..Len(list) /\ \A i \in 1..Len(list) : list[i] \in T
  BY LenProperties
<1>2. m \in Nat /\ m <= Len(list) /\ Cut(list, limit) = SubSeq(list, 1, m)
  BY <1>1 DEF Cut
<1>3. limit >= Len(list) => m = Len(list)
  <2>1. Len(list) \in Nat
    BY <1>1
  <2>2. \A x, y \in Nat : x >= y => (IF x < y THEN x ELSE y) = y
    OBVIOUS
  <2>3. QED
    BY <2>1, <2>2
<1> HIDE DEF m
<1>4. /\ SubSeq(list, 1, m) \in Seq(T) /\ Len(SubSeq(list, 1, m)) = m
      /\ \A i \in 1..m : SubSeq(list, 1, m)[i] = list[i]
  <2>1. \A i \in 1..m : list[i] \in T
    BY <1>1, <1>2
  <2>2. /\ SubSeq(list, 1, m) \in Seq(T)
        /\ Len(SubSeq(list, 1, m)) = IF 1 <= m THEN m - 1 + 1 ELSE 0
        /\ \A i \in 1..m - 1 + 1 : SubSeq(list, 1, m)[i] = list[1 + i - 1]
    BY <1>2, <2>1, SubSeqProperties
  <2>3. QED
    BY <1>2, <2>2
<1>5. DOMAIN SubSeq(list, 1, m) = 1..m
  BY <1>4, LenProperties
<1>6. ToSet(Cut(list, limit)) \subseteq ToSet(list)
  BY <1>1, <1>2, <1>4, <1>5 DEF ToSet
<1>7. QED
  BY <1>2, <1>3, <1>4, <1>6, SubSeqFull

LEMMA ConcatIs ==
  ASSUME NEW T, NEW s \in Seq(T), NEW u \in Seq(T)
  PROVE  s \o u \in Seq(T) /\ ToSet(s \o u) = ToSet(s) \cup ToSet(u)
<1>1. /\ DOMAIN s = 1..Len(s) /\ DOMAIN u = 1..Len(u) /\ Len(s) \in Nat /\ Len(u) \in Nat
  BY LenProperties
<1>2. /\ s \o u \in Seq(T) /\ DOMAIN (s \o u) = 1..Len(s) + Len(u)
      /\ \A i \in 1..Len(s) + Len(u) : (s \o u)[i] = IF i <= Len(s) THEN s[i] ELSE u[i - Len(s)]
  BY ConcatProperties, LenProperties
<1>3. ToSet(s \o u) \subseteq ToSet(s) \cup ToSet(u)
  <2>1. SUFFICES ASSUME NEW i \in 1..Len(s) + Len(u)
                 PROVE  (s \o u)[i] \in ToSet(s) \cup ToSet(u)
    BY <1>2 DEF ToSet
  <2>2. CASE i <= Len(s)
    BY <1>1, <1>2, <2>2 DEF ToSet
  <2>3. CASE ~(i <= Len(s))
    <3>1. i - Len(s) \in DOMAIN u /\ (s \o u)[i] = u[i - Len(s)]
      BY <1>1, <1>2, <2>3
    <3>2. QED
      BY <3>1 DEF ToSet
  <2>4. QED
    BY <2>2, <2>3
<1>4. ASSUME NEW i \in DOMAIN s PROVE s[i] \in ToSet(s \o u)
  <2>1. i \in 1..Len(s) + Len(u) /\ (s \o u)[i] = s[i]
    BY <1>1, <1>2
  <2>2. QED
    BY <1>2, <2>1 DEF ToSet
<1>5. ASSUME NEW i \in DOMAIN u PROVE u[i] \in ToSet(s \o u)
  <2>1. Len(s) + i \in 1..Len(s) + Len(u) /\ (s \o u)[Len(s) + i] = u[i]
    BY <1>1, <1>2
  <2>2. QED
    BY <1>2, <2>1 DEF ToSet
<1>6. ToSet(s) \subseteq ToSet(s \o u) /\ ToSet(u) \subseteq ToSet(s \o u)
  BY <1>4, <1>5 DEF ToSet
<1>7. QED
  BY <1>2, <1>3, <1>6

(* Elements and identities *)

LEMMA IdsOf ==
  ASSUME NEW list
  PROVE  Ids(list) = {s.id : s \in ToSet(list)}
BY DEF Ids, ToSet

LEMMA ToSetIn ==
  ASSUME NEW T, NEW list \in Seq(T)
  PROVE  ToSet(list) \subseteq T /\ (list = <<>> <=> ToSet(list) = {})
<1>1. DOMAIN list = 1..Len(list) /\ Len(list) \in Nat /\ \A i \in 1..Len(list) : list[i] \in T
  BY LenProperties
<1>2. list = <<>> <=> Len(list) = 0
  BY EmptySeq
<1>3. ToSet(list) \subseteq T
  BY <1>1 DEF ToSet
<1>4. ASSUME list # <<>> PROVE ToSet(list) # {}
  <2>1. 1 \in DOMAIN list
    BY <1>1, <1>2, <1>4
  <2>2. QED
    BY <2>1 DEF ToSet
<1>5. ToSet(<<>>) = {}
  BY DEF ToSet
<1>6. QED
  BY <1>3, <1>4, <1>5

(* Sorting keeps the rows.                                                  *)
LEMMA SortedIs ==
  ASSUME NEW list \in Seq(Summary), NEW sort
  PROVE  /\ sortClusters(list, sort) \in Seq(Summary) /\ Len(sortClusters(list, sort)) = Len(list)
         /\ ToSet(sortClusters(list, sort)) = ToSet(list)
<1> DEFINE Above(s, u) == \/ sort = "size" /\ s.count > u.count
                          \/ (sort = "size" => s.count = u.count) /\ s.updated > u.updated
           First(i, j) == Above(list[i], list[j]) \/ (~Above(list[j], list[i]) /\ i < j)
           before == {p \in (DOMAIN list) \X (DOMAIN list) : First(p[1], p[2])}
           order == Arranged(DOMAIN list, before)
           n == Len(list)
<1>1. n \in Nat /\ DOMAIN list = 1..n /\ \A i \in 1..n : list[i] \in Summary
  BY LenProperties
<1>2. \A i \in 1..n : list[i].count \in Int /\ list[i].updated \in Int
  BY <1>1, BrowserAssumption DEF Summary
<1>3. \A x, y : <<x, y>> \in before <=> x \in 1..n /\ y \in 1..n /\ First(x, y)
  BY <1>1
<1>4. sortClusters(list, sort) = [i \in DOMAIN list |-> list[order[i]]]
  BY DEF sortClusters
<1> HIDE DEF before, n
<1>5. Orders(before, DOMAIN list)
  <2>1. \A x \in 1..n : <<x, x>> \notin before
    BY <1>2, <1>3
  <2>2. ASSUME NEW x \in 1..n, NEW y \in 1..n, x # y
        PROVE  <<x, y>> \in before \/ <<y, x>> \in before
    <3>1. First(x, y) \/ First(y, x)
      BY <1>1, <2>2
    <3>2. QED
      BY <1>3, <2>2, <3>1
  <2>3. ASSUME NEW x \in 1..n, NEW y \in 1..n, NEW z \in 1..n,
               <<x, y>> \in before, <<y, z>> \in before
        PROVE  <<x, z>> \in before
    <3>1. First(x, y) /\ First(y, z)
      BY <1>3, <2>3
    <3>2. /\ x \in Int /\ y \in Int /\ z \in Int
          /\ list[x].count \in Int /\ list[y].count \in Int /\ list[z].count \in Int
          /\ list[x].updated \in Int /\ list[y].updated \in Int /\ list[z].updated \in Int
      BY <1>1, <1>2
    <3>3. First(x, z)
      <4>1. CASE sort = "size"
        BY <3>1, <3>2, <4>1, SMTT(30)
      <4>2. CASE sort # "size"
        BY <3>1, <3>2, <4>2, SMTT(30)
      <4>3. QED
        BY <4>1, <4>2
    <3>4. QED
      BY <1>3, <3>3
  <2>4. QED
    BY <1>1, <2>1, <2>2, <2>3 DEF Orders
<1>6. IsFiniteSet(1..n) /\ Cardinality(1..n) = n
  <2>1. \A m \in Nat : IsFiniteSet(1..m) /\ Cardinality(1..m) = IF 1 > m THEN 0 ELSE m - 1 + 1
    BY FS_Interval
  <2>2. QED
    BY <1>1, <2>1
<1>7. order \in [1..n -> 1..n] /\ \A x \in 1..n : \E i \in 1..n : order[i] = x
  <2>1. PICK D : D = DOMAIN list
    OBVIOUS
  <2>2. order = Arranged(D, before) /\ Orders(before, D)
    BY <1>5, <2>1
  <2>3. D = 1..n
    BY <1>1, <2>1
  <2>4. IsFiniteSet(D) /\ Cardinality(D) = n
    BY <1>6, <2>3
  <2> HIDE DEF order
  <2>5. /\ order \in [1..Cardinality(D) -> D]
        /\ \A x \in D : \E i \in 1..Cardinality(D) : order[i] = x
    BY <2>2, <2>4, ArrangedIs
  <2>6. QED
    BY <2>3, <2>4, <2>5
<1> HIDE DEF order
<1>8. sortClusters(list, sort) \in [1..n -> Summary]
  BY <1>1, <1>4, <1>7
<1>9. sortClusters(list, sort) \in Seq(Summary) /\ Len(sortClusters(list, sort)) = n
      /\ DOMAIN sortClusters(list, sort) = 1..n
  BY <1>1, <1>8, SeqDef, LenProperties
<1>10. \A i \in 1..n : sortClusters(list, sort)[i] = list[order[i]]
  BY <1>1, <1>4
<1>11. ToSet(sortClusters(list, sort)) = ToSet(list)
  <2>1. \A i \in 1..n : sortClusters(list, sort)[i] \in ToSet(list)
    BY <1>1, <1>7, <1>10 DEF ToSet
  <2>2. ASSUME NEW x \in 1..n PROVE list[x] \in ToSet(sortClusters(list, sort))
    <3>1. PICK i \in 1..n : order[i] = x
      BY <1>7
    <3>2. sortClusters(list, sort)[i] = list[x]
      BY <1>10, <3>1
    <3>3. QED
      BY <1>9, <3>2 DEF ToSet
  <2>3. QED
    BY <1>1, <1>9, <2>1, <2>2 DEF ToSet
<1>12. QED
  BY <1>9, <1>11 DEF n

(* Merging adds the rows of clusters the first list has not.                *)
LEMMA MergeIs ==
  ASSUME NEW s \in Seq(Summary), NEW u \in Seq(Summary)
  PROVE  /\ mergeClusterSummaries(s, u) \in Seq(Summary)
         /\ ToSet(s) \subseteq ToSet(mergeClusterSummaries(s, u))
         /\ ToSet(mergeClusterSummaries(s, u)) \subseteq ToSet(s) \cup ToSet(u)
<1> DEFINE places == {i \in DOMAIN u : u[i].id \notin Ids(s)}
<1>1. /\ Chosen(u, places) \in Seq(Summary)
      /\ ToSet(Chosen(u, places)) = {u[p] : p \in places}
  BY ChosenElements
<1>2. {u[p] : p \in places} \subseteq ToSet(u)
  BY DEF ToSet
<1>3. mergeClusterSummaries(s, u) = s \o Chosen(u, places)
  BY DEF mergeClusterSummaries
<1> HIDE DEF places
<1>4. QED
  BY <1>1, <1>2, <1>3, ConcatIs

(* What the store answers *)

LEMMA MembersFinite ==
  ASSUME NEW c \in Clusters, NEW S, S \subseteq Members[c]
  PROVE  IsFiniteSet(S) /\ Cardinality(S) \in Nat
BY FS_Subset, FS_CardinalityType, BrowserAssumption

LEMMA SummarizedIs ==
  ASSUME NEW a \in Archive, NEW c \in Clusters, NEW all
  PROVE  Summarized(a, c, all) \in Summary /\ Summarized(a, c, all).id = c
<1> DEFINE counted == IF all THEN Active(a, c) ELSE Active(a, c) \ a.hidden
<1>1. Cardinality(counted) \in Nat
  BY MembersFinite DEF Active
<1>2. a.updated[c] \in 0..MaxEdits /\ (c \in a.closed) \in BOOLEAN
  BY DEF Archive
<1>3. Summarized(a, c, all) = [id |-> c, closed |-> c \in a.closed, updated |-> a.updated[c],
                               count |-> Cardinality(counted)]
  BY DEF Summarized
<1> HIDE DEF counted
<1>4. QED
  BY <1>1, <1>2, <1>3 DEF Summary

LEMMA DetailedIs ==
  ASSUME NEW a \in Archive, NEW c \in Clusters
  PROVE  Detailed(a, c) \in Detail /\ Detailed(a, c).id = c /\ Detailed(a, c).summary.id = c
<1> DEFINE s == Summarized(a, c, TRUE)
           closed == s.closed \/ (s.count > 0 /\ Active(a, c) \subseteq a.hidden)
           seen == [s EXCEPT !.closed = closed]
<1>1. s \in Summary /\ s.id = c
  BY SummarizedIs
<1> HIDE DEF s
<1>2. closed \in BOOLEAN
  BY <1>1 DEF Summary
<1>3. Detailed(a, c) = [id |-> c, excluded |-> Members[c] \cap a.excluded,
                        hidden |-> Members[c] \cap a.hidden, summary |-> seen]
  BY DEF Detailed, s
<1> HIDE DEF closed
<1>4. seen \in Summary /\ seen.id = c
  BY <1>1, <1>2 DEF Summary
<1> HIDE DEF seen
<1>5. Members[c] \cap a.excluded \subseteq Threads /\ Members[c] \cap a.hidden \subseteq Threads
  BY DEF Threads
<1>6. QED
  BY <1>3, <1>4, <1>5 DEF Detail

\* The rows that a listing of a repository is made of.
Listable(a, repo, all, size) ==
  {s \in {Summarized(a, c, all) : c \in {d \in a.groups : RepoOf[d] = repo}} :
     (all \/ ~s.closed) /\ s.count >= size}

LEMMA ListableIs ==
  ASSUME NEW a \in Archive, NEW repo, NEW all, NEW size
  PROVE  /\ Listable(a, repo, all, size) \subseteq Summary
         /\ IsFiniteSet(Listable(a, repo, all, size))
         /\ Cardinality(Listable(a, repo, all, size)) <= Unlimited
         /\ \A s \in Listable(a, repo, all, size) :
              /\ s = Summarized(a, s.id, all) /\ s.id \in Clusters /\ RepoOf[s.id] = repo
              /\ (all \/ ~s.closed) /\ s.count >= size
<1> DEFINE rows == Listable(a, repo, all, size)
           id == [s \in rows |-> s.id]
<1>1. ASSUME NEW s \in rows
      PROVE  /\ s \in Summary /\ s = Summarized(a, s.id, all) /\ s.id \in Clusters
             /\ RepoOf[s.id] = repo /\ (all \/ ~s.closed) /\ s.count >= size
  <2>1. PICK c \in a.groups : s = Summarized(a, c, all) /\ RepoOf[c] = repo
    BY DEF Listable
  <2>2. c \in Clusters
    BY DEF Archive
  <2>3. (all \/ ~s.closed) /\ s.count >= size
    BY DEF Listable
  <2>4. s.id = c /\ s \in Summary
    BY <2>1, <2>2, SummarizedIs
  <2>5. QED
    BY <2>1, <2>2, <2>3, <2>4
<1> HIDE DEF rows
<1>2. id \in Injection(rows, Clusters)
  BY <1>1 DEF Injection, IsInjective
<1>3. IsFiniteSet(rows) /\ Cardinality(rows) <= Cardinality(Clusters)
  BY <1>2, FS_Injection, BrowserAssumption
<1>4. QED
  BY <1>1, <1>3 DEF rows, Unlimited

LEMMA UnlimitedIs == Unlimited \in Nat
BY FS_CardinalityType, BrowserAssumption DEF Unlimited

(* A listing is of rows the store has, and of all of them without a limit.  *)
LEMMA ListedIs ==
  ASSUME NEW a \in Archive, NEW repo, NEW all, NEW size, NEW limit \in Nat, NEW sort
  PROVE  /\ Listed(a, repo, all, size, limit, sort) \in Seq(Summary)
         /\ ToSet(Listed(a, repo, all, size, limit, sort)) \subseteq Listable(a, repo, all, size)
         /\ limit >= Unlimited =>
              ToSet(Listed(a, repo, all, size, limit, sort)) = Listable(a, repo, all, size)
<1> DEFINE rows == Listable(a, repo, all, size)
           Above(s, u) ==
             IF sort = "size" THEN s.count > u.count \/ (s.count = u.count /\ s.id < u.id)
             ELSE s.updated > u.updated \/ (s.updated = u.updated /\ s.id > u.id)
           before == {p \in rows \X rows : Above(p[1], p[2])}
           list == Arranged(rows, before)
<1>1. Listed(a, repo, all, size, limit, sort) = Cut(list, limit)
  BY DEF Listed, Listable
<1>2. \A s \in rows : /\ s \in Summary /\ s = Summarized(a, s.id, all)
                      /\ s.id \in Int /\ s.count \in Int /\ s.updated \in Int
  <2>1. \A s \in rows : s \in Summary /\ s = Summarized(a, s.id, all)
    BY ListableIs
  <2>2. \A s \in Summary : s.id \in Int /\ s.count \in Int /\ s.updated \in Int
    <3>1. Clusters \subseteq Int /\ 0..MaxEdits \subseteq Int /\ Nat \subseteq Int
      BY BrowserAssumption
    <3>2. QED
      BY <3>1 DEF Summary
  <2> HIDE DEF rows
  <2>3. QED
    BY <2>1, <2>2
<1>3. IsFiniteSet(rows) /\ Cardinality(rows) \in Nat /\ Cardinality(rows) <= Unlimited
      /\ rows \subseteq Summary
  BY ListableIs, FS_CardinalityType
<1> HIDE DEF rows
<1>4. Orders(before, rows)
  <2>1. \A x, y : <<x, y>> \in before <=> x \in rows /\ y \in rows /\ Above(x, y)
    OBVIOUS
  <2> HIDE DEF before
  <2>2. \A x \in rows : <<x, x>> \notin before
    BY <1>2, <2>1
  <2>3. ASSUME NEW x \in rows, NEW y \in rows, x # y PROVE <<x, y>> \in before \/ <<y, x>> \in before
    <3>1. x.id # y.id
      BY <1>2, <2>3
    <3>2. QED
      BY <1>2, <2>1, <3>1
  <2>4. ASSUME NEW x \in rows, NEW y \in rows, NEW z \in rows,
               <<x, y>> \in before, <<y, z>> \in before
        PROVE  <<x, z>> \in before
    BY <1>2, <2>1, <2>4
  <2>5. QED
    BY <2>2, <2>3, <2>4 DEF Orders
<1> HIDE DEF before
<1>5. list \in Seq(rows) /\ Len(list) = Cardinality(rows) /\ ToSet(list) = rows
  BY <1>3, <1>4, ArrangedSeq
<1> HIDE DEF list
<1>6. list \in Seq(Summary)
  BY <1>3, <1>5, SeqMonotonic
<1>7. limit >= Unlimited => limit >= Len(list)
  BY <1>3, <1>5, UnlimitedIs
<1>8. /\ Cut(list, limit) \in Seq(Summary) /\ ToSet(Cut(list, limit)) \subseteq ToSet(list)
      /\ limit >= Len(list) => Cut(list, limit) = list
  BY <1>6, CutIs
<1>9. QED
  BY <1>1, <1>5, <1>7, <1>8 DEF rows

-----------------------------------------------------------------------------
(* What the browser holds *)

View ==
  [file : Files, repo : Repos, all : Seq(Summary), clusters : Seq(Summary), selected : Nat,
   showClosed : BOOLEAN, minSize : {1, 2}, sort : Sorts, limit : Nat, search : BOOLEAN,
   cache : [Clusters -> Detail \cup {None}], detail : Detail \cup {None}, hasDetail : BOOLEAN,
   rows : SUBSET Threads, member : Threads \cup {NoThread}]

\* The list is of clusters that were loaded, all of one repository.
Lists(v) == Ids(v.clusters) \subseteq Ids(v.all) /\ \A c \in Ids(v.all) : RepoOf[c] = v.repo

\* Details are cached under their cluster, which is one of those loaded.
Caches(v) == \A c \in Clusters : v.cache[c] # None => v.cache[c].id = c /\ c \in Ids(v.all)

\* The detail that shows is the one cached.
Shows(v) ==
  v.hasDetail => v.detail # None /\ v.detail = v.cache[v.detail.id] /\ RepoOf[v.detail.id] = v.repo

\* The selection is in the list, and the member among those shown.
Placed(v) == v.clusters # <<>> => v.selected \in DOMAIN v.clusters
Held(v)   == v.member \in v.rows \cup {NoThread}

\* The detail is that of the selected cluster.
Loaded(v) == v.hasDetail /\ Current(v) \in Clusters => v.detail.id = Current(v)

\* Details were read from the archive as it is.
Fresh(v, a) == \A c \in Clusters : v.cache[c] # None => v.cache[c] = Detailed(a, c)

\* Nothing but the list's place, details and members may differ.
SameFilters(v, w) ==
  /\ w.file = v.file /\ w.repo = v.repo /\ w.sort = v.sort /\ w.limit = v.limit
  /\ w.showClosed = v.showClosed /\ w.minSize = v.minSize /\ w.search = v.search
  /\ w.all = v.all
SameDetails(v, w) == w.cache = v.cache /\ w.detail = v.detail /\ w.hasDetail = v.hasDetail

LEMMA DetailProperties ==
  ASSUME NEW d \in Detail
  PROVE  d # None /\ d.id \in Clusters
BY BrowserAssumption DEF Detail, None

LEMMA SummaryIds ==
  ASSUME NEW list \in Seq(Summary)
  PROVE  Ids(list) \subseteq Clusters
<1>1. \A s \in Summary : s.id \in Clusters
  BY DEF Summary
<1>2. QED
  BY <1>1, ToSetIn, IdsOf

LEMMA CurrentIs ==
  ASSUME NEW v \in View
  PROVE  /\ Current(v) \in Ids(v.clusters) \cup {0} /\ Ids(v.clusters) \subseteq Clusters
         /\ Current(v) # 0 => Current(v) \in Clusters
         /\ 0 \notin Clusters /\ None.id = 0
<1>1. v.clusters \in Seq(Summary)
  BY DEF View
<1>2. Ids(v.clusters) \subseteq Clusters
  BY <1>1, SummaryIds
<1>3. Current(v) \in Ids(v.clusters) \cup {0}
  BY DEF Current, Ids, None
<1>4. QED
  BY <1>2, <1>3, BrowserAssumption DEF None

LEMMA RestoredIs ==
  ASSUME NEW v \in View, NEW t
  PROVE  /\ Restored(v, t) \in View /\ SameFilters(v, Restored(v, t)) /\ SameDetails(v, Restored(v, t))
         /\ Restored(v, t).rows = v.rows /\ Restored(v, t).clusters = v.clusters
         /\ Restored(v, t).selected = v.selected
         /\ Restored(v, t).member = IF t \in v.rows THEN t ELSE v.member
<1>1. CASE t \in v.rows
  <2>1. Restored(v, t) = [v EXCEPT !.member = t] /\ t \in Threads \cup {NoThread}
    BY <1>1 DEF Restored, View
  <2>2. QED
    BY <1>1, <2>1 DEF View, SameFilters, SameDetails
<1>2. CASE t \notin v.rows
  BY <1>2 DEF Restored, SameFilters, SameDetails
<1>3. QED
  BY <1>1, <1>2

LEMMA RowsIs ==
  ASSUME NEW d \in Detail, NEW all
  PROVE  /\ Rows(d, all) \subseteq Threads
         /\ Rows(d, all) # {} => Least(Rows(d, all)) \in Rows(d, all)
<1>1. d.id \in Clusters
  BY DetailProperties
<1>2. Rows(d, all) \subseteq Members[d.id]
  BY DEF Rows
<1>3. Rows(d, all) \subseteq Threads /\ IsFiniteSet(Rows(d, all))
  BY <1>1, <1>2, MembersFinite DEF Threads
<1>4. Rows(d, all) \subseteq Nat
  BY <1>3, BrowserAssumption
<1>5. QED
  BY <1>3, <1>4, LeastIs

LEMMA SortMembersIs ==
  ASSUME NEW v \in View
  PROVE  /\ sortMembers(v) \in View /\ SameFilters(v, sortMembers(v)) /\ SameDetails(v, sortMembers(v))
         /\ sortMembers(v).clusters = v.clusters /\ sortMembers(v).selected = v.selected
         /\ Held(sortMembers(v))
         /\ v.member \in sortMembers(v).rows => sortMembers(v).member = v.member
<1> DEFINE rows == IF v.detail = None THEN {} ELSE Rows(v.detail, v.showClosed)
           member == IF rows = {} THEN NoThread ELSE Least(rows)
           w == [v EXCEPT !.rows = rows, !.member = member]
<1>1. rows \subseteq Threads /\ (rows # {} => Least(rows) \in rows)
  <2>1. v.detail \in Detail \cup {None}
    BY DEF View
  <2>2. QED
    BY <2>1, RowsIs
<1>2. sortMembers(v) = Restored(w, v.member)
  BY DEF sortMembers
<1> HIDE DEF rows
<1>3. member \in rows \cup {NoThread}
  BY <1>1
<1> HIDE DEF member
<1>4. /\ w \in View /\ w.rows = rows /\ w.member = member
      /\ w.clusters = v.clusters /\ w.selected = v.selected
  BY <1>1, <1>3 DEF View
<1>5. SameFilters(v, w) /\ SameDetails(v, w)
  BY DEF View, SameFilters, SameDetails
<1> HIDE DEF w
<1>6. QED
  BY <1>2, <1>3, <1>4, <1>5, RestoredIs DEF SameFilters, SameDetails, Held

LEMMA AtIs ==
  ASSUME NEW v \in View, NEW c, NEW i \in Nat
  PROVE  /\ At(v, c, i) \in View /\ SameFilters(v, At(v, c, i)) /\ SameDetails(v, At(v, c, i))
         /\ At(v, c, i).clusters = v.clusters /\ At(v, c, i).rows = v.rows
         /\ At(v, c, i).member = v.member
         /\ c \in Ids(v.clusters) => Current(At(v, c, i)) = c
         /\ i = 1 \/ (i \in DOMAIN v.clusters) => Placed(At(v, c, i))
<1> DEFINE p == IF c \in Ids(v.clusters) THEN CHOOSE j \in DOMAIN v.clusters : v.clusters[j].id = c ELSE i
<1>1. v.clusters \in Seq(Summary) /\ DOMAIN v.clusters = 1..Len(v.clusters) /\ Len(v.clusters) \in Nat
  <2>1. v.clusters \in Seq(Summary)
    BY DEF View
  <2>2. QED
    BY <2>1, LenProperties
<1>2. c \in Ids(v.clusters) => p \in DOMAIN v.clusters /\ v.clusters[p].id = c
  BY DEF Ids
<1>3. p \in Nat
  BY <1>1, <1>2
<1>4. v.clusters # <<>> => 1 \in DOMAIN v.clusters
  BY <1>1, EmptySeq
<1>5. At(v, c, i) = [v EXCEPT !.selected = p]
  BY DEF At
<1>6. c \notin Ids(v.clusters) => p = i
  OBVIOUS
<1> HIDE DEF p
<1>7. /\ At(v, c, i) \in View /\ At(v, c, i).selected = p /\ At(v, c, i).clusters = v.clusters
      /\ At(v, c, i).rows = v.rows /\ At(v, c, i).member = v.member
  BY <1>3, <1>5 DEF View
<1>8. SameFilters(v, At(v, c, i)) /\ SameDetails(v, At(v, c, i))
  BY <1>5 DEF View, SameFilters, SameDetails
<1>9. QED
  BY <1>2, <1>4, <1>6, <1>7, <1>8 DEF Current, Placed

\* A view whose selection can be loaded, and one that was.
Ready(v) == v \in View /\ Lists(v) /\ Caches(v)
Sound(v) == Ready(v) /\ Shows(v) /\ Held(v) /\ Placed(v)

\* What shows of the selected cluster is not lost from v to w.
KeepsPlace(v, w) ==
  v.hasDetail /\ v.detail.id = Current(v) /\ Current(v) \in Ids(w.clusters) =>
    /\ Current(w) = Current(v)
    /\ v.member \in w.rows => w.member = v.member

(* Loading the selected cluster shows its detail, cached or read now.       *)
LEMMA LoadIs ==
  ASSUME NEW v, Ready(v), NEW a \in Archive
  PROVE  LET w == loadSelectedCluster(v, a)
         IN /\ Ready(w) /\ Shows(w) /\ Held(w) /\ Loaded(w) /\ (Placed(v) => Placed(w))
            /\ SameFilters(v, w) /\ w.clusters = v.clusters /\ w.selected = v.selected
            /\ Fresh(v, a) => Fresh(w, a)
            /\ KeepsPlace(v, w)
<1> DEFINE w == loadSelectedCluster(v, a)
           blank == [v EXCEPT !.member = NoThread, !.rows = {}, !.hasDetail = FALSE]
           c == Current(v)
           d == IF v.cache[c] # None THEN v.cache[c] ELSE Detailed(a, c)
           full == [blank EXCEPT !.cache[c] = d, !.detail = d, !.hasDetail = TRUE]
           shown == sortMembers(full)
           same == v.hasDetail /\ v.detail.id = c
<1>0. v \in View /\ Lists(v) /\ Caches(v)
  BY DEF Ready
<1>1. w = IF c = None.id \/ (v.cache[c] = None /\ c \notin a.groups) THEN blank
          ELSE IF same THEN Restored(shown, v.member) ELSE shown
  BY DEF loadSelectedCluster
<1>2. /\ blank \in View /\ SameFilters(v, blank) /\ blank.clusters = v.clusters
      /\ blank.selected = v.selected /\ blank.cache = v.cache /\ blank.hasDetail = FALSE
      /\ blank.rows = {} /\ blank.member = NoThread
  BY <1>0 DEF View, SameFilters
<1>3. \A u : u.clusters = v.clusters /\ u.selected = v.selected => Current(u) = c
  BY DEF Current
<1>4. \A u : u.clusters = v.clusters /\ u.selected = v.selected => (Placed(v) => Placed(u))
  BY DEF Placed
<1>5. \A u : u.clusters = v.clusters /\ SameFilters(v, u) => Lists(u)
  BY <1>0 DEF Lists, SameFilters
<1>6. CASE w = blank
  <2>1. Caches(w) /\ (Fresh(v, a) => Fresh(w, a))
    BY <1>0, <1>2, <1>6 DEF Caches, SameFilters, Fresh
  <2>2. Shows(w) /\ Held(w) /\ Loaded(w)
    BY <1>2, <1>6 DEF Shows, Held, Loaded
  <2>3. KeepsPlace(v, w)
    BY <1>2, <1>3, <1>6 DEF KeepsPlace
  <2> HIDE DEF blank, w
  <2>4. QED
    BY <1>2, <1>4, <1>5, <1>6, <2>1, <2>2, <2>3 DEF Ready, w
<1>7. CASE w # blank
  <2>1. c \in Clusters /\ c \in Ids(v.clusters)
    BY <1>0, <1>1, <1>7, CurrentIs
  <2>2. v.cache \in [Clusters -> Detail \cup {None}]
    BY <1>0 DEF View
  <2>3. d \in Detail /\ d.id = c /\ d # None /\ (v.cache[c] = None => d = Detailed(a, c))
        /\ (v.cache[c] # None => d = v.cache[c])
    BY <1>0, <2>1, <2>2, DetailedIs, DetailProperties DEF Caches
  <2> HIDE DEF d, c, blank
  <2>4. /\ full \in View /\ SameFilters(blank, full) /\ full.clusters = blank.clusters
        /\ full.selected = blank.selected /\ full.cache = [v.cache EXCEPT ![c] = d]
        /\ full.detail = d /\ full.hasDetail = TRUE
    BY <1>2, <2>1, <2>2, <2>3 DEF View, SameFilters
  <2> HIDE DEF full
  <2>5. /\ shown \in View /\ SameFilters(full, shown) /\ SameDetails(full, shown) /\ Held(shown)
        /\ shown.clusters = full.clusters /\ shown.selected = full.selected
    BY <2>4, SortMembersIs
  <2>6. w \in {shown, Restored(shown, v.member)}
    BY <1>1, <1>7
  <2> HIDE DEF shown, w
  <2>7. /\ w \in View /\ SameFilters(shown, w) /\ SameDetails(shown, w) /\ Held(w)
        /\ w.clusters = shown.clusters /\ w.selected = shown.selected /\ w.rows = shown.rows
    BY <2>5, <2>6, RestoredIs DEF Held, SameFilters, SameDetails
  <2>8. /\ w.cache = [v.cache EXCEPT ![c] = d] /\ w.detail = d /\ w.hasDetail = TRUE
        /\ w.clusters = v.clusters /\ w.selected = v.selected
    BY <1>2, <2>4, <2>5, <2>7 DEF SameDetails
  <2>9. SameFilters(v, w)
    BY <1>2, <2>4, <2>5, <2>7 DEF SameFilters
  <2>10. Current(w) = c /\ w.all = v.all /\ w.repo = v.repo
    BY <1>3, <2>8, <2>9 DEF SameFilters
  <2>11. c \in Ids(w.all) /\ RepoOf[c] = w.repo
    BY <1>0, <2>1, <2>10 DEF Lists
  <2>12. Caches(w)
    BY <1>0, <2>2, <2>3, <2>8, <2>10, <2>11 DEF Caches
  <2>13. Shows(w) /\ Loaded(w)
    BY <2>1, <2>2, <2>3, <2>8, <2>10, <2>11 DEF Shows, Loaded
  <2>14. Fresh(v, a) => Fresh(w, a)
    BY <2>2, <2>3, <2>8 DEF Fresh
  <2>15. same /\ v.member \in w.rows => w.member = v.member
    <3>1. SUFFICES ASSUME same, v.member \in w.rows PROVE w.member = v.member
      OBVIOUS
    <3>2. w = Restored(shown, v.member)
      BY <1>1, <1>7, <3>1
    <3>3. QED
      BY <2>5, <2>7, <3>1, <3>2, RestoredIs
  <2>16. KeepsPlace(v, w)
    BY <2>10, <2>15 DEF KeepsPlace, c
  <2>17. QED
    BY <1>4, <1>5, <2>7, <2>8, <2>9, <2>12, <2>13, <2>14, <2>16 DEF Ready, w
<1>8. QED
  BY <1>6, <1>7

\* The filters of a view, and its rows that pass them.
Passes(v, s) ==
  /\ v.showClosed \/ ~s.closed
  /\ s.count >= v.minSize
  /\ v.search => s.id \in Matching
Passing(v) == {s \in ToSet(v.all) : Passes(v, s)}

(* Filtering lists the rows that pass, as many as the limit lets, and keeps *)
(* the selected cluster among them selected.                                *)
LEMMA FilterIs ==
  ASSUME NEW v \in View, \A c \in Ids(v.all) : RepoOf[c] = v.repo, Caches(v), NEW a \in Archive
  PROVE  LET w == applyClusterFilters(v, a)
         IN /\ Sound(w) /\ Loaded(w) /\ SameFilters(v, w)
            /\ ToSet(w.clusters) \subseteq Passing(v)
            /\ v.limit = 0 \/ v.limit >= Len(v.all) => ToSet(w.clusters) = Passing(v)
            /\ Fresh(v, a) => Fresh(w, a)
            /\ KeepsPlace(v, w)
<1> DEFINE w == applyClusterFilters(v, a)
           places == {i \in DOMAIN v.all : Passes(v, v.all[i])}
           chosen == Chosen(v.all, places)
           next == sortClusters(chosen, v.sort)
           kept == IF v.limit > 0 THEN Cut(next, v.limit) ELSE next
           listed == [v EXCEPT !.clusters = kept]
           at == At(listed, Current(v), 1)
<1>1. v.all \in Seq(Summary) /\ v.limit \in Nat
  BY DEF View
<1>2. /\ chosen \in Seq(Summary) /\ Len(chosen) <= Len(v.all)
      /\ ToSet(chosen) = {v.all[p] : p \in places}
  BY <1>1, ChosenElements
<1>3. {v.all[p] : p \in places} = Passing(v)
  BY DEF Passing, ToSet
<1>4. w = loadSelectedCluster(at, a)
  BY DEF applyClusterFilters, Passes
<1> HIDE DEF w, places, chosen
<1>5. next \in Seq(Summary) /\ Len(next) = Len(chosen) /\ ToSet(next) = Passing(v)
  BY <1>2, <1>3, SortedIs
<1> HIDE DEF next
<1>6. /\ kept \in Seq(Summary) /\ ToSet(kept) \subseteq Passing(v)
      /\ v.limit = 0 \/ v.limit >= Len(v.all) => ToSet(kept) = Passing(v)
  <2>1. CASE v.limit > 0
    <3>1. /\ Cut(next, v.limit) \in Seq(Summary) /\ ToSet(Cut(next, v.limit)) \subseteq ToSet(next)
          /\ v.limit >= Len(next) => Cut(next, v.limit) = next
      BY <1>1, <1>5, CutIs
    <3>2. Len(v.all) \in Nat /\ Len(chosen) \in Nat
      BY <1>1, <1>2, LenProperties
    <3>3. QED
      BY <1>1, <1>2, <1>5, <2>1, <3>1, <3>2
  <2>2. CASE ~(v.limit > 0)
    BY <1>5, <2>2
  <2>3. QED
    BY <2>1, <2>2
<1> HIDE DEF kept
<1>7. /\ listed \in View /\ listed.clusters = kept /\ SameFilters(v, listed) /\ SameDetails(v, listed)
      /\ listed.rows = v.rows /\ listed.member = v.member
  BY <1>6 DEF View, SameFilters, SameDetails
<1> HIDE DEF listed
<1>8. /\ at \in View /\ at.clusters = kept /\ SameFilters(v, at) /\ SameDetails(v, at)
      /\ at.rows = v.rows /\ at.member = v.member /\ Placed(at)
      /\ Current(v) \in Ids(kept) => Current(at) = Current(v)
  BY <1>7, AtIs DEF SameFilters, SameDetails
<1> HIDE DEF at
<1>9. Ids(kept) \subseteq Ids(v.all)
  BY <1>6, IdsOf DEF Passing
<1>10. Ready(at)
  BY <1>8, <1>9 DEF Ready, Lists, Caches, SameFilters, SameDetails
<1>11. /\ Ready(w) /\ Shows(w) /\ Held(w) /\ Loaded(w) /\ Placed(w)
       /\ SameFilters(at, w) /\ w.clusters = at.clusters /\ w.selected = at.selected
       /\ Fresh(at, a) => Fresh(w, a)
       /\ KeepsPlace(at, w)
  BY <1>4, <1>8, <1>10, LoadIs
<1>12. SameFilters(v, w)
  BY <1>8, <1>11 DEF SameFilters
<1>13. Fresh(v, a) => Fresh(w, a)
  BY <1>8, <1>11 DEF Fresh, SameDetails
<1>14. KeepsPlace(v, w)
  BY <1>8, <1>11 DEF KeepsPlace, SameDetails
<1>15. QED
  BY <1>6, <1>8, <1>11, <1>12, <1>13, <1>14 DEF Sound, w

(* An empty list is filled with what the widest filters let through.        *)
LEMMA RelaxIs ==
  ASSUME NEW v, Sound(v), Loaded(v), NEW a \in Archive
  PROVE  LET w == relaxFiltersIfEmpty(v, a)
         IN /\ Sound(w) /\ Loaded(w) /\ w.all = v.all /\ w.repo = v.repo /\ w.file = v.file
            /\ w.limit = v.limit /\ w.search = v.search
            /\ v.clusters # <<>> => w = v
            /\ v.clusters = <<>> => ToSet(w.clusters) \subseteq ToSet(v.all)
            /\ Fresh(v, a) => Fresh(w, a)
<1> DEFINE u == [v EXCEPT !.showClosed = TRUE, !.minSize = 1]
<1>1. CASE v.clusters # <<>> \/ v.all = <<>>
  <2>1. ToSet(<<>>) = {}
    BY DEF ToSet
  <2>2. QED
    BY <1>1, <2>1 DEF relaxFiltersIfEmpty
<1>2. CASE ~(v.clusters # <<>> \/ v.all = <<>>)
  <2>1. v \in View /\ Lists(v) /\ Caches(v)
    BY DEF Sound, Ready
  <2>2. /\ u \in View /\ u.all = v.all /\ u.repo = v.repo /\ u.file = v.file
        /\ u.limit = v.limit /\ u.search = v.search /\ u.cache = v.cache
    BY <2>1 DEF View
  <2> HIDE DEF u
  <2>3. \A c \in Ids(u.all) : RepoOf[c] = u.repo
    BY <2>1, <2>2 DEF Lists
  <2>4. Caches(u) /\ (Fresh(v, a) => Fresh(u, a))
    BY <2>1, <2>2 DEF Caches, Fresh
  <2>5. relaxFiltersIfEmpty(v, a) = applyClusterFilters(u, a)
    BY <1>2 DEF relaxFiltersIfEmpty, u
  <2>6. LET w == applyClusterFilters(u, a)
        IN /\ Sound(w) /\ Loaded(w) /\ SameFilters(u, w) /\ (Fresh(u, a) => Fresh(w, a))
           /\ ToSet(w.clusters) \subseteq ToSet(u.all)
    BY <2>2, <2>3, <2>4, FilterIs DEF Passing
  <2>7. QED
    BY <1>2, <2>2, <2>4, <2>5, <2>6 DEF SameFilters
<1>3. QED
  BY <1>1, <1>2

(* What was loaded stays when there is no limit.                            *)
LEMMA RetainedIs ==
  ASSUME NEW v \in View, NEW list \in Seq(Summary)
  PROVE  /\ Retained(v, list) \in Seq(Summary) /\ ToSet(list) \subseteq ToSet(Retained(v, list))
         /\ ToSet(Retained(v, list)) \subseteq ToSet(list) \cup ToSet(v.all)
         /\ v.limit # 0 => Retained(v, list) = list
<1>1. v.all \in Seq(Summary)
  BY DEF View
<1>2. QED
  BY <1>1, MergeIs DEF Retained

(* A refresh forgets the details, lists and loads anew, and returns to the   *)
(* cluster and the member that were shown.                                  *)
LEMMA RefreshIs ==
  ASSUME NEW v \in View, Lists(v), NEW a \in Archive, NEW list \in Seq(Summary),
         \A c \in Ids(list) : RepoOf[c] = v.repo
  PROVE  LET w == applyClusterRefresh(v, a, list)
         IN /\ Sound(w) /\ Loaded(w) /\ w.repo = v.repo /\ w.file = v.file
            /\ ToSet(w.clusters) \subseteq ToSet(Retained(v, list))
            /\ v.limit = 0 =>
                 \A s \in ToSet(Retained(v, list)) : Passes(v, s) => s \in ToSet(w.clusters)
            /\ Fresh(w, a)
            /\ KeepsPlace(v, w)
<1> DEFINE w == applyClusterRefresh(v, a, list)
           key == Current(v)
           before == IF v.hasDetail /\ v.detail.id = key THEN v.member ELSE NoThread
           all == Retained(v, list)
           fresh == [ForgetDetails(v) EXCEPT !.all = all, !.clusters = all]
           filtered == applyClusterFilters(fresh, a)
           shown == relaxFiltersIfEmpty(filtered, a)
           back == loadSelectedCluster(At(shown, key, 1), a)
<1>1. w = IF key \in Ids(shown.clusters) THEN Restored(back, before) ELSE shown
  BY DEF applyClusterRefresh
<1>2. /\ all \in Seq(Summary) /\ ToSet(all) \subseteq ToSet(list) \cup ToSet(v.all)
  BY RetainedIs
<1>3. \A c \in Ids(all) : RepoOf[c] = v.repo
  <2>1. Ids(all) \subseteq Ids(list) \cup Ids(v.all)
    BY <1>2, IdsOf
  <2>2. QED
    BY <2>1 DEF Lists
<1> HIDE DEF w, all
<1>4. /\ fresh \in View /\ fresh.all = all /\ fresh.repo = v.repo /\ fresh.file = v.file
      /\ fresh.limit = v.limit /\ fresh.cache = [c \in Clusters |-> None]
      /\ fresh.showClosed = v.showClosed /\ fresh.minSize = v.minSize /\ fresh.search = v.search
  BY <1>2 DEF View, ForgetDetails
<1> HIDE DEF fresh
<1>5. Caches(fresh) /\ Fresh(fresh, a)
  BY <1>4 DEF Caches, Fresh
<1>6. /\ Sound(filtered) /\ Loaded(filtered) /\ SameFilters(fresh, filtered)
      /\ ToSet(filtered.clusters) \subseteq Passing(fresh)
      /\ fresh.limit = 0 => ToSet(filtered.clusters) = Passing(fresh)
      /\ Fresh(filtered, a)
  BY <1>3, <1>4, <1>5, FilterIs
<1> HIDE DEF filtered
<1>7. /\ Sound(shown) /\ Loaded(shown) /\ shown.all = filtered.all /\ shown.repo = filtered.repo
      /\ shown.file = filtered.file /\ (filtered.clusters # <<>> => shown = filtered)
      /\ filtered.clusters = <<>> => ToSet(shown.clusters) \subseteq ToSet(filtered.all)
      /\ Fresh(shown, a)
  BY <1>6, RelaxIs
<1> HIDE DEF shown
<1>8. shown.all = all /\ shown.repo = v.repo /\ shown.file = v.file
  BY <1>4, <1>6, <1>7 DEF SameFilters
<1>9. ToSet(shown.clusters) \subseteq ToSet(all)
  <2>1. shown \in View /\ Lists(shown)
    BY <1>7 DEF Sound, Ready
  <2>2. CASE filtered.clusters # <<>>
    BY <1>4, <1>6, <1>7, <2>2 DEF Passing
  <2>3. CASE filtered.clusters = <<>>
    BY <1>7, <1>8, <2>3
  <2>4. QED
    BY <2>2, <2>3
<1>10. v.limit = 0 => \A s \in ToSet(all) : Passes(v, s) => s \in ToSet(shown.clusters)
  <2>1. SUFFICES ASSUME v.limit = 0, NEW s \in ToSet(all), Passes(v, s)
                 PROVE  s \in ToSet(shown.clusters)
    OBVIOUS
  <2>2. Passes(fresh, s)
    BY <1>4, <2>1 DEF Passes
  <2>3. s \in ToSet(filtered.clusters)
    BY <1>4, <1>6, <2>1, <2>2 DEF Passing
  <2>4. filtered.clusters # <<>>
    BY <2>3 DEF ToSet
  <2>5. QED
    BY <1>7, <2>3, <2>4
<1>11. CASE key \notin Ids(shown.clusters)
  <2>1. w = shown
    BY <1>1, <1>11
  <2>2. KeepsPlace(v, w)
    BY <1>11, <2>1 DEF KeepsPlace
  <2>3. QED
    BY <1>7, <1>8, <1>9, <1>10, <2>1, <2>2 DEF w, all
<1>12. CASE key \in Ids(shown.clusters)
  <2> DEFINE at == At(shown, key, 1)
  <2>1. shown \in View /\ Lists(shown) /\ Caches(shown)
    BY <1>7 DEF Sound, Ready
  <2>2. /\ at \in View /\ SameFilters(shown, at) /\ SameDetails(shown, at)
        /\ at.clusters = shown.clusters /\ Current(at) = key /\ Placed(at)
    BY <1>12, <2>1, AtIs
  <2>3. back = loadSelectedCluster(at, a)
    OBVIOUS
  <2> HIDE DEF at, key
  <2>4. Ready(at) /\ Fresh(at, a)
    BY <1>7, <2>1, <2>2 DEF Ready, Lists, Caches, SameFilters, SameDetails, Fresh
  <2> HIDE DEF back
  <2>5. /\ Ready(back) /\ Shows(back) /\ Held(back) /\ Loaded(back) /\ Placed(back)
        /\ SameFilters(at, back) /\ back.clusters = at.clusters /\ back.selected = at.selected
        /\ Fresh(back, a)
    BY <2>2, <2>3, <2>4, LoadIs
  <2>6. w = Restored(back, before)
    BY <1>1, <1>12
  <2> HIDE DEF before
  <2>7. back \in View
    BY <2>5 DEF Ready
  <2>8. /\ w \in View /\ SameFilters(back, w) /\ SameDetails(back, w) /\ w.rows = back.rows
        /\ w.clusters = back.clusters /\ w.selected = back.selected
        /\ w.member = IF before \in back.rows THEN before ELSE back.member
    BY <2>6, <2>7, RestoredIs
  <2>9. Current(w) = key
    BY <2>2, <2>5, <2>8 DEF Current
  <2>10. /\ Ready(w) /\ Shows(w) /\ Held(w) /\ Loaded(w) /\ Placed(w) /\ Fresh(w, a)
    BY <2>5, <2>8 DEF Ready, Lists, Caches, Shows, Held, Loaded, Placed, Fresh, SameFilters, SameDetails,
       Current
  <2>11. w.repo = v.repo /\ w.file = v.file /\ w.clusters = shown.clusters
    BY <1>8, <2>2, <2>5, <2>8 DEF SameFilters
  <2>12. KeepsPlace(v, w)
    BY <2>8, <2>9 DEF KeepsPlace, before, key
  <2>13. QED
    BY <1>9, <1>10, <2>10, <2>11, <2>12 DEF Sound, w, all
<1>13. QED
  BY <1>11, <1>12

(* The list that is read for a refresh.                                     *)
LEMMA ReadIs ==
  ASSUME NEW v \in View, NEW a \in Archive
  PROVE  LET list == loadClusterSummariesFromStore(v, a)
         IN /\ list \in Seq(Summary) /\ \A c \in Ids(list) : RepoOf[c] = v.repo
            /\ \A s \in ToSet(list) : s = Summarized(a, s.id, v.showClosed)
            /\ v.limit = 0 => Listable(a, v.repo, v.showClosed, v.minSize) \subseteq ToSet(list)
<1> DEFINE list == loadClusterSummariesFromStore(v, a)
           limit == IF v.limit > 0 THEN v.limit ELSE Unlimited
           first == Listed(a, v.repo, v.showClosed, v.minSize, limit, v.sort)
           second == Listed(a, v.repo, v.showClosed, 1, limit, v.sort)
<1>1. limit \in Nat /\ (v.limit = 0 => limit = Unlimited)
  BY UnlimitedIs DEF View
<1>2. list = mergeClusterSummaries(first, second)
  BY DEF loadClusterSummariesFromStore
<1> HIDE DEF list, limit
<1>3. /\ first \in Seq(Summary) /\ ToSet(first) \subseteq Listable(a, v.repo, v.showClosed, v.minSize)
      /\ limit >= Unlimited => ToSet(first) = Listable(a, v.repo, v.showClosed, v.minSize)
  BY <1>1, ListedIs
<1>4. second \in Seq(Summary) /\ ToSet(second) \subseteq Listable(a, v.repo, v.showClosed, 1)
  BY <1>1, ListedIs
<1> HIDE DEF first, second
<1>5. /\ list \in Seq(Summary) /\ ToSet(first) \subseteq ToSet(list)
      /\ ToSet(list) \subseteq ToSet(first) \cup ToSet(second)
  BY <1>2, <1>3, <1>4, MergeIs
<1>6. \A s \in ToSet(list) : s = Summarized(a, s.id, v.showClosed) /\ RepoOf[s.id] = v.repo
  BY <1>3, <1>4, <1>5, ListableIs
<1>7. \A c \in Ids(list) : RepoOf[c] = v.repo
  BY <1>6, IdsOf
<1>8. v.limit = 0 => Listable(a, v.repo, v.showClosed, v.minSize) \subseteq ToSet(list)
  BY <1>1, <1>3, <1>5, UnlimitedIs
<1>9. QED
  BY <1>5, <1>6, <1>7, <1>8 DEF list

(* A new order keeps the selected cluster selected.                         *)
LEMMA SortIs ==
  ASSUME NEW v, Sound(v), NEW sort \in Sorts
  PROVE  LET w == Sorted(v, sort)
         IN /\ Ready(w) /\ Placed(w) /\ SameDetails(v, w) /\ w.repo = v.repo /\ w.file = v.file
            /\ Ids(w.clusters) = Ids(v.clusters) /\ w.member = v.member
            /\ Current(v) \in Ids(v.clusters) => Current(w) = Current(v)
<1> DEFINE w == Sorted(v, sort)
           list == sortClusters(v.clusters, sort)
           u == [v EXCEPT !.sort = sort, !.clusters = list]
<1>1. v \in View /\ Lists(v) /\ Caches(v) /\ Placed(v) /\ v.clusters \in Seq(Summary)
  BY DEF Sound, Ready, View
<1>2. w = At(u, Current(v), v.selected)
  BY DEF Sorted
<1>3. list \in Seq(Summary) /\ Len(list) = Len(v.clusters) /\ ToSet(list) = ToSet(v.clusters)
  BY <1>1, SortedIs
<1> HIDE DEF w, list
<1>4. /\ u \in View /\ u.clusters = list /\ SameDetails(v, u) /\ u.member = v.member
      /\ u.repo = v.repo /\ u.file = v.file /\ u.all = v.all
  BY <1>1, <1>3 DEF View, SameDetails
<1> HIDE DEF u
<1>5. Ids(list) = Ids(v.clusters)
  BY <1>3, IdsOf
<1>6. list # <<>> => v.selected \in DOMAIN list
  <2>1. DOMAIN list = DOMAIN v.clusters
    BY <1>1, <1>3, LenProperties
  <2>2. list # <<>> => v.clusters # <<>>
    BY <1>1, <1>3, ToSetIn
  <2>3. QED
    BY <1>1, <2>1, <2>2 DEF Placed
<1>7. v.selected \in Nat
  BY <1>1 DEF View
<1>8. /\ w \in View /\ SameFilters(u, w) /\ SameDetails(u, w) /\ w.clusters = list
      /\ w.member = u.member
      /\ Current(v) \in Ids(list) => Current(w) = Current(v)
      /\ v.selected \in DOMAIN list => Placed(w)
  BY <1>2, <1>4, <1>7, AtIs
<1>9. Placed(w)
  BY <1>6, <1>8 DEF Placed
<1>10. Lists(w) /\ Caches(w)
  BY <1>1, <1>4, <1>5, <1>8 DEF Lists, Caches, SameFilters, SameDetails
<1>11. QED
  BY <1>4, <1>5, <1>8, <1>9, <1>10 DEF Ready, SameFilters, SameDetails, w

(* A jump ends on its cluster when a row of it is loaded and counts members. *)
LEMMA JumpIs ==
  ASSUME NEW v, Sound(v), NEW c \in Clusters, NEW a \in Archive
  PROVE  LET w == selectClusterForJump(v, c, a)
         IN /\ Sound(w) /\ (Loaded(v) => Loaded(w)) /\ w.repo = v.repo /\ w.file = v.file
            /\ c \in Ids(v.all) /\ (\A s \in ToSet(v.all) : s.id = c => s.count > 0) => Current(w) = c
<1> DEFINE Select(u) == loadSelectedCluster(At(u, c, 1), a)
           i == CHOOSE j \in DOMAIN v.all : v.all[j].id = c
           s == v.all[i]
           size == IF v.minSize > s.count THEN 1 ELSE v.minSize
           limit == IF v.limit > 0 /\ Len(v.all) > v.limit THEN Len(v.all) ELSE v.limit
           wide == [v EXCEPT !.search = FALSE, !.minSize = size, !.showClosed = v.showClosed \/ s.closed,
                             !.limit = limit]
           widened == applyClusterFilters(wide, a)
           w == selectClusterForJump(v, c, a)
<1>0. v \in View /\ Lists(v) /\ Caches(v) /\ v.all \in Seq(Summary) /\ v.limit \in Nat
      /\ v.minSize \in {1, 2} /\ v.showClosed \in BOOLEAN
  BY DEF Sound, Ready, View
<1>1. w = IF c \in Ids(v.clusters) THEN Select(v)
          ELSE IF c \notin Ids(v.all) THEN v
          ELSE IF c \in Ids(widened.clusters) THEN Select(widened) ELSE widened
  <2>1. widened = applyClusterFilters(
          [v EXCEPT !.search = FALSE,
                    !.minSize = IF @ > s.count THEN 1 ELSE @,
                    !.showClosed = @ \/ s.closed,
                    !.limit = IF @ > 0 /\ Len(v.all) > @ THEN Len(v.all) ELSE @], a)
    BY <1>0 DEF View
  <2> HIDE DEF widened
  <2>2. QED
    BY <2>1 DEF selectClusterForJump
<1> HIDE DEF w
<1>2. ASSUME NEW u, Sound(u), c \in Ids(u.clusters)
      PROVE  /\ Sound(Select(u)) /\ Loaded(Select(u)) /\ Current(Select(u)) = c
             /\ Select(u).repo = u.repo /\ Select(u).file = u.file
  <2> DEFINE at == At(u, c, 1)
  <2>1. u \in View /\ Lists(u) /\ Caches(u)
    BY <1>2 DEF Sound, Ready
  <2>2. /\ at \in View /\ SameFilters(u, at) /\ SameDetails(u, at) /\ at.clusters = u.clusters
        /\ Current(at) = c /\ Placed(at)
    BY <1>2, <2>1, AtIs
  <2> HIDE DEF at
  <2>3. Ready(at)
    BY <2>1, <2>2 DEF Ready, Lists, Caches, SameFilters, SameDetails
  <2> DEFINE l == loadSelectedCluster(at, a)
  <2>4. /\ Ready(l) /\ Shows(l) /\ Held(l) /\ Loaded(l) /\ Placed(l)
        /\ SameFilters(at, l) /\ l.clusters = at.clusters /\ l.selected = at.selected
    BY <2>2, <2>3, LoadIs
  <2>5. l = Select(u)
    BY DEF at
  <2> HIDE DEF l, Select
  <2>6. Current(l) = c
    BY <2>2, <2>4 DEF Current
  <2>7. QED
    BY <2>2, <2>4, <2>5, <2>6 DEF Sound, SameFilters
<1> HIDE DEF Select
<1>3. CASE c \in Ids(v.clusters)
  BY <1>1, <1>2, <1>3 DEF w
<1>4. CASE c \notin Ids(v.all)
  <2>1. c \notin Ids(v.clusters)
    BY <1>0, <1>4 DEF Lists
  <2>2. QED
    BY <1>1, <1>4, <2>1 DEF w
<1>5. CASE c \notin Ids(v.clusters) /\ c \in Ids(v.all)
  <2>1. i \in DOMAIN v.all /\ s.id = c
    BY <1>5 DEF Ids
  <2>2. s \in ToSet(v.all) /\ s \in Summary
    <3>1. s \in ToSet(v.all)
      BY <2>1 DEF ToSet
    <3>2. QED
      BY <1>0, <3>1, ToSetIn
  <2> HIDE DEF i, s
  <2>3. s.count \in Nat /\ s.closed \in BOOLEAN /\ Len(v.all) \in Nat
    BY <1>0, <2>2 DEF Summary
  <2>4. /\ size \in {1, 2} /\ (s.count > 0 => s.count >= size)
        /\ limit \in Nat /\ (limit = 0 \/ limit >= Len(v.all))
    BY <1>0, <2>3
  <2> HIDE DEF size, limit
  <2>5. /\ wide \in View /\ wide.search = FALSE /\ wide.minSize = size /\ wide.limit = limit
        /\ wide.showClosed = (v.showClosed \/ s.closed) /\ wide.all = v.all /\ wide.cache = v.cache
        /\ wide.repo = v.repo /\ wide.file = v.file
    BY <1>0, <2>3, <2>4 DEF View
  <2> HIDE DEF wide
  <2>6. (\A d \in Ids(wide.all) : RepoOf[d] = wide.repo) /\ Caches(wide)
    BY <1>0, <2>5 DEF Lists, Caches
  <2>7. /\ Sound(widened) /\ Loaded(widened) /\ SameFilters(wide, widened)
        /\ wide.limit = 0 \/ wide.limit >= Len(wide.all) => ToSet(widened.clusters) = Passing(wide)
    BY <2>5, <2>6, FilterIs
  <2> HIDE DEF widened
  <2>8. s.count > 0 => c \in Ids(widened.clusters)
    <3>1. s.count > 0 => s \in Passing(wide)
      BY <2>2, <2>4, <2>5 DEF Passing, Passes
    <3>2. ToSet(widened.clusters) = Passing(wide)
      BY <2>4, <2>5, <2>7
    <3>3. QED
      BY <2>1, <3>1, <3>2, IdsOf
  <2>9. widened.repo = v.repo /\ widened.file = v.file
    BY <2>5, <2>7 DEF SameFilters
  <2>10. CASE c \in Ids(widened.clusters)
    BY <1>1, <1>2, <1>5, <2>7, <2>9, <2>10 DEF w
  <2>11. CASE c \notin Ids(widened.clusters)
    BY <1>1, <1>5, <2>1, <2>2, <2>7, <2>8, <2>9, <2>11 DEF w
  <2>12. QED
    BY <2>10, <2>11
<1>6. QED
  BY <1>3, <1>4, <1>5

\* A thread is a member of one cluster.
LEMMA ClusterOfIs ==
  ASSUME NEW t \in Threads
  PROVE  ClusterOf(t) \in Clusters /\ t \in Members[ClusterOf(t)]
BY DEF Threads, ClusterOf

(* A cluster that was looked up for a jump is loaded after.                 *)
LEMMA FoundIs ==
  ASSUME NEW v, Sound(v), NEW c \in Clusters, NEW a \in Archive, RepoOf[c] = v.repo,
         v.cache[c] = None
  PROVE  LET d == Detailed(a, c)
             w == [v EXCEPT !.cache[c] = d,
                            !.all = IF c \in Ids(@) THEN @ ELSE Append(@, d.summary)]
         IN /\ Sound(w) /\ (Loaded(v) => Loaded(w)) /\ w.repo = v.repo /\ w.file = v.file
            /\ c \in Ids(w.all)
            /\ c \in Ids(v.all) => w.all = v.all
            /\ c \notin Ids(v.all) => ToSet(w.all) = ToSet(v.all) \cup {d.summary}
<1> DEFINE d == Detailed(a, c)
           all == IF c \in Ids(v.all) THEN v.all ELSE Append(v.all, d.summary)
           w == [v EXCEPT !.cache[c] = d,
                          !.all = IF c \in Ids(@) THEN @ ELSE Append(@, d.summary)]
<1>0. v \in View /\ Lists(v) /\ Caches(v) /\ Shows(v) /\ Held(v) /\ Placed(v)
      /\ v.all \in Seq(Summary) /\ v.cache \in [Clusters -> Detail \cup {None}]
      /\ v.detail \in Detail \cup {None}
  BY DEF Sound, Ready, View
<1>1. d \in Detail /\ d.id = c /\ d # None /\ d.summary.id = c /\ d.summary \in Summary
  <2>1. d \in Detail /\ d.id = c /\ d.summary.id = c
    BY DetailedIs
  <2>2. QED
    BY <2>1, DetailProperties DEF Detail
<1> HIDE DEF d
<1>2. /\ Append(v.all, d.summary) \in Seq(Summary)
      /\ ToSet(Append(v.all, d.summary)) = ToSet(v.all) \cup {d.summary}
  <2>1. PICK one : one = <<d.summary>>
    OBVIOUS
  <2>2. one \in Seq(Summary) /\ ToSet(one) = {d.summary}
    BY <1>1, <2>1 DEF ToSet
  <2>3. Append(v.all, d.summary) = v.all \o one
    BY <1>0, <1>1, <2>1, AppendIsConcat
  <2>4. v.all \in Seq(Summary)
    BY <1>0
  <2>5. /\ v.all \o one \in Seq(Summary)
        /\ ToSet(v.all \o one) = ToSet(v.all) \cup ToSet(one)
    BY <2>2, <2>4, ConcatIs
  <2>6. QED
    BY <2>2, <2>3, <2>5
<1>3. /\ all \in Seq(Summary)
      /\ c \in Ids(v.all) => all = v.all
      /\ c \notin Ids(v.all) => ToSet(all) = ToSet(v.all) \cup {d.summary}
  BY <1>0, <1>2
<1>4. Ids(all) = Ids(v.all) \cup {c}
  BY <1>1, <1>3, IdsOf
<1>5. w = [v EXCEPT !.cache = [v.cache EXCEPT ![c] = d], !.all = all]
  BY <1>0 DEF View
<1> HIDE DEF all, w
<1>6. /\ w \in View /\ w.cache = [v.cache EXCEPT ![c] = d] /\ w.all = all
      /\ w.repo = v.repo /\ w.file = v.file /\ w.clusters = v.clusters /\ w.selected = v.selected
      /\ w.hasDetail = v.hasDetail /\ w.detail = v.detail /\ w.rows = v.rows /\ w.member = v.member
  BY <1>0, <1>1, <1>3, <1>5 DEF View
<1>7. Lists(w)
  BY <1>0, <1>4, <1>6 DEF Lists
<1>8. Caches(w)
  BY <1>0, <1>1, <1>4, <1>6 DEF Caches
<1>9. Shows(w)
  <2>1. v.hasDetail => v.detail.id # c /\ v.detail.id \in Clusters
    BY <1>0, DetailProperties DEF Shows
  <2>2. QED
    BY <1>0, <1>6, <2>1 DEF Shows
<1>10. Held(w) /\ Placed(w) /\ (Loaded(v) => Loaded(w))
  BY <1>0, <1>6 DEF Held, Placed, Loaded, Current
<1>11. QED
  BY <1>3, <1>4, <1>6, <1>7, <1>8, <1>9, <1>10 DEF Sound, Ready, w, d

LEMMA OneMoreEdit ==
  ASSUME edits \in 0..MaxEdits, edits < MaxEdits
  PROVE  edits + 1 \in 0..MaxEdits
<1>1. MaxEdits \in Nat
  BY BrowserAssumption
<1>2. QED
  BY <1>1

(* The commands leave an archive that is one.                               *)
LEMMA EditedIs ==
  ASSUME NEW a \in Archive, NEW action \in Actions, NEW c, NEW t, NEW moved \in BOOLEAN,
         edits \in 0..MaxEdits, edits < MaxEdits,
         action \notin {"close thread", "reopen thread"} => c \in Clusters,
         action \notin {"close cluster", "reopen cluster"} => t \in Threads
  PROVE  Edited(a, action, c, t, moved) \in Archive
<1> DEFINE touched == [a EXCEPT !.updated[c] = edits + 1]
           base == IF moved THEN touched ELSE a
<1>1. edits + 1 \in 0..MaxEdits
  BY OneMoreEdit
<1>2. c \in Clusters => touched \in Archive
  BY <1>1 DEF Archive
<1>3. c \in Clusters => base \in Archive
  BY <1>2
<1>4. Edited(a, action, c, t, moved) =
        CASE action = "close cluster"  -> [touched EXCEPT !.closed = @ \cup {c}]
          [] action = "reopen cluster" -> [touched EXCEPT !.closed = @ \ {c}]
          [] action = "canonical"      -> [touched EXCEPT !.excluded = @ \ {t}]
          [] action = "exclude"        -> [base EXCEPT !.excluded = @ \cup {t}]
          [] action = "include"        -> [base EXCEPT !.excluded = @ \ {t}]
          [] action = "close thread"   -> [a EXCEPT !.hidden = @ \cup {t}]
          [] action = "reopen thread"  -> [a EXCEPT !.hidden = @ \ {t}]
  BY DEF Edited
<1> HIDE DEF touched, base
<1>5. \A b \in Archive : c \in Clusters =>
        [b EXCEPT !.closed = @ \cup {c}] \in Archive /\ [b EXCEPT !.closed = @ \ {c}] \in Archive
  BY DEF Archive
<1>6. \A b \in Archive :
        /\ [b EXCEPT !.excluded = @ \ {t}] \in Archive /\ [b EXCEPT !.hidden = @ \ {t}] \in Archive
        /\ t \in Threads => /\ [b EXCEPT !.excluded = @ \cup {t}] \in Archive
                            /\ [b EXCEPT !.hidden = @ \cup {t}] \in Archive
  BY DEF Archive
<1>7. action \in {"close cluster", "reopen cluster", "canonical", "exclude", "include",
                  "close thread", "reopen thread"}
  BY DEF Actions
<1>8. QED
  BY <1>2, <1>3, <1>4, <1>5, <1>6, <1>7

-----------------------------------------------------------------------------
(* The steps of the Update loop *)

StoreInv ==
  /\ archive \in [Files -> Archive] /\ file \in Files /\ remote \in {"none", "running", "copied"}
  /\ edits \in 0..MaxEdits
ViewInv == Sound(view) /\ (settling \/ Loaded(view))
MenuInv == confirm \in Menus \cup {NoMenu} /\ settling \in BOOLEAN

\* The view after a step that leaves its repository and its file.
Stays == /\ Sound(view') /\ (settling' \/ Loaded(view'))
         /\ view'.repo = view.repo /\ view'.file = view.file

LEMMA StoreIs == StoreInv /\ ViewInv => Store \in Archive
<1>1. ViewInv => view.file \in Files
  BY DEF ViewInv, Sound, Ready, View
<1>2. QED
  BY <1>1 DEF StoreInv, Store

LEMMA RefreshedIs ==
  ASSUME NEW v \in View, Lists(v), NEW a \in Archive
  PROVE  LET w == applyClusterRefresh(v, a, loadClusterSummariesFromStore(v, a))
         IN /\ Sound(w) /\ Loaded(w) /\ w.repo = v.repo /\ w.file = v.file
            /\ KeepsPlace(v, w)
<1> DEFINE list == loadClusterSummariesFromStore(v, a)
<1>1. list \in Seq(Summary) /\ \A c \in Ids(list) : RepoOf[c] = v.repo
  BY ReadIs
<1> HIDE DEF list
<1>2. LET w == applyClusterRefresh(v, a, list)
      IN /\ Sound(w) /\ Loaded(w) /\ w.repo = v.repo /\ w.file = v.file
         /\ KeepsPlace(v, w)
  BY <1>1, RefreshIs
<1>3. QED
  BY <1>2 DEF list

(* Steps that read the list again.                                          *)
LEMMA RefreshSteps ==
  ASSUME StoreInv, ViewInv, AutoRefresh \/ ManualRefresh \/ ToggleClosed
  PROVE  Stays /\ KeepsPlace(view, view')
<1>1. /\ view \in View /\ Lists(view) /\ Store \in Archive /\ Sound(view)
      /\ view.showClosed \in BOOLEAN
  BY StoreIs DEF ViewInv, Sound, Ready, View
<1>2. ASSUME NEW v \in View, Lists(v), v.repo = view.repo, v.file = view.file, SameDetails(view, v),
             v.clusters = view.clusters, v.selected = view.selected, v.member = view.member,
             Refreshed(v)
      PROVE  Stays /\ KeepsPlace(view, view')
  <2> DEFINE w == applyClusterRefresh(v, Store, loadClusterSummariesFromStore(v, Store))
  <2>1. /\ Sound(w) /\ Loaded(w) /\ w.repo = v.repo /\ w.file = v.file
        /\ KeepsPlace(v, w)
    BY <1>1, <1>2, RefreshedIs
  <2>2. view' = w
    BY <1>2 DEF Refreshed
  <2> HIDE DEF w
  <2>3. Current(v) = Current(view)
    BY <1>2 DEF Current
  <2>4. QED
    BY <1>2, <2>1, <2>2, <2>3 DEF Stays, KeepsPlace, SameDetails
<1>3. KeepsPlace(view, view)
  BY DEF KeepsPlace
<1>4. CASE AutoRefresh
  <2>1. settling' = settling /\ (view' = view \/ Refreshed(view))
    BY <1>4 DEF AutoRefresh
  <2>2. CASE view' = view
    BY <1>1, <1>3, <2>1, <2>2 DEF Stays, ViewInv
  <2>3. CASE Refreshed(view)
    BY <1>1, <1>2, <2>3 DEF SameDetails
  <2>4. QED
    BY <2>1, <2>2, <2>3
<1>5. CASE ManualRefresh
  BY <1>1, <1>2, <1>5 DEF ManualRefresh, SameDetails
<1>6. CASE ToggleClosed
  <2> DEFINE v == [view EXCEPT !.showClosed = ~@]
  <2>1. /\ v \in View /\ v.repo = view.repo /\ v.file = view.file /\ SameDetails(view, v)
        /\ v.clusters = view.clusters /\ v.selected = view.selected /\ v.member = view.member
        /\ v.all = view.all
    BY <1>1 DEF View, SameDetails
  <2>2. Refreshed(v)
    BY <1>6 DEF ToggleClosed
  <2> HIDE DEF v
  <2>3. Lists(v)
    BY <1>1, <2>1 DEF Lists
  <2>4. QED
    BY <1>2, <2>1, <2>2, <2>3
<1>7. QED
  BY <1>4, <1>5, <1>6

(* The selected cluster is loaded, after a new order or once the wheel rests. *)
LEMMA LoadSteps ==
  ASSUME StoreInv, ViewInv, SelectCluster \/ SortClusters \/ WheelSettles
  PROVE  Stays /\ (SelectCluster \/ KeepsPlace(view, view'))
<1>1. /\ view \in View /\ Lists(view) /\ Store \in Archive /\ Sound(view) /\ Ready(view) /\ Placed(view)
  BY StoreIs DEF ViewInv, Sound, Ready
<1>2. ASSUME NEW v, Ready(v), Placed(v), v.repo = view.repo, v.file = view.file,
             view' = loadSelectedCluster(v, Store)
      PROVE  Stays /\ KeepsPlace(v, view') /\ view'.clusters = v.clusters
  <2> DEFINE w == loadSelectedCluster(v, Store)
  <2>1. /\ Ready(w) /\ Shows(w) /\ Held(w) /\ Loaded(w) /\ (Placed(v) => Placed(w))
        /\ SameFilters(v, w) /\ w.clusters = v.clusters /\ KeepsPlace(v, w)
    BY <1>1, <1>2, LoadIs
  <2> HIDE DEF w
  <2>2. view' = w
    BY <1>2 DEF w
  <2>3. QED
    BY <1>2, <2>1, <2>2 DEF Stays, Sound, SameFilters
<1>3. CASE SelectCluster
  <2>1. PICK i \in DOMAIN view.clusters :
          view' = loadSelectedCluster([view EXCEPT !.selected = i], Store)
    BY <1>3 DEF SelectCluster
  <2> DEFINE v == [view EXCEPT !.selected = i]
  <2>2. i \in Nat
    <3>1. view.clusters \in Seq(Summary)
      BY <1>1 DEF View
    <3>2. QED
      BY <3>1, LenProperties
  <2>3. /\ v \in View /\ v.clusters = view.clusters /\ v.selected = i /\ v.all = view.all
        /\ v.repo = view.repo /\ v.file = view.file /\ v.cache = view.cache
    BY <1>1, <2>2 DEF View
  <2>4. view' = loadSelectedCluster(v, Store)
    BY <2>1
  <2> HIDE DEF v
  <2>5. Ready(v) /\ Placed(v)
    BY <1>1, <2>1, <2>3 DEF Ready, Placed, Lists, Caches
  <2>6. QED
    BY <1>2, <1>3, <2>3, <2>4, <2>5
<1>4. CASE SortClusters
  <2> DEFINE sort == IF view.sort = "recent" THEN "size" ELSE "recent"
             v == Sorted(view, sort)
  <2>1. sort \in Sorts
    BY DEF Sorts
  <2> HIDE DEF sort
  <2>2. /\ Ready(v) /\ Placed(v) /\ SameDetails(view, v) /\ v.repo = view.repo /\ v.file = view.file
        /\ Ids(v.clusters) = Ids(view.clusters) /\ v.member = view.member
        /\ Current(view) \in Ids(view.clusters) => Current(v) = Current(view)
    BY <1>1, <2>1, SortIs
  <2>3. view' = loadSelectedCluster(v, Store)
    BY <1>4 DEF SortClusters, sort
  <2> HIDE DEF v
  <2>4. Stays /\ KeepsPlace(v, view') /\ view'.clusters = v.clusters
    BY <1>2, <2>2, <2>3
  <2>5. KeepsPlace(view, view')
    BY <2>2, <2>4 DEF KeepsPlace, SameDetails
  <2>6. QED
    BY <2>4, <2>5
<1>5. CASE WheelSettles
  BY <1>1, <1>2, <1>5 DEF WheelSettles
<1>6. QED
  BY <1>3, <1>4, <1>5

(* Filters.                                                                 *)
LEMMA FilterSteps ==
  ASSUME StoreInv, ViewInv, ChangeMinSize \/ FilterClusters
  PROVE  Stays /\ (FilterClusters \/ KeepsPlace(view, view'))
<1>1. /\ view \in View /\ Lists(view) /\ Store \in Archive /\ Caches(view)
      /\ view.minSize \in {1, 2} /\ view.search \in BOOLEAN
  BY StoreIs DEF ViewInv, Sound, Ready, View
<1>2. ASSUME NEW v \in View, v.all = view.all, v.repo = view.repo, v.file = view.file, Caches(v)
      PROVE  LET w == applyClusterFilters(v, Store)
             IN /\ Sound(w) /\ Loaded(w) /\ SameFilters(v, w) /\ KeepsPlace(v, w)
  <2>1. \A c \in Ids(v.all) : RepoOf[c] = v.repo
    BY <1>1, <1>2 DEF Lists
  <2>2. QED
    BY <1>1, <1>2, <2>1, FilterIs
<1>3. CASE ChangeMinSize
  <2> DEFINE v == [view EXCEPT !.minSize = IF @ = 1 THEN 2 ELSE 1]
             w == applyClusterFilters(v, Store)
  <2>1. /\ v \in View /\ v.all = view.all /\ v.repo = view.repo /\ v.file = view.file
        /\ v.cache = view.cache /\ SameDetails(view, v) /\ v.clusters = view.clusters
        /\ v.selected = view.selected /\ v.member = view.member
    BY <1>1 DEF View, SameDetails
  <2>2. view' = w
    BY <1>3 DEF ChangeMinSize
  <2> HIDE DEF v
  <2>3. Caches(v)
    BY <1>1, <2>1 DEF Caches
  <2>4. Sound(w) /\ Loaded(w) /\ SameFilters(v, w) /\ KeepsPlace(v, w)
    BY <1>2, <2>1, <2>3
  <2> HIDE DEF w
  <2>5. Current(v) = Current(view)
    BY <2>1 DEF Current
  <2>6. QED
    BY <2>1, <2>2, <2>4, <2>5 DEF Stays, KeepsPlace, SameFilters, SameDetails
<1>4. CASE FilterClusters
  <2> DEFINE u == [view EXCEPT !.search = ~@]
             typed == applyClusterFilters(u, Store)
  <2>1. PICK query \in {view.search, ~view.search} :
          view' = applyClusterFilters([typed EXCEPT !.search = query], Store)
    BY <1>4 DEF FilterClusters
  <2>2. /\ u \in View /\ u.all = view.all /\ u.repo = view.repo /\ u.file = view.file
        /\ u.cache = view.cache
    BY <1>1 DEF View
  <2> HIDE DEF u
  <2>3. Caches(u)
    BY <1>1, <2>2 DEF Caches
  <2>4. Sound(typed) /\ SameFilters(u, typed)
    BY <1>2, <2>2, <2>3
  <2> HIDE DEF typed
  <2> DEFINE v == [typed EXCEPT !.search = query]
  <2>5. query \in BOOLEAN /\ typed \in View /\ Caches(typed)
    BY <1>1, <2>1, <2>4 DEF Sound, Ready
  <2>6. /\ v \in View /\ v.all = typed.all /\ v.repo = typed.repo /\ v.file = typed.file
        /\ v.cache = typed.cache
    BY <2>5 DEF View
  <2>7. view' = applyClusterFilters(v, Store)
    BY <2>1
  <2> HIDE DEF v
  <2>8. Caches(v) /\ v.all = view.all /\ v.repo = view.repo /\ v.file = view.file
    BY <2>2, <2>4, <2>5, <2>6 DEF Caches, SameFilters
  <2> DEFINE w == applyClusterFilters(v, Store)
  <2>9. Sound(w) /\ Loaded(w) /\ SameFilters(v, w)
    BY <1>2, <2>6, <2>8
  <2> HIDE DEF w
  <2>10. view' = w
    BY <2>7 DEF w
  <2>11. QED
    BY <1>4, <2>8, <2>9, <2>10 DEF Stays, SameFilters
<1>5. QED
  BY <1>3, <1>4

(* Members, and a wheel whose timer has not run.                            *)
LEMMA PointSteps ==
  ASSUME StoreInv, ViewInv, MenuInv, SelectMember \/ SortMembers \/ WheelScrolls
  PROVE  Stays /\ (SelectMember \/ WheelScrolls \/ KeepsPlace(view, view'))
<1>1. /\ view \in View /\ Lists(view) /\ Caches(view) /\ Shows(view) /\ Held(view) /\ Placed(view)
      /\ (settling \/ Loaded(view)) /\ view.rows \in SUBSET Threads
  BY DEF ViewInv, Sound, Ready, View
<1>2. CASE SelectMember
  <2>1. PICK t \in view.rows \cup {NoThread} : view' = [view EXCEPT !.member = t]
    BY <1>2 DEF SelectMember
  <2>2. settling' = settling
    BY <1>2 DEF SelectMember, Key
  <2>3. /\ view' \in View /\ SameFilters(view, view') /\ SameDetails(view, view')
        /\ view'.clusters = view.clusters /\ view'.selected = view.selected
        /\ view'.rows = view.rows /\ view'.member = t
    BY <1>1, <2>1 DEF View, SameFilters, SameDetails
  <2>4. QED
    BY <1>1, <1>2, <2>2, <2>3 DEF Stays, Sound, Ready, Lists, Caches, Shows, Held, Placed, Loaded,
       Current, SameFilters, SameDetails
<1>3. CASE SortMembers
  <2>1. view' = sortMembers(view) /\ settling' = settling
    BY <1>3 DEF SortMembers, Key
  <2>2. /\ view' \in View /\ SameFilters(view, view') /\ SameDetails(view, view')
        /\ view'.clusters = view.clusters /\ view'.selected = view.selected /\ Held(view')
        /\ view.member \in view'.rows => view'.member = view.member
    BY <1>1, <2>1, SortMembersIs
  <2>3. Current(view') = Current(view)
    BY <2>2 DEF Current
  <2>4. KeepsPlace(view, view')
    BY <2>2, <2>3 DEF KeepsPlace
  <2>5. QED
    BY <1>1, <2>1, <2>2, <2>3, <2>4 DEF Stays, Sound, Ready, Lists, Caches, Shows, Placed, Loaded,
       SameFilters, SameDetails
<1>4. CASE WheelScrolls
  <2>1. PICK i \in DOMAIN view.clusters :
          view' = [view EXCEPT !.selected = i] /\ settling' = (settling \/ i # view.selected)
    BY <1>4 DEF WheelScrolls, Settling
  <2>2. i \in Nat
    <3>1. view.clusters \in Seq(Summary)
      BY <1>1 DEF View
    <3>2. QED
      BY <3>1, LenProperties
  <2>3. /\ view' \in View /\ SameFilters(view, view') /\ SameDetails(view, view')
        /\ view'.clusters = view.clusters /\ view'.selected = i
        /\ view'.rows = view.rows /\ view'.member = view.member
    BY <1>1, <2>1, <2>2 DEF View, SameFilters, SameDetails
  <2>4. settling' \/ Loaded(view')
    BY <1>1, <2>1, <2>3 DEF Loaded, Current, SameDetails
  <2>5. QED
    BY <1>1, <1>4, <2>1, <2>3, <2>4 DEF Stays, Sound, Ready, Lists, Caches, Shows, Held, Placed,
       SameFilters, SameDetails
<1>5. QED
  BY <1>2, <1>3, <1>4

(* A jump, and where it lands.                                              *)
LEMMA JumpSteps ==
  ASSUME StoreInv, ViewInv, NEW t \in Threads, JumpTo(t)
  PROVE  /\ Sound(view') /\ (Loaded(view) => Loaded(view'))
         /\ view'.repo = view.repo /\ view'.file = view.file
         /\ Counted(ClusterOf(t)) => Lands(t)
<1> DEFINE c == ClusterOf(t)
           loaded == (view.hasDetail /\ view.detail.id = c) \/ view.cache[c] # None
           d == Detailed(Store, c)
           found == [view EXCEPT !.cache[c] = d, !.all = IF c \in Ids(@) THEN @ ELSE Append(@, d.summary)]
           Land(v) == view' = Restored(selectClusterForJump(v, c, Store), t)
<1>1. /\ Sound(view) /\ view \in View /\ Lists(view) /\ Caches(view) /\ Shows(view)
      /\ Store \in Archive /\ view.all \in Seq(Summary)
  BY StoreIs DEF ViewInv, Sound, Ready, View
<1>2. c \in Clusters /\ t \in Members[c]
  BY ClusterOfIs
<1>3. \/ (loaded \/ c \in Ids(view.all)) /\ Land(view)
      \/ ~loaded /\ RepoOf[c] = view.repo /\ Land(found)
  BY DEF JumpTo
<1> HIDE DEF c
<1>4. ASSUME NEW v, Sound(v), v.repo = view.repo, v.file = view.file, Loaded(view) => Loaded(v),
             c \in Ids(v.all), Land(v)
      PROVE  /\ Sound(view') /\ (Loaded(view) => Loaded(view'))
             /\ view'.repo = view.repo /\ view'.file = view.file
             /\ (\A s \in ToSet(v.all) : s.id = c => s.count > 0) => Lands(t)
  <2> DEFINE w == selectClusterForJump(v, c, Store)
  <2>1. /\ Sound(w) /\ (Loaded(v) => Loaded(w)) /\ w.repo = v.repo /\ w.file = v.file
        /\ (\A s \in ToSet(v.all) : s.id = c => s.count > 0) => Current(w) = c
    BY <1>1, <1>2, <1>4, JumpIs
  <2>2. view' = Restored(w, t)
    BY <1>4
  <2> HIDE DEF w
  <2>3. w \in View
    BY <2>1 DEF Sound, Ready
  <2>4. /\ view' \in View /\ SameFilters(w, view') /\ SameDetails(w, view')
        /\ view'.rows = w.rows /\ view'.clusters = w.clusters /\ view'.selected = w.selected
        /\ view'.member = IF t \in w.rows THEN t ELSE w.member
    BY <2>2, <2>3, RestoredIs
  <2>5. Current(view') = Current(w)
    BY <2>4 DEF Current
  <2>6. Sound(view') /\ (Loaded(w) => Loaded(view'))
    BY <2>1, <2>4, <2>5 DEF Sound, Ready, Lists, Caches, Shows, Held, Placed, Loaded, SameFilters,
       SameDetails
  <2>7. view'.repo = view.repo /\ view'.file = view.file
    BY <1>4, <2>1, <2>4 DEF SameFilters
  <2>8. (\A s \in ToSet(v.all) : s.id = c => s.count > 0) => Lands(t)
    BY <2>1, <2>4, <2>5 DEF Lands, c
  <2>9. QED
    BY <1>4, <2>1, <2>6, <2>7, <2>8
<1>5. CASE (loaded \/ c \in Ids(view.all)) /\ Land(view)
  <2>1. c \in Ids(view.all)
    BY <1>1, <1>2, <1>5 DEF Caches, Shows
  <2>2. Counted(c) => \A s \in ToSet(view.all) : s.id = c => s.count > 0
    BY <2>1 DEF Counted, ToSet
  <2>3. QED
    BY <1>1, <1>4, <1>5, <2>1, <2>2 DEF c
<1>6. CASE ~loaded /\ RepoOf[c] = view.repo /\ Land(found)
  <2>1. view.cache[c] = None /\ RepoOf[c] = view.repo /\ Land(found)
    BY <1>6
  <2>2. /\ Sound(found) /\ (Loaded(view) => Loaded(found)) /\ found.repo = view.repo
        /\ found.file = view.file /\ c \in Ids(found.all)
        /\ c \in Ids(view.all) => found.all = view.all
        /\ c \notin Ids(view.all) => ToSet(found.all) = ToSet(view.all) \cup {d.summary}
    BY <1>1, <1>2, <2>1, FoundIs
  <2>3. d.summary.count = Cardinality(Active(Store, c))
    BY DEF Detailed, Summarized
  <2> HIDE DEF found, d, loaded
  <2>4. Counted(c) => \A s \in ToSet(found.all) : s.id = c => s.count > 0
    <3>1. CASE c \in Ids(view.all)
      BY <2>2, <3>1 DEF Counted, ToSet
    <3>2. CASE c \notin Ids(view.all)
      <4>1. Counted(c) => d.summary.count > 0
        <5>1. IsFiniteSet(Active(Store, c)) /\ Cardinality(Active(Store, c)) \in Nat
          BY <1>2, MembersFinite DEF Active
        <5>2. Active(Store, c) # {} => Cardinality(Active(Store, c)) # 0
          BY <5>1, FS_EmptySet
        <5>3. QED
          BY <2>3, <3>2, <5>1, <5>2 DEF Counted
      <4>2. \A s \in ToSet(found.all) : s.id = c => s = d.summary
        BY <2>2, <3>2, IdsOf
      <4>3. QED
        BY <4>1, <4>2
    <3>3. QED
      BY <3>1, <3>2
  <2>5. QED
    BY <1>4, <2>1, <2>2, <2>4 DEF c
<1>7. QED
  BY <1>3, <1>5, <1>6

(* A confirmed command, and what it does to the archive.                    *)
LEMMA ConfirmSteps ==
  ASSUME StoreInv, ViewInv, MenuInv, Confirm
  PROVE  /\ Stays /\ KeepsPlace(view, view')
         /\ StoreInv'
         /\ \/ UNCHANGED <<neighbors, acted, edits>>
            \/ /\ edits' = edits + 1
               /\ \/ UNCHANGED <<neighbors, acted>>
                  \/ \E t \in Threads : /\ neighbors' = [neighbors EXCEPT ![t] = None]
                                        /\ acted' = [acted EXCEPT ![t] = edits + 1]
<1> DEFINE action == confirm.action
           c == Current(view)
           t == view.member
           needed == CASE action \in {"close thread", "reopen thread"}   -> t # NoThread
                       [] action \in {"close cluster", "reopen cluster"} -> c # None.id
                       [] OTHER -> t # NoThread /\ c # None.id
<1>1. /\ view \in View /\ Lists(view) /\ Store \in Archive /\ Sound(view) /\ (settling \/ Loaded(view))
      /\ view.file \in Files /\ t \in Threads \cup {NoThread} /\ (c # None.id => c \in Clusters)
  BY StoreIs, CurrentIs DEF ViewInv, Sound, Ready, View
<1>2. action \in Actions /\ settling' = settling /\ edits \in 0..MaxEdits /\ edits < MaxEdits
      /\ archive \in [Files -> Archive] /\ UNCHANGED <<file, remote>>
  BY DEF Confirm, MenuInv, Menus, StoreInv
<1>3. CASE needed /\ Succeeds(action, c, t)
  <2>1. PICK moved \in BOOLEAN :
          LET after == Edited(Store, action, c, t, moved)
          IN /\ archive' = [archive EXCEPT ![view.file] = after]
             /\ edits' = edits + 1
             /\ view' = applyClusterRefresh(view, after, loadClusterSummariesFromStore(view, after))
             /\ IF action \in {"close thread", "exclude"}
                THEN /\ neighbors' = [neighbors EXCEPT ![t] = None]
                     /\ acted' = [acted EXCEPT ![t] = edits + 1]
                ELSE UNCHANGED <<neighbors, acted>>
    BY <1>3 DEF Confirm
  <2> DEFINE after == Edited(Store, action, c, t, moved)
             w == applyClusterRefresh(view, after, loadClusterSummariesFromStore(view, after))
  <2>2. /\ action \notin {"close thread", "reopen thread"} => c \in Clusters
        /\ action \notin {"close cluster", "reopen cluster"} => t \in Threads
    <3>1. action \in {"close thread", "reopen thread", "close cluster", "reopen cluster",
                      "exclude", "include", "canonical"}
      BY <1>2 DEF Actions
    <3> HIDE DEF action, c, t
    <3>2. QED
      BY <1>1, <1>3, <3>1
  <2>3. after \in Archive
    BY <1>1, <1>2, <2>2, EditedIs
  <2>4. /\ archive' = [archive EXCEPT ![view.file] = after] /\ edits' = edits + 1 /\ view' = w
    BY <2>1
  <2> HIDE DEF after
  <2>5. /\ Sound(w) /\ Loaded(w) /\ w.repo = view.repo /\ w.file = view.file /\ KeepsPlace(view, w)
    BY <1>1, <2>3, RefreshedIs
  <2> HIDE DEF w
  <2>6. Stays /\ KeepsPlace(view, view')
    BY <2>4, <2>5 DEF Stays
  <2>7. edits' \in 0..MaxEdits
    BY <1>2, <2>4, OneMoreEdit
  <2>8. archive' \in [Files -> Archive]
    BY <1>1, <1>2, <2>3, <2>4
  <2>9. StoreInv'
    BY <1>2, <2>7, <2>8 DEF StoreInv
  <2>10. \/ UNCHANGED <<neighbors, acted>>
         \/ \E u \in Threads : /\ neighbors' = [neighbors EXCEPT ![u] = None]
                               /\ acted' = [acted EXCEPT ![u] = edits + 1]
    <3>1. CASE action \in {"close thread", "exclude"}
      <4>1. t \in Threads
        BY <2>2, <3>1
      <4>2. QED
        BY <2>1, <3>1, <4>1
    <3>2. CASE action \notin {"close thread", "exclude"}
      BY <2>1, <3>2
    <3>3. QED
      BY <3>1, <3>2
  <2>11. QED
    BY <2>4, <2>6, <2>9, <2>10
<1>4. CASE ~(needed /\ Succeeds(action, c, t))
  <2>1. UNCHANGED <<archive, edits, view, neighbors, acted>>
    BY <1>4 DEF Confirm
  <2>2. StoreInv'
    BY <1>2, <2>1 DEF StoreInv
  <2>3. Stays /\ KeepsPlace(view, view')
    BY <1>1, <1>2, <2>1 DEF Stays, KeepsPlace
  <2>4. QED
    BY <2>1, <2>2, <2>3
<1>5. QED
  BY <1>3, <1>4

(* Another repository, and another file.                                    *)
LEMMA SwitchSteps ==
  ASSUME StoreInv, ViewInv, NEW r \in Repos, SwitchRepository(r)
  PROVE  Sound(view') /\ Loaded(view') /\ view'.repo = r /\ view'.file = view.file
<1> DEFINE first == Listed(Store, r, view.showClosed, view.minSize, Unlimited, view.sort)
           second == Listed(Store, r, view.showClosed, 1, Unlimited, view.sort)
           list == mergeClusterSummaries(first, second)
           blank == [ForgetDetails(view) EXCEPT !.repo = r, !.all = list, !.clusters = list,
                       !.search = FALSE, !.selected = 1, !.detail = None, !.hasDetail = FALSE,
                       !.rows = {}, !.member = NoThread]
           filtered == applyClusterFilters(blank, Store)
<1>1. view \in View /\ Store \in Archive
  BY StoreIs DEF ViewInv, Sound, Ready
<1>2. view' = relaxFiltersIfEmpty(filtered, Store)
  BY DEF SwitchRepository
<1>3. /\ first \in Seq(Summary) /\ second \in Seq(Summary)
      /\ \A s \in ToSet(first) \cup ToSet(second) : RepoOf[s.id] = r
  <2>1. /\ first \in Seq(Summary)
        /\ ToSet(first) \subseteq Listable(Store, r, view.showClosed, view.minSize)
    BY <1>1, UnlimitedIs, ListedIs
  <2>2. second \in Seq(Summary) /\ ToSet(second) \subseteq Listable(Store, r, view.showClosed, 1)
    BY <1>1, UnlimitedIs, ListedIs
  <2> HIDE DEF first, second
  <2>3. QED
    BY <1>1, <2>1, <2>2, ListableIs
<1> HIDE DEF first, second
<1>4. list \in Seq(Summary) /\ \A c \in Ids(list) : RepoOf[c] = r
  <2>1. list \in Seq(Summary) /\ ToSet(list) \subseteq ToSet(first) \cup ToSet(second)
    BY <1>3, MergeIs
  <2> HIDE DEF list
  <2>2. QED
    BY <1>3, <2>1, IdsOf
<1> HIDE DEF list
<1>5. /\ blank \in View /\ blank.all = list /\ blank.repo = r /\ blank.file = view.file
      /\ blank.cache = [c \in Clusters |-> None]
  BY <1>1, <1>4 DEF View, ForgetDetails, NoThread
<1> HIDE DEF blank
<1>6. Caches(blank)
  BY <1>5 DEF Caches
<1>7. Sound(filtered) /\ Loaded(filtered) /\ SameFilters(blank, filtered)
  BY <1>1, <1>4, <1>5, <1>6, FilterIs
<1> HIDE DEF filtered
<1>8. QED
  BY <1>1, <1>2, <1>5, <1>7, RelaxIs DEF SameFilters

LEMMA ReopenSteps ==
  ASSUME StoreInv, ViewInv, Reopened
  PROVE  Sound(view') /\ Loaded(view') /\ view'.repo = view.repo /\ view'.file = 2
         /\ KeepsPlace(view, view')
<1> DEFINE v == [ForgetDetails(view) EXCEPT !.file = 2]
           w == applyClusterRefresh(v, archive[2], loadClusterSummariesFromStore(v, archive[2]))
<1>1. view \in View /\ Lists(view) /\ archive[2] \in Archive
  BY DEF ViewInv, Sound, Ready, StoreInv, Files
<1>2. view' = w
  BY DEF Reopened
<1>3. /\ v \in View /\ v.file = 2 /\ v.repo = view.repo /\ v.all = view.all
      /\ v.clusters = view.clusters /\ v.selected = view.selected /\ v.member = view.member
      /\ v.hasDetail = view.hasDetail /\ v.detail = view.detail
  BY <1>1 DEF View, ForgetDetails, Files
<1> HIDE DEF v
<1>4. Lists(v)
  BY <1>1, <1>3 DEF Lists
<1>5. Sound(w) /\ Loaded(w) /\ w.repo = v.repo /\ w.file = v.file /\ KeepsPlace(v, w)
  BY <1>1, <1>3, <1>4, RefreshedIs
<1> HIDE DEF w
<1>6. Current(v) = Current(view)
  BY <1>3 DEF Current
<1>7. QED
  BY <1>2, <1>3, <1>5, <1>6 DEF KeepsPlace

LEMMA OpeningIs ==
  ASSUME archive \in [Files -> Archive], NEW repo \in Repos, NEW limit \in Nat, NEW all \in BOOLEAN
  PROVE  Sound(Opening(repo, limit, all, 2)) /\ Loaded(Opening(repo, limit, all, 2))
<1> DEFINE first == Listed(archive[1], repo, all, 2, IF limit > 0 THEN limit ELSE Unlimited, "size")
           second == Listed(archive[1], repo, all, 1, Unlimited, "size")
           list == mergeClusterSummaries(first, second)
           v == [file |-> 1, repo |-> repo, all |-> list, clusters |-> list, selected |-> 1,
                 showClosed |-> all, minSize |-> 2, sort |-> "size", limit |-> limit,
                 search |-> FALSE, cache |-> [c \in Clusters |-> None],
                 detail |-> None, hasDetail |-> FALSE, rows |-> {}, member |-> NoThread]
<1>1. archive[1] \in Archive
  BY DEF Files
<1>2. (IF limit > 0 THEN limit ELSE Unlimited) \in Nat
  BY UnlimitedIs
<1>3. /\ first \in Seq(Summary) /\ second \in Seq(Summary)
      /\ \A s \in ToSet(first) \cup ToSet(second) : RepoOf[s.id] = repo
  <2>1. first \in Seq(Summary) /\ ToSet(first) \subseteq Listable(archive[1], repo, all, 2)
    BY <1>1, <1>2, ListedIs
  <2>2. second \in Seq(Summary) /\ ToSet(second) \subseteq Listable(archive[1], repo, all, 1)
    BY <1>1, UnlimitedIs, ListedIs
  <2> HIDE DEF first, second
  <2>3. QED
    BY <1>1, <2>1, <2>2, ListableIs
<1>4. Opening(repo, limit, all, 2) = applyClusterFilters(v, archive[1])
  BY DEF Opening
<1> HIDE DEF first, second
<1>5. list \in Seq(Summary) /\ \A c \in Ids(list) : RepoOf[c] = repo
  <2>1. list \in Seq(Summary) /\ ToSet(list) \subseteq ToSet(first) \cup ToSet(second)
    BY <1>3, MergeIs
  <2> HIDE DEF list
  <2>2. QED
    BY <1>3, <2>1, IdsOf
<1> HIDE DEF list
<1>6. v \in View /\ v.all = list /\ v.repo = repo /\ v.cache = [c \in Clusters |-> None]
  BY <1>5 DEF View, Files, Sorts, NoThread
<1> HIDE DEF v
<1>7. Caches(v)
  BY <1>6 DEF Caches
<1>8. QED
  BY <1>1, <1>4, <1>5, <1>6, <1>7, FilterIs

-----------------------------------------------------------------------------
(* What holds in every state *)

\* Neighbours kept or awaited are of the store on screen, and no older than the
\* last time their thread was closed or excluded here.
LoadInv ==
  /\ flight \subseteq Load /\ neighbors \in [Threads -> Entry \cup {None}]
  /\ acted \in [Threads -> 0..MaxEdits] /\ \A t \in Threads : acted[t] <= edits
  /\ \A l \in flight : l.wanted => l.repo = view.repo /\ l.file = view.file /\ l.at >= acted[l.thread]
  /\ \A t \in Threads : neighbors[t] # None =>
       neighbors[t].repo = view.repo /\ neighbors[t].file = view.file /\ neighbors[t].at >= acted[t]

BrowserInv == StoreInv /\ ViewInv /\ MenuInv /\ LoadInv

LEMMA UnwantedIs ==
  ASSUME flight \subseteq Load
  PROVE  Unwanted \subseteq Load /\ \A l \in Unwanted : l.wanted = FALSE
BY DEF Unwanted, Load

(* Loads are kept or given up, answers kept.                                *)
LEMMA AnswersKept ==
  ASSUME StoreInv, StoreInv', LoadInv, view'.repo = view.repo, view'.file = view.file,
         UNCHANGED <<acted, neighbors>>, edits' >= edits, flight' \in {flight, Unwanted}
  PROVE  LoadInv'
<1>1. \A t \in Threads : acted[t] \in Int /\ acted[t] <= edits
  BY BrowserAssumption DEF LoadInv
<1>2. edits \in Int /\ edits' \in Int
  BY DEF StoreInv
<1>3. \A t \in Threads : acted[t] <= edits'
  BY <1>1, <1>2
<1>4. CASE flight' = flight
  BY <1>3, <1>4 DEF LoadInv
<1>5. CASE flight' = Unwanted
  <2>1. flight' \subseteq Load /\ \A l \in flight' : l.wanted = FALSE
    BY <1>5, UnwantedIs DEF LoadInv
  <2>2. QED
    BY <1>3, <2>1 DEF LoadInv
<1>6. QED
  BY <1>4, <1>5

LEMMA StayStep ==
  ASSUME BrowserInv, Stays, UNCHANGED <<archive, file, remote, acted, edits, neighbors, confirm>>,
         flight' \in {flight, Unwanted}, settling' \in BOOLEAN
  PROVE  BrowserInv'
<1>1. StoreInv' /\ MenuInv' /\ edits' >= edits
  BY DEF BrowserInv, StoreInv, MenuInv
<1>2. ViewInv'
  BY DEF Stays, ViewInv
<1>3. LoadInv'
  BY <1>1, AnswersKept DEF BrowserInv, Stays
<1>4. QED
  BY <1>1, <1>2, <1>3 DEF BrowserInv

(* Keys, the mouse and the timers.                                          *)
LEMMA LoopStep ==
  ASSUME BrowserInv,
         \/ AutoRefresh \/ ManualRefresh \/ ToggleClosed \/ SelectCluster \/ SelectMember
         \/ SortClusters \/ SortMembers \/ ChangeMinSize \/ WheelScrolls \/ WheelSettles
         \/ FilterClusters \/ Jump
  PROVE  Stays /\ BrowserInv'
<1>1. StoreInv /\ ViewInv /\ MenuInv
  BY DEF BrowserInv
<1>2. Stays
  <2>1. ASSUME Jump PROVE Stays
    <3>1. PICK t \in Threads : JumpTo(t)
      BY <2>1 DEF Jump
    <3>2. settling' = settling
      BY <2>1 DEF Jump, Key
    <3>3. QED
      BY <1>1, <3>1, <3>2, JumpSteps DEF Stays, ViewInv
  <2>2. QED
    BY <1>1, <2>1, RefreshSteps, LoadSteps, FilterSteps, PointSteps
<1>3. settling' \in BOOLEAN
  BY <1>1 DEF MenuInv, Key, Settling, AutoRefresh, ManualRefresh, ToggleClosed, SelectCluster, SelectMember,
     SortClusters, SortMembers, ChangeMinSize, WheelScrolls, WheelSettles, FilterClusters, Jump
<1>4. UNCHANGED <<archive, file, remote, acted, edits, neighbors, confirm>>
  BY DEF ArchiveKept, LoadsKept, Refreshed, Key, Pressed, AutoRefresh, ManualRefresh, ToggleClosed,
     SelectCluster, SelectMember, SortClusters, SortMembers, ChangeMinSize, WheelScrolls, WheelSettles,
     FilterClusters, Jump
<1>5. flight' \in {flight, Unwanted}
  BY DEF LoadsKept, Refreshed, AutoRefresh, ManualRefresh, ToggleClosed, SelectCluster, SelectMember,
     SortClusters, SortMembers, ChangeMinSize, WheelScrolls, WheelSettles, FilterClusters, Jump
<1>6. QED
  BY <1>2, <1>3, <1>4, <1>5, StayStep

\* A step that leaves the view and the timer of the wheel.
LEMMA SameView ==
  ASSUME ViewInv, UNCHANGED <<view, settling>>
  PROVE  Stays /\ ViewInv'
BY DEF ViewInv, Stays

(* Neighbours asked for and answered.                                       *)
LEMMA NeighborSteps ==
  ASSUME BrowserInv, RequestNeighbors \/ \E l \in flight : NeighborsLoaded(l)
  PROVE  BrowserInv'
<1>1. StoreInv /\ ViewInv /\ MenuInv /\ LoadInv
  BY DEF BrowserInv
<1>2. UNCHANGED <<archive, file, remote, acted, edits, view, settling, confirm>>
  BY DEF RequestNeighbors, NeighborsLoaded, ArchiveKept, Key, Pressed
<1>3. StoreInv' /\ MenuInv' /\ ViewInv'
  BY <1>1, <1>2, SameView DEF StoreInv, MenuInv
<1>4. ASSUME RequestNeighbors PROVE LoadInv'
  <2> DEFINE l == [thread |-> view.member, repo |-> view.repo, file |-> view.file,
                   at |-> edits, wanted |-> TRUE]
  <2>1. flight' = Unwanted \cup {l} /\ view.member # NoThread /\ UNCHANGED <<view, neighbors>>
    BY <1>4 DEF RequestNeighbors
  <2>2. view.member \in Threads \cup {NoThread} /\ view.repo \in Repos /\ view.file \in Files
    BY <1>1 DEF ViewInv, Sound, Ready, View
  <2>3. l \in Load
    BY <1>1, <2>1, <2>2 DEF Load, StoreInv
  <2>4. l.at >= acted[l.thread]
    <3>1. acted[view.member] <= edits /\ acted[view.member] \in Int /\ edits \in Int
      <4>1. view.member \in Threads
        BY <2>1, <2>2
      <4>2. acted[view.member] <= edits /\ acted[view.member] \in 0..MaxEdits
        BY <1>1, <4>1 DEF LoadInv
      <4>3. edits \in 0..MaxEdits
        BY <1>1 DEF StoreInv
      <4>4. QED
        BY <4>2, <4>3
    <3>2. QED
      BY <3>1
  <2>5. Unwanted \subseteq Load /\ \A k \in Unwanted : k.wanted = FALSE
    BY <1>1, UnwantedIs DEF LoadInv
  <2>6. l.repo = view.repo /\ l.file = view.file
    OBVIOUS
  <2> HIDE DEF l
  <2>7. flight' \subseteq Load
    BY <2>1, <2>3, <2>5
  <2>8. \A k \in flight' : k.wanted => k.repo = view.repo /\ k.file = view.file /\ k.at >= acted[k.thread]
    BY <2>1, <2>4, <2>5, <2>6
  <2>9. QED
    BY <1>1, <1>2, <2>1, <2>7, <2>8 DEF LoadInv
<1>5. ASSUME NEW l \in flight, NeighborsLoaded(l) PROVE LoadInv'
  <2> DEFINE entry == [id |-> 1, repo |-> l.repo, file |-> l.file, at |-> l.at]
  <2>1. flight' \subseteq flight /\ (\/ neighbors' = neighbors
                                     \/ l.wanted /\ neighbors' = [neighbors EXCEPT ![l.thread] = entry])
    BY <1>5 DEF NeighborsLoaded, Awaited
  <2>2. l \in Load
    BY <1>1 DEF LoadInv
  <2>3. entry \in Entry /\ l.thread \in Threads
    BY <2>2 DEF Load, Entry
  <2>4. entry.repo = l.repo /\ entry.file = l.file /\ entry.at = l.at
    OBVIOUS
  <2> HIDE DEF entry
  <2>5. CASE neighbors' = neighbors
    BY <1>1, <1>2, <2>1, <2>5 DEF LoadInv
  <2>6. CASE l.wanted /\ neighbors' = [neighbors EXCEPT ![l.thread] = entry]
    <3>1. neighbors' \in [Threads -> Entry \cup {None}]
      BY <1>1, <2>3, <2>6 DEF LoadInv
    <3>2. \A t \in Threads : neighbors'[t] # None =>
            /\ neighbors'[t].repo = view.repo /\ neighbors'[t].file = view.file
            /\ neighbors'[t].at >= acted[t]
      BY <1>1, <2>3, <2>4, <2>6 DEF LoadInv
    <3>3. QED
      BY <1>1, <1>2, <2>1, <3>1, <3>2 DEF LoadInv
  <2>7. QED
    BY <2>1, <2>5, <2>6
<1>6. QED
  BY <1>3, <1>4, <1>5 DEF BrowserInv

(* Menus and what they do.                                                  *)
LEMMA MenuSteps ==
  ASSUME BrowserInv, OpenConfirm \/ CloseMenu \/ Confirm
  PROVE  BrowserInv'
<1>1. StoreInv /\ ViewInv /\ MenuInv /\ LoadInv
  BY DEF BrowserInv
<1>2. MenuInv'
  <2>1. settling' = settling /\ settling \in BOOLEAN
    BY <1>1 DEF MenuInv, OpenConfirm, CloseMenu, Confirm
  <2>2. ASSUME OpenConfirm PROVE confirm' \in Menus
    <3>1. PICK action \in Actions :
            confirm' = [action |-> action, cluster |-> Current(view), thread |-> view.member,
                        settled |-> ~settling]
      BY <2>2 DEF OpenConfirm
    <3>2. view \in View /\ view.member \in Threads \cup {NoThread}
      BY <1>1 DEF ViewInv, Sound, Ready, View
    <3>3. Current(view) \in Clusters \cup {None.id}
      BY <3>2, CurrentIs
    <3>4. QED
      BY <3>1, <3>2, <3>3 DEF Menus
  <2>3. ASSUME CloseMenu \/ Confirm PROVE confirm' = NoMenu
    BY <2>3 DEF CloseMenu, Confirm
  <2>4. QED
    BY <2>1, <2>2, <2>3 DEF MenuInv
<1>3. CASE OpenConfirm \/ CloseMenu
  <2>1. UNCHANGED <<archive, file, remote, acted, edits, view, settling, flight, neighbors>>
    BY <1>3 DEF OpenConfirm, CloseMenu, ArchiveKept, LoadsKept
  <2>2. StoreInv' /\ ViewInv' /\ LoadInv'
    BY <1>1, <2>1, SameView DEF StoreInv, LoadInv
  <2>3. QED
    BY <1>2, <2>2 DEF BrowserInv
<1>4. CASE Confirm
  <2>1. /\ Stays /\ StoreInv'
        /\ \/ UNCHANGED <<neighbors, acted, edits>>
           \/ /\ edits' = edits + 1
              /\ \/ UNCHANGED <<neighbors, acted>>
                 \/ \E t \in Threads : /\ neighbors' = [neighbors EXCEPT ![t] = None]
                                       /\ acted' = [acted EXCEPT ![t] = edits + 1]
    BY <1>1, <1>4, ConfirmSteps
  <2>2. edits \in Int /\ edits' \in 0..MaxEdits
    BY <1>1, <2>1 DEF StoreInv
  <2>3. edits' >= edits
    BY <2>1, <2>2
  <2>4. flight' = Unwanted
    BY <1>4 DEF Confirm
  <2>5. CASE UNCHANGED <<neighbors, acted>>
    <3>1. view'.repo = view.repo /\ view'.file = view.file
      BY <2>1 DEF Stays
    <3>2. flight' \in {flight, Unwanted}
      BY <2>4
    <3>3. LoadInv'
      BY <1>1, <2>1, <2>3, <2>5, <3>1, <3>2, AnswersKept
    <3>4. ViewInv'
      BY <2>1 DEF Stays, ViewInv
    <3>5. QED
      BY <1>2, <2>1, <3>3, <3>4 DEF BrowserInv
  <2>6. CASE /\ edits' = edits + 1
             /\ \E t \in Threads : /\ neighbors' = [neighbors EXCEPT ![t] = None]
                                   /\ acted' = [acted EXCEPT ![t] = edits + 1]
    <3>1. PICK t \in Threads : /\ neighbors' = [neighbors EXCEPT ![t] = None]
                               /\ acted' = [acted EXCEPT ![t] = edits + 1]
      BY <2>6
    <3>2. edits + 1 \in 0..MaxEdits
      BY <2>2, <2>6
    <3>3. \A u \in Threads : acted[u] \in Int /\ acted[u] <= edits
      BY <1>1, BrowserAssumption DEF LoadInv
    <3>4. acted' \in [Threads -> 0..MaxEdits] /\ \A u \in Threads : acted'[u] = IF u = t THEN edits + 1 ELSE acted[u]
      BY <1>1, <3>1, <3>2 DEF LoadInv
    <3>5. \A u \in Threads : acted'[u] <= edits'
      BY <2>2, <2>6, <3>3, <3>4
    <3>6. flight' \subseteq Load /\ \A l \in flight' : l.wanted = FALSE
      BY <1>1, <2>4, UnwantedIs DEF LoadInv
    <3>7. /\ neighbors' \in [Threads -> Entry \cup {None}]
          /\ \A u \in Threads : neighbors'[u] = IF u = t THEN None ELSE neighbors[u]
      BY <1>1, <3>1 DEF LoadInv
    <3>8. \A u \in Threads : neighbors'[u] # None =>
            /\ neighbors'[u].repo = view'.repo /\ neighbors'[u].file = view'.file
            /\ neighbors'[u].at >= acted'[u]
      BY <1>1, <2>1, <3>4, <3>7 DEF LoadInv, Stays
    <3>9. LoadInv'
      BY <3>4, <3>5, <3>6, <3>7, <3>8 DEF LoadInv
    <3>10. ViewInv'
      BY <2>1 DEF Stays, ViewInv
    <3>11. QED
      BY <1>2, <2>1, <3>9, <3>10 DEF BrowserInv
  <2>7. QED
    BY <2>1, <2>5, <2>6
<1>5. QED
  BY <1>3, <1>4

(* Another repository, another file, and other processes.                   *)
LEMMA StoreSteps ==
  ASSUME BrowserInv,
         \/ \E r \in Repos : SwitchRepository(r)
         \/ MirrorReplaced \/ RefreshedWithoutReopening \/ Reopened \/ OtherProcessEdits
  PROVE  BrowserInv'
<1>1. StoreInv /\ ViewInv /\ MenuInv /\ LoadInv
  BY DEF BrowserInv
<1>2. ASSUME Sound(view') /\ Loaded(view'), neighbors' = [t \in Threads |-> None], flight' = Unwanted,
             UNCHANGED <<settling, confirm, acted, edits>>, StoreInv'
      PROVE  BrowserInv'
  <2>1. ViewInv' /\ MenuInv'
    BY <1>1, <1>2 DEF ViewInv, MenuInv
  <2>2. flight' \subseteq Load /\ \A l \in flight' : l.wanted = FALSE
    BY <1>1, <1>2, UnwantedIs DEF LoadInv
  <2>3. LoadInv'
    BY <1>1, <1>2, <2>2 DEF LoadInv
  <2>4. QED
    BY <1>2, <2>1, <2>3 DEF BrowserInv
<1>3. CASE \E r \in Repos : SwitchRepository(r)
  <2>1. PICK r \in Repos : SwitchRepository(r)
    BY <1>3
  <2>2. Sound(view') /\ Loaded(view')
    BY <1>1, <2>1, SwitchSteps
  <2>3. /\ neighbors' = [t \in Threads |-> None] /\ flight' = Unwanted
        /\ UNCHANGED <<settling, confirm, acted, edits, archive, file, remote>>
    BY <2>1 DEF SwitchRepository, Key, Pressed, ArchiveKept
  <2>4. StoreInv'
    BY <1>1, <2>3 DEF StoreInv
  <2>5. QED
    BY <1>2, <2>2, <2>3, <2>4
<1>4. CASE Reopened
  <2>1. Sound(view') /\ Loaded(view')
    BY <1>1, <1>4, ReopenSteps
  <2>2. /\ neighbors' = [t \in Threads |-> None] /\ flight' = Unwanted /\ remote' = "none"
        /\ UNCHANGED <<settling, confirm, acted, edits, archive, file>>
    BY <1>4 DEF Reopened
  <2>3. StoreInv'
    BY <1>1, <2>2 DEF StoreInv
  <2>4. QED
    BY <1>2, <2>1, <2>2, <2>3
<1>5. CASE MirrorReplaced \/ RefreshedWithoutReopening
  <2>1. /\ UNCHANGED <<archive, view, confirm, settling, neighbors, acted, edits>>
        /\ flight' \in {flight, Unwanted}
        /\ file' \in {file, 2} /\ remote' \in {"copied", "none"}
    BY <1>5 DEF MirrorReplaced, RefreshedWithoutReopening, LoadsKept
  <2>2. StoreInv' /\ MenuInv' /\ ViewInv' /\ edits' >= edits
    BY <1>1, <2>1, SameView DEF StoreInv, MenuInv, Files
  <2>3. LoadInv'
    BY <1>1, <2>1, <2>2, AnswersKept
  <2>4. QED
    BY <2>2, <2>3 DEF BrowserInv
<1>6. CASE OtherProcessEdits
  <2>1. /\ UNCHANGED <<file, remote, view, confirm, settling, acted, flight, neighbors>>
        /\ edits < MaxEdits /\ edits' = edits + 1
    BY <1>6 DEF OtherProcessEdits, LoadsKept
  <2>2. PICK action \in Actions, t \in Threads, moved \in BOOLEAN :
          /\ ClusterOf(t) \in archive[file].groups
          /\ archive' = [archive EXCEPT ![file] = Edited(@, action, ClusterOf(t), t, moved)]
    BY <1>6 DEF OtherProcessEdits
  <2>3. archive[file] \in Archive /\ archive \in [Files -> Archive] /\ file \in Files
        /\ edits \in 0..MaxEdits
    BY <1>1 DEF StoreInv
  <2>4. Edited(archive[file], action, ClusterOf(t), t, moved) \in Archive
    BY <2>1, <2>3, ClusterOfIs, EditedIs
  <2>5. archive' \in [Files -> Archive]
    BY <2>2, <2>3, <2>4
  <2>6. edits' \in 0..MaxEdits /\ edits' >= edits
    BY <2>1, <2>3, OneMoreEdit
  <2>7. StoreInv' /\ MenuInv' /\ ViewInv'
    BY <1>1, <2>1, <2>5, <2>6, SameView DEF StoreInv, MenuInv
  <2>8. LoadInv'
    BY <1>1, <2>1, <2>6, <2>7, AnswersKept
  <2>9. QED
    BY <2>7, <2>8 DEF BrowserInv
<1>7. QED
  BY <1>3, <1>4, <1>5, <1>6

LEMMA BrowserInvStep == BrowserInv /\ [Next]_vars => BrowserInv'
<1> SUFFICES ASSUME BrowserInv, [Next]_vars PROVE BrowserInv'
  OBVIOUS
<1>1. CASE UNCHANGED vars
  <2>1. UNCHANGED <<archive, file, remote, acted, edits, neighbors, confirm, view, settling, flight>>
    BY <1>1 DEF vars
  <2>2. Stays
    BY <2>1, SameView DEF BrowserInv
  <2>3. QED
    BY <2>1, <2>2, StayStep DEF BrowserInv, MenuInv
<1>2. CASE Next
  BY <1>2, LoopStep, NeighborSteps, MenuSteps, StoreSteps DEF Next
<1>3. QED
  BY <1>1, <1>2

LEMMA BrowserInvInit == Init => BrowserInv
<1> SUFFICES ASSUME Init PROVE BrowserInv
  OBVIOUS
<1>1. archive \in [Files -> Archive]
  <2>1. 0 \in 0..MaxEdits
    BY BrowserAssumption
  <2>2. \A groups \in SUBSET Clusters :
          [groups |-> groups, closed |-> {}, excluded |-> {}, hidden |-> {},
           updated |-> [c \in Clusters |-> 0]] \in Archive
    BY <2>1 DEF Archive
  <2>3. Published \subseteq Clusters
    BY BrowserAssumption
  <2>4. archive = [f \in Files |->
          [groups |-> IF f = 1 THEN Clusters ELSE Published, closed |-> {}, excluded |-> {},
           hidden |-> {}, updated |-> [c \in Clusters |-> 0]]]
    BY DEF Init
  <2>5. QED
    BY <2>2, <2>3, <2>4
<1>2. StoreInv /\ MenuInv
  <2>1. 0 \in 0..MaxEdits
    BY BrowserAssumption
  <2>2. QED
    BY <1>1, <2>1 DEF Init, StoreInv, MenuInv, Files
<1>3. ViewInv
  <2>1. PICK limit \in Limits, all \in BOOLEAN : view = Opening(RepoOf[Least(Clusters)], limit, all, 2)
    BY DEF Init
  <2>2. limit \in Nat
    BY BrowserAssumption
  <2>3. RepoOf[Least(Clusters)] \in Repos
    <3>1. Clusters \subseteq Nat /\ IsFiniteSet(Clusters) /\ Clusters # {} /\ RepoOf \in [Clusters -> Repos]
      BY BrowserAssumption
    <3>2. QED
      BY <3>1, LeastIs
  <2>4. QED
    BY <1>1, <2>1, <2>2, <2>3, OpeningIs DEF ViewInv
<1>4. LoadInv
  <2>1. MaxEdits \in Nat
    BY BrowserAssumption
  <2>2. acted = [t \in Threads |-> 0] /\ edits = 0 /\ flight = {} /\ neighbors = [t \in Threads |-> None]
    BY DEF Init
  <2>3. QED
    BY <2>1, <2>2 DEF LoadInv
<1>5. QED
  BY <1>2, <1>3, <1>4 DEF BrowserInv

LEMMA BrowserInvHolds == Spec => []BrowserInv
BY BrowserInvInit, BrowserInvStep, PTL DEF Spec

(* TypeOK: whatever is typed, loaded, ticked and replaced, the browser keeps *)
(* the shape of its state; with rows in the list one of them is selected,   *)
(* and the member selected is one of those shown (clusterBrowserModel).     *)
THEOREM BrowserTypes == Spec => []TypeOK
<1>1. BrowserInv => TypeOK
  <2>1. SUFFICES ASSUME BrowserInv PROVE TypeOK
    OBVIOUS
  <2>2. view \in View /\ Held(view) /\ Placed(view)
    BY <2>1 DEF BrowserInv, ViewInv, Sound, Ready
  <2>3. /\ view.clusters \in Seq(Summary) /\ view.all \in Seq(Summary) /\ view.sort \in Sorts
        /\ view.cache \in [Clusters -> Detail \cup {None}] /\ view.detail \in Detail \cup {None}
    BY <2>2 DEF View
  <2>4. QED
    BY <2>1, <2>2, <2>3 DEF TypeOK, BrowserInv, StoreInv, MenuInv, LoadInv, Held, Placed
<1>2. QED
  BY <1>1, BrowserInvHolds, PTL

(* ShowsOneStore: list, detail and neighbours on screen come from one       *)
(* repository of one file, and no neighbours outlive the closing or the     *)
(* exclusion of their thread (applyLoadedNeighbors, invalidateNeighborLoad). *)
THEOREM OneStoreIsShown == Spec => []ShowsOneStore
<1>1. BrowserInv => ShowsOneStore
  <2>1. SUFFICES ASSUME BrowserInv PROVE ShowsOneStore
    OBVIOUS
  <2>2. Lists(view) /\ Shows(view) /\ (settling \/ Loaded(view))
    BY <2>1 DEF BrowserInv, ViewInv, Sound, Ready
  <2>3. \A c \in Ids(view.clusters) \cup Ids(view.all) : RepoOf[c] = view.repo
    BY <2>2 DEF Lists
  <2>4. view.hasDetail =>
          /\ RepoOf[view.detail.id] = view.repo
          /\ Current(view) \in Clusters /\ view.detail.id # Current(view) => settling
    BY <2>2 DEF Shows, Loaded
  <2>5. QED
    BY <2>1, <2>3, <2>4 DEF ShowsOneStore, BrowserInv, LoadInv
<1>2. QED
  BY <1>1, BrowserInvHolds, PTL

(* SelectionFollowsUser: what a refresh, a new order, a filter, a command or *)
(* an answer does to the rows, the selected cluster and member stay selected *)
(* while they show, and a jump lands (applyClusterRefresh,                  *)
(* restoreMemberSelection, selectClusterForJump).                           *)
THEOREM SelectionIsTheUsers == Spec => SelectionFollowsUser
<1> DEFINE ByUser == \/ SelectCluster \/ SelectMember \/ WheelScrolls \/ Jump
                     \/ FilterClusters \/ \E r \in Repos : SwitchRepository(r)
           Step == /\ LeavesPlace => ByUser
                   /\ \A t \in Threads : Key /\ JumpTo(t) /\ Counted(ClusterOf(t)) => Lands(t)
<1>1. BrowserInv /\ [Next]_vars => [Step]_vars
  <2>1. SUFFICES ASSUME BrowserInv, Next PROVE Step
    OBVIOUS
  <2>2. StoreInv /\ ViewInv /\ MenuInv
    BY <2>1 DEF BrowserInv
  <2>3. \A t \in Threads : Key /\ JumpTo(t) /\ Counted(ClusterOf(t)) => Lands(t)
    BY <2>2, JumpSteps
  <2>4. view' = view => KeepsPlace(view, view')
    BY DEF KeepsPlace
  <2>5. ByUser \/ KeepsPlace(view, view')
    <3>1. CASE AutoRefresh \/ ManualRefresh \/ ToggleClosed
      BY <2>2, <3>1, RefreshSteps
    <3>2. CASE SelectCluster \/ SortClusters \/ WheelSettles
      BY <2>2, <3>2, LoadSteps
    <3>3. CASE ChangeMinSize \/ FilterClusters
      BY <2>2, <3>3, FilterSteps
    <3>4. CASE SelectMember \/ SortMembers \/ WheelScrolls
      BY <2>2, <3>4, PointSteps
    <3>5. CASE Confirm
      BY <2>2, <3>5, ConfirmSteps
    <3>6. CASE Reopened
      BY <2>2, <3>6, ReopenSteps
    <3>7. CASE \/ RequestNeighbors \/ \E l \in flight : NeighborsLoaded(l)
               \/ OpenConfirm \/ CloseMenu
               \/ MirrorReplaced \/ RefreshedWithoutReopening \/ OtherProcessEdits
      BY <2>4, <3>7 DEF RequestNeighbors, NeighborsLoaded, OpenConfirm, CloseMenu, MirrorReplaced,
         RefreshedWithoutReopening, OtherProcessEdits
    <3>8. CASE Jump \/ \E r \in Repos : SwitchRepository(r)
      BY <3>8
    <3>9. QED
      BY <2>1, <3>1, <3>2, <3>3, <3>4, <3>5, <3>6, <3>7, <3>8 DEF Next
  <2>6. KeepsPlace(view, view') => ~LeavesPlace
    BY DEF KeepsPlace, LeavesPlace
  <2>7. QED
    BY <2>3, <2>5, <2>6
<1> HIDE DEF Step
<1>2. QED
  BY <1>1, BrowserInvHolds, PTL DEF Spec, SelectionFollowsUser, Step

(* RefreshIsCurrent: after a refresh on demand no row and no detail is older *)
(* than the store, but for rows kept for want of a limit, and no row the    *)
(* store lists is missing (refreshFromStore, applyClusterRefresh).          *)
THEOREM RefreshesAreCurrent == Spec => RefreshIsCurrent
<1> DEFINE Step ==
      ManualRefresh =>
        /\ \A i \in DOMAIN view'.clusters :
             LET s == view'.clusters[i]
             IN \/ \E all \in BOOLEAN : s = Summarized(Store, s.id, all)
                \/ view.limit = 0 /\ s \in ToSet(view.all)
        /\ view.limit = 0 /\ ~view.search =>
             \A s \in ToSet(Listed(Store, view.repo, view.showClosed, view.minSize, Unlimited, view.sort)) :
               s.id \in Ids(view'.clusters)
        /\ view'.hasDetail => view'.detail = Detailed(Store, view'.detail.id)
<1>1. BrowserInv => Step
  <2>1. SUFFICES ASSUME BrowserInv, ManualRefresh PROVE Step
    OBVIOUS
  <2> DEFINE list == loadClusterSummariesFromStore(view, Store)
             w == applyClusterRefresh(view, Store, list)
  <2>2. /\ view \in View /\ Lists(view) /\ Store \in Archive
        /\ view.showClosed \in BOOLEAN
    BY <2>1, StoreIs DEF BrowserInv, ViewInv, Sound, Ready, View
  <2>3. view' = w
    BY <2>1 DEF ManualRefresh, Refreshed
  <2>4. /\ list \in Seq(Summary) /\ \A c \in Ids(list) : RepoOf[c] = view.repo
        /\ \A s \in ToSet(list) : s = Summarized(Store, s.id, view.showClosed)
        /\ view.limit = 0 => Listable(Store, view.repo, view.showClosed, view.minSize) \subseteq ToSet(list)
    BY <2>2, ReadIs
  <2> HIDE DEF list
  <2>5. /\ ToSet(list) \subseteq ToSet(Retained(view, list))
        /\ ToSet(Retained(view, list)) \subseteq ToSet(list) \cup ToSet(view.all)
        /\ view.limit # 0 => Retained(view, list) = list
    BY <2>2, <2>4, RetainedIs
  <2>6. /\ Sound(w) /\ ToSet(w.clusters) \subseteq ToSet(Retained(view, list))
        /\ view.limit = 0 =>
             \A s \in ToSet(Retained(view, list)) : Passes(view, s) => s \in ToSet(w.clusters)
        /\ Fresh(w, Store)
    BY <2>2, <2>4, RefreshIs
  <2> HIDE DEF w
  <2>7. ASSUME NEW i \in DOMAIN w.clusters
        PROVE  \/ \E all \in BOOLEAN : w.clusters[i] = Summarized(Store, w.clusters[i].id, all)
               \/ view.limit = 0 /\ w.clusters[i] \in ToSet(view.all)
    <3>1. w.clusters[i] \in ToSet(w.clusters)
      BY DEF ToSet
    <3>2. QED
      BY <2>2, <2>4, <2>5, <2>6, <3>1
  <2>8. ASSUME view.limit = 0, ~view.search,
               NEW s \in ToSet(Listed(Store, view.repo, view.showClosed, view.minSize, Unlimited, view.sort))
        PROVE  s.id \in Ids(w.clusters)
    <3>1. s \in Listable(Store, view.repo, view.showClosed, view.minSize)
      BY <2>2, <2>8, UnlimitedIs, ListedIs
    <3>2. Passes(view, s)
      BY <2>2, <2>8, <3>1, ListableIs DEF Passes
    <3>3. s \in ToSet(w.clusters)
      BY <2>4, <2>5, <2>6, <2>8, <3>1, <3>2
    <3>4. QED
      BY <3>3, IdsOf
  <2>9. w.hasDetail => w.detail = Detailed(Store, w.detail.id)
    <3>1. Shows(w) /\ w \in View /\ (w.detail \in Detail \cup {None})
      BY <2>6 DEF Sound, Ready, View
    <3>2. w.hasDetail => w.detail.id \in Clusters /\ w.cache[w.detail.id] # None
      BY <3>1, DetailProperties DEF Shows
    <3>3. QED
      BY <2>6, <3>1, <3>2 DEF Shows, Fresh
  <2>10. QED
    BY <2>3, <2>7, <2>8, <2>9
<1> HIDE DEF Step
<1>2. QED
  BY <1>1, BrowserInvHolds, PTL DEF Spec, RefreshIsCurrent, Step

-----------------------------------------------------------------------------
(* What a confirmed command acts on *)

\* Whatever is loaded, sorted or filtered, the file the browser has open stays.
SameFile(v, w) == "file" \in DOMAIN v => "file" \in DOMAIN w /\ w.file = v.file

LEMMA SameFileTransitive ==
  ASSUME NEW u, NEW v, NEW w, SameFile(u, v), SameFile(v, w)
  PROVE  SameFile(u, w)
BY DEF SameFile

LEMMA RestoredSameFile == ASSUME NEW v, NEW t PROVE SameFile(v, Restored(v, t))
BY DEF SameFile, Restored

LEMMA MembersSameFile == ASSUME NEW v PROVE SameFile(v, sortMembers(v))
<1> DEFINE rows == IF v.detail = None THEN {} ELSE Rows(v.detail, v.showClosed)
           w == [v EXCEPT !.rows = rows,
                          !.member = IF rows = {} THEN NoThread ELSE Least(rows)]
<1>1. sortMembers(v) = Restored(w, v.member)
  BY DEF sortMembers
<1>2. SameFile(v, w)
  BY DEF SameFile
<1>3. QED
  BY <1>1, <1>2, RestoredSameFile, SameFileTransitive

LEMMA AtSameFile == ASSUME NEW v, NEW c, NEW i PROVE SameFile(v, At(v, c, i))
BY DEF SameFile, At

LEMMA SortedSameFile == ASSUME NEW v, NEW sort PROVE SameFile(v, Sorted(v, sort))
<1> DEFINE w == [v EXCEPT !.sort = sort, !.clusters = sortClusters(@, sort)]
<1>1. SameFile(v, w)
  BY DEF SameFile
<1>2. Sorted(v, sort) = At(w, Current(v), v.selected)
  BY DEF Sorted
<1>3. QED
  BY <1>1, <1>2, AtSameFile, SameFileTransitive

LEMMA LoadedSameFile ==
  ASSUME NEW v, NEW a
  PROVE  SameFile(v, loadSelectedCluster(v, a))
<1> DEFINE blank == [v EXCEPT !.member = NoThread, !.rows = {}, !.hasDetail = FALSE]
           c == Current(v)
           d == IF v.cache[c] # None THEN v.cache[c] ELSE Detailed(a, c)
           w == [blank EXCEPT !.cache[c] = d, !.detail = d, !.hasDetail = TRUE]
           shown == sortMembers(w)
<1>1. loadSelectedCluster(v, a) \in {blank, shown, Restored(shown, v.member)}
  BY DEF loadSelectedCluster
<1>2. SameFile(v, blank)
  BY DEF SameFile
<1> HIDE DEF blank
<1>3. SameFile(blank, w)
  BY DEF SameFile
<1> HIDE DEF w
<1>4. SameFile(v, shown)
  BY <1>2, <1>3, MembersSameFile, SameFileTransitive
<1> HIDE DEF shown
<1>5. SameFile(v, Restored(shown, v.member))
  BY <1>4, RestoredSameFile, SameFileTransitive
<1>6. QED
  BY <1>1, <1>2, <1>4, <1>5

LEMMA FilteredSameFile ==
  ASSUME NEW v, NEW a
  PROVE  SameFile(v, applyClusterFilters(v, a))
<1>1. PICK kept, c : applyClusterFilters(v, a)
                       = loadSelectedCluster(At([v EXCEPT !.clusters = kept], c, 1), a)
  BY DEF applyClusterFilters
<1>2. SameFile(v, [v EXCEPT !.clusters = kept])
  BY DEF SameFile
<1>3. SameFile(v, At([v EXCEPT !.clusters = kept], c, 1))
  BY <1>2, AtSameFile, SameFileTransitive
<1>4. QED
  BY <1>1, <1>3, LoadedSameFile, SameFileTransitive

LEMMA RelaxedSameFile ==
  ASSUME NEW v, NEW a
  PROVE  SameFile(v, relaxFiltersIfEmpty(v, a))
<1>1. SameFile(v, v) /\ SameFile(v, [v EXCEPT !.showClosed = TRUE, !.minSize = 1])
  BY DEF SameFile
<1>2. QED
  BY <1>1, FilteredSameFile, SameFileTransitive DEF relaxFiltersIfEmpty

LEMMA RefreshedSameFile ==
  ASSUME NEW v, NEW a, NEW list
  PROVE  SameFile(v, applyClusterRefresh(v, a, list))
<1> DEFINE all == Retained(v, list)
           fresh == [ForgetDetails(v) EXCEPT !.all = all, !.clusters = all]
           shown == relaxFiltersIfEmpty(applyClusterFilters(fresh, a), a)
<1>1. SameFile(v, fresh)
  BY DEF SameFile, ForgetDetails
<1>2. PICK key, before :
        applyClusterRefresh(v, a, list)
          \in {shown, Restored(
                        loadSelectedCluster(At(shown, key, 1), a), before)}
  BY DEF applyClusterRefresh
<1> HIDE DEF fresh
<1>3. SameFile(v, shown)
  BY <1>1, FilteredSameFile, RelaxedSameFile, SameFileTransitive
<1> HIDE DEF shown
<1>4. SameFile(v, loadSelectedCluster(At(shown, key, 1), a))
  BY <1>3, AtSameFile, LoadedSameFile, SameFileTransitive
<1>5. QED
  BY <1>2, <1>3, <1>4, RestoredSameFile, SameFileTransitive

LEMMA JumpSameFile ==
  ASSUME NEW v, NEW c, NEW a
  PROVE  SameFile(v, selectClusterForJump(v, c, a))
<1> DEFINE Select(w) == loadSelectedCluster(At(w, c, 1), a)
           s == v.all[CHOOSE i \in DOMAIN v.all : v.all[i].id = c]
           widened == applyClusterFilters(
             [v EXCEPT !.search = FALSE,
                       !.minSize = IF @ > s.count THEN 1 ELSE @,
                       !.showClosed = @ \/ s.closed,
                       !.limit = IF @ > 0 /\ Len(v.all) > @ THEN Len(v.all) ELSE @], a)
<1>1. selectClusterForJump(v, c, a) \in {v, widened, Select(v), Select(widened)}
  BY DEF selectClusterForJump
<1>2. ASSUME NEW x, NEW y, NEW z
      PROVE  SameFile(v, [v EXCEPT !.search = FALSE, !.minSize = x, !.showClosed = y, !.limit = z])
  BY DEF SameFile
<1>3. SameFile(v, widened)
  BY <1>2, FilteredSameFile, SameFileTransitive
<1> HIDE DEF widened
<1>4. SameFile(v, v)
  BY DEF SameFile
<1>5. \A w : SameFile(w, Select(w))
  BY AtSameFile, LoadedSameFile, SameFileTransitive
<1> HIDE DEF Select
<1>6. QED
  BY <1>1, <1>3, <1>4, <1>5, SameFileTransitive

\* While a menu is open that was opened after the wheel had settled, nothing but
\* a file that cannot be written takes the place of what the menu names.
NamedInv ==
  /\ "file" \in DOMAIN view /\ settling \in BOOLEAN
  /\ confirm # NoMenu /\ confirm.settled =>
       /\ ~settling
       /\ view.file = 1 =>
            Current(view) = confirm.cluster /\ view.member = confirm.thread

(* Steps taken with no menu open, or that close it.                         *)
LEMMA UnnamedStep ==
  ASSUME NamedInv, SameFile(view, view'), confirm' = NoMenu, settling' \in BOOLEAN
  PROVE  NamedInv'
BY DEF NamedInv, SameFile, NoMenu

(* The list is read again.                                                  *)
LEMMA RefreshNames ==
  ASSUME NEW v, SameFile(view, v), Refreshed(v)
  PROVE  SameFile(view, view')
BY RefreshedSameFile, SameFileTransitive DEF Refreshed

(* Keys of the list.                                                        *)
LEMMA KeysName ==
  ASSUME NamedInv,
         \/ ManualRefresh \/ ToggleClosed \/ SelectCluster
         \/ SelectMember \/ SortClusters \/ SortMembers
         \/ ChangeMinSize \/ FilterClusters \/ Jump
         \/ RequestNeighbors \/ \E r \in Repos : SwitchRepository(r)
  PROVE  NamedInv'
<1>1. confirm' = NoMenu /\ settling' \in BOOLEAN
  BY DEF NamedInv, Key, Pressed, ManualRefresh, ToggleClosed,
     SelectCluster, SelectMember, SortClusters, SortMembers,
     ChangeMinSize, FilterClusters, Jump, RequestNeighbors,
     SwitchRepository
<1>2. SUFFICES SameFile(view, view')
  BY <1>1, UnnamedStep
<1>3. ASSUME NEW x
      PROVE  /\ SameFile(view, view)
             /\ SameFile(view, [view EXCEPT !.showClosed = x])
             /\ SameFile(view, [view EXCEPT !.selected = x])
             /\ SameFile(view, [view EXCEPT !.member = x])
             /\ SameFile(view, [view EXCEPT !.minSize = x])
             /\ SameFile(view, [view EXCEPT !.search = x])
  BY DEF SameFile
<1>4. CASE ManualRefresh
  BY <1>3, <1>4, RefreshNames DEF ManualRefresh
<1>5. CASE ToggleClosed
  BY <1>3, <1>5, RefreshNames DEF ToggleClosed
<1>6. CASE SelectCluster
  BY <1>3, <1>6, LoadedSameFile, SameFileTransitive DEF SelectCluster
<1>7. CASE SelectMember
  BY <1>3, <1>7 DEF SelectMember
<1>8. CASE SortClusters
  BY <1>8, SortedSameFile, LoadedSameFile, SameFileTransitive DEF SortClusters
<1>9. CASE SortMembers
  BY <1>9, MembersSameFile DEF SortMembers
<1>10. CASE ChangeMinSize
  BY <1>3, <1>10, FilteredSameFile, SameFileTransitive DEF ChangeMinSize
<1>11. CASE FilterClusters
  <2> DEFINE typed == applyClusterFilters([view EXCEPT !.search = ~@], Store)
  <2>1. PICK query : view' = applyClusterFilters([typed EXCEPT !.search = query],
                                                         Store)
    BY <1>11 DEF FilterClusters
  <2>2. SameFile(view, typed)
    BY <1>3, FilteredSameFile, SameFileTransitive
  <2> HIDE DEF typed
  <2>3. SameFile(typed, [typed EXCEPT !.search = query])
    BY DEF SameFile
  <2>4. QED
    BY <2>1, <2>2, <2>3, FilteredSameFile, SameFileTransitive
<1>12. CASE Jump
  <2>1. PICK t \in Threads : JumpTo(t)
    BY <1>12 DEF Jump
  <2> DEFINE c == ClusterOf(t)
             d == Detailed(Store, c)
             found == [view EXCEPT !.cache[c] = d,
                                   !.all = IF c \in Ids(@) THEN @ ELSE Append(@, d.summary)]
  <2>2. PICK v \in {view, found} :
          view' = Restored(selectClusterForJump(v, c, Store), t)
    BY <2>1 DEF JumpTo
  <2>3. SameFile(view, found)
    BY DEF SameFile
  <2> HIDE DEF found
  <2>4. SameFile(view, v)
    BY <1>3, <2>3
  <2>5. QED
    BY <2>2, <2>4, JumpSameFile, RestoredSameFile, SameFileTransitive
<1>13. CASE RequestNeighbors
  BY <1>3, <1>13 DEF RequestNeighbors
<1>14. CASE \E r \in Repos : SwitchRepository(r)
  <2>1. PICK r \in Repos : SwitchRepository(r)
    BY <1>14
  <2>2. PICK list :
          view' = relaxFiltersIfEmpty(applyClusterFilters(
                    [ForgetDetails(view) EXCEPT
                       !.repo = r, !.all = list, !.clusters = list, !.search = FALSE,
                       !.selected = 1, !.detail = None, !.hasDetail = FALSE, !.rows = {},
                       !.member = NoThread], Store), Store)
    BY <2>1 DEF SwitchRepository
  <2> DEFINE blank == [ForgetDetails(view) EXCEPT
                         !.repo = r, !.all = list, !.clusters = list, !.search = FALSE,
                         !.selected = 1, !.detail = None, !.hasDetail = FALSE, !.rows = {},
                         !.member = NoThread]
  <2>3. SameFile(view, blank)
    BY DEF SameFile, ForgetDetails
  <2>4. view' = relaxFiltersIfEmpty(
                  applyClusterFilters(blank, Store), Store)
    BY <2>2
  <2> HIDE DEF blank
  <2>5. QED
    BY <2>3, <2>4, FilteredSameFile, RelaxedSameFile, SameFileTransitive
<1>15. QED
  BY <1>4, <1>5, <1>6, <1>7, <1>8, <1>9, <1>10, <1>11, <1>12, <1>13, <1>14

LEMMA NamedStep == NamedInv /\ [Next]_(vars) => NamedInv'
<1> SUFFICES ASSUME NamedInv, [Next]_(vars) PROVE NamedInv'
  OBVIOUS
<1>0. SameFile(view, view)
  BY DEF SameFile
<1>1. CASE AutoRefresh
  <2>1. /\ confirm' = NoMenu /\ settling' \in BOOLEAN
        /\ view' = view \/ Refreshed(view)
    BY <1>1 DEF NamedInv, AutoRefresh, Idle
  <2>2. QED
    BY <1>0, <2>1, RefreshNames, UnnamedStep
<1>2. CASE WheelScrolls
  <2>1. confirm' = NoMenu /\ settling' \in BOOLEAN
    BY <1>2 DEF NamedInv, WheelScrolls, Pressed, Settling
  <2>2. SameFile(view, view')
    BY <1>2 DEF WheelScrolls, SameFile
  <2>3. QED
    BY <2>1, <2>2, UnnamedStep
<1>3. CASE WheelSettles
  <2>1. settling /\ settling' = FALSE /\ confirm' = confirm /\ SameFile(view, view')
    BY <1>3, LoadedSameFile DEF WheelSettles
  <2>2. ~(confirm # NoMenu /\ confirm.settled)
    BY <2>1 DEF NamedInv
  <2>3. QED
    BY <2>1, <2>2 DEF NamedInv, SameFile, NoMenu
<1>4. ASSUME UNCHANGED <<view, confirm, settling>> PROVE NamedInv'
  BY <1>4 DEF NamedInv, NoMenu, Current, None
<1>5. CASE \E l \in flight : NeighborsLoaded(l)
  BY <1>4, <1>5 DEF NeighborsLoaded
<1>6. CASE OpenConfirm
  <2>1. PICK action : confirm' = [action |-> action, cluster |-> Current(view),
                                  thread |-> view.member, settled |-> ~settling]
    BY <1>6 DEF OpenConfirm
  <2>2. UNCHANGED <<view, settling>>
    BY <1>6 DEF OpenConfirm
  <2>3. Current(view)' = Current(view)
    BY <2>2 DEF Current, None
  <2>4. QED
    BY <2>1, <2>2, <2>3 DEF NamedInv
<1>7. CASE CloseMenu
  BY <1>0, <1>7, UnnamedStep DEF CloseMenu, NamedInv
<1>8. CASE Confirm
  <2>1. confirm' = NoMenu /\ settling' \in BOOLEAN
    BY <1>8 DEF NamedInv, Confirm
  <2>2. \/ view' = view
        \/ \E a, list : view' = applyClusterRefresh(view, a, list)
    BY <1>8 DEF Confirm
  <2>3. QED
    BY <1>0, <2>1, <2>2, RefreshedSameFile, UnnamedStep
<1>9. CASE MirrorReplaced \/ RefreshedWithoutReopening \/ OtherProcessEdits
  BY <1>4, <1>9 DEF MirrorReplaced, RefreshedWithoutReopening,
     OtherProcessEdits
<1>10. CASE Reopened
  <2> DEFINE v == [ForgetDetails(view) EXCEPT !.file = 2]
  <2>1. /\ UNCHANGED <<confirm, settling>>
        /\ \E a, list : view' = applyClusterRefresh(v, a, list)
    BY <1>10 DEF Reopened
  <2>2. "file" \in DOMAIN v /\ v.file = 2
    BY DEF NamedInv, ForgetDetails
  <2> HIDE DEF v
  <2>3. "file" \in DOMAIN view' /\ view'.file = 2
    BY <2>1, <2>2, RefreshedSameFile DEF SameFile
  <2>4. QED
    BY <2>1, <2>3 DEF NamedInv, NoMenu
<1>11. CASE UNCHANGED vars
  BY <1>4, <1>11 DEF vars
<1>12. QED
  BY <1>1, <1>2, <1>3, <1>5, <1>6, <1>7, <1>8, <1>9, <1>10, <1>11, KeysName DEF Next

LEMMA NamedInitially == Init => NamedInv
<1>1. SUFFICES ASSUME Init PROVE NamedInv
  OBVIOUS
<1>2. PICK repo, limit, all : view = Opening(repo, limit, all, 2)
  BY <1>1 DEF Init
<1>3. PICK v, a : /\ Opening(repo, limit, all, 2) = applyClusterFilters(v, a)
                  /\ "file" \in DOMAIN v
  BY DEF Opening
<1>4. "file" \in DOMAIN view
  BY <1>2, <1>3, FilteredSameFile DEF SameFile
<1>5. QED
  BY <1>1, <1>4 DEF NamedInv, Init

(* ConfirmsWhatItNamed: whatever ticks, answers of background loads, other   *)
(* processes and the replacement of the file do while a confirmation is open *)
(* (tui.go), the command acts on the cluster and the thread it named.       *)
THEOREM ConfirmsWhatMenusNamed == Spec => ConfirmsWhatItNamed
<1>1. NamedInv /\ [Next]_(vars) =>
        [ confirm # NoMenu /\ confirm' = NoMenu /\ archive' # archive
            /\ confirm.settled
          => Current(view) = confirm.cluster /\ view.member = confirm.thread
        ]_(vars)
  <2>1. SUFFICES ASSUME NamedInv, Next, confirm # NoMenu,
                        confirm' = NoMenu, archive' # archive, confirm.settled
                 PROVE  Current(view) = confirm.cluster /\ view.member = confirm.thread
    OBVIOUS
  <2>2. Confirm
    BY <2>1 DEF Next, ArchiveKept, AutoRefresh, ManualRefresh,
       ToggleClosed, SelectCluster, SelectMember, SortClusters,
       SortMembers, ChangeMinSize, WheelScrolls, WheelSettles,
       FilterClusters, Jump, RequestNeighbors, NeighborsLoaded,
       OpenConfirm, CloseMenu, SwitchRepository, MirrorReplaced,
       RefreshedWithoutReopening, Reopened, OtherProcessEdits
  <2>3. view.file = 1
    BY <2>1, <2>2 DEF Confirm, Succeeds, Writable
  <2>4. QED
    BY <2>1, <2>3 DEF NamedInv
<1>2. QED
  BY <1>1, NamedInitially, NamedStep, PTL DEF Spec, ConfirmsWhatItNamed

=============================================================================

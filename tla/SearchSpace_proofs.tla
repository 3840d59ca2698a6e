-------------------------- MODULE SearchSpace_proofs --------------------------
(***************************************************************************)
(* Theorems about the search of a deep scan, for any partition.            *)
(*                                                                         *)
(* The first half is about lists of ranges: what inserting, removing and   *)
(* replacing one of them does to its order and its sectors (IsList,        *)
(* SpaceOf), what Runs, Give_Back_All and Update_Blocksize return, and     *)
(* that sets of whole blocks (Whole) are closed under all that is done to  *)
(* them.  The second half is the invariant: Fixed and SoundAt say that the *)
(* list, the open file and the files kept share the sectors between them,  *)
(* in whole blocks.  OnTheWay says that the place of the walk is a block   *)
(* of the list (GoodPlace), and that a block that was not looked at yet is *)
(* free and lies at that place or behind it, and behind the header passed  *)
(* over (ToSee).  Every lemma named for an action shows that it keeps the  *)
(* invariant, and that sectors leave what is free only with a file that is *)
(* kept (Carved).                                                          *)
(***************************************************************************)
EXTENDS SearchSpace, NatInduction, SequenceTheorems, FiniteSetTheorems

----------------------------------------------------------------------------
(* Numbers in order *)

\* A set of natural numbers has a least one.
LEMMA LeastOf ==
    ASSUME NEW S \in SUBSET Nat, S # {}
    PROVE  \E m \in S : \A s \in S : m <= s
<1> DEFINE T == {n \in Nat : \A s \in S : n <= s}
<1>1. SUFFICES ASSUME \A m \in S : \E s \in S : ~(m <= s) PROVE FALSE
    OBVIOUS
<1>2. 0 \in T
    OBVIOUS
<1>3. ASSUME NEW n \in Nat, n \in T PROVE n + 1 \in T
    <2>1. n \notin S
        BY <1>1, <1>3
    <2>2. ASSUME NEW s \in S PROVE n + 1 <= s
        <3>1. n <= s /\ n # s /\ s \in Nat
            BY <1>3, <2>1
        <3> QED
            BY <3>1
    <2> QED
        BY <2>2
<1>4. Nat \subseteq T
    <2> HIDE DEF T
    <2> QED
        BY <1>2, <1>3, NatSet
<1>5. PICK s \in S : s \in Nat
    OBVIOUS
<1>6. s + 1 \in T
    BY <1>4, <1>5
<1> QED
    BY <1>5, <1>6

LEMMA MinOf ==
    ASSUME NEW S \in SUBSET Nat, S # {}
    PROVE  Min(S) \in S /\ \A s \in S : Min(S) <= s
BY LeastOf DEF Min

\* A bounded one has a greatest.
LEMMA MaxOf ==
    ASSUME NEW n \in Nat, NEW S \in SUBSET (0 .. n), S # {}
    PROVE  Max(S) \in S /\ \A s \in S : s <= Max(S)
<1> DEFINE T == {d \in 0 .. n : n - d \in S}
<1>1. T # {}
    <2>1. PICK s \in S : s \in 0 .. n
        OBVIOUS
    <2>2. n - s \in 0 .. n /\ n - (n - s) = s
        BY <2>1
    <2>3. n - s \in T
        BY <2>1, <2>2
    <2> QED
        BY <2>3
<1>2. PICK d \in T : \A e \in T : d <= e
    <2>1. T \in SUBSET Nat
        OBVIOUS
    <2> HIDE DEF T
    <2> QED
        BY <1>1, <2>1, LeastOf
<1>3. n - d \in S
    OBVIOUS
<1>4. ASSUME NEW s \in S PROVE n - d >= s
    <2>1. n - s \in 0 .. n /\ n - (n - s) = s
        OBVIOUS
    <2>2. n - s \in T
        BY <2>1
    <2>3. d <= n - s
        BY <1>2, <2>2
    <2>4. d \in 0 .. n /\ s \in 0 .. n
        OBVIOUS
    <2> QED
        BY <2>3, <2>4
<1>5. \E x \in S : \A s \in S : x >= s
    BY <1>3, <1>4
<1>6. Max(S) \in S /\ \A s \in S : Max(S) >= s
    BY <1>5 DEF Max
<1> QED
    BY <1>6

\* How many numbers of S are not above s.
Rank(S, s) == Cardinality({t \in S : t <= s})

LEMMA RankGrows ==
    ASSUME NEW n \in Nat, NEW S \in SUBSET (0 .. n)
    PROVE  /\ IsFiniteSet(S) /\ Cardinality(S) \in Nat
           /\ \A s \in S : Rank(S, s) \in 1 .. Cardinality(S)
           /\ \A s, t \in S : s < t => Rank(S, s) < Rank(S, t)
<1>1. IsFiniteSet(S) /\ Cardinality(S) \in Nat
    <2>1. IsFiniteSet(0 .. n)
        BY FS_Interval
    <2> QED
        BY <2>1, FS_Subset, FS_CardinalityType
<1>2. \A s \in S : /\ IsFiniteSet({t \in S : t <= s}) /\ Rank(S, s) \in Nat
                   /\ Rank(S, s) <= Cardinality(S)
    BY <1>1, FS_Subset, FS_CardinalityType DEF Rank
<1>3. ASSUME NEW s \in S PROVE Rank(S, s) # 0
    <2>1. s \in {t \in S : t <= s}
        OBVIOUS
    <2> QED
        BY <1>2, <2>1, FS_EmptySet DEF Rank
<1>4. ASSUME NEW s \in S, NEW u \in S, s < u PROVE Rank(S, s) < Rank(S, u)
    <2> DEFINE A == {t \in S : t <= s}  B == {t \in S : t <= u}
    <2>1. A \subseteq B
        <3> SUFFICES ASSUME NEW t \in S, t <= s PROVE t <= u
            OBVIOUS
        <3>1. t \in Int /\ s \in Int /\ u \in Int
            OBVIOUS
        <3> QED
            BY <1>4, <3>1
    <2>2. u \in B /\ u \notin A
        BY <1>4
    <2>3. IsFiniteSet(B) /\ Cardinality(A) \in Nat /\ Cardinality(B) \in Nat
        BY <1>2 DEF Rank
    <2> HIDE DEF A, B
    <2>4. Cardinality(A) <= Cardinality(B) /\ Cardinality(A) # Cardinality(B)
        BY <2>1, <2>2, <2>3, FS_Subset
    <2> QED
        BY <2>3, <2>4 DEF Rank, A, B
<1>5. \A s \in S : Rank(S, s) \in 1 .. Cardinality(S)
    <2> TAKE s \in S
    <2>1. PICK k \in Nat : k = Rank(S, s) /\ k <= Cardinality(S) /\ k # 0
        BY <1>2, <1>3
    <2>2. k \in 1 .. Cardinality(S)
        BY <1>1, <2>1
    <2> QED
        BY <2>1, <2>2
<1> QED
    BY <1>1, <1>4, <1>5

\* In_Order lists each number of S, in ascending order.
LEMMA InOrder ==
    ASSUME NEW n \in Nat, NEW S \in SUBSET (0 .. n)
    PROVE  /\ Cardinality(S) \in Nat
           /\ In_Order(S) \in [1 .. Cardinality(S) -> S]
           /\ \A k, m \in 1 .. Cardinality(S) : k < m => In_Order(S)[k] < In_Order(S)[m]
           /\ \A s \in S : \E k \in 1 .. Cardinality(S) : In_Order(S)[k] = s
<1> DEFINE N == Cardinality(S)
           rank == [s \in S |-> Rank(S, s)]
           order == In_Order(S)
<1>1. /\ IsFiniteSet(S) /\ N \in Nat
      /\ \A s \in S : Rank(S, s) \in 1 .. N
      /\ \A s, t \in S : s < t => Rank(S, s) < Rank(S, t)
    BY RankGrows
<1>2. rank \in Surjection(S, 1 .. N)
    <2>1. rank \in [S -> 1 .. N]
        BY <1>1
    <2>2. ASSUME NEW s \in S, NEW t \in S, rank[s] = rank[t] PROVE s = t
        <3>1. ~(s < t) /\ ~(t < s)
            BY <1>1, <2>2
        <3>2. s \in Int /\ t \in Int
            OBVIOUS
        <3> QED
            BY <3>1, <3>2
    <2>3. rank \in Injection(S, 1 .. N)
        BY <2>1, <2>2 DEF Injection, IsInjective
    <2>4. IsFiniteSet(1 .. N) /\ Cardinality(1 .. N) = N
        BY <1>1, FS_Interval
    <2> QED
        BY <2>3, <2>4, FS_Injection
<1>3. \A k \in 1 .. N : \E s \in S : Rank(S, s) = k
    BY <1>2 DEF Surjection
<1>4. \A k \in 1 .. N : order[k] \in S /\ Rank(S, order[k]) = k
    BY <1>3 DEF In_Order, Rank
<1>5. order \in [1 .. N -> S]
    <2>1. order = [k \in 1 .. N |-> order[k]]
        BY DEF In_Order
    <2> HIDE DEF order
    <2> QED
        BY <1>4, <2>1
<1> HIDE DEF order
<1>6. ASSUME NEW k \in 1 .. N, NEW m \in 1 .. N, k < m PROVE order[k] < order[m]
    <2>1. PICK s \in S, t \in S : s = order[k] /\ t = order[m] /\ Rank(S, s) = k /\ Rank(S, t) = m
        BY <1>4
    <2>2. s # t /\ ~(t < s)
        BY <1>1, <1>6, <2>1
    <2>3. s \in Int /\ t \in Int
        OBVIOUS
    <2> QED
        BY <2>1, <2>2, <2>3
<1>7. ASSUME NEW s \in S PROVE \E k \in 1 .. N : order[k] = s
    <2>1. PICK k \in 1 .. N : k = Rank(S, s)
        BY <1>1
    <2>2. PICK t \in S : t = order[k] /\ Rank(S, t) = k
        BY <1>4
    <2>3. ~(s < t) /\ ~(t < s) /\ s \in Int /\ t \in Int
        BY <1>1, <2>1, <2>2
    <2> QED
        BY <2>2, <2>3
<1> QED
    BY <1>1, <1>5, <1>6, <1>7 DEF order

----------------------------------------------------------------------------
(* Lists of ranges *)

\* A list of ranges, each in R, in ascending order and apart.
IsList(list, R) ==
    /\ list \in Seq(R)
    /\ \A i, j \in 1 .. Len(list) : i < j => list[i].end < list[j].start

RangeType == {r \in [start : Nat, end : Nat, file_stat : BOOLEAN] : r.start <= r.end}

SpaceOf(list) == UNION {SectorsOf(list[i]) : i \in DOMAIN list}

\* c is a sequence of h elements and then one of m.
IsConcat(c, a, h, b, m) ==
    /\ Len(c) = h + m
    /\ \A k \in 1 .. h : c[k] = a[k]
    /\ \A k \in 1 .. m : c[h + k] = b[k]

LEMMA Concat ==
    ASSUME NEW S, NEW a \in Seq(S), NEW b \in Seq(S), NEW h, h = Len(a), NEW m, m = Len(b)
    PROVE  a \o b \in Seq(S) /\ IsConcat(a \o b, a, h, b, m)
BY DEF IsConcat

\* new is s with e in position i.
Inserted(new, s, i, e) ==
    /\ Len(new) = Len(s) + 1
    /\ \A k \in 1 .. i - 1 : new[k] = s[k]
    /\ new[i] = e
    /\ \A k \in i .. Len(s) : new[k + 1] = s[k]

LEMMA InsertElements ==
    ASSUME NEW S, NEW s \in Seq(S), NEW i \in 1 .. Len(s) + 1, NEW e \in S
    PROVE  InsertAt(s, i, e) \in Seq(S) /\ Inserted(InsertAt(s, i, e), s, i, e)
<1> DEFINE a == SubSeq(s, 1, i - 1)  b == SubSeq(s, i, Len(s))
<1>1. PICK n \in Nat : n = Len(s)
    OBVIOUS
<1>2. a \in Seq(S) /\ Len(a) = i - 1 /\ \A k \in 1 .. i - 1 : a[k] = s[k]
    BY <1>1
<1>3. b \in Seq(S) /\ Len(b) = n - i + 1 /\ \A k \in 1 .. n - i + 1 : b[k] = s[k + i - 1]
    BY <1>1
<1> HIDE DEF a, b
<1>4. PICK c : c = a \o <<e>>
    OBVIOUS
<1>5. /\ c \in Seq(S) /\ Len(c) = i /\ c[i] = e
      /\ \A k \in 1 .. i - 1 : c[k] = s[k]
    BY <1>1, <1>2, <1>4
<1>6. PICK m \in Nat : m = n - i + 1
    BY <1>1
<1>7. /\ c \o b \in Seq(S) /\ Len(c \o b) = i + m
      /\ \A k \in 1 .. i : (c \o b)[k] = c[k]
      /\ \A k \in 1 .. m : (c \o b)[i + k] = b[k]
    <2>1. i = Len(c) /\ m = Len(b) /\ c \in Seq(S) /\ b \in Seq(S)
        BY <1>3, <1>5, <1>6
    <2>2. c \o b \in Seq(S) /\ IsConcat(c \o b, c, i, b, m)
        BY <2>1, Concat, ZenonT(30)
    <2> QED
        BY <2>2 DEF IsConcat
<1>8. PICK d : d = c \o b
    OBVIOUS
<1>9. \A k \in 1 .. i - 1 : d[k] = s[k]
    BY <1>5, <1>7, <1>8
<1>10. d[i] = e
    BY <1>5, <1>7, <1>8
<1>11. ASSUME NEW k \in i .. n PROVE d[k + 1] = s[k]
    <2>1. PICK j \in 1 .. m : j = k - i + 1
        BY <1>1, <1>6
    <2>2. i + j = k + 1 /\ j + i - 1 = k
        BY <1>1, <2>1
    <2>3. d[i + j] = b[j] /\ b[j] = s[j + i - 1]
        BY <1>3, <1>6, <1>7, <1>8
    <2> QED
        BY <2>2, <2>3
<1>12. i + m = n + 1
    BY <1>1, <1>6
<1> QED
    BY <1>1, <1>4, <1>7, <1>8, <1>9, <1>10, <1>11, <1>12 DEF InsertAt, Inserted, a, b

\* new is s without its i-th element.
Removed_At(new, s, i) ==
    /\ Len(new) = Len(s) - 1
    /\ \A k \in 1 .. i - 1 : new[k] = s[k]
    /\ \A k \in i .. Len(s) - 1 : new[k] = s[k + 1]

LEMMA RemoveElements ==
    ASSUME NEW S, NEW s \in Seq(S), NEW i \in 1 .. Len(s)
    PROVE  RemoveAt(s, i) \in Seq(S) /\ Removed_At(RemoveAt(s, i), s, i)
<1> DEFINE a == SubSeq(s, 1, i - 1)  b == SubSeq(s, i + 1, Len(s))
<1>1. PICK n \in Nat : n = Len(s)
    OBVIOUS
<1>2. a \in Seq(S) /\ Len(a) = i - 1 /\ \A k \in 1 .. i - 1 : a[k] = s[k]
    BY <1>1
<1>3. b \in Seq(S) /\ Len(b) = n - i /\ \A k \in 1 .. n - i : b[k] = s[k + i]
    BY <1>1
<1> HIDE DEF a, b
<1>4. PICK m \in Nat, h \in Nat : m = n - i /\ h = i - 1
    <2>1. n - i \in Nat /\ i - 1 \in Nat
        BY <1>1
    <2> QED
        BY <2>1
<1>5. /\ a \o b \in Seq(S) /\ Len(a \o b) = h + m
      /\ \A k \in 1 .. h : (a \o b)[k] = a[k]
      /\ \A k \in 1 .. m : (a \o b)[h + k] = b[k]
    <2>1. h = Len(a) /\ m = Len(b) /\ a \in Seq(S) /\ b \in Seq(S)
        BY <1>2, <1>3, <1>4
    <2>2. a \o b \in Seq(S) /\ IsConcat(a \o b, a, h, b, m)
        BY <2>1, Concat, ZenonT(30)
    <2> QED
        BY <2>2 DEF IsConcat
<1>6. PICK d : d = a \o b
    OBVIOUS
<1>7. \A k \in 1 .. i - 1 : d[k] = s[k]
    BY <1>2, <1>4, <1>5, <1>6
<1>8. ASSUME NEW k \in i .. n - 1 PROVE d[k] = s[k + 1]
    <2>1. PICK j \in 1 .. m : j = k - i + 1
        BY <1>1, <1>4
    <2>2. h + j = k /\ j + i = k + 1
        BY <1>1, <1>4, <2>1
    <2>3. d[h + j] = b[j] /\ b[j] = s[j + i]
        BY <1>3, <1>4, <1>5, <1>6
    <2> QED
        BY <2>2, <2>3
<1>9. h + m = n - 1
    BY <1>1, <1>4
<1> QED
    BY <1>1, <1>5, <1>6, <1>7, <1>8, <1>9 DEF RemoveAt, Removed_At, a, b


\* What is known of a list's ranges.
LEMMA ListFacts ==
    ASSUME NEW R \in SUBSET RangeType, NEW list, IsList(list, R)
    PROVE  /\ list \in Seq(R) /\ Len(list) \in Nat /\ DOMAIN list = 1 .. Len(list)
           /\ \A i \in 1 .. Len(list) :
                 /\ list[i] \in R /\ list[i].start \in Nat /\ list[i].end \in Nat
                 /\ list[i].start <= list[i].end /\ list[i].file_stat \in BOOLEAN
           /\ \A i, j \in 1 .. Len(list) : i < j => list[i].end < list[j].start
           /\ SpaceOf(list) \subseteq Nat
<1>1. list \in Seq(R) /\ \A i, j \in 1 .. Len(list) : i < j => list[i].end < list[j].start
    BY DEF IsList
<1>2. Len(list) \in Nat /\ DOMAIN list = 1 .. Len(list) /\ \A i \in 1 .. Len(list) : list[i] \in R
    BY <1>1
<1>3. ASSUME NEW i \in 1 .. Len(list)
      PROVE  /\ list[i].start \in Nat /\ list[i].end \in Nat
             /\ list[i].start <= list[i].end /\ list[i].file_stat \in BOOLEAN
    BY <1>2 DEF RangeType
<1>4. SpaceOf(list) \subseteq Nat
    BY <1>2, <1>3 DEF SpaceOf, SectorsOf
<1> QED
    BY <1>1, <1>2, <1>3, <1>4

\* Each sector of a list is in one of its ranges only.
LEMMA OneRange ==
    ASSUME NEW R \in SUBSET RangeType, NEW list, IsList(list, R),
           NEW i \in 1 .. Len(list), NEW j \in 1 .. Len(list), NEW x,
           x \in SectorsOf(list[i]), x \in SectorsOf(list[j])
    PROVE  i = j
<1>1. /\ Len(list) \in Nat
      /\ list[i].start \in Nat /\ list[i].end \in Nat /\ list[j].start \in Nat /\ list[j].end \in Nat
      /\ i < j => list[i].end < list[j].start
      /\ j < i => list[j].end < list[i].start
    BY ListFacts
<1>2. x \in Nat /\ x <= list[i].end /\ list[i].start <= x /\ x <= list[j].end /\ list[j].start <= x
    BY <1>1 DEF SectorsOf
<1> QED
    BY <1>1, <1>2

LEMMA InSpace ==
    ASSUME NEW list, DOMAIN list = 1 .. Len(list), NEW x
    PROVE  x \in SpaceOf(list) <=> \E i \in 1 .. Len(list) : x \in SectorsOf(list[i])
BY DEF SpaceOf

\* A list of n ranges of R that has the sectors S.
Lists(list, R, n, S) == IsList(list, R) /\ Len(list) = n /\ SpaceOf(list) = S

\* The ranges before the i-th end before x; those from the i-th on begin after x.
Before(list, i, x) == \A k \in 1 .. i - 1 : list[k].end < x
After(list, i, x) == \A k \in i .. Len(list) : x < list[k].start

\* A range that lies between those before and those from i on can be put in position i.
LEMMA InsertRange ==
    ASSUME NEW R \in SUBSET RangeType, NEW list, IsList(list, R), NEW i \in 1 .. Len(list) + 1,
           NEW r \in R, Before(list, i, r.start), After(list, i, r.end),
           NEW new, new = InsertAt(list, i, r)
    PROVE  Lists(new, R, Len(list) + 1, SpaceOf(list) \cup SectorsOf(r))
<1>1. PICK n \in Nat : n = Len(list)
    BY ListFacts
<1>2. /\ list \in Seq(R) /\ DOMAIN list = 1 .. n
      /\ \A k, m \in 1 .. n : k < m => list[k].end < list[m].start
    BY <1>1, ListFacts
<1> USE DEF Before, After
<1>3. new = InsertAt(list, i, r)
    OBVIOUS
<1>4. /\ new \in Seq(R) /\ Len(new) = n + 1
      /\ \A k \in 1 .. i - 1 : new[k] = list[k]
      /\ new[i] = r
      /\ \A k \in i .. n : new[k + 1] = list[k]
    <2>1. new \in Seq(R) /\ Inserted(new, list, i, r)
        BY <1>2, <1>3, InsertElements, ZenonT(30)
    <2> QED
        BY <1>1, <2>1 DEF Inserted
<1>5. DOMAIN new = 1 .. n + 1
    BY <1>4
<1>6. ASSUME NEW k \in 1 .. n + 1
      PROVE  \/ k \in 1 .. i - 1 /\ k \in 1 .. n /\ new[k] = list[k]
             \/ k = i /\ new[k] = r
             \/ \E j \in i .. n : j \in 1 .. n /\ k = j + 1 /\ new[k] = list[j]
    <2>1. CASE k < i
        <3>1. k \in 1 .. i - 1 /\ k \in 1 .. n
            BY <1>1, <2>1
        <3> QED
            BY <1>4, <3>1
    <2>2. CASE k = i
        BY <1>4, <2>2
    <2>3. CASE k > i
        <3>1. PICK j \in i .. n : k = j + 1
            <4>1. k - 1 \in i .. n /\ k = (k - 1) + 1
                BY <1>1, <2>3
            <4> QED
                BY <4>1
        <3>2. new[k] = list[j] /\ j \in 1 .. n
            BY <1>1, <1>4, <3>1
        <3> QED
            BY <3>1, <3>2
    <2> QED
        BY <1>1, <2>1, <2>2, <2>3
<1>7. ASSUME NEW k \in 1 .. n + 1, NEW m \in 1 .. n + 1, k < m PROVE new[k].end < new[m].start
    <2>1. CASE k \in 1 .. i - 1 /\ k \in 1 .. n /\ new[k] = list[k]
        <3>1. CASE m \in 1 .. i - 1 /\ m \in 1 .. n /\ new[m] = list[m]
            BY <1>2, <1>7, <2>1, <3>1
        <3>2. CASE m = i /\ new[m] = r
            BY <2>1, <3>2
        <3>3. ASSUME NEW j \in i .. n, j \in 1 .. n, new[m] = list[j] PROVE new[k].end < new[m].start
            <4>1. k < j
                BY <1>1, <2>1
            <4> QED
                BY <1>2, <2>1, <3>3, <4>1
        <3> QED
            BY <1>6, <3>1, <3>2, <3>3
    <2>2. CASE k = i /\ new[k] = r
        <3>1. m > i
            BY <1>7, <2>2
        <3>2. PICK j \in i .. n : new[m] = list[j]
            BY <1>1, <1>6, <3>1
        <3> QED
            BY <1>1, <2>2, <3>2
    <2>3. ASSUME NEW h \in i .. n, h \in 1 .. n, k = h + 1, new[k] = list[h] PROVE new[k].end < new[m].start
        <3>1. m > i
            BY <1>1, <1>7, <2>3
        <3>2. PICK j \in i .. n : j \in 1 .. n /\ m = j + 1 /\ new[m] = list[j]
            BY <1>1, <1>6, <3>1
        <3>3. h < j
            BY <1>1, <1>7, <2>3, <3>2
        <3> QED
            BY <1>2, <2>3, <3>2, <3>3
    <2> QED
        BY <1>6, <2>1, <2>2, <2>3
<1>8. IsList(new, R)
    BY <1>4, <1>7 DEF IsList
<1>9. SpaceOf(new) = SpaceOf(list) \cup SectorsOf(r)
    <2>1. ASSUME NEW x, NEW k \in 1 .. n + 1, x \in SectorsOf(new[k])
          PROVE  x \in SpaceOf(list) \cup SectorsOf(r)
        BY <1>1, <1>2, <1>6, <2>1, InSpace
    <2>2. ASSUME NEW x, NEW k \in 1 .. n, x \in SectorsOf(list[k]) PROVE x \in SpaceOf(new)
        <3>1. CASE k < i
            <4>1. k \in 1 .. n + 1 /\ k \in 1 .. i - 1
                BY <1>1, <3>1
            <4>2. new[k] = list[k]
                BY <1>4, <4>1
            <4> QED
                BY <1>4, <1>5, <2>2, <4>1, <4>2, InSpace
        <3>2. CASE k >= i
            <4>1. k + 1 \in 1 .. n + 1 /\ k \in i .. n
                BY <1>1, <3>2
            <4>2. new[k + 1] = list[k]
                BY <1>4, <4>1
            <4> QED
                BY <1>4, <1>5, <2>2, <4>1, <4>2, InSpace
        <3> QED
            BY <1>1, <3>1, <3>2
    <2>3. ASSUME NEW x \in SectorsOf(r) PROVE x \in SpaceOf(new)
        <3>1. i \in 1 .. n + 1
            BY <1>1
        <3> QED
            BY <1>4, <1>5, <2>3, <3>1, InSpace
    <2>4. \A x : x \in SpaceOf(new) => \E k \in 1 .. n + 1 : x \in SectorsOf(new[k])
        BY <1>4, <1>5, InSpace
    <2>5. \A x : x \in SpaceOf(list) => \E k \in 1 .. n : x \in SectorsOf(list[k])
        BY <1>1, <1>2, InSpace
    <2> QED
        BY <2>1, <2>2, <2>3, <2>4, <2>5
<1> QED
    BY <1>1, <1>3, <1>4, <1>8, <1>9 DEF Lists

\* The i-th range can be left out.
LEMMA RemoveRange ==
    ASSUME NEW R \in SUBSET RangeType, NEW list, IsList(list, R), NEW i \in 1 .. Len(list),
           NEW new, new = RemoveAt(list, i)
    PROVE  Lists(new, R, Len(list) - 1, SpaceOf(list) \ SectorsOf(list[i]))
<1>1. PICK n \in Nat : n = Len(list)
    BY ListFacts
<1>2. /\ list \in Seq(R) /\ DOMAIN list = 1 .. n
      /\ \A k, m \in 1 .. n : k < m => list[k].end < list[m].start
    BY <1>1, ListFacts
<1>3. new = RemoveAt(list, i)
    OBVIOUS
<1>4. /\ new \in Seq(R) /\ Len(new) = n - 1
      /\ \A k \in 1 .. i - 1 : new[k] = list[k]
      /\ \A k \in i .. n - 1 : new[k] = list[k + 1]
    <2>1. new \in Seq(R) /\ Removed_At(new, list, i)
        BY <1>2, <1>3, RemoveElements, ZenonT(30)
    <2> QED
        BY <1>1, <2>1 DEF Removed_At
<1>5. DOMAIN new = 1 .. n - 1
    BY <1>4
<1>6. ASSUME NEW k \in 1 .. n - 1
      PROVE  \E j \in 1 .. n : j # i /\ new[k] = list[j] /\ j = IF k < i THEN k ELSE k + 1
    <2>1. CASE k < i
        <3>1. k \in 1 .. i - 1 /\ k \in 1 .. n /\ k # i
            BY <1>1, <2>1
        <3> QED
            BY <1>4, <2>1, <3>1
    <2>2. CASE k >= i
        <3>1. k \in i .. n - 1 /\ k + 1 \in 1 .. n /\ k + 1 # i /\ ~(k < i)
            BY <1>1, <2>2
        <3> QED
            BY <1>4, <3>1
    <2> QED
        BY <1>1, <2>1, <2>2
<1>7. ASSUME NEW k \in 1 .. n - 1, NEW m \in 1 .. n - 1, k < m PROVE new[k].end < new[m].start
    <2>1. PICK j \in 1 .. n : new[k] = list[j] /\ j = IF k < i THEN k ELSE k + 1
        BY <1>6
    <2>2. PICK h \in 1 .. n : new[m] = list[h] /\ h = IF m < i THEN m ELSE m + 1
        BY <1>6
    <2>3. j < h
        BY <1>1, <1>7, <2>1, <2>2
    <2> QED
        BY <1>2, <2>1, <2>2, <2>3
<1>8. IsList(new, R)
    BY <1>4, <1>7 DEF IsList
<1>9. SpaceOf(new) = SpaceOf(list) \ SectorsOf(list[i])
    <2>1. ASSUME NEW x, NEW k \in 1 .. n - 1, x \in SectorsOf(new[k])
          PROVE  x \in SpaceOf(list) /\ x \notin SectorsOf(list[i])
        <3>1. PICK j \in 1 .. n : j # i /\ new[k] = list[j]
            BY <1>6
        <3>2. x \in SpaceOf(list)
            BY <1>1, <1>2, <2>1, <3>1, InSpace
        <3> QED
            BY <1>1, <2>1, <3>1, <3>2, OneRange
    <2>2. ASSUME NEW x, NEW k \in 1 .. n, x \in SectorsOf(list[k]), k # i PROVE x \in SpaceOf(new)
        <3>1. CASE k < i
            <4>1. k \in 1 .. n - 1 /\ k \in 1 .. i - 1
                BY <1>1, <3>1
            <4>2. new[k] = list[k]
                BY <1>4, <4>1
            <4> QED
                BY <1>4, <1>5, <2>2, <4>1, <4>2, InSpace
        <3>2. CASE k > i
            <4>1. PICK j \in i .. n - 1 : j \in 1 .. n - 1 /\ j + 1 = k
                <5>1. k - 1 \in i .. n - 1 /\ k - 1 \in 1 .. n - 1 /\ (k - 1) + 1 = k
                    BY <1>1, <3>2
                <5> QED
                    BY <5>1
            <4>2. new[j] = list[k]
                BY <1>4, <4>1
            <4> QED
                BY <1>4, <1>5, <2>2, <4>1, <4>2, InSpace
        <3> QED
            BY <1>1, <2>2, <3>1, <3>2
    <2>3. \A x : x \in SpaceOf(new) => \E k \in 1 .. n - 1 : x \in SectorsOf(new[k])
        BY <1>4, <1>5, InSpace
    <2>4. \A x : x \in SpaceOf(list) => \E k \in 1 .. n : x \in SectorsOf(list[k])
        BY <1>1, <1>2, InSpace
    <2> QED
        BY <2>1, <2>2, <2>3, <2>4
<1> QED
    BY <1>1, <1>3, <1>4, <1>8, <1>9 DEF Lists

\* The i-th range can become any that lies between those before and those after it.
LEMMA ReplaceRange ==
    ASSUME NEW R \in SUBSET RangeType, NEW list, IsList(list, R), NEW i \in 1 .. Len(list),
           NEW r \in R, Before(list, i, r.start), After(list, i + 1, r.end),
           NEW new, new = [list EXCEPT ![i] = r]
    PROVE  Lists(new, R, Len(list), (SpaceOf(list) \ SectorsOf(list[i])) \cup SectorsOf(r))
<1>1. PICK n \in Nat : n = Len(list)
    BY ListFacts
<1>2. /\ list \in Seq(R) /\ DOMAIN list = 1 .. n
      /\ \A k, m \in 1 .. n : k < m => list[k].end < list[m].start
    BY <1>1, ListFacts
<1> USE DEF Before, After
<1>3. new = [list EXCEPT ![i] = r]
    OBVIOUS
<1>4. new \in Seq(R) /\ Len(new) = n /\ new[i] = r /\ \A k \in 1 .. n : k # i => new[k] = list[k]
    BY <1>1, <1>2, <1>3
<1>5. DOMAIN new = 1 .. n
    BY <1>4
<1>6. ASSUME NEW k \in 1 .. n, NEW m \in 1 .. n, k < m PROVE new[k].end < new[m].start
    <2>1. CASE k # i /\ m # i
        BY <1>2, <1>4, <1>6, <2>1
    <2>2. CASE k = i
        <3>1. m \in i + 1 .. n /\ m # i
            BY <1>1, <1>6, <2>2
        <3> QED
            BY <1>1, <1>4, <2>2, <3>1
    <2>3. CASE m = i
        <3>1. k \in 1 .. i - 1 /\ k # i
            BY <1>1, <1>6, <2>3
        <3> QED
            BY <1>4, <2>3, <3>1
    <2> QED
        BY <2>1, <2>2, <2>3
<1>7. IsList(new, R)
    BY <1>4, <1>6 DEF IsList
<1>8. SpaceOf(new) = (SpaceOf(list) \ SectorsOf(list[i])) \cup SectorsOf(r)
    <2>1. ASSUME NEW x, NEW k \in 1 .. n, x \in SectorsOf(new[k])
          PROVE  x \in (SpaceOf(list) \ SectorsOf(list[i])) \cup SectorsOf(r)
        <3>1. CASE k = i
            BY <1>4, <2>1, <3>1
        <3>2. CASE k # i
            <4>1. x \in SectorsOf(list[k])
                BY <1>4, <2>1, <3>2
            <4>2. x \in SpaceOf(list)
                BY <1>1, <1>2, <4>1, InSpace
            <4>3. x \notin SectorsOf(list[i])
                BY <1>1, <3>2, <4>1, OneRange
            <4> QED
                BY <4>2, <4>3
        <3> QED
            BY <3>1, <3>2
    <2>2. ASSUME NEW x, NEW k \in 1 .. n, x \in SectorsOf(list[k]), x \notin SectorsOf(list[i])
          PROVE  x \in SpaceOf(new)
        BY <1>4, <1>5, <2>2, InSpace
    <2>3. ASSUME NEW x \in SectorsOf(r) PROVE x \in SpaceOf(new)
        BY <1>1, <1>4, <1>5, <2>3, InSpace
    <2>4. \A x : x \in SpaceOf(new) => \E k \in 1 .. n : x \in SectorsOf(new[k])
        BY <1>4, <1>5, InSpace
    <2>5. \A x : x \in SpaceOf(list) => \E k \in 1 .. n : x \in SectorsOf(list[k])
        BY <1>1, <1>2, InSpace
    <2> QED
        BY <2>1, <2>2, <2>3, <2>4, <2>5
<1> QED
    BY <1>1, <1>3, <1>4, <1>7, <1>8 DEF Lists

----------------------------------------------------------------------------
(* The maximal runs of a set *)

\* The last sector of the run of S that s is in.
EndIn(S, s) == Max({e \in S : s <= e /\ s .. e \subseteq S})

LEMMA EndOfRun ==
    ASSUME NEW n \in Nat, NEW S \in SUBSET (0 .. n), NEW s \in S
    PROVE  /\ EndIn(S, s) \in S /\ s <= EndIn(S, s) /\ s .. EndIn(S, s) \subseteq S
           /\ EndIn(S, s) + 1 \notin S
           /\ \A x \in S : s <= x /\ s .. x \subseteq S => x <= EndIn(S, s)
<1> DEFINE E == {e \in S : s <= e /\ s .. e \subseteq S}
<1>1. s \in E
    <2>1. s \in Int /\ s <= s
        OBVIOUS
    <2>2. s .. s \subseteq S
        BY <2>1
    <2> QED
        BY <2>1, <2>2
<1>2. E \in SUBSET (0 .. n)
    OBVIOUS
<1>3. PICK e : e = EndIn(S, s)
    OBVIOUS
<1>4. e \in E /\ \A x \in E : x <= e
    <2>1. e = Max(E)
        BY <1>3 DEF EndIn
    <2> HIDE DEF E
    <2> QED
        BY <1>1, <1>2, <2>1, MaxOf
<1>5. e + 1 \notin S
    <2> SUFFICES ASSUME e + 1 \in S PROVE FALSE
        OBVIOUS
    <2>1. s .. e + 1 \subseteq S
        <3> SUFFICES ASSUME NEW x \in s .. e + 1 PROVE x \in S
            OBVIOUS
        <3>1. x = e + 1 \/ x \in s .. e
            BY <1>4
        <3> QED
            BY <1>4, <3>1
    <2>2. e + 1 \in E
        BY <1>4, <2>1
    <2>3. e + 1 <= e /\ e \in Int
        BY <1>4, <2>2
    <2> QED
        BY <2>3
<1> QED
    BY <1>3, <1>4, <1>5

\* What Runs returns: it lists S by its runs, none of which touches another or is marked.
LEMMA RunsOf ==
    ASSUME NEW n \in Nat, NEW S \in SUBSET (0 .. n)
    PROVE  /\ IsList(Runs(S), RangeType) /\ SpaceOf(Runs(S)) = S
           /\ \A i \in 1 .. Len(Runs(S)) :
                 LET r == Runs(S)[i] IN
                 /\ r.start \in S /\ r.end \in S /\ r.start - 1 \notin S /\ r.end + 1 \notin S
                 /\ ~r.file_stat
<1> DEFINE heads == {s \in S : s - 1 \notin S}
           order == In_Order(heads)
           N == Cardinality(heads)
<1>1. heads \in SUBSET (0 .. n)
    OBVIOUS
<1>2. /\ N \in Nat /\ order \in [1 .. N -> heads]
      /\ \A k, m \in 1 .. N : k < m => order[k] < order[m]
      /\ \A s \in heads : \E k \in 1 .. N : order[k] = s
    <2> HIDE DEF heads
    <2> QED
        BY <1>1, InOrder
<1>3. PICK runs : runs = Runs(S)
    OBVIOUS
<1>4. runs = [k \in 1 .. N |-> Extent(order[k], EndIn(S, order[k]), FALSE)]
    <2>1. DOMAIN order = 1 .. N
        BY <1>2
    <2> QED
        BY <1>3, <2>1 DEF Runs, EndIn
<1> HIDE DEF order, N
<1>5. \A k \in 1 .. N : /\ order[k] \in S /\ order[k] - 1 \notin S
                        /\ order[k] \in Nat
    <2> TAKE k \in 1 .. N
    <2>1. PICK h \in heads : h = order[k]
        BY <1>2
    <2>2. h \in S /\ h - 1 \notin S /\ h \in Nat
        OBVIOUS
    <2> QED
        BY <2>1, <2>2
<1>6. \A k \in 1 .. N :
         /\ EndIn(S, order[k]) \in S /\ order[k] <= EndIn(S, order[k])
         /\ order[k] .. EndIn(S, order[k]) \subseteq S
         /\ EndIn(S, order[k]) + 1 \notin S
         /\ EndIn(S, order[k]) \in Nat
    <2>1. \A s \in S : /\ EndIn(S, s) \in S /\ s <= EndIn(S, s) /\ s .. EndIn(S, s) \subseteq S
                       /\ EndIn(S, s) + 1 \notin S
        BY EndOfRun
    <2> TAKE k \in 1 .. N
    <2>2. PICK h \in S, e \in S : h = order[k] /\ e = EndIn(S, h)
        BY <1>5, <2>1
    <2>3. e \in Nat /\ h <= e /\ h .. e \subseteq S /\ e + 1 \notin S
        BY <2>1, <2>2
    <2> QED
        BY <2>2, <2>3
<1>7. \A k \in 1 .. N : /\ runs[k] \in RangeType
                        /\ runs[k].start = order[k] /\ runs[k].end = EndIn(S, order[k])
                        /\ runs[k].file_stat = FALSE
    BY <1>4, <1>5, <1>6 DEF Extent, RangeType
<1>8. runs \in Seq(RangeType) /\ Len(runs) = N /\ DOMAIN runs = 1 .. N
    <2>1. DOMAIN runs = 1 .. N /\ runs \in [1 .. N -> RangeType]
        BY <1>4, <1>7
    <2> QED
        BY <1>2, <2>1
<1>9. ASSUME NEW k \in 1 .. N, NEW m \in 1 .. N, k < m PROVE runs[k].end < runs[m].start
    <2>1. PICK s \in S, e \in S : s = order[k] /\ e = EndIn(S, s) /\ s .. e \subseteq S
        BY <1>5, <1>6
    <2>2. PICK t \in S : t = order[m] /\ t - 1 \notin S
        BY <1>5
    <2>3. s < t
        BY <1>2, <1>9, <2>1, <2>2
    <2>4. s \in Nat /\ t \in Nat /\ e \in Nat
        OBVIOUS
    <2>5. t - 1 \notin s .. e
        BY <2>1, <2>2
    <2>6. e < t
        BY <2>3, <2>4, <2>5
    <2> QED
        BY <1>7, <2>1, <2>2, <2>6
<1>10. IsList(runs, RangeType)
    BY <1>8, <1>9 DEF IsList
<1>11. ASSUME NEW x \in S PROVE x \in SpaceOf(runs)
    <2> DEFINE H == {s \in S : s <= x /\ s .. x \subseteq S}
    <2>1. x \in H
        <3>1. x \in Int /\ x <= x
            OBVIOUS
        <3>2. x .. x \subseteq S
            BY <3>1
        <3> QED
            BY <3>1, <3>2
    <2>2. PICK h \in H : \A s \in H : h <= s
        <3>1. \A s \in S : s \in Nat
            OBVIOUS
        <3>2. H \in SUBSET Nat
            BY <3>1
        <3> HIDE DEF H
        <3> QED
            BY <2>1, <3>2, LeastOf
    <2>3. h \in S /\ h \in Nat /\ x \in Nat /\ h <= x /\ h .. x \subseteq S
        OBVIOUS
    <2>4. h - 1 \notin S
        <3> SUFFICES ASSUME h - 1 \in S PROVE FALSE
            OBVIOUS
        <3>1. h - 1 .. x \subseteq S
            <4> SUFFICES ASSUME NEW y \in h - 1 .. x PROVE y \in S
                OBVIOUS
            <4>1. y = h - 1 \/ y \in h .. x
                BY <2>3
            <4> QED
                BY <2>3, <4>1
        <3>2. h - 1 <= x
            BY <2>3
        <3>3. h - 1 \in H
            BY <3>1, <3>2
        <3>4. h <= h - 1
            BY <2>2, <3>3
        <3> QED
            BY <2>3, <3>4
    <2>5. PICK k \in 1 .. N : order[k] = h
        BY <1>2, <2>3, <2>4
    <2>6. x <= EndIn(S, h)
        BY <2>3, EndOfRun
    <2>7. x \in SectorsOf(runs[k])
        <3>1. PICK e \in Nat : e = EndIn(S, h)
            BY <1>6, <2>5
        <3>2. runs[k].start = h /\ runs[k].end = e
            BY <1>7, <2>5, <3>1
        <3>3. x \in h .. e
            BY <2>3, <2>6, <3>1
        <3> QED
            BY <3>2, <3>3 DEF SectorsOf
    <2> QED
        BY <1>8, <2>7, InSpace
<1>12. ASSUME NEW x \in SpaceOf(runs) PROVE x \in S
    <2>1. PICK k \in 1 .. N : x \in SectorsOf(runs[k])
        BY <1>8, InSpace
    <2>2. x \in order[k] .. EndIn(S, order[k])
        BY <1>7, <2>1 DEF SectorsOf
    <2> QED
        BY <1>6, <2>2
<1>13. \A i \in 1 .. Len(runs) :
          /\ runs[i].start \in S /\ runs[i].end \in S
          /\ runs[i].start - 1 \notin S /\ runs[i].end + 1 \notin S
          /\ ~runs[i].file_stat
    BY <1>5, <1>6, <1>7, <1>8
<1> QED
    BY <1>3, <1>10, <1>11, <1>12, <1>13

----------------------------------------------------------------------------
(* Giving fragments back *)

LEMMA RangesApart ==
    ASSUME NEW p, NEW q, p.start \in Nat, p.end \in Nat, q.start \in Nat, q.end \in Nat,
           p.start <= p.end, q.start <= q.end, SectorsOf(p) \cap SectorsOf(q) = {}
    PROVE  p.end < q.start \/ q.end < p.start
<1>1. CASE p.start <= q.start
    <2>1. q.start \in SectorsOf(q) /\ q.start \notin SectorsOf(p)
        BY DEF SectorsOf
    <2> QED
        BY <1>1, <2>1 DEF SectorsOf
<1>2. CASE q.start <= p.start
    <2>1. p.start \in SectorsOf(p) /\ p.start \notin SectorsOf(q)
        BY DEF SectorsOf
    <2> QED
        BY <1>2, <2>1 DEF SectorsOf
<1> QED
    BY <1>1, <1>2

\* Ranges of a kind that stay so when one is appended to another.
Joinable(R) == \A p, q \in R : p.end + 1 = q.start => Extent(p.start, q.end, p.file_stat) \in R

\* G is L with the sectors S given back: the place is kept, although the range there may now
\* begin earlier.
GaveBack(G, L, S, R) ==
    /\ G = [list |-> G.list, at |-> G.at]
    /\ IsList(G.list, R)
    /\ SpaceOf(G.list) = SpaceOf(L.list) \cup S
    /\ G.at \in 1 .. Len(G.list) + 1
    /\ G.at = Len(G.list) + 1 <=> L.at = Len(L.list) + 1
    /\ L.at <= Len(L.list) => G.list[G.at].start <= L.list[L.at].start

LEMMA GiveBack ==
    ASSUME NEW R \in SUBSET RangeType, Joinable(R), NEW list, IsList(list, R),
           NEW at \in 1 .. Len(list) + 1, NEW piece \in R,
           SectorsOf(piece) \cap SpaceOf(list) = {}
    PROVE  LET L == [list |-> list, at |-> at] IN
           GaveBack(Give_Back(L, piece), L, SectorsOf(piece), R)
<1> DEFINE Joins(r) == r.start = piece.end + 1 /\ ~r.file_stat
           Follows(r) == ~piece.file_stat /\ r.end + 1 = piece.start
           hits == {k \in 1 .. Len(list) : \/ Joins(list[k]) \/ Follows(list[k])
                                           \/ piece.end < list[k].start}
           L == [list |-> list, at |-> at]
<1>1. PICK n \in Nat : n = Len(list)
    BY ListFacts
<1>2. /\ list \in Seq(R) /\ DOMAIN list = 1 .. n
      /\ \A k \in 1 .. n : /\ list[k] \in R /\ list[k].start \in Nat /\ list[k].end \in Nat
                           /\ list[k].start <= list[k].end
      /\ \A k, m \in 1 .. n : k < m => list[k].end < list[m].start
    BY <1>1, ListFacts
<1>3. piece.start \in Nat /\ piece.end \in Nat /\ piece.start <= piece.end
    BY DEF RangeType
<1>4. PICK i : i = Min(hits \cup {n + 1})
    OBVIOUS
<1>5. i \in hits \cup {n + 1} /\ \A k \in hits \cup {n + 1} : i <= k
    <2>1. hits \cup {n + 1} \in SUBSET Nat /\ hits \cup {n + 1} # {}
        BY <1>1
    <2> HIDE DEF hits
    <2> QED
        BY <1>4, <2>1, MinOf
<1>6. i \in 1 .. n + 1
    BY <1>1, <1>5
<1>7. \A k \in 1 .. n : list[k].end < piece.start \/ piece.end < list[k].start
    <2> TAKE k \in 1 .. n
    <2>1. SectorsOf(list[k]) \cap SectorsOf(piece) = {}
        BY <1>1, <1>2, InSpace
    <2> QED
        BY <1>2, <1>3, <2>1, RangesApart
<1>8. ASSUME NEW k \in 1 .. i - 1 PROVE list[k].end < piece.start
    <2>1. k \in 1 .. n /\ ~(i <= k)
        BY <1>1, <1>6
    <2>2. k \notin hits
        BY <1>5, <2>1
    <2>3. ~(piece.end < list[k].start)
        BY <1>1, <2>1, <2>2
    <2> QED
        BY <1>7, <2>1, <2>3
<1>9. DOMAIN list = 1 .. Len(list)
    BY <1>1, <1>2
<1>10. Give_Back(L, piece) =
          IF i <= n /\ Joins(list[i])
          THEN [L EXCEPT !.list[i] = Extent(piece.start, @.end, piece.file_stat)]
          ELSE IF i <= n /\ Follows(list[i])
          THEN [L EXCEPT !.list[i].end = piece.end]
          ELSE [list |-> InsertAt(list, i, piece), at |-> IF i <= at THEN at + 1 ELSE at]
    BY <1>1, <1>4, <1>9 DEF Give_Back
<1>11. CASE i <= n /\ Joins(list[i])
    <2> DEFINE r == Extent(piece.start, list[i].end, piece.file_stat)
    <2>0. PICK new : new = [list EXCEPT ![i] = r]
        OBVIOUS
    <2>1. i \in 1 .. n /\ list[i] \in R
        BY <1>2, <1>6, <1>11
    <2>3. Give_Back(L, piece) = [list |-> new, at |-> at]
        BY <1>10, <1>11, <2>0
    <2>4. r \in R /\ r.start = piece.start /\ r.end = list[i].end
        BY <1>11, <2>1 DEF Joinable, Extent
    <2>5. After(list, i + 1, r.end)
        <3> SUFFICES ASSUME NEW k \in i + 1 .. n PROVE r.end < list[k].start
            BY <1>1 DEF After
        <3>1. k \in 1 .. n /\ i < k
            BY <1>1, <2>1
        <3> QED
            BY <1>2, <2>1, <2>4, <3>1
    <2>6. Before(list, i, r.start)
        BY <1>8, <2>4 DEF Before
    <2>7. SectorsOf(r) = SectorsOf(piece) \cup SectorsOf(list[i])
        <3>1. list[i].start = piece.end + 1 /\ list[i].end \in Nat /\ list[i].start \in Nat
              /\ list[i].start <= list[i].end
            BY <1>2, <1>11, <2>1
        <3> HIDE DEF r
        <3> QED
            BY <1>3, <2>4, <3>1 DEF SectorsOf
    <2>8. SectorsOf(list[i]) \subseteq SpaceOf(list)
        BY <1>1, <1>9, <2>1, InSpace
    <2> HIDE DEF r
    <2>9. /\ IsList(new, R) /\ Len(new) = n
          /\ SpaceOf(new) = (SpaceOf(list) \ SectorsOf(list[i])) \cup SectorsOf(r)
        <3>1. i \in 1 .. Len(list)
            BY <1>1, <2>1
        <3>2. Lists(new, R, Len(list), (SpaceOf(list) \ SectorsOf(list[i])) \cup SectorsOf(r))
            BY <2>0, <2>4, <2>5, <2>6, <3>1, ReplaceRange, ZenonT(30)
        <3> QED
            BY <1>1, <3>2 DEF Lists
    <2>10. at <= n => new[at].start <= list[at].start
        <3>1. CASE at = i
            <4>1. new[at] = r /\ list[i].start = piece.end + 1 /\ list[i].start \in Nat
                BY <1>1, <1>2, <1>11, <2>0, <2>1, <3>1
            <4> QED
                BY <1>3, <2>4, <3>1, <4>1
        <3>2. CASE at # i
            <4> SUFFICES ASSUME at <= n PROVE new[at].start <= list[at].start
                OBVIOUS
            <4>1. at \in 1 .. n
                BY <1>1
            <4>2. new[at] = list[at] /\ list[at].start \in Nat
                BY <1>2, <2>0, <3>2, <4>1
            <4> QED
                BY <4>2
        <3> QED
            BY <3>1, <3>2
    <2> QED
        BY <1>1, <2>3, <2>7, <2>8, <2>9, <2>10 DEF GaveBack
<1>12. CASE i <= n /\ ~Joins(list[i]) /\ Follows(list[i])
    <2> DEFINE r == Extent(list[i].start, piece.end, list[i].file_stat)
    <2>0. PICK new : new = [list EXCEPT ![i] = r]
        OBVIOUS
    <2>1. i \in 1 .. n /\ list[i] \in R
        BY <1>2, <1>6, <1>12
    <2>2. [list[i] EXCEPT !.end = piece.end] = r
        BY <2>1 DEF RangeType, Extent
    <2>3. Give_Back(L, piece) = [list |-> new, at |-> at]
        BY <1>10, <1>12, <2>0, <2>2
    <2>4. r \in R /\ r.start = list[i].start /\ r.end = piece.end
        BY <1>12, <2>1 DEF Joinable, Extent
    <2>5. After(list, i + 1, r.end)
        <3> SUFFICES ASSUME NEW k \in i + 1 .. n PROVE r.end < list[k].start
            BY <1>1 DEF After
        <3>1. k \in 1 .. n /\ i < k
            BY <1>1, <2>1
        <3>2. list[i].end < list[k].start /\ list[i].end + 1 = piece.start
            BY <1>2, <1>12, <2>1, <3>1
        <3>3. list[i].end \in Nat /\ list[k].start \in Nat /\ list[k].end \in Nat /\ list[k].start <= list[k].end
            BY <1>2, <2>1, <3>1
        <3>4. PICK z \in Nat, u \in Nat, v \in Nat :
                 z = list[i].end /\ u = list[k].start /\ v = list[k].end /\ z < u /\ u <= v
            BY <3>2, <3>3
        <3>5. ~(v < z + 1)
            BY <3>4
        <3>6. ~(list[k].end < piece.start)
            BY <3>2, <3>4, <3>5
        <3> QED
            BY <1>7, <2>4, <3>1, <3>6
    <2>6. Before(list, i, r.start)
        <3> SUFFICES ASSUME NEW k \in 1 .. i - 1 PROVE list[k].end < r.start
            BY DEF Before
        <3>1. k \in 1 .. n /\ k < i
            BY <1>1, <2>1
        <3> QED
            BY <1>2, <2>1, <2>4, <3>1
    <2>7. SectorsOf(r) = SectorsOf(piece) \cup SectorsOf(list[i])
        <3>1. list[i].end + 1 = piece.start /\ list[i].end \in Nat /\ list[i].start \in Nat
              /\ list[i].start <= list[i].end
            BY <1>2, <1>12, <2>1
        <3> HIDE DEF r
        <3> QED
            BY <1>3, <2>4, <3>1 DEF SectorsOf
    <2>8. SectorsOf(list[i]) \subseteq SpaceOf(list)
        BY <1>1, <1>9, <2>1, InSpace
    <2> HIDE DEF r
    <2>9. /\ IsList(new, R) /\ Len(new) = n
          /\ SpaceOf(new) = (SpaceOf(list) \ SectorsOf(list[i])) \cup SectorsOf(r)
        <3>1. i \in 1 .. Len(list)
            BY <1>1, <2>1
        <3>2. Lists(new, R, Len(list), (SpaceOf(list) \ SectorsOf(list[i])) \cup SectorsOf(r))
            BY <2>0, <2>4, <2>5, <2>6, <3>1, ReplaceRange, ZenonT(30)
        <3> QED
            BY <1>1, <3>2 DEF Lists
    <2>10. at <= n => new[at].start <= list[at].start
        <3> SUFFICES ASSUME at <= n PROVE new[at].start <= list[at].start
            OBVIOUS
        <3>1. at \in 1 .. n
            BY <1>1
        <3>2. new[at].start = list[at].start
            BY <1>2, <2>0, <2>1, <2>4, <3>1
        <3> QED
            BY <1>2, <3>1, <3>2
    <2> QED
        BY <1>1, <2>3, <2>7, <2>8, <2>9, <2>10 DEF GaveBack
<1>13. CASE ~(i <= n /\ Joins(list[i])) /\ ~(i <= n /\ Follows(list[i]))
    <2> DEFINE to == IF i <= at THEN at + 1 ELSE at
    <2>0. PICK new : new = InsertAt(list, i, piece)
        OBVIOUS
    <2>1. Give_Back(L, piece) = [list |-> new, at |-> to]
        BY <1>10, <1>13, <2>0
    <2>2. After(list, i, piece.end)
        <3> SUFFICES ASSUME NEW k \in i .. n PROVE piece.end < list[k].start
            BY <1>1 DEF After
        <3>1. i \in 1 .. n /\ k \in 1 .. n
            BY <1>1, <1>6
        <3>2. i \in hits
            BY <1>1, <1>5, <3>1
        <3>3. piece.end < list[i].start
            BY <1>13, <3>1, <3>2
        <3>4. i < k => list[i].end < list[k].start
            BY <1>2, <3>1
        <3>5. list[i].end \in Nat /\ list[i].start \in Nat /\ list[k].start \in Nat /\ list[i].start <= list[i].end
            BY <1>2, <3>1
        <3>6. i = k \/ i < k
            BY <1>1, <3>1
        <3> QED
            BY <1>3, <3>3, <3>4, <3>5, <3>6
    <2>3. /\ IsList(new, R) /\ Len(new) = n + 1
          /\ SpaceOf(new) = SpaceOf(list) \cup SectorsOf(piece)
        <3>1. i \in 1 .. Len(list) + 1 /\ Before(list, i, piece.start)
            BY <1>1, <1>6, <1>8 DEF Before
        <3>2. Lists(new, R, Len(list) + 1, SpaceOf(list) \cup SectorsOf(piece))
            BY <2>0, <2>2, <3>1, InsertRange, ZenonT(30)
        <3> QED
            BY <1>1, <3>2 DEF Lists
    <2>4. /\ \A k \in 1 .. i - 1 : new[k] = list[k]
          /\ \A k \in i .. n : new[k + 1] = list[k]
        <3>1. i \in 1 .. Len(list) + 1
            BY <1>1, <1>6
        <3>2. Inserted(new, list, i, piece)
            BY <1>2, <2>0, <3>1, InsertElements, ZenonT(30)
        <3> QED
            BY <1>1, <3>2 DEF Inserted
    <2>5. to \in 1 .. n + 2 /\ (to = n + 2 <=> at = n + 1)
        BY <1>1, <1>6
    <2>6. at <= n => new[to].start <= list[at].start
        <3> SUFFICES ASSUME at <= n PROVE new[to].start <= list[at].start
            OBVIOUS
        <3>1. at \in 1 .. n
            BY <1>1
        <3>2. new[to] = list[at]
            <4>1. CASE i <= at
                <5>1. at \in i .. n /\ to = at + 1
                    BY <1>1, <3>1, <4>1
                <5> QED
                    BY <2>4, <5>1
            <4>2. CASE ~(i <= at)
                <5>1. at \in 1 .. i - 1 /\ to = at
                    BY <1>1, <1>6, <3>1, <4>2
                <5> QED
                    BY <2>4, <5>1
            <4> QED
                BY <4>1, <4>2
        <3>3. list[at].start \in Nat
            BY <1>2, <3>1
        <3> QED
            BY <3>2, <3>3
    <2> HIDE DEF to
    <2> QED
        BY <1>1, <2>1, <2>3, <2>5, <2>6 DEF GaveBack
<1> QED
    BY <1>11, <1>12, <1>13

LEMMA NothingBack ==
    ASSUME NEW R \in SUBSET RangeType, NEW L, L = [list |-> L.list, at |-> L.at],
           IsList(L.list, R), L.at \in 1 .. Len(L.list) + 1
    PROVE  GaveBack(L, L, {}, R)
<1>1. /\ Len(L.list) \in Nat
      /\ L.at \in 1 .. Len(L.list) => L.list[L.at].start \in Nat
    BY ListFacts
<1>2. L.at <= Len(L.list) => L.at \in 1 .. Len(L.list) /\ L.list[L.at].start <= L.list[L.at].start
    BY <1>1
<1> QED
    BY <1>2 DEF GaveBack

LEMMA BackAndBack ==
    ASSUME NEW R \in SUBSET RangeType, NEW L, IsList(L.list, R), L.at \in 1 .. Len(L.list) + 1,
           NEW S, NEW T, NEW G, GaveBack(G, L, S, R), NEW H, GaveBack(H, G, T, R)
    PROVE  GaveBack(H, L, S \cup T, R)
<1>1. /\ Len(L.list) \in Nat /\ Len(G.list) \in Nat /\ Len(H.list) \in Nat
      /\ \A i \in 1 .. Len(L.list) : L.list[i].start \in Nat
      /\ \A i \in 1 .. Len(G.list) : G.list[i].start \in Nat
      /\ \A i \in 1 .. Len(H.list) : H.list[i].start \in Nat
    BY ListFacts DEF GaveBack
<1>2. L.at <= Len(L.list) => H.list[H.at].start <= L.list[L.at].start
    <2> SUFFICES ASSUME L.at <= Len(L.list) PROVE H.list[H.at].start <= L.list[L.at].start
        OBVIOUS
    <2>1. /\ L.at \in 1 .. Len(L.list) /\ G.at \in 1 .. Len(G.list) /\ H.at \in 1 .. Len(H.list)
        BY <1>1 DEF GaveBack
    <2>2. G.list[G.at].start <= L.list[L.at].start /\ H.list[H.at].start <= G.list[G.at].start
        BY <1>1, <2>1 DEF GaveBack
    <2>3. PICK x \in Nat, y \in Nat, z \in Nat :
             x = H.list[H.at].start /\ y = G.list[G.at].start /\ z = L.list[L.at].start
        BY <1>1, <2>1
    <2>4. x <= y /\ y <= z
        BY <2>2, <2>3
    <2>5. x <= z
        BY <2>4
    <2> QED
        BY <2>3, <2>5
<1>3. SpaceOf(H.list) = SpaceOf(L.list) \cup (S \cup T)
    BY DEF GaveBack
<1> QED
    BY <1>2, <1>3 DEF GaveBack

\* Giving back the ranges of a list, one after the other, adds its sectors to the free ones.
LEMMA GiveBackAll ==
    ASSUME NEW R \in SUBSET RangeType, Joinable(R), NEW list, IsList(list, R),
           NEW at \in 1 .. Len(list) + 1, NEW pieces, IsList(pieces, R),
           SpaceOf(pieces) \cap SpaceOf(list) = {}
    PROVE  LET L == [list |-> list, at |-> at] IN
           GaveBack(Give_Back_All(L, pieces), L, SpaceOf(pieces), R)
<1> DEFINE L == [list |-> list, at |-> at]
           Upto(n) == UNION {SectorsOf(pieces[i]) : i \in 1 .. n}
           IsAfter(f, k) ==
               f = [n \in 0 .. k |-> IF n = 0 THEN L ELSE Give_Back(f[n - 1], pieces[n])]
           T == {k \in Nat : k <= Len(pieces) => \E f : IsAfter(f, k)}
<1>1. PICK m \in Nat : m = Len(pieces)
    BY ListFacts
<1>2. 0 \in T
    <2> DEFINE f == [n \in 0 .. 0 |-> L]
    <2>1. f = [n \in 0 .. 0 |-> IF n = 0 THEN L ELSE Give_Back(f[n - 1], pieces[n])]
        OBVIOUS
    <2>2. IsAfter(f, 0)
        BY <2>1
    <2> QED
        BY <2>2
<1>3. ASSUME NEW k \in Nat, k \in T PROVE k + 1 \in T
    <2> SUFFICES ASSUME k + 1 <= m PROVE \E f : IsAfter(f, k + 1)
        BY <1>1
    <2>1. PICK f : IsAfter(f, k)
        BY <1>1, <1>3
    <2> DEFINE g == [n \in 0 .. k + 1 |-> IF n <= k THEN f[n] ELSE Give_Back(f[k], pieces[n])]
    <2>2. \A n \in 0 .. k : f[n] = IF n = 0 THEN L ELSE Give_Back(f[n - 1], pieces[n])
        BY <2>1
    <2>3. ASSUME NEW n \in 0 .. k + 1
          PROVE  g[n] = IF n = 0 THEN L ELSE Give_Back(g[n - 1], pieces[n])
        <3>1. CASE n = 0
            <4>1. 0 \in 0 .. k /\ 0 <= k /\ 0 \in 0 .. k + 1
                OBVIOUS
            <4>2. g[0] = f[0]
                BY <4>1
            <4> QED
                BY <2>2, <3>1, <4>1, <4>2
        <3>2. CASE n # 0 /\ n <= k
            <4>1. n \in 0 .. k /\ n - 1 \in 0 .. k + 1 /\ n - 1 <= k
                BY <3>2
            <4>2. g[n] = f[n] /\ g[n - 1] = f[n - 1]
                BY <3>2, <4>1
            <4> QED
                BY <2>2, <3>2, <4>1, <4>2
        <3>3. CASE n = k + 1
            <4>1. n - 1 = k /\ k \in 0 .. k + 1 /\ k <= k /\ n # 0 /\ ~(n <= k)
                BY <3>3
            <4>2. g[n - 1] = f[k] /\ g[n] = Give_Back(f[k], pieces[n])
                BY <4>1
            <4> QED
                BY <4>1, <4>2
        <3> QED
            BY <3>1, <3>2, <3>3
    <2>4. g = [n \in 0 .. k + 1 |-> g[n]]
        OBVIOUS
    <2> HIDE DEF g
    <2>5. g = [n \in 0 .. k + 1 |-> IF n = 0 THEN L ELSE Give_Back(g[n - 1], pieces[n])]
        BY <2>3, <2>4
    <2> QED
        BY <2>5
<1>4. m \in T
    <2> HIDE DEF T
    <2> QED
        BY <1>1, <1>2, <1>3, NatSet
<1>5. \E f : IsAfter(f, m)
    BY <1>1, <1>4
<1> DEFINE after == CHOOSE f : IsAfter(f, m)
<1>6. IsAfter(after, m)
    BY <1>5
<1>7. Give_Back_All(L, pieces) = after[m]
    BY <1>1 DEF Give_Back_All
<1> HIDE DEF after, T
<1>8. after[0] = L /\ \A n \in 1 .. m : after[n] = Give_Back(after[n - 1], pieces[n])
    <2>1. \A n \in 0 .. m : after[n] = IF n = 0 THEN L ELSE Give_Back(after[n - 1], pieces[n])
        BY <1>6
    <2>2. 0 \in 0 .. m /\ \A n \in 1 .. m : n \in 0 .. m /\ n # 0
        BY <1>1
    <2> QED
        BY <2>1, <2>2
<1> HIDE DEF IsAfter
<1>9. /\ pieces \in Seq(R) /\ DOMAIN pieces = 1 .. m
      /\ \A i \in 1 .. m : pieces[i] \in R
    BY <1>1, ListFacts
<1>10. L = [list |-> L.list, at |-> L.at] /\ L.list = list /\ L.at = at
    OBVIOUS
<1> HIDE DEF L
<1> DEFINE G == {n \in Nat : n <= m => GaveBack(after[n], L, Upto(n), R)}
<1>11. 0 \in G
    <2>1. Upto(0) = {}
        OBVIOUS
    <2>2. GaveBack(L, L, {}, R)
        BY <1>10, NothingBack
    <2> QED
        BY <1>8, <2>1, <2>2
<1>12. ASSUME NEW n \in Nat, n \in G PROVE n + 1 \in G
    <2> SUFFICES ASSUME n + 1 <= m PROVE GaveBack(after[n + 1], L, Upto(n + 1), R)
        OBVIOUS
    <2>1. PICK A : A = after[n]
        OBVIOUS
    <2>2. GaveBack(A, L, Upto(n), R)
        BY <1>1, <1>12, <2>1
    <2>3. n + 1 \in 1 .. m /\ (n + 1) - 1 = n
        BY <1>1
    <2>4. PICK p \in R : p = pieces[n + 1]
        BY <1>9, <2>3
    <2>5. Upto(n + 1) = Upto(n) \cup SectorsOf(p)
        <3>1. \A i : i \in 1 .. n + 1 <=> i \in 1 .. n \/ i = n + 1
            OBVIOUS
        <3> QED
            BY <2>4, <3>1
    <2>6. SectorsOf(p) \cap Upto(n) = {}
        <3> SUFFICES ASSUME NEW i \in 1 .. n, NEW x, x \in SectorsOf(p), x \in SectorsOf(pieces[i])
                     PROVE  FALSE
            OBVIOUS
        <3>1. i \in 1 .. m /\ i # n + 1
            BY <1>1
        <3> QED
            BY <1>1, <2>3, <2>4, <3>1, OneRange
    <2>7. SectorsOf(p) \cap SpaceOf(list) = {}
        <3>1. SectorsOf(p) \subseteq SpaceOf(pieces)
            BY <1>1, <1>9, <2>3, <2>4, InSpace
        <3> QED
            BY <3>1
    <2>8. A = [list |-> A.list, at |-> A.at] /\ IsList(A.list, R) /\ A.at \in 1 .. Len(A.list) + 1
          /\ SpaceOf(A.list) = SpaceOf(list) \cup Upto(n)
        BY <1>10, <2>2 DEF GaveBack
    <2>9. SectorsOf(p) \cap SpaceOf(A.list) = {}
        BY <2>6, <2>7, <2>8
    <2>10. PICK B : B = Give_Back(A, p)
        OBVIOUS
    <2>11. GaveBack(B, A, SectorsOf(p), R)
        <3>1. GaveBack(Give_Back([list |-> A.list, at |-> A.at], p), [list |-> A.list, at |-> A.at],
                       SectorsOf(p), R)
            BY <2>8, <2>9, GiveBack, ZenonT(30)
        <3> QED
            BY <2>8, <2>10, <3>1
    <2>12. GaveBack(B, L, Upto(n) \cup SectorsOf(p), R)
        BY <1>10, <2>2, <2>11, BackAndBack
    <2>13. after[n + 1] = B
        BY <1>8, <2>1, <2>3, <2>4, <2>10
    <2> QED
        BY <2>5, <2>12, <2>13
<1>13. m \in G
    <2> HIDE DEF G
    <2> QED
        BY <1>11, <1>12, NatSet
<1>14. SpaceOf(pieces) = Upto(m)
    BY <1>9 DEF SpaceOf
<1> QED
    BY <1>7, <1>13, <1>14 DEF L

----------------------------------------------------------------------------
(* Blocks *)

\* The sectors at which a block begins, the first of them at a.
Grid(a, b) == {a + q * b : q \in Nat}

LEMMA GridFacts ==
    ASSUME NEW a \in Nat, NEW b \in Nat \ {0}
    PROVE  /\ Grid(a, b) \subseteq Nat
           /\ a \in Grid(a, b)
           /\ \A g \in Grid(a, b) : a <= g /\ g + b \in Grid(a, b)
           /\ \A g, h \in Grid(a, b) : g < h => g + b <= h
           /\ \A g, h \in Grid(a, b) : g <= h => (h - g) % b = 0
           /\ \A x \in Nat : a <= x /\ (x - a) % b = 0 => x \in Grid(a, b)
           /\ \A x \in Nat : a <= x => \E g \in Grid(a, b) : g <= x /\ x < g + b
<1>1. ASSUME NEW q \in Nat PROVE q * b \in Nat
    OBVIOUS
<1>2. \A g \in Grid(a, b) : \E q \in Nat : g = a + q * b
    BY DEF Grid
<1>3. \A q \in Nat : a + q * b \in Grid(a, b)
    BY DEF Grid
<1>4. Grid(a, b) \subseteq Nat /\ \A g \in Grid(a, b) : a <= g
    BY <1>1, <1>2
<1>5. a \in Grid(a, b)
    <2>1. a + 0 * b = a
        OBVIOUS
    <2> QED
        BY <1>3, <2>1
<1>6. ASSUME NEW g \in Grid(a, b) PROVE g + b \in Grid(a, b)
    <2>1. PICK q \in Nat : g = a + q * b
        BY <1>2
    <2>2. PICK r \in Nat : r = q + 1
        OBVIOUS
    <2>3. r * b = q * b + b
        BY <2>2
    <2>4. g + b = a + r * b
        BY <1>1, <2>1, <2>3
    <2> QED
        BY <1>3, <2>4, ZenonT(30)
<1>7. ASSUME NEW g \in Grid(a, b), NEW h \in Grid(a, b), g < h PROVE g + b <= h
    <2>1. PICK p \in Nat, q \in Nat : g = a + p * b /\ h = a + q * b
        BY <1>2
    <2>2. p < q
        <3> SUFFICES ASSUME q <= p PROVE FALSE
            OBVIOUS
        <3>1. PICK d \in Nat : p = q + d
            <4>1. p - q \in Nat /\ p = q + (p - q)
                OBVIOUS
            <4> QED
                BY <4>1
        <3>2. p * b = q * b + d * b /\ d * b \in Nat /\ q * b \in Nat
            BY <3>1
        <3> QED
            BY <1>7, <2>1, <3>2
    <2>3. PICK d \in Nat : q = p + 1 + d
        <3>1. q - p - 1 \in Nat /\ q = p + 1 + (q - p - 1)
            BY <2>2
        <3> QED
            BY <3>1
    <2>4. q * b = p * b + b + d * b /\ d * b \in Nat /\ p * b \in Nat
        BY <2>3
    <2> QED
        BY <2>1, <2>4
<1>8. ASSUME NEW g \in Grid(a, b), NEW h \in Grid(a, b), g <= h PROVE (h - g) % b = 0
    <2>1. PICK p \in Nat, q \in Nat : g = a + p * b /\ h = a + q * b
        BY <1>2
    <2>2. p <= q
        <3> SUFFICES ASSUME q < p PROVE FALSE
            OBVIOUS
        <3>1. PICK d \in Nat : p = q + 1 + d
            <4>1. p - q - 1 \in Nat /\ p = q + 1 + (p - q - 1)
                OBVIOUS
            <4> QED
                BY <4>1
        <3>2. p * b = q * b + b + d * b /\ d * b \in Nat /\ q * b \in Nat
            BY <3>1
        <3> QED
            BY <1>8, <2>1, <3>2
    <2>3. PICK d \in Nat : q = p + d
        <3>1. q - p \in Nat /\ q = p + (q - p)
            BY <2>2
        <3> QED
            BY <3>1
    <2>4. h - g = d * b
        BY <2>1, <2>3
    <2>5. (d * b) % b = 0
        OBVIOUS
    <2> QED
        BY <2>4, <2>5
<1>9. ASSUME NEW x \in Nat, a <= x
      PROVE  \E q \in Nat : a + q * b <= x /\ x < a + q * b + b /\ x - a = q * b + ((x - a) % b)
    <2>1. x - a \in Nat
        BY <1>9
    <2>2. PICK q \in Nat : q = (x - a) \div b
        BY <2>1
    <2>3. x - a = q * b + ((x - a) % b) /\ (x - a) % b \in 0 .. b - 1
        BY <2>1, <2>2
    <2>4. PICK m \in Nat, r \in 0 .. b - 1 : m = q * b /\ r = (x - a) % b
        BY <1>1, <2>3
    <2>5. a + m <= x /\ x < a + m + b
        BY <2>3, <2>4
    <2> QED
        BY <2>3, <2>4, <2>5, Zenon
<1>10. ASSUME NEW x \in Nat, a <= x, (x - a) % b = 0 PROVE x \in Grid(a, b)
    <2>1. PICK q \in Nat : x - a = q * b + ((x - a) % b)
        BY <1>9, <1>10
    <2>2. x = a + q * b
        BY <1>10, <2>1
    <2> QED
        BY <1>3, <2>2
<1>11. ASSUME NEW x \in Nat, a <= x PROVE \E g \in Grid(a, b) : g <= x /\ x < g + b
    BY <1>3, <1>9, <1>11
<1> QED
    BY <1>4, <1>5, <1>6, <1>7, <1>8, <1>10, <1>11

\* Each sector from a on is in a block.
LEMMA GridFloor ==
    ASSUME NEW a \in Nat, NEW b \in Nat \ {0}, NEW x \in Nat, a <= x
    PROVE  \E g \in Grid(a, b) : g <= x /\ x < g + b
BY GridFacts

\* The sectors of the block that begins at g.
BlockAt(g, b) == g .. g + b - 1

\* Sets of whole blocks.
Whole(a, b) == {S \in SUBSET Nat : \A x \in S : \E g \in Grid(a, b) :
                                      x \in BlockAt(g, b) /\ BlockAt(g, b) \subseteq S}

\* Two blocks that share a sector are the same.
LEMMA SameBlock ==
    ASSUME NEW a \in Nat, NEW b \in Nat \ {0}, NEW g \in Grid(a, b), NEW h \in Grid(a, b), NEW x,
           x \in BlockAt(g, b), x \in BlockAt(h, b)
    PROVE  g = h
<1>1. g \in Nat /\ h \in Nat /\ (g < h => g + b <= h) /\ (h < g => h + b <= g)
    BY GridFacts
<1>2. x \in Nat /\ g <= x /\ x < g + b /\ h <= x /\ x < h + b
    BY <1>1 DEF BlockAt
<1> QED
    BY <1>1, <1>2

LEMMA WholeBlock ==
    ASSUME NEW a \in Nat, NEW b \in Nat \ {0}, NEW g \in Grid(a, b)
    PROVE  BlockAt(g, b) \in Whole(a, b) /\ g \in BlockAt(g, b) /\ BlockAt(g, b) \subseteq Nat
<1>1. g \in Nat
    BY GridFacts
<1> QED
    BY <1>1 DEF Whole, BlockAt

LEMMA WholeAlgebra ==
    ASSUME NEW a \in Nat, NEW b \in Nat \ {0}, NEW S \in Whole(a, b), NEW T \in Whole(a, b)
    PROVE  S \cup T \in Whole(a, b) /\ S \ T \in Whole(a, b)
<1>1. S \cup T \in Whole(a, b)
    BY DEF Whole
<1>2. S \ T \in Whole(a, b)
    <2>1. ASSUME NEW x \in S \ T
          PROVE  \E g \in Grid(a, b) : x \in BlockAt(g, b) /\ BlockAt(g, b) \subseteq S \ T
        <3>1. PICK g \in Grid(a, b) : x \in BlockAt(g, b) /\ BlockAt(g, b) \subseteq S
            BY <2>1 DEF Whole
        <3>2. ASSUME NEW y \in BlockAt(g, b), y \in T PROVE FALSE
            <4>1. PICK h \in Grid(a, b) : y \in BlockAt(h, b) /\ BlockAt(h, b) \subseteq T
                BY <3>2 DEF Whole
            <4>2. g = h
                BY <3>2, <4>1, SameBlock
            <4> QED
                BY <2>1, <3>1, <4>1, <4>2
        <3> QED
            BY <3>1, <3>2
    <2>2. S \ T \subseteq Nat
        BY DEF Whole
    <2> QED
        BY <2>1, <2>2 DEF Whole
<1> QED
    BY <1>1, <1>2

\* A set of whole blocks has the whole block of each of its sectors.
LEMMA BlockIn ==
    ASSUME NEW a \in Nat, NEW b \in Nat \ {0}, NEW S \in Whole(a, b), NEW g \in Grid(a, b),
           NEW x, x \in BlockAt(g, b), x \in S
    PROVE  BlockAt(g, b) \subseteq S
<1>1. PICK h \in Grid(a, b) : x \in BlockAt(h, b) /\ BlockAt(h, b) \subseteq S
    BY DEF Whole
<1> QED
    BY <1>1, SameBlock

\* Where a set of whole blocks begins and ends.
LEMMA WholeEdges ==
    ASSUME NEW a \in Nat, NEW b \in Nat \ {0}, NEW S \in Whole(a, b), NEW x \in S
    PROVE  /\ x \in Nat
           /\ x - 1 \notin S => x \in Grid(a, b)
           /\ x + 1 \notin S => x + 1 \in Grid(a, b)
<1>1. PICK g \in Grid(a, b) : x \in BlockAt(g, b) /\ BlockAt(g, b) \subseteq S
    BY DEF Whole
<1>2. g \in Nat /\ g + b \in Grid(a, b)
    BY GridFacts
<1>3. x \in Nat /\ g <= x /\ x <= g + b - 1
    BY <1>1, <1>2 DEF BlockAt
<1>4. ASSUME x - 1 \notin S PROVE x = g
    <2>1. g < x => x - 1 \in BlockAt(g, b)
        BY <1>2, <1>3 DEF BlockAt
    <2> QED
        BY <1>1, <1>2, <1>3, <1>4, <2>1
<1>5. ASSUME x + 1 \notin S PROVE x + 1 = g + b
    <2>1. x < g + b - 1 => x + 1 \in BlockAt(g, b)
        BY <1>2, <1>3 DEF BlockAt
    <2> QED
        BY <1>1, <1>2, <1>3, <1>5, <2>1
<1> QED
    BY <1>2, <1>3, <1>4, <1>5

\* Ranges of whole blocks.
GridRanges(a, b) == {r \in RangeType : r.start \in Grid(a, b) /\ r.end + 1 \in Grid(a, b)}

LEMMA GridJoinable ==
    ASSUME NEW a, NEW b
    PROVE  GridRanges(a, b) \in SUBSET RangeType /\ Joinable(GridRanges(a, b))
<1>1. ASSUME NEW p \in GridRanges(a, b), NEW q \in GridRanges(a, b), p.end + 1 = q.start
      PROVE  Extent(p.start, q.end, p.file_stat) \in GridRanges(a, b)
    <2>1. /\ p.start \in Nat /\ p.end \in Nat /\ q.start \in Nat /\ q.end \in Nat
          /\ p.file_stat \in BOOLEAN /\ p.start <= p.end /\ q.start <= q.end
          /\ p.start \in Grid(a, b) /\ q.end + 1 \in Grid(a, b)
        BY DEF GridRanges, RangeType
    <2>2. p.start <= q.end
        BY <1>1, <2>1
    <2> QED
        BY <2>1, <2>2 DEF GridRanges, RangeType, Extent
<1> QED
    BY <1>1 DEF Joinable, GridRanges

LEMMA RangeWhole ==
    ASSUME NEW a \in Nat, NEW b \in Nat \ {0}, NEW r \in GridRanges(a, b)
    PROVE  /\ SectorsOf(r) \in Whole(a, b)
           /\ \A g \in Grid(a, b) : g \in SectorsOf(r) => BlockAt(g, b) \subseteq SectorsOf(r)
<1>1. PICK s \in Nat, e \in Nat : /\ s = r.start /\ e = r.end /\ s <= e
                                  /\ s \in Grid(a, b) /\ e + 1 \in Grid(a, b)
    BY DEF GridRanges, RangeType
<1>2. SectorsOf(r) = s .. e
    BY <1>1 DEF SectorsOf
<1>3. ASSUME NEW x \in s .. e, NEW g \in Grid(a, b), x \in BlockAt(g, b)
      PROVE  BlockAt(g, b) \subseteq s .. e
    <2>1. g \in Nat /\ (g < s => g + b <= s) /\ (g < e + 1 => g + b <= e + 1)
        BY <1>1, GridFacts
    <2>2. x \in Nat /\ g <= x /\ x < g + b /\ s <= x /\ x <= e
        BY <1>1, <1>3, <2>1 DEF BlockAt
    <2>3. s <= g /\ g + b <= e + 1
        BY <1>1, <2>1, <2>2
    <2> QED
        BY <1>1, <2>1, <2>3 DEF BlockAt
<1>4. ASSUME NEW x \in s .. e PROVE \E g \in Grid(a, b) : x \in BlockAt(g, b)
    <2>1. a <= s
        BY <1>1, GridFacts
    <2>2. x \in Nat /\ a <= x
        BY <1>1, <2>1
    <2>4. PICK g \in Grid(a, b) : g <= x /\ x < g + b
        BY <2>2, GridFloor
    <2>3. g \in Nat
        BY GridFacts
    <2> QED
        BY <2>2, <2>3, <2>4 DEF BlockAt
<1>5. SectorsOf(r) \in Whole(a, b)
    BY <1>2, <1>3, <1>4 DEF Whole
<1>6. ASSUME NEW g \in Grid(a, b), g \in SectorsOf(r) PROVE BlockAt(g, b) \subseteq SectorsOf(r)
    BY <1>2, <1>3, <1>6, WholeBlock
<1> QED
    BY <1>5, <1>6

LEMMA ListWhole ==
    ASSUME NEW a \in Nat, NEW b \in Nat \ {0}, NEW list, IsList(list, GridRanges(a, b))
    PROVE  SpaceOf(list) \in Whole(a, b)
<1>1. /\ DOMAIN list = 1 .. Len(list) /\ SpaceOf(list) \subseteq Nat
      /\ \A i \in 1 .. Len(list) : list[i] \in GridRanges(a, b)
    BY GridJoinable, ListFacts
<1>2. ASSUME NEW x \in SpaceOf(list)
      PROVE  \E g \in Grid(a, b) : x \in BlockAt(g, b) /\ BlockAt(g, b) \subseteq SpaceOf(list)
    <2>1. PICK i \in 1 .. Len(list) : x \in SectorsOf(list[i])
        BY <1>1, InSpace
    <2>2. SectorsOf(list[i]) \in Whole(a, b)
        BY <1>1, RangeWhole
    <2>3. PICK g \in Grid(a, b) : x \in BlockAt(g, b) /\ BlockAt(g, b) \subseteq SectorsOf(list[i])
        BY <2>1, <2>2 DEF Whole
    <2>4. SectorsOf(list[i]) \subseteq SpaceOf(list)
        BY <1>1, InSpace
    <2> QED
        BY <2>3, <2>4
<1>3. PICK S \in SUBSET Nat : S = SpaceOf(list)
    BY <1>1
<1>4. \A x \in S : \E g \in Grid(a, b) : x \in BlockAt(g, b) /\ BlockAt(g, b) \subseteq S
    BY <1>2, <1>3
<1>5. S \in Whole(a, b)
    BY <1>4 DEF Whole
<1> QED
    BY <1>3, <1>5

\* The runs of a set of whole blocks are ranges of whole blocks.
LEMMA WholeRuns ==
    ASSUME NEW a \in Nat, NEW b \in Nat \ {0}, NEW S \in Whole(a, b), NEW n \in Nat, S \subseteq 0 .. n
    PROVE  /\ IsList(Runs(S), GridRanges(a, b)) /\ SpaceOf(Runs(S)) = S
           /\ \A i \in 1 .. Len(Runs(S)) : ~Runs(S)[i].file_stat
<1>1. PICK runs : runs = Runs(S)
    OBVIOUS
<1>2. /\ IsList(runs, RangeType) /\ SpaceOf(runs) = S
      /\ \A i \in 1 .. Len(runs) :
            /\ runs[i].start \in S /\ runs[i].end \in S
            /\ runs[i].start - 1 \notin S /\ runs[i].end + 1 \notin S
            /\ ~runs[i].file_stat
    BY <1>1, RunsOf
<1>3. \A i \in 1 .. Len(runs) : runs[i] \in GridRanges(a, b)
    <2> TAKE i \in 1 .. Len(runs)
    <2>1. runs[i] \in RangeType
        BY <1>2, ListFacts
    <2>2. runs[i].start \in Grid(a, b) /\ runs[i].end + 1 \in Grid(a, b)
        BY <1>2, WholeEdges
    <2> QED
        BY <2>1, <2>2 DEF GridRanges
<1>4. runs \in Seq(GridRanges(a, b))
    <2>1. runs \in Seq(RangeType)
        BY <1>2 DEF IsList
    <2> QED
        BY <1>3, <2>1
<1> QED
    BY <1>1, <1>2, <1>4 DEF IsList

CountBelow(S, h) == Cardinality({t \in S : t < h})

\* As many sectors of a set of whole blocks lie below a block as some number of blocks has.
LEMMA WholeCount ==
    ASSUME NEW a \in Nat, NEW b \in Nat \ {0}, NEW S \in Whole(a, b), NEW n \in Nat, S \subseteq 0 .. n,
           NEW h \in Grid(a, b)
    PROVE  \E m \in Nat : CountBelow(S, h) = m * b
<1> DEFINE Below(g) == {t \in S : t < g}
           C(g) == \E m \in Nat : Cardinality(Below(g)) = m * b
           T == {k \in Nat : C(a + k * b)}
<1>1. \A g : IsFiniteSet(Below(g)) /\ Cardinality(Below(g)) \in Nat
    <2>1. IsFiniteSet(0 .. n)
        BY FS_Interval
    <2>2. \A g : Below(g) \subseteq 0 .. n
        OBVIOUS
    <2> HIDE DEF Below
    <2> QED
        BY <2>1, <2>2, FS_Subset, FS_CardinalityType
<1>2. Below(a) = {}
    <2>1. ASSUME NEW t \in S PROVE ~(t < a)
        <3>1. PICK g \in Grid(a, b) : t \in BlockAt(g, b)
            BY DEF Whole
        <3>2. g \in Nat /\ a <= g
            BY GridFacts
        <3> QED
            BY <3>1, <3>2 DEF BlockAt
    <2> QED
        BY <2>1
<1>3. 0 \in T
    <2>1. a + 0 * b = a /\ 0 * b = 0
        OBVIOUS
    <2>2. Cardinality(Below(a)) = 0 * b
        BY <1>2, <2>1, FS_EmptySet
    <2> HIDE DEF Below
    <2> QED
        BY <2>1, <2>2
<1>4. ASSUME NEW g \in Grid(a, b), C(g) PROVE C(g + b)
    <2>1. g \in Nat
        BY GridFacts
    <2>2. PICK m \in Nat : Cardinality(Below(g)) = m * b
        BY <1>4
    <2>3. CASE g \in S
        <3>1. BlockAt(g, b) \subseteq S
            BY <2>3, BlockIn, WholeBlock
        <3>2. Below(g + b) = Below(g) \cup BlockAt(g, b)
            <4>1. \A t \in S : t \in Nat
                OBVIOUS
            <4>2. \A t \in S : t < g + b <=> t < g \/ t \in BlockAt(g, b)
                BY <2>1, <4>1 DEF BlockAt
            <4>3. \A t \in BlockAt(g, b) : t \in S /\ t < g + b
                BY <2>1, <3>1 DEF BlockAt
            <4> QED
                BY <4>2, <4>3
        <3>3. Below(g) \cap BlockAt(g, b) = {}
            BY <2>1 DEF BlockAt
        <3>4. IsFiniteSet(BlockAt(g, b)) /\ Cardinality(BlockAt(g, b)) = b
            <4>1. g + b - 1 \in Int /\ (g + b - 1) - g + 1 = b /\ g <= g + b - 1
                BY <2>1
            <4> QED
                BY <2>1, <4>1, FS_Interval DEF BlockAt
        <3>5. Cardinality(Below(g) \cap BlockAt(g, b)) = 0
            BY <3>3, FS_EmptySet
        <3> HIDE DEF Below
        <3>6. Cardinality(Below(g + b)) = Cardinality(Below(g)) + Cardinality(BlockAt(g, b)) - 0
            BY <1>1, <3>2, <3>4, <3>5, FS_Union
        <3>7. Cardinality(Below(g + b)) = m * b + b /\ m * b \in Nat
            BY <1>1, <2>2, <3>4, <3>6
        <3>8. PICK r \in Nat : r = m + 1
            OBVIOUS
        <3>9. r * b = m * b + b
            BY <3>8
        <3> QED
            BY <3>7, <3>9
    <2>4. CASE g \notin S
        <3>1. ASSUME NEW t \in S, t < g + b PROVE t < g
            <4> SUFFICES ASSUME g <= t PROVE FALSE
                BY <2>1
            <4>1. t \in BlockAt(g, b)
                BY <2>1, <3>1 DEF BlockAt
            <4>2. g \in S
                BY <4>1, BlockIn, WholeBlock
            <4> QED
                BY <2>4, <4>2
        <3>2. Below(g + b) = Below(g)
            <4>1. \A t \in S : t < g => t < g + b
                BY <2>1
            <4> QED
                BY <3>1, <4>1
        <3> HIDE DEF Below
        <3> QED
            BY <2>2, <3>2
    <2> QED
        BY <2>3, <2>4
<1>5. ASSUME NEW k \in Nat, k \in T PROVE k + 1 \in T
    <2> HIDE DEF C
    <2>1. PICK g : g = a + k * b
        OBVIOUS
    <2>2. g \in Grid(a, b)
        BY <2>1 DEF Grid
    <2>3. C(g + b)
        BY <1>4, <1>5, <2>1, <2>2
    <2>4. a + (k + 1) * b = g + b
        BY <2>1
    <2>5. C(a + (k + 1) * b)
        BY <2>3, <2>4
    <2> QED
        BY <2>5
<1>6. Nat \subseteq T
    <2> HIDE DEF T
    <2> QED
        BY <1>3, <1>5, NatSet
<1>7. PICK k \in Nat : h = a + k * b
    BY DEF Grid
<1>8. C(h)
    <2>1. k \in T
        BY <1>6
    <2> HIDE DEF C
    <2> QED
        BY <1>7, <2>1
<1> QED
    BY <1>8 DEF CountBelow

\* The first sectors of a set of whole blocks, as many as some blocks have, are whole blocks.
LEMMA PrefixWhole ==
    ASSUME NEW a \in Nat, NEW b \in Nat \ {0}, NEW S \in Whole(a, b), NEW n \in Nat, S \subseteq 0 .. n,
           NEW keep \in Nat
    PROVE  /\ Prefix(S, keep * b) \in Whole(a, b) /\ Prefix(S, keep * b) \subseteq S
           /\ keep = 0 => Prefix(S, keep * b) = {}
<1> DEFINE P == Prefix(S, keep * b)
<1>1. P = {s \in S : Rank(S, s) <= keep * b}
    BY DEF Prefix, Rank
<1>2. \A s \in S : Rank(S, s) \in Nat /\ Rank(S, s) # 0
    <2>1. \A s \in S : Rank(S, s) \in 1 .. Cardinality(S) /\ Cardinality(S) \in Nat
        BY RankGrows
    <2> QED
        BY <2>1
<1>3. \A s, t \in S : s < t => Rank(S, s) < Rank(S, t)
    BY RankGrows
<1> HIDE DEF P
<1>4. keep = 0 => P = {}
    <2> SUFFICES ASSUME keep = 0, NEW s \in P PROVE FALSE
        OBVIOUS
    <2>1. keep * b = 0
        OBVIOUS
    <2>2. s \in S /\ Rank(S, s) <= 0
        BY <1>1, <2>1
    <2> QED
        BY <1>2, <2>2
<1>5. ASSUME NEW x \in P PROVE \E g \in Grid(a, b) : x \in BlockAt(g, b) /\ BlockAt(g, b) \subseteq P
    <2>1. x \in S /\ Rank(S, x) <= keep * b
        BY <1>1
    <2>2. PICK g \in Grid(a, b) : x \in BlockAt(g, b) /\ BlockAt(g, b) \subseteq S
        BY <2>1 DEF Whole
    <2>3. g \in Nat /\ g + b \in Grid(a, b)
        BY GridFacts
    <2>4. PICK y \in Nat : y = g + b - 1
        BY <2>3
    <2>5. x \in Nat /\ g <= x /\ x <= y /\ y \in BlockAt(g, b) /\ y \in S
        BY <2>2, <2>3, <2>4 DEF BlockAt
    <2>6. PICK m \in Nat : CountBelow(S, g + b) = m * b
        <3>1. PICK h \in Grid(a, b) : h = g + b
            BY <2>3
        <3>2. \E m \in Nat : CountBelow(S, h) = m * b
            BY WholeCount
        <3> QED
            BY <3>1, <3>2
    <2>7. Rank(S, y) = m * b
        <3>1. \A t \in S : t <= y <=> t < g + b
            BY <2>3, <2>4
        <3>2. {t \in S : t <= y} = {t \in S : t < g + b}
            BY <3>1
        <3> QED
            BY <2>6, <3>2 DEF Rank, CountBelow
    <2>8. Rank(S, y) = Rank(S, x) + (y - x)
        <3> DEFINE A == {t \in S : t <= x}
                   B == {t \in S : t <= y}
                   M == x + 1 .. y
        <3>1. B = A \cup M
            <4>1. ASSUME NEW t \in M PROVE t \in S /\ t <= y
                <5>1. t \in BlockAt(g, b)
                    BY <2>3, <2>4, <2>5 DEF BlockAt
                <5> QED
                    BY <2>2, <2>5, <5>1
            <4>2. ASSUME NEW t \in S, t <= y, ~(t <= x) PROVE t \in M
                <5>1. t \in Nat
                    OBVIOUS
                <5> QED
                    BY <2>5, <4>2, <5>1
            <4>3. \A t \in S : t <= x => t <= y
                <5>1. \A t \in S : t \in Nat
                    OBVIOUS
                <5> QED
                    BY <2>5, <5>1
            <4> QED
                BY <4>1, <4>2, <4>3
        <3>2. A \cap M = {}
            BY <2>5
        <3>3. IsFiniteSet(M) /\ Cardinality(M) = y - x
            <4>1. x + 1 \in Int /\ y \in Int /\ (x + 1 > y => y - x = 0) /\ y - (x + 1) + 1 = y - x
                BY <2>5
            <4> QED
                BY <4>1, FS_Interval
        <3>4. IsFiniteSet(A)
            <4>1. IsFiniteSet(0 .. n)
                BY FS_Interval
            <4> QED
                BY <4>1, FS_Subset
        <3>5. Cardinality(A \cap M) = 0
            BY <3>2, FS_EmptySet
        <3>6. Cardinality(A) = Rank(S, x) /\ Cardinality(B) = Rank(S, y)
            BY DEF Rank
        <3> HIDE DEF A, B, M
        <3>7. Cardinality(B) = Cardinality(A) + Cardinality(M) - 0
            BY <3>1, <3>3, <3>4, <3>5, FS_Union
        <3> QED
            BY <1>2, <2>1, <2>5, <3>3, <3>6, <3>7
    <2>9. m * b <= keep * b
        <3>1. PICK r \in Nat : r = Rank(S, x)
            BY <1>2, <2>1
        <3>2. y - x <= b - 1
            BY <2>3, <2>4, <2>5
        <3>3. keep * b \in Nat /\ m * b \in Nat
            OBVIOUS
        <3>4. m * b <= keep * b + b - 1
            BY <2>1, <2>5, <2>7, <2>8, <3>1, <3>2, <3>3
        <3>5. m <= keep
            <4> SUFFICES ASSUME keep < m PROVE FALSE
                OBVIOUS
            <4>1. PICK d \in Nat : m = keep + 1 + d
                <5>1. m - keep - 1 \in Nat /\ m = keep + 1 + (m - keep - 1)
                    OBVIOUS
                <5> QED
                    BY <5>1
            <4>2. m * b = keep * b + b + d * b /\ d * b \in Nat
                BY <4>1
            <4> QED
                BY <3>3, <3>4, <4>2
        <3>6. PICK d \in Nat : keep = m + d
            <4>1. keep - m \in Nat /\ keep = m + (keep - m)
                BY <3>5
            <4> QED
                BY <4>1
        <3>7. keep * b = m * b + d * b /\ d * b \in Nat
            BY <3>6
        <3> QED
            BY <3>3, <3>7
    <2>10. ASSUME NEW t \in BlockAt(g, b) PROVE t \in P
        <3>1. t \in S /\ t \in Nat /\ t <= y
            BY <2>2, <2>3, <2>4 DEF BlockAt
        <3>2. t = y \/ Rank(S, t) < Rank(S, y)
            BY <1>3, <2>5, <3>1
        <3>3. Rank(S, t) <= Rank(S, y)
            BY <1>2, <2>5, <3>1, <3>2
        <3>4. keep * b \in Nat /\ m * b \in Nat /\ Rank(S, t) \in Nat
            BY <1>2, <3>1
        <3>5. Rank(S, t) <= keep * b
            BY <2>7, <2>9, <3>3, <3>4
        <3> QED
            BY <1>1, <3>1, <3>5
    <2> QED
        BY <2>2, <2>10
<1>6. P \subseteq S
    BY <1>1
<1>7. P \in Whole(a, b)
    BY <1>5, <1>6 DEF Whole
<1> QED
    BY <1>4, <1>6, <1>7 DEF P

----------------------------------------------------------------------------
(* The end of a file *)

\* F is what is left when the file f was finished and its sectors kept are kept.
Finish(F, f, L, passed, kept, R) ==
    /\ GaveBack([list |-> F.list, at |-> F.at], L, f.location \ kept, R)
    /\ F.recovered = IF kept = {} THEN recovered ELSE recovered \cup {kept}
    /\ F.skipped = IF passed \in kept THEN 0 ELSE passed
    /\ F.status \in {"BAD", "OK", "TRUNCATED"}
    /\ F.status = "BAD" <=> kept = {}

\* The list that is given back, marked as file_finish2 does.
MarkFirst(lost, kept) == [i \in DOMAIN lost |-> [lost[i] EXCEPT !.file_stat = kept = {} /\ i = 1]]

LEMMA Marked ==
    ASSUME NEW a, NEW b, NEW lost, IsList(lost, GridRanges(a, b)), NEW kept
    PROVE  LET pieces == MarkFirst(lost, kept) IN
           IsList(pieces, GridRanges(a, b)) /\ SpaceOf(pieces) = SpaceOf(lost)
<1> DEFINE pieces == MarkFirst(lost, kept)
<1> USE DEF MarkFirst
<1>1. PICK n \in Nat : n = Len(lost)
    BY GridJoinable, ListFacts
<1>2. /\ DOMAIN lost = 1 .. n /\ \A i \in 1 .. n : lost[i] \in GridRanges(a, b)
      /\ \A i, j \in 1 .. n : i < j => lost[i].end < lost[j].start
    BY <1>1, GridJoinable, ListFacts
<1>3. \A i \in 1 .. n : /\ pieces[i] \in GridRanges(a, b)
                        /\ pieces[i].start = lost[i].start /\ pieces[i].end = lost[i].end
    BY <1>2 DEF GridRanges, RangeType
<1>4. DOMAIN pieces = 1 .. n /\ pieces = [i \in 1 .. n |-> pieces[i]]
    BY <1>2
<1> HIDE DEF pieces
<1>5. pieces \in Seq(GridRanges(a, b)) /\ Len(pieces) = n
    BY <1>3, <1>4
<1>6. IsList(pieces, GridRanges(a, b))
    BY <1>2, <1>3, <1>5 DEF IsList
<1>7. SpaceOf(pieces) = SpaceOf(lost)
    <2>1. \A i \in 1 .. n : SectorsOf(pieces[i]) = SectorsOf(lost[i])
        BY <1>3 DEF SectorsOf
    <2> QED
        BY <1>2, <1>4, <2>1 DEF SpaceOf
<1> QED
    BY <1>6, <1>7 DEF pieces

\* What is kept of the open file, and what is given back, are whole blocks.
LEMMA FinishOpen ==
    ASSUME NEW a \in Nat, blocksize \in Nat \ {0}, NEW f, NEW L, L = [list |-> L.list, at |-> L.at],
           IsList(L.list, GridRanges(a, blocksize)), L.at \in 1 .. Len(L.list) + 1,
           NEW n \in Nat, f.location \subseteq 0 .. n, f.location \in Whole(a, blocksize),
           f.location \cap SpaceOf(L.list) = {}, NEW passed, NEW keep \in Nat
    PROVE  \E kept \in Whole(a, blocksize) :
              /\ kept \subseteq f.location /\ (keep = 0 => kept = {})
              /\ Finish(File_Finish(f, L, passed, keep), f, L, passed, kept, GridRanges(a, blocksize))
<1> DEFINE R == GridRanges(a, blocksize)
           S == f.location
           kept == Prefix(S, keep * blocksize)
           lost == Not_Kept(S, kept)
           pieces == MarkFirst(lost, kept)
           rest == Give_Back_All(L, pieces)
           F == File_Finish(f, L, passed, keep)
<1>1. kept \in Whole(a, blocksize) /\ kept \subseteq S /\ (keep = 0 => kept = {})
    BY PrefixWhole
<1> HIDE DEF kept
<1>2. S \ kept \in Whole(a, blocksize) /\ S \ kept \subseteq 0 .. n
    BY <1>1, WholeAlgebra
<1>3. IsList(lost, R) /\ SpaceOf(lost) = S \ kept
    BY <1>2, WholeRuns DEF Not_Kept
<1> HIDE DEF lost
<1>4. IsList(pieces, R) /\ SpaceOf(pieces) = S \ kept
    <2> HIDE DEF R
    <2> QED
        BY <1>3, Marked DEF R
<1> HIDE DEF pieces
<1>5. R \in SUBSET RangeType /\ Joinable(R)
    BY GridJoinable
<1>6. SpaceOf(pieces) \cap SpaceOf(L.list) = {}
    BY <1>4
<1> HIDE DEF R
<1>7. GaveBack(rest, L, S \ kept, R)
    <2>1. GaveBack(Give_Back_All([list |-> L.list, at |-> L.at], pieces),
                   [list |-> L.list, at |-> L.at], SpaceOf(pieces), R)
        BY <1>4, <1>5, <1>6, GiveBackAll DEF R
    <2> QED
        BY <1>4, <2>1
<1>8. /\ F.list = rest.list /\ F.at = rest.at
      /\ F.recovered = IF kept = {} THEN recovered ELSE recovered \cup {kept}
      /\ F.skipped = IF passed \in kept THEN 0 ELSE passed
    BY DEF File_Finish, Header_Ignored_Cond_Reset, MarkFirst, kept, lost, pieces
<1>9. F.status \in {"BAD", "OK", "TRUNCATED"} /\ (F.status = "BAD" <=> kept = {})
    BY DEF File_Finish, kept
<1>10. rest = [list |-> F.list, at |-> F.at]
    BY <1>7, <1>8 DEF GaveBack
<1>11. Finish(F, f, L, passed, kept, R)
    BY <1>7, <1>8, <1>9, <1>10 DEF Finish
<1> QED
    BY <1>1, <1>11 DEF R

\* The same for any way a file may end, one that was not open included.
LEMMA FinishAny ==
    ASSUME NEW a \in Nat, blocksize \in Nat \ {0}, NEW f, NEW L, L = [list |-> L.list, at |-> L.at],
           IsList(L.list, GridRanges(a, blocksize)), L.at \in 1 .. Len(L.list) + 1,
           NEW n \in Nat, f.location \subseteq 0 .. n, f.location \in Whole(a, blocksize),
           f.location \cap SpaceOf(L.list) = {}, ~f.open => f.location = {},
           NEW passed, NEW F \in File_Finish2(f, L, passed)
    PROVE  \E kept \in Whole(a, blocksize) :
              /\ kept \subseteq f.location
              /\ Finish(F, f, L, passed, kept, GridRanges(a, blocksize))
<1>1. CASE f.open
    <2>1. PICK keep \in 0 .. Cardinality(f.location) \div blocksize :
             F = File_Finish(f, L, passed, keep)
        BY <1>1 DEF File_Finish2
    <2>2. keep \in Nat
        OBVIOUS
    <2> QED
        BY <2>1, <2>2, FinishOpen
<1>2. CASE ~f.open
    <2>1. F = [list |-> L.list, at |-> L.at, recovered |-> recovered, skipped |-> passed,
               status |-> "BAD"]
        BY <1>2 DEF File_Finish2
    <2>2. GridRanges(a, blocksize) \in SUBSET RangeType
        BY GridJoinable
    <2>3. GaveBack(L, L, {}, GridRanges(a, blocksize))
        BY <2>2, NothingBack
    <2>4. f.location \ {} = {} /\ [list |-> F.list, at |-> F.at] = L
        BY <1>2, <2>1
    <2>5. Finish(F, f, L, passed, {}, GridRanges(a, blocksize))
        BY <2>1, <2>3, <2>4 DEF Finish
    <2>6. {} \in Whole(a, blocksize)
        BY DEF Whole
    <2> QED
        BY <2>5, <2>6
<1> QED
    BY <1>1, <1>2

----------------------------------------------------------------------------
(* Places in the list *)

\* A place to look on from: the end of the list, or a block in it, no earlier than the range.
GoodPlace(list, at, o, a, b) ==
    /\ at \in 1 .. Len(list) + 1 /\ o \in Nat
    /\ at <= Len(list) => o \in SpaceOf(list) /\ o \in Grid(a, b) /\ list[at].start <= o

\* From there on, none of the sectors behind x is missed.
Ahead(list, at, o, x) == \A s \in SpaceOf(list) : x < s => at <= Len(list) /\ o <= s

LEMMA StartPlace ==
    ASSUME NEW a, NEW b, NEW list, IsList(list, GridRanges(a, b)), NEW at \in 1 .. Len(list) + 1
    PROVE  GoodPlace(list, at, StartOf(list, at), a, b)
<1>1. /\ Len(list) \in Nat /\ DOMAIN list = 1 .. Len(list)
      /\ \A i \in 1 .. Len(list) : /\ list[i] \in GridRanges(a, b) /\ list[i].start \in Nat
                                   /\ list[i].end \in Nat /\ list[i].start <= list[i].end
    BY GridJoinable, ListFacts
<1>2. CASE at <= Len(list)
    <2>1. at \in 1 .. Len(list) /\ StartOf(list, at) = list[at].start
        BY <1>1, <1>2 DEF StartOf
    <2>2. list[at].start \in SectorsOf(list[at])
        BY <1>1, <2>1 DEF SectorsOf
    <2>3. list[at].start \in SpaceOf(list) /\ list[at].start <= list[at].start
        BY <1>1, <2>1, <2>2, InSpace
    <2>4. list[at].start \in Grid(a, b)
        BY <1>1, <2>1 DEF GridRanges
    <2> QED
        BY <1>1, <2>1, <2>3, <2>4 DEF GoodPlace
<1>3. CASE ~(at <= Len(list))
    BY <1>3 DEF GoodPlace, StartOf
<1> QED
    BY <1>2, <1>3

\* What comes after all ranges before a place comes at the place or behind it.
LEMMA StartAhead ==
    ASSUME NEW a, NEW b, NEW list, IsList(list, GridRanges(a, b)), NEW at \in 1 .. Len(list) + 1,
           NEW x \in Nat, \A k \in 1 .. at - 1 : list[k].end <= x
    PROVE  Ahead(list, at, StartOf(list, at), x)
<1>1. /\ Len(list) \in Nat /\ DOMAIN list = 1 .. Len(list)
      /\ \A i \in 1 .. Len(list) : /\ list[i].start \in Nat /\ list[i].end \in Nat
                                   /\ list[i].start <= list[i].end
      /\ \A i, j \in 1 .. Len(list) : i < j => list[i].end < list[j].start
    BY GridJoinable, ListFacts
<1>2. ASSUME NEW s \in SpaceOf(list), x < s PROVE at <= Len(list) /\ StartOf(list, at) <= s
    <2>1. PICK k \in 1 .. Len(list) : s \in SectorsOf(list[k])
        BY <1>1, InSpace
    <2>2. s \in Nat /\ list[k].start <= s /\ s <= list[k].end
        BY <1>1, <2>1 DEF SectorsOf
    <2>3. at <= k
        <3> SUFFICES ASSUME k < at PROVE FALSE
            BY <1>1
        <3>1. list[k].end <= x
            BY <1>1
        <3> QED
            BY <1>1, <1>2, <2>2, <3>1
    <2>4. at \in 1 .. Len(list)
        BY <1>1, <2>3
    <2>5. list[at].start <= list[k].start
        <3>1. CASE at = k
            BY <1>1, <3>1
        <3>2. CASE at < k
            BY <1>1, <2>4, <3>2
        <3> QED
            BY <1>1, <2>3, <3>1, <3>2
    <2>6. StartOf(list, at) = list[at].start
        BY <1>1, <2>4 DEF StartOf
    <2> QED
        BY <1>1, <2>2, <2>4, <2>5, <2>6
<1> QED
    BY <1>2 DEF Ahead

\* T is the list without the block at offset, with the place after it.
Took(T, a, R) ==
    /\ IsList(T.list, R)
    /\ SpaceOf(T.list) = Space \ BlockAt(offset, blocksize)
    /\ GoodPlace(T.list, T.at, T.offset, a, blocksize)
    /\ Ahead(T.list, T.at, T.offset, offset)

\* The place after a block that was taken is the next block, ..
LEMMA TookNext ==
    ASSUME NEW a \in Nat, blocksize \in Nat \ {0}, offset \in Grid(a, blocksize), NEW T,
           IsList(T.list, GridRanges(a, blocksize)),
           SpaceOf(T.list) = Space \ BlockAt(offset, blocksize),
           T.at \in 1 .. Len(T.list), T.offset = offset + blocksize,
           T.offset \in SpaceOf(T.list), T.list[T.at].start <= T.offset
    PROVE  Took(T, a, GridRanges(a, blocksize))
<1>1. PICK n \in Nat : n = Len(T.list)
    BY GridJoinable, ListFacts
<1>2. offset \in Nat /\ offset + blocksize \in Grid(a, blocksize) /\ offset + blocksize \in Nat
    BY GridFacts
<1>3. GoodPlace(T.list, T.at, T.offset, a, blocksize)
    BY <1>1, <1>2 DEF GoodPlace
<1>4. ASSUME NEW s \in SpaceOf(T.list), offset < s PROVE T.at <= Len(T.list) /\ T.offset <= s
    <2>1. s \in Nat
        BY GridJoinable, ListFacts
    <2>2. s \notin BlockAt(offset, blocksize)
        OBVIOUS
    <2> QED
        BY <1>1, <1>2, <1>4, <2>1, <2>2 DEF BlockAt
<1> QED
    BY <1>3, <1>4 DEF Took, Ahead

\* .. or the start of the range behind it.
LEMMA TookStart ==
    ASSUME NEW a \in Nat, blocksize \in Nat \ {0}, offset \in Grid(a, blocksize), NEW T,
           IsList(T.list, GridRanges(a, blocksize)),
           SpaceOf(T.list) = Space \ BlockAt(offset, blocksize),
           T.at \in 1 .. Len(T.list) + 1, T.offset = StartOf(T.list, T.at),
           \A k \in 1 .. T.at - 1 : T.list[k].end <= offset
    PROVE  Took(T, a, GridRanges(a, blocksize))
<1>1. offset \in Nat
    BY GridFacts
<1>2. GoodPlace(T.list, T.at, T.offset, a, blocksize)
    BY StartPlace
<1>3. Ahead(T.list, T.at, T.offset, offset)
    BY <1>1, StartAhead, SMTT(30)
<1> QED
    BY <1>2, <1>3 DEF Took

LEMMA Taking ==
    ASSUME NEW a \in Nat, blocksize \in Nat \ {0}, IsList(ranges, GridRanges(a, blocksize)),
           current \in 1 .. Len(ranges), offset \in Grid(a, blocksize),
           ranges[current].start <= offset,
           NEW i \in 1 .. Len(ranges), ranges[i].start <= offset, offset + blocksize <= ranges[i].end + 1
    PROVE  Took(Remove_From_Sp(i), a, GridRanges(a, blocksize))
<1> DEFINE R == GridRanges(a, blocksize)
           r == ranges[i]
           next == offset + blocksize
           T == Remove_From_Sp(i)
<1>1. PICK n \in Nat : n = Len(ranges)
    BY GridJoinable, ListFacts
<1>2. /\ ranges \in Seq(R) /\ DOMAIN ranges = 1 .. n
      /\ \A k \in 1 .. n : /\ ranges[k] \in R /\ ranges[k].start \in Nat /\ ranges[k].end \in Nat
                           /\ ranges[k].start <= ranges[k].end /\ ranges[k].file_stat \in BOOLEAN
      /\ \A k, m \in 1 .. n : k < m => ranges[k].end < ranges[m].start
    BY <1>1, GridJoinable, ListFacts
<1>3. PICK s \in Nat, e \in Nat, o \in Nat, b \in Nat \ {0} :
         /\ s = r.start /\ e = r.end /\ o = offset /\ b = blocksize
         /\ s \in Grid(a, b) /\ e + 1 \in Grid(a, b) /\ o \in Grid(a, b) /\ o + b \in Grid(a, b)
         /\ s <= o /\ o + b <= e + 1 /\ s <= e
    <2>1. r \in R /\ r.start \in Nat /\ r.end \in Nat /\ r.start <= r.end
        BY <1>1, <1>2
    <2>2. r.start \in Grid(a, blocksize) /\ r.end + 1 \in Grid(a, blocksize)
        BY <2>1 DEF GridRanges
    <2>3. offset \in Nat /\ offset + blocksize \in Grid(a, blocksize)
        BY GridFacts
    <2> QED
        BY <2>1, <2>2, <2>3
<1>3a. s \in Nat /\ e \in Nat /\ o \in Nat /\ b \in Nat \ {0} /\ s <= o /\ o + b <= e + 1 /\ s <= e
    BY <1>3
<1>3b. s = r.start /\ e = r.end /\ o = offset /\ b = blocksize /\ next = o + b
    BY <1>3
<1>3c. s \in Grid(a, b) /\ e + 1 \in Grid(a, b) /\ o \in Grid(a, b) /\ o + b \in Grid(a, b)
    BY <1>3
<1>4. SpaceOf(ranges) = Space
    BY DEF SpaceOf, Space
<1>5. SectorsOf(r) = s .. e /\ BlockAt(offset, blocksize) = o .. o + b - 1
    BY <1>3 DEF SectorsOf, BlockAt
<1>6. SectorsOf(r) \subseteq Space
    BY <1>1, <1>2, <1>4, InSpace
<1>7. \A k \in 1 .. i - 1 : k \in 1 .. n /\ ranges[k].end < s
    BY <1>1, <1>2, <1>3
<1>8. \A k \in i + 1 .. n : k \in 1 .. n /\ e < ranges[k].start
    BY <1>1, <1>2, <1>3
<1>9. R \in SUBSET RangeType /\ IsList(ranges, R)
    BY GridJoinable
<1> HIDE DEF R
<1>10. n = Len(ranges) /\ i \in 1 .. n /\ i \in 1 .. Len(ranges) /\ ranges[i] = r
    BY <1>1
<1>11. \A x, y \in Nat : x <= y => (SpaceOf(ranges) \ SectorsOf(ranges[i])) \cup x .. y =
                                   (Space \ (s .. e)) \cup x .. y
    BY <1>4, <1>5
<1>12. Before(ranges, i, s) /\ After(ranges, i + 1, e)
    BY <1>1, <1>7, <1>8 DEF Before, After
<1>13. CASE r.start = offset /\ next <= r.end
    <2> DEFINE q == Extent(next, r.end, FALSE)
    <2>1. PICK new : new = [ranges EXCEPT ![i] = q]
        OBVIOUS
    <2>2. T = [list |-> new, at |-> current, offset |-> next]
        BY <1>3, <1>13, <2>1 DEF Remove_From_Sp
    <2>3. o = s /\ o + b <= e
        BY <1>3, <1>13
    <2>4. q \in R /\ q.start = o + b /\ q.end = e /\ SectorsOf(q) = o + b .. e
        <3>1. q = [start |-> o + b, end |-> e, file_stat |-> FALSE]
            BY <1>3b DEF Extent
        <3>2. o + b \in Nat /\ e \in Nat /\ o + b <= e
            BY <1>3a, <2>3
        <3> HIDE DEF q
        <3>3. q.start = o + b /\ q.end = e /\ SectorsOf(q) = o + b .. e
            BY <3>1 DEF SectorsOf
        <3>4. q \in RangeType
            BY <3>1, <3>2 DEF RangeType
        <3>5. q \in GridRanges(a, b)
            BY <1>3c, <3>3, <3>4 DEF GridRanges
        <3> QED
            BY <1>3b, <3>3, <3>5 DEF R
    <2> HIDE DEF q
    <2>5. Before(ranges, i, q.start)
        <3> SUFFICES ASSUME NEW k \in 1 .. i - 1 PROVE ranges[k].end < o + b
            BY <2>4 DEF Before
        <3>1. PICK y \in Nat : y = ranges[k].end /\ y < s
            BY <1>2, <1>7
        <3>2. y < o + b
            BY <1>3a, <3>1
        <3> QED
            BY <3>1, <3>2
    <2>6. Lists(new, R, Len(ranges), (SpaceOf(ranges) \ SectorsOf(ranges[i])) \cup SectorsOf(q))
        BY <1>9, <1>10, <1>12, <2>1, <2>4, <2>5, ReplaceRange, ZenonT(30)
    <2>7. IsList(new, R) /\ Len(new) = n /\ SpaceOf(new) = Space \ BlockAt(offset, blocksize)
        <3>1. SpaceOf(new) = (Space \ (s .. e)) \cup (o + b .. e)
            BY <1>4, <1>5, <2>4, <2>6 DEF Lists
        <3>2. Space \subseteq Nat /\ s .. e \subseteq Space
            BY <1>4, <1>5, <1>6, <1>9, ListFacts
        <3>3. ASSUME NEW x \in Nat
              PROVE  x \in s .. e <=> x \in o + b .. e \/ x \in o .. o + b - 1
            BY <1>3a, <2>3
        <3>4. ASSUME NEW x \in Nat PROVE ~(x \in o + b .. e /\ x \in o .. o + b - 1)
            BY <1>3a
        <3>5. \A x \in o .. o + b - 1 : x \in Nat
            BY <1>3
        <3>6. \A x \in o + b .. e : x \in Nat
            BY <1>3
        <3>7. SpaceOf(new) = Space \ (o .. o + b - 1)
            BY <3>1, <3>2, <3>3, <3>4, <3>5, <3>6
        <3> QED
            BY <1>1, <1>5, <2>6, <3>7 DEF Lists
    <2>8. next \in SpaceOf(new)
        <3>1. new[i] = q /\ i \in DOMAIN new
            BY <1>1, <1>2, <2>1
        <3>2. next \in o + b .. e
            BY <1>3, <2>3
        <3>3. next \in SectorsOf(new[i])
            BY <2>4, <3>1, <3>2
        <3> QED
            BY <3>1, <3>3 DEF SpaceOf
    <2>9. new[current].start <= next
        <3>1. current \in 1 .. n
            BY <1>1
        <3>2. CASE current = i
            <4>1. new[current] = q
                BY <1>2, <2>1, <3>1, <3>2
            <4>2. next = o + b /\ new[current].start = o + b
                BY <1>3, <2>4, <4>1
            <4> QED
                BY <1>3, <4>2
        <3>3. CASE current # i
            <4>1. new[current] = ranges[current]
                BY <1>2, <2>1, <3>1, <3>3
            <4>2. ranges[current].start \in Nat /\ ranges[current].start <= offset
                BY <1>2, <3>1
            <4> QED
                BY <1>3, <4>1, <4>2
        <3> QED
            BY <3>2, <3>3
    <2>10. T.list = new /\ T.at = current /\ T.offset = next /\ current \in 1 .. Len(new)
        BY <1>1, <2>2, <2>7
    <2> HIDE DEF T
    <2> QED
        BY <2>7, <2>8, <2>9, <2>10, TookNext DEF R, T
<1>14. CASE r.start = offset /\ next > r.end
    <2>1. PICK new : new = RemoveAt(ranges, i)
        OBVIOUS
    <2>2. T = [list |-> new, at |-> i, offset |-> StartOf(new, i)]
        BY <1>3, <1>14, <2>1 DEF Remove_From_Sp
    <2>3. o = s /\ o + b - 1 = e
        BY <1>3, <1>14
    <2>4. Lists(new, R, Len(ranges) - 1, SpaceOf(ranges) \ SectorsOf(ranges[i]))
        BY <1>9, <1>10, <2>1, RemoveRange, ZenonT(30)
    <2>5. IsList(new, R) /\ Len(new) = n - 1 /\ SpaceOf(new) = Space \ BlockAt(offset, blocksize)
        BY <1>1, <1>4, <1>5, <2>3, <2>4 DEF Lists
    <2>6. \A k \in 1 .. i - 1 : new[k].end <= offset
        <3>1. Removed_At(new, ranges, i)
            BY <1>2, <1>10, <2>1, RemoveElements, ZenonT(30)
        <3>2. TAKE k \in 1 .. i - 1
        <3>3. new[k] = ranges[k]
            BY <3>1 DEF Removed_At
        <3>4. PICK y \in Nat : y = ranges[k].end /\ y < s
            BY <1>2, <1>7
        <3>5. s = o /\ o \in Nat /\ offset = o
            BY <1>3, <2>3
        <3>6. y <= o
            BY <3>4, <3>5
        <3> QED
            BY <3>3, <3>4, <3>5, <3>6
    <2>7. T.list = new /\ T.at = i /\ T.offset = StartOf(T.list, T.at) /\ i \in 1 .. Len(new) + 1
        BY <1>1, <2>2, <2>5
    <2> HIDE DEF T
    <2> QED
        BY <2>5, <2>6, <2>7, TookStart DEF R, T
<1>15. ASSUME r.start # offset
       PROVE  LET cut == [ranges EXCEPT ![i].end = offset - 1] IN
              /\ IsList(cut, R) /\ Len(cut) = n /\ SpaceOf(cut) = (Space \ (s .. e)) \cup (s .. o - 1)
              /\ cut[i].end = o - 1 /\ \A k \in 1 .. n : k # i => cut[k] = ranges[k]
    <2> DEFINE q == [r EXCEPT !.end = offset - 1]
    <2>1. PICK cut : cut = [ranges EXCEPT ![i] = q]
        OBVIOUS
    <2>2. cut = [ranges EXCEPT ![i].end = offset - 1]
        BY <2>1
    <2>3. s < o
        BY <1>3, <1>15
    <2>4. q \in R /\ q.start = s /\ q.end = o - 1 /\ SectorsOf(q) = s .. o - 1
        <3>1. r \in R
            BY <1>1, <1>2
        <3>2. o - 1 \in Nat /\ (o - 1) + 1 = o /\ s <= o - 1
            BY <2>3
        <3> QED
            BY <1>3, <3>1, <3>2 DEF R, GridRanges, RangeType, SectorsOf
    <2>5. Before(ranges, i, q.start)
        BY <1>12, <2>4
    <2>6. After(ranges, i + 1, q.end)
        <3> SUFFICES ASSUME NEW k \in i + 1 .. Len(ranges) PROVE o - 1 < ranges[k].start
            BY <2>4 DEF After
        <3>1. PICK y \in Nat : y = ranges[k].start /\ e < y
            BY <1>1, <1>2, <1>8
        <3>2. o - 1 < e
            BY <1>3
        <3>3. o - 1 < y
            BY <3>1, <3>2
        <3> QED
            BY <3>1, <3>3
    <2>7. Lists(cut, R, Len(ranges), (SpaceOf(ranges) \ SectorsOf(ranges[i])) \cup SectorsOf(q))
        <3> HIDE DEF q
        <3> QED
            BY <1>9, <1>10, <2>1, <2>4, <2>5, <2>6, ReplaceRange, ZenonT(30)
    <2>8. SpaceOf(cut) = (Space \ (s .. e)) \cup (s .. o - 1)
        BY <1>4, <1>5, <2>4, <2>7 DEF Lists
    <2>9. cut[i] = q /\ \A k \in 1 .. n : k # i => cut[k] = ranges[k]
        BY <1>1, <1>2, <2>1
    <2>10. cut[i].end = o - 1
        BY <2>4, <2>9
    <2> QED
        BY <1>1, <2>2, <2>7, <2>8, <2>9, <2>10 DEF Lists
<1>16. CASE r.start # offset /\ next = r.end + 1
    <2>1. PICK cut : cut = [ranges EXCEPT ![i].end = offset - 1]
        OBVIOUS
    <2>2. T = [list |-> cut, at |-> i + 1, offset |-> StartOf(ranges, i + 1)]
        BY <1>16, <2>1 DEF Remove_From_Sp
    <2>3. /\ IsList(cut, R) /\ Len(cut) = n /\ SpaceOf(cut) = (Space \ (s .. e)) \cup (s .. o - 1)
          /\ cut[i].end = o - 1 /\ \A k \in 1 .. n : k # i => cut[k] = ranges[k]
        BY <1>15, <1>16, <2>1
    <2>4. o + b - 1 = e
        <3>1. o + b = e + 1
            BY <1>3b, <1>16
        <3> QED
            BY <1>3a, <3>1
    <2>5. SpaceOf(cut) = Space \ BlockAt(offset, blocksize)
        <3>1. Space \subseteq Nat /\ s .. e \subseteq Space
            BY <1>4, <1>5, <1>6, <1>9, ListFacts
        <3>2. ASSUME NEW x \in Nat
              PROVE  x \in s .. e <=> x \in s .. o - 1 \/ x \in o .. e
            BY <1>3a
        <3>3. ASSUME NEW x \in Nat PROVE ~(x \in s .. o - 1 /\ x \in o .. e)
            BY <1>3a
        <3>4. \A x \in o .. e : x \in Nat
            BY <1>3a
        <3>5. \A x \in s .. o - 1 : x \in Nat
            BY <1>3a
        <3>6. SpaceOf(cut) = Space \ (o .. e)
            BY <2>3, <3>1, <3>2, <3>3, <3>4, <3>5
        <3> QED
            BY <1>5, <2>4, <3>6
    <2>6. StartOf(ranges, i + 1) = StartOf(cut, i + 1)
        <3>1. CASE i + 1 <= n
            <4>1. i + 1 \in 1 .. n /\ i + 1 # i
                BY <1>1, <3>1
            <4>2. cut[i + 1] = ranges[i + 1]
                BY <2>3, <4>1
            <4> QED
                BY <1>1, <2>3, <3>1, <4>2 DEF StartOf
        <3>2. CASE ~(i + 1 <= n)
            BY <1>1, <2>3, <3>2 DEF StartOf
        <3> QED
            BY <3>1, <3>2
    <2>7. \A k \in 1 .. i : cut[k].end <= offset
        <3> TAKE k \in 1 .. i
        <3>1. CASE k = i
            BY <1>3, <2>3, <3>1
        <3>2. CASE k # i
            <4>1. k \in 1 .. i - 1
                BY <1>1, <3>2
            <4>2. k \in 1 .. n /\ ranges[k].end < s
                BY <1>7, <4>1
            <4>3. PICK y \in Nat : y = cut[k].end /\ y < s
                BY <1>2, <2>3, <3>2, <4>2
            <4>4. y <= o
                BY <1>3a, <4>3
            <4> QED
                BY <1>3b, <4>3, <4>4
        <3> QED
            BY <3>1, <3>2
    <2>8. T.list = cut /\ T.at = i + 1 /\ T.offset = StartOf(cut, i + 1) /\ i + 1 \in 1 .. Len(cut) + 1
          /\ 1 .. (i + 1) - 1 = 1 .. i
        BY <1>1, <2>2, <2>3, <2>6
    <2> HIDE DEF T
    <2> QED
        BY <2>3, <2>5, <2>7, <2>8, TookStart DEF R, T
<1>17. CASE r.start # offset /\ next # r.end + 1
    <2> DEFINE q == Extent(next, r.end, FALSE)
    <2>1. PICK cut : cut = [ranges EXCEPT ![i].end = offset - 1]
        OBVIOUS
    <2>2. PICK new : new = InsertAt(cut, i + 1, q)
        OBVIOUS
    <2>3. T = [list |-> new, at |-> i + 1, offset |-> next]
        BY <1>17, <2>1, <2>2 DEF Remove_From_Sp
    <2>4. /\ IsList(cut, R) /\ Len(cut) = n /\ SpaceOf(cut) = (Space \ (s .. e)) \cup (s .. o - 1)
          /\ cut[i].end = o - 1 /\ \A k \in 1 .. n : k # i => cut[k] = ranges[k]
        BY <1>15, <1>17, <2>1
    <2>5. o + b <= e
        <3>1. o + b # e + 1
            BY <1>3b, <1>17
        <3> QED
            BY <1>3a, <3>1
    <2>6. q \in R /\ q.start = o + b /\ q.end = e /\ SectorsOf(q) = o + b .. e
        <3>1. q = [start |-> o + b, end |-> e, file_stat |-> FALSE]
            BY <1>3b DEF Extent
        <3>2. o + b \in Nat /\ e \in Nat /\ o + b <= e
            BY <1>3a, <2>5
        <3> HIDE DEF q
        <3>3. q.start = o + b /\ q.end = e /\ SectorsOf(q) = o + b .. e
            BY <3>1 DEF SectorsOf
        <3>4. q \in RangeType
            BY <3>1, <3>2 DEF RangeType
        <3>5. q \in GridRanges(a, b)
            BY <1>3c, <3>3, <3>4 DEF GridRanges
        <3> QED
            BY <1>3b, <3>3, <3>5 DEF R
    <2> HIDE DEF q
    <2>7. Before(cut, i + 1, q.start)
        <3> SUFFICES ASSUME NEW k \in 1 .. (i + 1) - 1 PROVE cut[k].end < o + b
            BY <2>6 DEF Before
        <3>1. CASE k = i
            BY <1>3, <2>4, <3>1
        <3>2. CASE k # i
            <4>1. k \in 1 .. i - 1
                BY <1>1, <3>2
            <4>2. k \in 1 .. n /\ ranges[k].end < s
                BY <1>7, <4>1
            <4>3. PICK y \in Nat : y = cut[k].end /\ y < s
                BY <1>2, <2>4, <3>2, <4>2
            <4>4. y < o + b
                BY <1>3a, <4>3
            <4> QED
                BY <4>3, <4>4
        <3> QED
            BY <3>1, <3>2
    <2>8. After(cut, i + 1, q.end)
        <3> SUFFICES ASSUME NEW k \in i + 1 .. n PROVE e < cut[k].start
            BY <2>4, <2>6 DEF After
        <3>1. k \in 1 .. n /\ e < ranges[k].start /\ k # i
            BY <1>1, <1>8
        <3>2. cut[k] = ranges[k]
            BY <2>4, <3>1
        <3> QED
            BY <3>1, <3>2
    <2>9. i + 1 \in 1 .. Len(cut) + 1
        BY <1>1, <2>4
    <2>10. Lists(new, R, Len(cut) + 1, SpaceOf(cut) \cup SectorsOf(q))
        BY <1>9, <2>2, <2>4, <2>6, <2>7, <2>8, <2>9, InsertRange, ZenonT(30)
    <2>11. IsList(new, R) /\ Len(new) = n + 1 /\ SpaceOf(new) = Space \ BlockAt(offset, blocksize)
        <3>1. SpaceOf(new) = ((Space \ (s .. e)) \cup (s .. o - 1)) \cup (o + b .. e)
            BY <2>4, <2>6, <2>10 DEF Lists
        <3>2. Space \subseteq Nat /\ s .. e \subseteq Space
            BY <1>4, <1>5, <1>6, <1>9, ListFacts
        <3>3. ASSUME NEW x \in Nat
              PROVE  x \in s .. e <=> x \in s .. o - 1 \/ x \in o .. o + b - 1 \/ x \in o + b .. e
            BY <1>3a
        <3>4. ASSUME NEW x \in Nat
              PROVE  /\ ~(x \in s .. o - 1 /\ x \in o .. o + b - 1)
                     /\ ~(x \in o + b .. e /\ x \in o .. o + b - 1)
            BY <1>3a
        <3>5. \A x \in o .. o + b - 1 : x \in Nat
            BY <1>3
        <3>6. \A x \in s .. o - 1 : x \in Nat
            BY <1>3
        <3>7. \A x \in o + b .. e : x \in Nat
            BY <1>3
        <3>8. SpaceOf(new) = Space \ (o .. o + b - 1)
            BY <3>1, <3>2, <3>3, <3>4, <3>5, <3>6, <3>7
        <3> QED
            BY <1>5, <2>4, <2>10, <3>8 DEF Lists
    <2>12. new[i + 1] = q /\ i + 1 \in DOMAIN new /\ i + 1 \in 1 .. Len(new)
        <3>1. cut \in Seq(R)
            BY <2>4 DEF IsList
        <3>2. Inserted(new, cut, i + 1, q)
            BY <2>2, <2>6, <2>9, <3>1, InsertElements, ZenonT(30)
        <3>3. new \in Seq(R)
            BY <2>11 DEF IsList
        <3> QED
            BY <1>1, <2>11, <3>2, <3>3 DEF Inserted
    <2>13. next \in SpaceOf(new) /\ new[i + 1].start <= next
        <3>1. next \in o + b .. e
            BY <1>3, <2>5
        <3>2. next \in SectorsOf(new[i + 1])
            BY <2>6, <2>12, <3>1
        <3>3. next \in SpaceOf(new)
            BY <2>12, <3>2 DEF SpaceOf
        <3>4. next = o + b /\ new[i + 1].start = o + b
            BY <1>3, <2>6, <2>12
        <3> QED
            BY <1>3, <3>3, <3>4
    <2>14. T.list = new /\ T.at = i + 1 /\ T.offset = next
        BY <2>3
    <2> HIDE DEF T
    <2> QED
        BY <2>11, <2>12, <2>13, <2>14, TookNext DEF R, T
<1>18. next > r.end \/ next <= r.end
    BY <1>3
<1> QED
    BY <1>13, <1>14, <1>16, <1>17, <1>18

----------------------------------------------------------------------------
(* What is free, in the open file and kept *)

\* The walk's blocks and ranges; its first block begins at Origin.
Origin == Min(universe)
Blocks == Grid(Origin, blocksize)
Grids == GridRanges(Origin, blocksize)
Free == Space \cup file.location

Shared(space, location, kept) ==
    /\ space \cup location \cup UNION kept = universe
    /\ space \cap location = {}
    /\ (space \cup location) \cap UNION kept = {}
    /\ \A f, g \in kept : f = g \/ f \cap g = {}

With(files, kept) == IF kept = {} THEN files ELSE files \cup {kept}

\* What is kept moves from the free sectors to a new file.
LEMMA SharedStep ==
    ASSUME NEW S, NEW T, NEW K, Shared(S, T, K), NEW kept \in SUBSET (S \cup T),
           NEW S2, NEW T2, S2 \cup T2 = (S \cup T) \ kept, S2 \cap T2 = {}
    PROVE  Shared(S2, T2, With(K, kept))
<1>1. CASE kept = {}
    BY <1>1 DEF Shared, With
<1>2. CASE kept # {}
    <2>1. With(K, kept) = K \cup {kept}
        BY <1>2 DEF With
    <2> DEFINE U == UNION K  V == UNION (K \cup {kept})
    <2>2. V = U \cup kept
        <3>1. \A x : x \in V <=> x \in U \/ x \in kept
            OBVIOUS
        <3> HIDE DEF U, V
        <3> QED
            BY <3>1
    <2>3. S2 \cup T2 \cup (U \cup kept) = universe /\ (S2 \cup T2) \cap (U \cup kept) = {}
        <3>1. S \cup T \cup U = universe /\ (S \cup T) \cap U = {}
            BY DEF Shared
        <3> HIDE DEF U
        <3>2. (S2 \cup T2) \cap (U \cup kept) = {}
            BY <3>1
        <3>3. S2 \cup T2 \cup (U \cup kept) = S \cup T \cup U
            <4>1. ASSUME NEW x PROVE x \in S2 \/ x \in T2 <=> (x \in S \/ x \in T) /\ x \notin kept
                OBVIOUS
            <4>2. \A x \in kept : x \in S \/ x \in T
                OBVIOUS
            <4> QED
                BY <4>1, <4>2
        <3> QED
            BY <3>1, <3>2, <3>3
    <2>4. ASSUME NEW f \in K PROVE f \cap kept = {}
        BY DEF Shared
    <2>5. \A f, g \in K \cup {kept} : f = g \/ f \cap g = {}
        BY <2>4 DEF Shared
    <2>6. V = UNION With(K, kept)
        BY <2>1
    <2> HIDE DEF U, V
    <2> QED
        BY <2>1, <2>2, <2>3, <2>5, <2>6 DEF Shared
<1> QED
    BY <1>1, <1>2

\* The walk's sectors and its block size, which no step of it changes.
Fixed ==
    /\ universe \in SUBSET (FIRST .. LAST + MAX_BLOCKSIZE)
    /\ blocksize \in BlockSizes
    /\ on_blocks => used \cap universe = {}

LEMMA FixedFacts ==
    ASSUME Fixed, universe # {}
    PROVE  /\ Origin \in Nat \ {0} /\ Origin \in universe /\ \A s \in universe : Origin <= s
           /\ blocksize \in Nat \ {0} /\ LAST + MAX_BLOCKSIZE \in Nat
           /\ universe \subseteq 0 .. LAST + MAX_BLOCKSIZE
           /\ \A s \in universe : s # 0
<1>1. FIRST \in Nat \ {0} /\ LAST + MAX_BLOCKSIZE \in Nat /\ BlockSizes \subseteq Nat \ {0}
    BY SearchSpaceAssumption DEF BlockSizes
<1>2. FIRST .. LAST + MAX_BLOCKSIZE \subseteq Nat \ {0}
    BY <1>1
<1>3. FIRST .. LAST + MAX_BLOCKSIZE \subseteq 0 .. LAST + MAX_BLOCKSIZE
    BY <1>1
<1>4. universe \in SUBSET Nat
    BY <1>2 DEF Fixed
<1>5. Origin \in universe /\ \A s \in universe : Origin <= s
    BY <1>4, MinOf DEF Origin
<1> QED
    BY <1>1, <1>2, <1>3, <1>5 DEF Fixed

\* The list, the open file f and the files K are the walk's.
SoundAt(list, f, K) ==
    /\ IsList(list, Grids)
    /\ Shared(SpaceOf(list), f.location, K)
    /\ f.location \in Whole(Origin, blocksize)
    /\ ~f.open => f.location = {}

\* A header passed over lies in the space S.
PassedIn(passed, S) == passed = 0 \/ (passed \in S /\ passed \in Blocks)

\* K is recovered and what left the free sectors, which now are free.
Carved(free, K) == \E kept \in SUBSET Free : K = With(recovered, kept) /\ free = Free \ kept

\* Blocks that are still to be seen are free, at the place or behind it.
ToSee(list, at, o, passed, U) ==
    \A s \in U : s \in SpaceOf(list) /\ at <= Len(list) /\ o <= s /\ passed < s

\* F is what is left when the file f was finished, at the place o of L.
Left(F, L, passed, o) ==
    /\ IsList(F.list, Grids)
    /\ Shared(SpaceOf(F.list), {}, F.recovered)
    /\ GoodPlace(F.list, F.at, o, Origin, blocksize)
    /\ F.at \in 1 .. Len(F.list) + 1
    /\ F.at = Len(F.list) + 1 <=> L.at = Len(L.list) + 1
    /\ PassedIn(F.skipped, SpaceOf(F.list)) /\ F.skipped \in {0, passed}
    /\ SpaceOf(L.list) \subseteq SpaceOf(F.list)
    /\ Carved(SpaceOf(F.list), F.recovered)
    /\ F.status \in {"BAD", "OK", "TRUNCATED"}

LEMMA Leaving ==
    ASSUME Fixed, universe # {},
           NEW f, NEW L, SoundAt(L.list, f, recovered), SpaceOf(L.list) \cup f.location = Free,
           NEW o, GoodPlace(L.list, L.at, o, Origin, blocksize),
           NEW passed, PassedIn(passed, SpaceOf(L.list) \cup f.location),
           NEW kept, kept \subseteq f.location, NEW F, Finish(F, f, L, passed, kept, Grids)
    PROVE  Left(F, L, passed, o)
<1> DEFINE G == [list |-> F.list, at |-> F.at]
           S == SpaceOf(L.list)
<1>1. GaveBack(G, L, f.location \ kept, Grids)
    BY DEF Finish
<1>2. /\ IsList(F.list, Grids) /\ SpaceOf(F.list) = S \cup (f.location \ kept)
      /\ F.at \in 1 .. Len(F.list) + 1 /\ (F.at = Len(F.list) + 1 <=> L.at = Len(L.list) + 1)
      /\ L.at <= Len(L.list) => F.list[F.at].start <= L.list[L.at].start
    BY <1>1 DEF GaveBack
<1> HIDE DEF S
<1>3. F.recovered = With(recovered, kept) /\ F.skipped = (IF passed \in kept THEN 0 ELSE passed)
      /\ F.status \in {"BAD", "OK", "TRUNCATED"}
    BY DEF Finish, With
<1>4. Shared(S, f.location, recovered) /\ S \cap f.location = {}
    BY DEF SoundAt, Shared, S
<1>5. SpaceOf(F.list) = (S \cup f.location) \ kept /\ kept \in SUBSET (S \cup f.location)
    BY <1>2, <1>4
<1>6. Shared(SpaceOf(F.list), {}, F.recovered)
    <2>1. SpaceOf(F.list) \cup {} = (S \cup f.location) \ kept /\ SpaceOf(F.list) \cap {} = {}
        BY <1>5
    <2> QED
        BY <1>3, <1>4, <1>5, <2>1, SharedStep
<1>7. PassedIn(F.skipped, SpaceOf(F.list)) /\ F.skipped \in {0, passed}
    BY <1>3, <1>5 DEF PassedIn, S
<1>8. Carved(SpaceOf(F.list), F.recovered)
    BY <1>3, <1>5 DEF Carved, S
<1>9. GoodPlace(F.list, F.at, o, Origin, blocksize)
    <2>1. Len(L.list) \in Nat /\ Len(F.list) \in Nat /\ L.at \in 1 .. Len(L.list) + 1 /\ o \in Nat
        BY <1>2, GridJoinable, ListFacts DEF GoodPlace, SoundAt, Grids
    <2>2. CASE L.at <= Len(L.list)
        <3>1. o \in S /\ o \in Grid(Origin, blocksize) /\ L.list[L.at].start <= o
            BY <2>2 DEF GoodPlace, S
        <3>2. F.at \in 1 .. Len(F.list) /\ L.at \in 1 .. Len(L.list)
            BY <1>2, <2>1, <2>2
        <3>3. L.list[L.at].start \in Nat /\ F.list[F.at].start \in Nat
            BY <1>2, <3>2, GridJoinable, ListFacts DEF SoundAt, Grids
        <3>4. F.list[F.at].start <= o
            <4>1. PICK x \in Nat, y \in Nat : x = F.list[F.at].start /\ y = L.list[L.at].start
                BY <3>3
            <4>2. x <= y /\ y <= o
                BY <1>2, <2>2, <3>1, <4>1
            <4>3. x <= o
                BY <2>1, <4>2
            <4> QED
                BY <4>1, <4>3
        <3>5. o \in SpaceOf(F.list)
            BY <1>2, <3>1
        <3> QED
            BY <1>2, <2>1, <3>1, <3>4, <3>5 DEF GoodPlace
    <2>3. CASE ~(L.at <= Len(L.list))
        <3>1. ~(F.at <= Len(F.list))
            BY <1>2, <2>1, <2>3
        <3> QED
            BY <1>2, <2>1, <3>1 DEF GoodPlace
    <2> QED
        BY <2>2, <2>3
<1>10. S \subseteq SpaceOf(F.list)
    BY <1>2
<1> QED
    BY <1>2, <1>3, <1>6, <1>7, <1>8, <1>9, <1>10 DEF Left, S

LEMMA LeavingAny ==
    ASSUME Fixed, universe # {},
           NEW f, NEW L, L = [list |-> L.list, at |-> L.at],
           SoundAt(L.list, f, recovered), SpaceOf(L.list) \cup f.location = Free,
           NEW o, GoodPlace(L.list, L.at, o, Origin, blocksize),
           NEW passed, PassedIn(passed, SpaceOf(L.list) \cup f.location),
           NEW F \in File_Finish2(f, L, passed)
    PROVE  Left(F, L, passed, o)
<1> DEFINE S == f.location
<1>1. Origin \in Nat /\ blocksize \in Nat \ {0} /\ LAST + MAX_BLOCKSIZE \in Nat
    BY FixedFacts
<1>2. /\ IsList(L.list, GridRanges(Origin, blocksize)) /\ S \in Whole(Origin, blocksize)
      /\ S \cap SpaceOf(L.list) = {} /\ (~f.open => S = {})
    BY DEF SoundAt, Grids, Shared
<1>3. S \subseteq 0 .. LAST + MAX_BLOCKSIZE
    <2>1. S \subseteq universe
        BY DEF SoundAt, Shared
    <2> QED
        BY <2>1, FixedFacts
<1>4. L.at \in 1 .. Len(L.list) + 1
    BY DEF GoodPlace
<1>5. PICK n \in Nat : n = LAST + MAX_BLOCKSIZE /\ S \subseteq 0 .. n
    BY <1>1, <1>3
<1>6. PICK kept : kept \subseteq f.location /\ Finish(F, f, L, passed, kept, Grids)
    BY <1>1, <1>2, <1>4, <1>5, FinishAny DEF Grids
<1> QED
    BY <1>6, Leaving

----------------------------------------------------------------------------
(* Going on and going back *)

LEMMA GoingOn ==
    ASSUME NEW a \in Nat, NEW b \in Nat \ {0}, NEW L, IsList(L.list, GridRanges(a, b)),
           NEW o, GoodPlace(L.list, L.at, o, a, b), L.at <= Len(L.list)
    PROVE  LET to == Next_Sector(L, o, b) IN
           /\ GoodPlace(L.list, to.at, to.offset, a, b)
           /\ \A s \in SpaceOf(L.list) \cap Grid(a, b) : o < s => to.at <= Len(L.list) /\ to.offset <= s
<1> DEFINE list == L.list
           at == L.at
           to == Next_Sector(L, o, b)
<1>1. PICK n \in Nat : n = Len(list)
    BY GridJoinable, ListFacts
<1>2. /\ DOMAIN list = 1 .. n
      /\ \A k \in 1 .. n : /\ list[k].start \in Nat /\ list[k].end \in Nat
                           /\ list[k].start <= list[k].end /\ list[k] \in GridRanges(a, b)
      /\ \A k, m \in 1 .. n : k < m => list[k].end < list[m].start
      /\ SpaceOf(list) \subseteq Nat
    BY <1>1, GridJoinable, ListFacts
<1>3. at \in 1 .. n /\ o \in Nat /\ o \in Grid(a, b) /\ list[at].start <= o
    BY <1>1 DEF GoodPlace
<1>4. PICK x \in Nat, y \in Nat : x = list[at].start /\ y = list[at].end /\ x <= o
    BY <1>2, <1>3
<1>5. ASSUME NEW s \in Grid(a, b), o < s PROVE s \in Nat /\ o + b <= s
    BY <1>3, <1>5, GridFacts
<1>6. CASE o + b <= y
    <2>1. to.at = at /\ to.offset = o + b
        BY <1>4, <1>6 DEF Next_Sector
    <2>2. o + b \in SectorsOf(list[at]) /\ list[at].start <= o + b
        BY <1>3, <1>4, <1>6 DEF SectorsOf
    <2>3. o + b \in SpaceOf(list)
        BY <1>1, <1>2, <1>3, <2>2, InSpace
    <2>4. o + b \in Grid(a, b) /\ o + b \in Nat
        <3>1. o + b \in Grid(a, b)
            BY <1>3, GridFacts
        <3> QED
            BY <1>3, <3>1
    <2>5. GoodPlace(list, to.at, to.offset, a, b)
        BY <1>1, <1>3, <2>1, <2>2, <2>3, <2>4 DEF GoodPlace
    <2> QED
        BY <1>1, <1>3, <1>5, <2>1, <2>5
<1>7. CASE ~(o + b <= y)
    <2>1. to.at = at + 1 /\ to.offset = StartOf(list, at + 1)
        BY <1>4, <1>7 DEF Next_Sector
    <2>2. at + 1 \in 1 .. n + 1
        BY <1>3
    <2>3. GoodPlace(list, at + 1, StartOf(list, at + 1), a, b)
        BY <1>1, <2>2, StartPlace
    <2>4. o + b - 1 \in Nat /\ y <= o + b - 1
        BY <1>3, <1>4, <1>7
    <2>5. ASSUME NEW k \in 1 .. at PROVE list[k].end <= o + b - 1
        <3>1. CASE k = at
            BY <1>4, <2>4, <3>1
        <3>2. CASE k # at
            <4>1. k \in 1 .. n /\ k < at
                BY <1>3, <3>2
            <4>2. PICK z \in Nat : z = list[k].end /\ z < x
                BY <1>2, <1>3, <1>4, <4>1
            <4>3. o \in Nat /\ b >= 1 /\ x <= o /\ z < x
                BY <1>3, <1>4, <4>2
            <4>4. z <= o + b - 1
                BY <4>3
            <4> QED
                BY <4>2, <4>4
        <3> QED
            BY <3>1, <3>2
    <2>6. Ahead(list, at + 1, StartOf(list, at + 1), o + b - 1)
        <3>1. 1 .. (at + 1) - 1 = 1 .. at
            BY <1>3
        <3> QED
            BY <1>1, <2>2, <2>4, <2>5, <3>1, StartAhead
    <2>7. ASSUME NEW s \in SpaceOf(list) \cap Grid(a, b), o < s
          PROVE  at + 1 <= Len(list) /\ StartOf(list, at + 1) <= s
        <3>1. s \in Nat /\ o + b <= s /\ o \in Nat
            BY <1>3, <1>5, <2>7
        <3>2. o + b - 1 < s
            BY <3>1
        <3> QED
            BY <2>6, <3>2 DEF Ahead
    <2> QED
        BY <2>1, <2>3, <2>7
<1> QED
    BY <1>6, <1>7

\* get_prev_location_smart: whatever it finds, nothing that was still ahead is left out.
LEMMA GoingBack ==
    ASSUME NEW a \in Nat \ {0}, NEW b \in Nat \ {0}, NEW L, IsList(L.list, GridRanges(a, b)),
           GoodPlace(L.list, L.at, offset, a, b),
           NEW passed, passed = 0 \/ (passed \in SpaceOf(L.list) /\ passed \in Grid(a, b)),
           NEW prev, NEW U, ToSee(L.list, L.at, offset, passed, U), U \subseteq Grid(a, b)
    PROVE  LET to == Prev_Location_Smart(L, passed, prev) IN
           GoodPlace(L.list, to.at, to.offset, a, b) /\ ToSee(L.list, to.at, to.offset, 0, U)
<1> DEFINE list == L.list
           Below(i, S) == Max({0} \cup {j \in S : j <= i})
           holding == {j \in DOMAIN list : passed \in SectorsOf(list[j])}
           before == {j \in DOMAIN list : list[j].start < prev}
           j == Below(L.at - 1, holding \cup before)
           from == IF j = 0 THEN Len(list) ELSE j - 1
           k == Below(from, {n \in DOMAIN list : list[n].start < passed})
           to == Prev_Location_Smart(L, passed, prev)
<1>1. PICK m \in Nat : m = Len(list)
    BY GridJoinable, ListFacts
<1>2. /\ DOMAIN list = 1 .. m
      /\ \A i \in 1 .. m : /\ list[i].start \in Nat /\ list[i].end \in Nat
                           /\ list[i].start <= list[i].end
      /\ SpaceOf(list) \subseteq Nat
    BY <1>1, GridJoinable, ListFacts
<1>3. ASSUME NEW i, NEW S \in SUBSET (1 .. m)
      PROVE  Below(i, S) = 0 \/ (Below(i, S) \in S /\ Below(i, S) <= i)
    <2> DEFINE T == {0} \cup {x \in S : x <= i}
    <2>1. T \in SUBSET (0 .. m) /\ T # {}
        <3>1. 0 \in 0 .. m /\ \A x \in 1 .. m : x \in 0 .. m
            BY <1>1
        <3>2. \A x \in T : x = 0 \/ x \in S
            OBVIOUS
        <3>3. 0 \in T
            OBVIOUS
        <3> HIDE DEF T
        <3> QED
            BY <3>1, <3>2, <3>3
    <2>2. Max(T) \in T
        <3> HIDE DEF T
        <3> QED
            BY <2>1, MaxOf
    <2> QED
        BY <2>2
<1>4. j = 0 \/ (j \in holding \cup before /\ j <= L.at - 1)
    <2>1. holding \cup before \in SUBSET (1 .. m)
        BY <1>2
    <2> HIDE DEF holding, before, Below
    <2> QED
        BY <1>3, <2>1
<1>5. k = 0 \/ (k \in 1 .. m /\ list[k].start < passed)
    <2> DEFINE S == {n \in DOMAIN list : list[n].start < passed}
    <2>1. S \in SUBSET (1 .. m)
        BY <1>2
    <2>2. k = 0 \/ k \in S
        <3> HIDE DEF S, from, Below
        <3> QED
            BY <1>3, <2>1 DEF S
    <2> QED
        BY <1>2, <2>2
<1>6. to = CASE passed = 0 -> [at |-> L.at, offset |-> offset]
             [] passed # 0 /\ j \in holding -> [at |-> j, offset |-> passed]
             [] passed # 0 /\ j \notin holding /\ from = 0 -> [at |-> L.at, offset |-> offset]
             [] passed # 0 /\ j \notin holding /\ from > 0 /\ k = 0 ->
                   [at |-> 1, offset |-> StartOf(list, 1)]
             [] OTHER -> [at |-> k, offset |-> passed]
    BY DEF Prev_Location_Smart
<1>7. 0 \notin holding /\ (j \in holding => j \in 1 .. m)
    <2>1. holding \subseteq 1 .. m
        BY <1>2
    <2>2. 0 \notin 1 .. m
        OBVIOUS
    <2> HIDE DEF holding, j
    <2> QED
        BY <2>1, <2>2
<1>8. from \in Nat
    <2>1. j \in 0 .. m
        BY <1>2, <1>4
    <2> HIDE DEF j
    <2> QED
        BY <1>1, <2>1
<1>9. j \in holding => passed \in SectorsOf(list[j])
    OBVIOUS
<1>10. j = 0 => from = m
    BY <1>1
<1>11. j \notin holding /\ from > 0 => m > 0
    <2>1. j = 0 \/ j \in 1 .. m
        BY <1>2, <1>4
    <2> HIDE DEF j
    <2> QED
        BY <1>1, <2>1
<1> HIDE DEF j, from, k, holding, to
<1>12. \/ passed = 0 /\ to = [at |-> L.at, offset |-> offset]
       \/ passed # 0 /\ j \in holding /\ to = [at |-> j, offset |-> passed]
       \/ to = [at |-> L.at, offset |-> offset]
       \/ from > 0 /\ j \notin holding /\ to = [at |-> 1, offset |-> StartOf(list, 1)]
       \/ passed # 0 /\ k # 0 /\ to = [at |-> k, offset |-> passed]
    BY <1>6, <1>8
<1>13. ASSUME NEW s \in U PROVE /\ s \in SpaceOf(list) /\ L.at <= Len(list) /\ offset <= s
                                /\ passed < s /\ s \in Nat /\ 0 < s
    <2>1. s \in Grid(a, b) /\ s \in SpaceOf(list) /\ L.at <= Len(list) /\ offset <= s /\ passed < s
        BY DEF ToSee
    <2>2. a <= s /\ s \in Nat
        BY <2>1, GridFacts
    <2> QED
        BY <2>1, <2>2
<1>14. CASE to = [at |-> L.at, offset |-> offset]
    <2>1. to.at = L.at /\ to.offset = offset
        BY <1>14
    <2>2. ToSee(list, L.at, offset, 0, U)
        BY <1>13 DEF ToSee
    <2> QED
        BY <2>1, <2>2 DEF to
<1>15. CASE passed # 0 /\ j \in holding /\ to = [at |-> j, offset |-> passed]
    <2>1. j \in 1 .. m /\ passed \in SpaceOf(list) /\ passed \in Grid(a, b) /\ passed \in Nat
        BY <1>2, <1>7, <1>15
    <2>2. list[j].start <= passed
        BY <1>2, <1>9, <1>15, <2>1 DEF SectorsOf
    <2>3. GoodPlace(list, to.at, to.offset, a, b)
        BY <1>1, <1>15, <2>1, <2>2 DEF GoodPlace
    <2>4. ToSee(list, j, passed, 0, U)
        <3>1. j <= Len(list)
            BY <1>1, <2>1
        <3>2. ASSUME NEW s \in U PROVE passed <= s
            BY <1>13, <2>1
        <3> QED
            BY <1>13, <3>1, <3>2 DEF ToSee
    <2>5. to.at = j /\ to.offset = passed
        BY <1>15
    <2> QED
        BY <2>3, <2>4, <2>5 DEF to
<1>16. CASE from > 0 /\ j \notin holding /\ to = [at |-> 1, offset |-> StartOf(list, 1)]
    <2>1. m > 0 /\ 1 \in 1 .. Len(list) + 1
        BY <1>1, <1>11, <1>16
    <2>2. GoodPlace(list, 1, StartOf(list, 1), a, b)
        BY <2>1, StartPlace
    <2>3. Ahead(list, 1, StartOf(list, 1), 0)
        BY <2>1, StartAhead
    <2>4. \A s \in U : 1 <= Len(list) /\ StartOf(list, 1) <= s
        BY <1>13, <2>3 DEF Ahead
    <2>5. ToSee(list, 1, StartOf(list, 1), 0, U)
        BY <1>13, <2>4 DEF ToSee
    <2>6. to.at = 1 /\ to.offset = StartOf(list, 1)
        BY <1>16
    <2> QED
        BY <2>2, <2>5, <2>6 DEF to
<1>17. CASE passed # 0 /\ k # 0 /\ to = [at |-> k, offset |-> passed]
    <2>1. k \in 1 .. m /\ passed \in SpaceOf(list) /\ passed \in Grid(a, b) /\ passed \in Nat
        BY <1>2, <1>5, <1>17
    <2>2. list[k].start <= passed
        BY <1>2, <1>5, <1>17, <2>1
    <2>3. GoodPlace(list, to.at, to.offset, a, b)
        BY <1>1, <1>17, <2>1, <2>2 DEF GoodPlace
    <2>4. ToSee(list, k, passed, 0, U)
        <3>1. k <= Len(list)
            BY <1>1, <2>1
        <3>2. ASSUME NEW s \in U PROVE passed <= s
            BY <1>13, <2>1
        <3> QED
            BY <1>13, <3>1, <3>2 DEF ToSee
    <2>5. to.at = k /\ to.offset = passed
        BY <1>17
    <2> QED
        BY <2>3, <2>4, <2>5 DEF to
<1> QED
    BY <1>12, <1>14, <1>15, <1>16, <1>17 DEF to

LEMMA LeftSound ==
    ASSUME NEW F, NEW L, NEW passed, NEW o, Left(F, L, passed, o), NEW g, g.location = {}
    PROVE  /\ SoundAt(F.list, g, F.recovered)
           /\ PassedIn(F.skipped, SpaceOf(F.list) \cup g.location)
           /\ Carved(SpaceOf(F.list) \cup g.location, F.recovered)
<1>1. SpaceOf(F.list) \cup g.location = SpaceOf(F.list)
    OBVIOUS
<1>2. {} \in Whole(Origin, blocksize)
    BY DEF Whole
<1> QED
    BY <1>1, <1>2 DEF Left, SoundAt

LEMMA LeftToSee ==
    ASSUME NEW F, NEW L, NEW passed, NEW o, Left(F, L, passed, o),
           L.at \in 1 .. Len(L.list) + 1, Len(L.list) \in Nat, Len(F.list) \in Nat,
           NEW U \in SUBSET (Nat \ {0}), ToSee(L.list, L.at, o, passed, U)
    PROVE  ToSee(F.list, F.at, o, F.skipped, U)
<1>1. SUFFICES ASSUME NEW s \in U
               PROVE  s \in SpaceOf(F.list) /\ F.at <= Len(F.list) /\ o <= s /\ F.skipped < s
    BY DEF ToSee
<1>2. s \in SpaceOf(L.list) /\ L.at <= Len(L.list) /\ o <= s /\ passed < s
    BY DEF ToSee
<1>3. s \in SpaceOf(F.list) /\ F.skipped \in {0, passed}
    BY <1>2 DEF Left
<1>4. F.at \in 1 .. Len(F.list) + 1 /\ (F.at = Len(F.list) + 1 <=> L.at = Len(L.list) + 1)
    BY DEF Left
<1>5. F.at <= Len(F.list)
    BY <1>2, <1>4
<1>6. 0 < s
    OBVIOUS
<1> QED
    BY <1>2, <1>3, <1>5, <1>6

LEMMA CarvedNothing == Carved(Free, recovered)
<1>1. {} \in SUBSET Free /\ recovered = With(recovered, {}) /\ Free = Free \ {}
    BY DEF With
<1> QED
    BY <1>1 DEF Carved

----------------------------------------------------------------------------
(* The invariant *)

Starting == pc \in {"used", "find", "align"}
Live == pc \in {"header", "data", "move", "turn", "abort"}
Unseen == (universe \cap Blocks) \ seen

FileType == [open : BOOLEAN, start : Nat, location : SUBSET Nat]
Statuses == {"BAD", "OK", "TRUNCATED"}
PartRanges == {r \in RangeType : FIRST <= r.start /\ r.end <= LAST}

Types ==
    /\ current \in 1 .. Len(ranges) + 1 /\ offset \in Nat /\ skipped \in Nat
    /\ blocksize \in BlockSizes \cup {0}
    /\ file \in FileType
    /\ back \in 0 .. MAX_BACK
    /\ outcome \in [now : Statuses, old : Statuses]
    /\ pc \in {"used", "find", "align", "header", "data", "move", "turn", "abort", "stopped", "quit"}

\* The list begins at a cluster and ends at one, or with the partition.
OnClusters(list, g) ==
    /\ list[1].start \in Grid(g, CLUSTER)
    /\ list[Len(list)].end = LAST \/ list[Len(list)].end + 1 \in Grid(g, CLUSTER)

AtClusters ==
    /\ blocksize = CLUSTER /\ used \in SUBSET (FIRST .. LAST) /\ used \cap Space = {}
    /\ ranges # <<>> => \E g \in Nat : OnClusters(ranges, g)

BeforeWalk ==
    Starting => /\ IsList(ranges, PartRanges)
                /\ file = NoFile /\ recovered = {} /\ skipped = 0 /\ universe = {}
                /\ pc = "find" => /\ blocksize = 0 /\ ~on_blocks
                                  /\ current <= Len(ranges) => offset \in SectorsOf(ranges[current])
                /\ pc = "align" => (on_blocks => AtClusters)

DuringWalk == Walking => Fixed /\ SoundAt(ranges, file, recovered)

OnTheWay ==
    Live => /\ universe # {}
            /\ GoodPlace(ranges, current, offset, Origin, blocksize)
            /\ PassedIn(skipped, Free)
            /\ pc \in {"header", "data"} => current <= Len(ranges)
            /\ pc = "move" => ~file.open
            /\ pc = "data" => offset \in seen
            /\ pc = "move" => offset \in seen \/ outcome.now = "TRUNCATED"
            /\ ToSee(ranges, current, offset, skipped, Unseen)

AllSeen == pc = "quit" => Unseen = {}

Inv == Types /\ BeforeWalk /\ DuringWalk /\ OnTheWay /\ AllSeen

LEMMA LiveFacts ==
    ASSUME Inv, Live
    PROVE  /\ Fixed /\ universe # {} /\ SoundAt(ranges, file, recovered)
           /\ GoodPlace(ranges, current, offset, Origin, blocksize)
           /\ PassedIn(skipped, Free) /\ ToSee(ranges, current, offset, skipped, Unseen)
           /\ Origin \in Nat \ {0} /\ blocksize \in Nat \ {0}
           /\ IsList(ranges, Grids) /\ Grids \in SUBSET RangeType /\ Len(ranges) \in Nat
           /\ Unseen \in SUBSET (Nat \ {0}) /\ Unseen \subseteq Blocks /\ Blocks \subseteq Nat
           /\ Place = [list |-> Place.list, at |-> Place.at] /\ Place.list = ranges /\ Place.at = current
           /\ SpaceOf(ranges) = Space
           /\ current <= Len(ranges) => offset \in Space /\ offset \in Blocks
<1>1. /\ Fixed /\ universe # {} /\ SoundAt(ranges, file, recovered)
      /\ GoodPlace(ranges, current, offset, Origin, blocksize)
      /\ PassedIn(skipped, Free) /\ ToSee(ranges, current, offset, skipped, Unseen)
    BY DEF Inv, DuringWalk, OnTheWay, Live, Walking
<1>2. Origin \in Nat \ {0} /\ blocksize \in Nat \ {0} /\ universe \in SUBSET (Nat \ {0})
    BY <1>1, FixedFacts
<1>3. IsList(ranges, Grids) /\ Grids \in SUBSET RangeType
    BY <1>1, GridJoinable DEF SoundAt, Grids
<1>4. Len(ranges) \in Nat
    BY <1>3, ListFacts
<1>5. Unseen \in SUBSET (Nat \ {0}) /\ Unseen \subseteq Blocks
    BY <1>2 DEF Unseen
<1>6. Blocks \subseteq Nat
    BY <1>2, GridFacts DEF Blocks
<1>7. /\ Place = [list |-> Place.list, at |-> Place.at] /\ Place.list = ranges /\ Place.at = current
    BY DEF Place
<1>8. SpaceOf(ranges) = Space
    BY DEF SpaceOf, Space
<1>9. current <= Len(ranges) => offset \in Space /\ offset \in Blocks
    BY <1>1, <1>8 DEF GoodPlace, Blocks
<1> QED
    BY <1>1, <1>2, <1>3, <1>4, <1>5, <1>6, <1>7, <1>8, <1>9

\* What a step of the walk must show.
LEMMA WalkOn ==
    ASSUME Inv, Live, UNCHANGED <<blocksize, universe, used, on_blocks>>, Types',
           SoundAt(ranges', file', recovered'),
           GoodPlace(ranges', current', offset', Origin, blocksize),
           PassedIn(skipped', SpaceOf(ranges') \cup file'.location),
           ToSee(ranges', current', offset', skipped', (universe \cap Blocks) \ seen'),
           Carved(SpaceOf(ranges') \cup file'.location, recovered'),
           pc' \in {"header", "data", "move", "turn", "abort", "stopped", "quit"},
           pc' \in {"header", "data"} => current' <= Len(ranges'),
           pc' = "move" => ~file'.open,
           pc' = "data" => offset' \in seen',
           pc' = "move" => offset' \in seen' \/ outcome'.now = "TRUNCATED",
           pc' = "quit" => ~(current' <= Len(ranges'))
    PROVE  Inv' /\ Carved(Free', recovered')
<1>1. Fixed /\ universe # {}
    BY LiveFacts
<1>2. Origin' = Origin /\ Grids' = Grids /\ Blocks' = Blocks /\ universe' = universe /\ blocksize' = blocksize
    BY DEF Origin, Grids, Blocks
<1>3. Fixed'
    BY <1>1 DEF Fixed
<1>4. SoundAt(ranges, file, recovered)'
    <2>1. IsList(ranges', Grids') /\ file'.location \in Whole(Origin', blocksize')
          /\ (~file'.open => file'.location = {})
        BY <1>2 DEF SoundAt
    <2>2. Shared(SpaceOf(ranges), file.location, recovered)'
        BY <1>2 DEF SoundAt, Shared
    <2> QED
        BY <2>1, <2>2 DEF SoundAt
<1>5. Unseen' = (universe \cap Blocks) \ seen'
    BY <1>2 DEF Unseen
<1>6. Free' = SpaceOf(ranges') \cup file'.location
    BY DEF Free, Space, SpaceOf
<1>7. DuringWalk'
    BY <1>3, <1>4 DEF DuringWalk
<1>8. OnTheWay'
    <2>1. GoodPlace(ranges', current', offset', Origin', blocksize')
        BY <1>2
    <2>2. PassedIn(skipped, Free)'
        BY <1>2, <1>6 DEF PassedIn
    <2>3. ToSee(ranges', current', offset', skipped', Unseen')
        BY <1>5
    <2> QED
        BY <1>1, <1>2, <2>1, <2>2, <2>3 DEF OnTheWay
<1>9. AllSeen'
    BY <1>5 DEF AllSeen, ToSee
<1>10. BeforeWalk'
    BY DEF BeforeWalk, Starting
<1> QED
    BY <1>6, <1>7, <1>8, <1>9, <1>10 DEF Inv

----------------------------------------------------------------------------
(* One turn of photorec_aux's loop *)

LEMMA ResetFile ==
    ASSUME NEW f \in FileType
    PROVE  LET g == Reset_File_Recovery(f) IN g \in FileType /\ ~g.open /\ g.location = {}
BY DEF Reset_File_Recovery, FileType

LEMMA HeaderStep ==
    ASSUME Inv, Photorec_Check_Header
    PROVE  Inv' /\ Carved(Free', recovered')
<1> USE DEF Statuses
<1>1. Live /\ pc = "header"
    BY DEF Photorec_Check_Header, Live
<1>2. /\ Fixed /\ universe # {} /\ SoundAt(ranges, file, recovered)
      /\ GoodPlace(ranges, current, offset, Origin, blocksize)
      /\ PassedIn(skipped, Free) /\ ToSee(ranges, current, offset, skipped, Unseen)
      /\ Unseen \in SUBSET (Nat \ {0}) /\ Len(ranges) \in Nat
      /\ current \in 1 .. Len(ranges) + 1 /\ current <= Len(ranges)
      /\ offset \in Space /\ offset \in Blocks /\ offset \in Nat /\ skipped \in Nat
      /\ SpaceOf(ranges) = Space /\ SpaceOf(ranges) \cup file.location = Free
    BY <1>1, LiveFacts DEF Inv, OnTheWay, Types, Free
<1>3. /\ UNCHANGED <<blocksize, universe, used, on_blocks>> /\ UNCHANGED <<offset, back>>
      /\ seen' = seen \cup {offset}
    BY DEF Photorec_Check_Header, history
<1> DEFINE U == (universe \cap Blocks) \ seen'
<1>4. PICK passed \in {skipped, Header_Ignored(offset)} :
         \/ /\ skipped' = passed /\ pc' = "data"
            /\ UNCHANGED <<ranges, current, file, recovered, outcome>>
         \/ Photorec_Header_Found(passed)
    BY DEF Photorec_Check_Header
<1>5. passed \in {skipped, offset} /\ passed \in Nat
    BY <1>2, <1>4 DEF Header_Ignored
<1>6. PassedIn(passed, Free)
    BY <1>2, <1>5 DEF PassedIn, Free
<1>7. U \in SUBSET (Nat \ {0}) /\ ToSee(ranges, current, offset, passed, U)
    <2>1. ASSUME NEW s \in U PROVE s \in Unseen /\ s # offset
        BY <1>3 DEF Unseen
    <2> HIDE DEF U
    <2>2. ASSUME NEW s \in U
          PROVE  s \in SpaceOf(ranges) /\ current <= Len(ranges) /\ offset <= s /\ passed < s
        <3>1. /\ s \in SpaceOf(ranges) /\ current <= Len(ranges) /\ offset <= s /\ skipped < s
              /\ s # offset /\ s \in Nat
            BY <1>2, <2>1 DEF ToSee
        <3>2. offset < s
            BY <1>2, <3>1
        <3> QED
            BY <1>5, <3>1, <3>2
    <2> QED
        BY <1>2, <2>1, <2>2 DEF ToSee
<1>8. CASE /\ skipped' = passed /\ pc' = "data"
           /\ UNCHANGED <<ranges, current, file, recovered, outcome>>
    <2>1. Types'
        BY <1>3, <1>5, <1>8 DEF Inv, Types
    <2>2. Carved(SpaceOf(ranges') \cup file'.location, recovered')
        BY <1>2, <1>8, CarvedNothing
    <2>3. PassedIn(skipped', SpaceOf(ranges') \cup file'.location)
        BY <1>2, <1>6, <1>8
    <2>4. ToSee(ranges', current', offset', skipped', U)
        BY <1>3, <1>7, <1>8
    <2>5. SoundAt(ranges', file', recovered') /\ GoodPlace(ranges', current', offset', Origin, blocksize)
        BY <1>2, <1>3, <1>8
    <2>6. current' <= Len(ranges') /\ offset' \in seen'
        BY <1>2, <1>3, <1>8
    <2> QED
        BY <1>1, <1>3, <1>8, <2>1, <2>2, <2>3, <2>4, <2>5, <2>6, WalkOn
<1>9. CASE Photorec_Header_Found(passed)
    <2>1. PICK f \in File_Finish2(file, Place, passed) :
             /\ Finished(f)
             /\ skipped' = f.skipped
             /\ outcome' = [outcome EXCEPT !.now = f.status]
             /\ \/ /\ f.status = "TRUNCATED"
                   /\ file' = Reset_File_Recovery(file) /\ pc' = "data"
                \/ /\ f.status # "TRUNCATED"
                   /\ file' = [open |-> TRUE, start |-> offset, location |-> {}]
                   /\ pc' \in {"data", "abort"}
        BY <1>9 DEF Photorec_Header_Found
    <2>2. Left(f, Place, passed, offset)
        BY <1>1, <1>2, <1>6, LiveFacts, LeavingAny
    <2>3. ranges' = f.list /\ current' = f.at /\ recovered' = f.recovered
        BY <2>1 DEF Finished
    <2>4. file' \in FileType /\ file'.location = {}
        <3>1. Reset_File_Recovery(file) \in FileType /\ Reset_File_Recovery(file).location = {}
            BY ResetFile DEF Inv, Types
        <3> DEFINE g == [open |-> TRUE, start |-> offset, location |-> {}]
        <3>2. g \in FileType /\ g.location = {}
            BY <1>2 DEF FileType
        <3>3. file' = Reset_File_Recovery(file) \/ file' = g
            BY <2>1
        <3> HIDE DEF g
        <3> QED
            BY <3>1, <3>2, <3>3
    <2>5. /\ SoundAt(ranges', file', recovered')
          /\ PassedIn(skipped', SpaceOf(ranges') \cup file'.location)
          /\ Carved(SpaceOf(ranges') \cup file'.location, recovered')
        BY <2>1, <2>2, <2>3, <2>4, LeftSound
    <2>6. GoodPlace(ranges', current', offset', Origin, blocksize) /\ current' \in 1 .. Len(ranges') + 1
          /\ (current' = Len(ranges') + 1 <=> current = Len(ranges) + 1) /\ f.status \in Statuses
          /\ f.skipped \in {0, passed} /\ IsList(f.list, Grids)
        BY <1>1, <1>3, <2>2, <2>3, LiveFacts DEF Left
    <2>7. Len(f.list) \in Nat
        BY <1>1, <2>6, LiveFacts, ListFacts
    <2>8. ToSee(ranges', current', offset', skipped', U)
        <3> HIDE DEF U
        <3>1. ToSee(f.list, f.at, offset, f.skipped, U)
            BY <1>1, <1>2, <1>7, <2>2, <2>7, LiveFacts, LeftToSee
        <3> QED
            BY <1>3, <2>1, <2>3, <3>1
    <2>9. Types'
        <3>1. outcome' \in [now : Statuses, old : Statuses]
            BY <2>1, <2>6 DEF Inv, Types
        <3>2. skipped' \in Nat
            BY <1>5, <2>1, <2>6
        <3> QED
            BY <1>3, <2>1, <2>4, <2>6, <3>1, <3>2 DEF Inv, Types
    <2>10. current' <= Len(ranges') /\ offset' \in seen'
        BY <1>2, <1>3, <2>3, <2>6, <2>7
    <2>11. pc' \in {"data", "abort"}
        BY <2>1
    <2> QED
        BY <1>1, <1>3, <2>5, <2>6, <2>8, <2>9, <2>10, <2>11, WalkOn
<1> QED
    BY <1>4, <1>8, <1>9

\* T is the list without the block at offset, which is the last of the file f.
InFile(T, f) ==
    /\ f \in FileType /\ f.open
    /\ SoundAt(T.list, f, recovered) /\ SpaceOf(T.list) \cup f.location = Free
    /\ T.at \in 1 .. Len(T.list) + 1 /\ T.offset \in Nat /\ Len(T.list) \in Nat
    /\ GoodPlace(T.list, T.at, T.offset, Origin, blocksize)
    /\ ToSee(T.list, T.at, T.offset, skipped, Unseen)

\* The block at offset is in one range of the list, and can be taken from it.
LEMMA BlockTaken ==
    ASSUME Inv, pc = "data", file.open,
           NEW places, places = Containing(ranges, offset),
           NEW i, i = IF current \in places THEN current ELSE Min(places),
           NEW T, T = Remove_From_Sp(i),
           NEW f, f = [file EXCEPT !.location = @ \cup offset .. offset + blocksize - 1]
    PROVE  places # {} /\ InFile(T, f)
<1> DEFINE B == BlockAt(offset, blocksize)
<1>1. Live
    BY DEF Live
<1>2. /\ Fixed /\ universe # {} /\ SoundAt(ranges, file, recovered)
      /\ GoodPlace(ranges, current, offset, Origin, blocksize)
      /\ ToSee(ranges, current, offset, skipped, Unseen)
      /\ Origin \in Nat \ {0} /\ blocksize \in Nat \ {0}
      /\ IsList(ranges, Grids) /\ Grids \in SUBSET RangeType /\ Len(ranges) \in Nat
      /\ Unseen \in SUBSET (Nat \ {0}) /\ Unseen \subseteq Blocks
      /\ SpaceOf(ranges) = Space
    BY <1>1, LiveFacts
<1>3. /\ current \in 1 .. Len(ranges) /\ offset \in Space /\ offset \in Blocks /\ offset \in Nat
      /\ offset \in seen /\ file \in FileType
    <2>1. current \in 1 .. Len(ranges) + 1 /\ current <= Len(ranges) /\ offset \in Nat /\ file \in FileType
        BY <1>1 DEF Inv, OnTheWay, Types
    <2>2. offset \in Space /\ offset \in Blocks
        BY <1>1, <2>1, LiveFacts
    <2>3. offset \in seen
        BY <1>1 DEF Inv, OnTheWay
    <2> QED
        BY <1>2, <2>1, <2>2, <2>3
<1>4. /\ DOMAIN ranges = 1 .. Len(ranges)
      /\ \A k \in 1 .. Len(ranges) : /\ ranges[k] \in Grids /\ ranges[k].start \in Nat
                                     /\ ranges[k].end \in Nat /\ ranges[k].start <= ranges[k].end
    BY <1>2, ListFacts
<1>5. PICK k \in 1 .. Len(ranges) : offset \in SectorsOf(ranges[k])
    BY <1>2, <1>3, <1>4, InSpace
<1>6. B \subseteq SectorsOf(ranges[k])
    <2>1. ranges[k] \in GridRanges(Origin, blocksize) /\ offset \in Grid(Origin, blocksize)
        BY <1>3, <1>4 DEF Grids, Blocks
    <2> QED
        BY <1>2, <1>5, <2>1, RangeWhole
<1>7. k \in places
    <2>1. PICK x \in Nat, y \in Nat, b \in Nat \ {0} : x = ranges[k].start /\ y = ranges[k].end /\ b = blocksize
        BY <1>2, <1>4
    <2>2. x <= offset
        BY <1>3, <1>5, <2>1 DEF SectorsOf
    <2>3. offset + b - 1 \in B
        BY <1>3, <2>1 DEF BlockAt
    <2>4. offset + b - 1 <= y
        BY <1>6, <2>1, <2>3 DEF SectorsOf
    <2>5. offset + b <= y + 1
        BY <1>3, <2>1, <2>4
    <2> QED
        BY <1>4, <2>1, <2>2, <2>5 DEF Containing
<1>8. /\ i \in 1 .. Len(ranges) /\ ranges[i].start <= offset
      /\ offset + blocksize <= ranges[i].end + 1
    <2>1. places \in SUBSET Nat
        BY <1>4 DEF Containing
    <2>2. Min(places) \in places
        BY <1>7, <2>1, MinOf
    <2>3. i \in places
        BY <2>2
    <2> QED
        BY <1>4, <2>3 DEF Containing
<1>9. Took(T, Origin, Grids)
    <2>1. ranges[current].start <= offset
        BY <1>2, <1>3 DEF GoodPlace
    <2>2. offset \in Grid(Origin, blocksize) /\ IsList(ranges, GridRanges(Origin, blocksize))
        BY <1>2, <1>3 DEF Blocks, Grids
    <2>3. Took(Remove_From_Sp(i), Origin, GridRanges(Origin, blocksize))
        BY <1>2, <1>3, <1>8, <2>1, <2>2, Taking
    <2> QED
        BY <2>3 DEF Grids
<1>10. /\ IsList(T.list, Grids) /\ SpaceOf(T.list) = Space \ B
       /\ GoodPlace(T.list, T.at, T.offset, Origin, blocksize)
       /\ Ahead(T.list, T.at, T.offset, offset)
    BY <1>9 DEF Took
<1>11. B \subseteq Space
    <2>1. SectorsOf(ranges[k]) \subseteq Space
        BY <1>2, <1>4, InSpace
    <2> QED
        BY <1>6, <2>1
<1>12. f \in FileType /\ f.open /\ f.location = file.location \cup B
    <2>1. offset .. offset + blocksize - 1 \in SUBSET Nat
        BY <1>2, <1>3
    <2> QED
        BY <1>3, <2>1 DEF FileType, BlockAt
<1>13. Space \cap file.location = {} /\ Shared(Space, file.location, recovered)
    BY <1>2 DEF SoundAt, Shared
<1> HIDE DEF B
<1>14. Shared(SpaceOf(T.list), f.location, recovered)
    <2>1. /\ SpaceOf(T.list) \cup f.location = (Space \cup file.location) \ {}
          /\ SpaceOf(T.list) \cap f.location = {}
          /\ {} \in SUBSET (Space \cup file.location)
        BY <1>10, <1>11, <1>12, <1>13
    <2>2. Shared(SpaceOf(T.list), f.location, With(recovered, {}))
        BY <1>13, <2>1, SharedStep
    <2> QED
        BY <2>2 DEF With
<1>15. f.location \in Whole(Origin, blocksize)
    <2>1. B \in Whole(Origin, blocksize)
        BY <1>2, <1>3, WholeBlock DEF B, Blocks
    <2>2. file.location \in Whole(Origin, blocksize)
        BY <1>2 DEF SoundAt
    <2>3. Origin \in Nat /\ blocksize \in Nat \ {0} /\ f.location = file.location \cup B
        BY <1>2, <1>12
    <2> QED
        BY <2>1, <2>2, <2>3, WholeAlgebra
<1>16. SoundAt(T.list, f, recovered)
    BY <1>10, <1>12, <1>14, <1>15 DEF SoundAt
<1>17. SpaceOf(T.list) \cup f.location = Free
    BY <1>10, <1>11, <1>12 DEF Free
<1>18. T.at \in 1 .. Len(T.list) + 1 /\ T.offset \in Nat /\ Len(T.list) \in Nat
    BY <1>2, <1>10, ListFacts DEF GoodPlace
<1>19. ToSee(T.list, T.at, T.offset, skipped, Unseen)
    <2>1. SUFFICES ASSUME NEW s \in Unseen
                   PROVE  s \in SpaceOf(T.list) /\ T.at <= Len(T.list) /\ T.offset <= s /\ skipped < s
        BY DEF ToSee
    <2>2. s \in SpaceOf(ranges) /\ offset <= s /\ skipped < s /\ s \in Nat /\ s \in Blocks
        BY <1>2 DEF ToSee
    <2>3. s # offset
        BY <1>3 DEF Unseen
    <2>4. offset < s
        BY <1>3, <2>2, <2>3
    <2>5. s \notin B
        <3>1. s \in BlockAt(s, blocksize)
            BY <1>2, <2>2 DEF BlockAt
        <3> QED
            BY <1>2, <1>3, <2>2, <2>3, <3>1, SameBlock DEF B, Blocks
    <2>6. s \in SpaceOf(T.list)
        BY <1>2, <1>10, <2>2, <2>5
    <2> QED
        BY <1>10, <2>2, <2>4, <2>6 DEF Ahead
<1> QED
    BY <1>7, <1>10, <1>12, <1>16, <1>17, <1>18, <1>19 DEF InFile

LEMMA DataStep ==
    ASSUME Inv, Photorec_Data
    PROVE  Inv' /\ Carved(Free', recovered') /\ pc' # "exit"
<1> USE DEF Statuses
<1>1. Live /\ pc = "data"
    BY DEF Photorec_Data, Live
<1>2. /\ Fixed /\ universe # {} /\ SoundAt(ranges, file, recovered)
      /\ GoodPlace(ranges, current, offset, Origin, blocksize)
      /\ PassedIn(skipped, Free) /\ ToSee(ranges, current, offset, skipped, Unseen)
      /\ Unseen \in SUBSET (Nat \ {0}) /\ Grids \in SUBSET RangeType
      /\ current <= Len(ranges) /\ offset \in seen
      /\ SpaceOf(ranges) \cup file.location = Free
    BY <1>1, LiveFacts DEF Inv, OnTheWay, Free
<1>3. /\ UNCHANGED <<blocksize, universe, used, on_blocks>> /\ UNCHANGED <<back, seen>>
    BY DEF Photorec_Data, history
<1>4. (universe \cap Blocks) \ seen' = Unseen
    BY <1>3 DEF Unseen
<1>5. CASE /\ ~file.open \/ pc' = "abort"
           /\ pc' \in {"move", "abort"}
           /\ UNCHANGED <<ranges, current, offset, file, skipped, recovered, outcome>>
    <2>1. Types'
        BY <1>3, <1>5 DEF Inv, Types
    <2>2. Carved(SpaceOf(ranges') \cup file'.location, recovered')
        BY <1>2, <1>5, CarvedNothing
    <2>3. PassedIn(skipped', SpaceOf(ranges') \cup file'.location)
        BY <1>2, <1>5
    <2>4. ToSee(ranges', current', offset', skipped', (universe \cap Blocks) \ seen')
        BY <1>2, <1>4, <1>5
    <2>5. SoundAt(ranges', file', recovered') /\ GoodPlace(ranges', current', offset', Origin, blocksize)
        BY <1>2, <1>5
    <2>6. pc' = "move" => ~file'.open /\ offset' \in seen'
        BY <1>2, <1>3, <1>5
    <2> QED
        BY <1>1, <1>3, <1>5, <2>1, <2>2, <2>3, <2>4, <2>5, <2>6, WalkOn
<1>6. CASE file.open /\ Take_Block
    <2>1. PICK places : places = Containing(ranges, offset)
        OBVIOUS
    <2>2. PICK i : i = IF current \in places THEN current ELSE Min(places)
        OBVIOUS
    <2>3. PICK T : T = Remove_From_Sp(i)
        OBVIOUS
    <2>4. PICK f : f = [file EXCEPT !.location = @ \cup offset .. offset + blocksize - 1]
        OBVIOUS
    <2>5. places # {} /\ InFile(T, f)
        BY <1>1, <1>6, <2>1, <2>2, <2>3, <2>4, BlockTaken
    <2> DEFINE L == [list |-> T.list, at |-> T.at]
    <2>6. /\ offset' = T.offset
          /\ \/ /\ ranges' = T.list /\ current' = T.at
                /\ file' = f
                /\ pc' \in {"turn", "abort"}
                /\ UNCHANGED <<skipped, recovered, outcome>>
             \/ \E g \in File_Finish2(f, L, skipped) :
                   /\ Finished(g)
                   /\ skipped' = g.skipped
                   /\ outcome' = [outcome EXCEPT !.now = g.status]
                   /\ file' = Reset_File_Recovery(file)
                   /\ pc' \in {"abort", IF g.status = "TRUNCATED" THEN "move" ELSE "turn"}
        BY <1>6, <2>1, <2>2, <2>3, <2>4, <2>5 DEF Take_Block
    <2>7. CASE /\ ranges' = T.list /\ current' = T.at
               /\ file' = f
               /\ pc' \in {"turn", "abort"}
               /\ UNCHANGED <<skipped, recovered, outcome>>
        <3>1. Types'
            BY <1>3, <2>5, <2>6, <2>7 DEF Inv, Types, InFile
        <3>2. SpaceOf(ranges') \cup file'.location = Free
            BY <2>5, <2>7 DEF InFile
        <3>3. Carved(SpaceOf(ranges') \cup file'.location, recovered')
            BY <2>7, <3>2, CarvedNothing
        <3>4. PassedIn(skipped', SpaceOf(ranges') \cup file'.location)
            BY <1>2, <2>7, <3>2
        <3>5. ToSee(ranges', current', offset', skipped', (universe \cap Blocks) \ seen')
            BY <1>4, <2>5, <2>6, <2>7 DEF InFile
        <3>6. SoundAt(ranges', file', recovered') /\ GoodPlace(ranges', current', offset', Origin, blocksize)
            BY <2>5, <2>6, <2>7 DEF InFile
        <3> QED
            BY <1>1, <1>3, <2>7, <3>1, <3>3, <3>4, <3>5, <3>6, WalkOn
    <2>8. CASE \E g \in File_Finish2(f, L, skipped) :
                  /\ Finished(g)
                  /\ skipped' = g.skipped
                  /\ outcome' = [outcome EXCEPT !.now = g.status]
                  /\ file' = Reset_File_Recovery(file)
                  /\ pc' \in {"abort", IF g.status = "TRUNCATED" THEN "move" ELSE "turn"}
        <3>1. PICK g \in File_Finish2(f, L, skipped) :
                  /\ Finished(g)
                  /\ skipped' = g.skipped
                  /\ outcome' = [outcome EXCEPT !.now = g.status]
                  /\ file' = Reset_File_Recovery(file)
                  /\ pc' \in {"abort", IF g.status = "TRUNCATED" THEN "move" ELSE "turn"}
            BY <2>8
        <3>2. L = [list |-> L.list, at |-> L.at] /\ L.list = T.list /\ L.at = T.at
            OBVIOUS
        <3> HIDE DEF L
        <3>3. Left(g, L, skipped, T.offset)
            <4>1. /\ SoundAt(L.list, f, recovered) /\ SpaceOf(L.list) \cup f.location = Free
                  /\ GoodPlace(L.list, L.at, T.offset, Origin, blocksize)
                BY <2>5, <3>2 DEF InFile
            <4>2. PassedIn(skipped, SpaceOf(L.list) \cup f.location)
                BY <1>2, <4>1
            <4> QED
                BY <1>2, <3>1, <3>2, <4>1, <4>2, LeavingAny
        <3>4. ranges' = g.list /\ current' = g.at /\ recovered' = g.recovered
            BY <3>1 DEF Finished
        <3>5. file' \in FileType /\ file'.location = {} /\ ~file'.open
            BY <3>1, ResetFile DEF Inv, Types
        <3>6. /\ SoundAt(ranges', file', recovered')
              /\ PassedIn(skipped', SpaceOf(ranges') \cup file'.location)
              /\ Carved(SpaceOf(ranges') \cup file'.location, recovered')
            BY <3>1, <3>3, <3>4, <3>5, LeftSound
        <3>7. GoodPlace(ranges', current', offset', Origin, blocksize) /\ current' \in 1 .. Len(ranges') + 1
              /\ g.status \in Statuses /\ g.skipped \in {0, skipped} /\ IsList(g.list, Grids)
            BY <2>6, <3>3, <3>4 DEF Left
        <3>8. Len(g.list) \in Nat
            BY <1>2, <3>7, ListFacts
        <3>9. ToSee(ranges', current', offset', skipped', (universe \cap Blocks) \ seen')
            <4>1. ToSee(L.list, L.at, T.offset, skipped, Unseen) /\ L.at \in 1 .. Len(L.list) + 1
                  /\ Len(L.list) \in Nat
                BY <2>5, <3>2 DEF InFile
            <4>2. ToSee(g.list, g.at, T.offset, g.skipped, Unseen)
                BY <1>2, <3>3, <3>8, <4>1, LeftToSee
            <4> QED
                BY <1>4, <2>6, <3>1, <3>4, <4>2
        <3>10. outcome' \in [now : Statuses, old : Statuses] /\ outcome'.now = g.status
            BY <3>1, <3>7 DEF Inv, Types
        <3>11. Types'
            <4>1. skipped' \in Nat /\ offset' \in Nat
                BY <2>5, <2>6, <3>1, <3>7 DEF Inv, Types, InFile
            <4>2. pc' \in {"abort", "move", "turn"}
                BY <3>1
            <4> QED
                BY <1>3, <3>5, <3>7, <3>10, <4>1, <4>2 DEF Inv, Types
        <3>12. pc' \in {"abort", "move", "turn"} /\ (pc' = "move" => outcome'.now = "TRUNCATED")
            BY <3>1, <3>10
        <3> QED
            BY <1>1, <1>3, <3>5, <3>6, <3>7, <3>9, <3>11, <3>12, WalkOn
    <2> QED
        BY <2>6, <2>7, <2>8
<1>7. \/ /\ ~file.open \/ pc' = "abort"
         /\ pc' \in {"move", "abort"}
         /\ UNCHANGED <<ranges, current, offset, file, skipped, recovered, outcome>>
      \/ file.open /\ Take_Block
    BY DEF Photorec_Data
<1>8. Inv' /\ Carved(Free', recovered')
    BY <1>5, <1>6, <1>7
<1> QED
    BY <1>8 DEF Inv, Types

LEMMA MoveStep ==
    ASSUME Inv, Move
    PROVE  Inv' /\ Carved(Free', recovered')
<1>1. Live /\ pc = "move" /\ pc' = "turn"
    BY DEF Move, Live
<1>2. /\ SoundAt(ranges, file, recovered) /\ IsList(ranges, GridRanges(Origin, blocksize))
      /\ GoodPlace(ranges, current, offset, Origin, blocksize)
      /\ PassedIn(skipped, Free) /\ ToSee(ranges, current, offset, skipped, Unseen)
      /\ Unseen \in SUBSET (Nat \ {0}) /\ Unseen \subseteq Blocks /\ Len(ranges) \in Nat
      /\ Origin \in Nat \ {0} /\ blocksize \in Nat \ {0} /\ Blocks = Grid(Origin, blocksize)
      /\ current \in 1 .. Len(ranges) + 1 /\ offset \in Nat /\ skipped \in Nat
      /\ ~file.open /\ (offset \in seen \/ outcome.now = "TRUNCATED")
      /\ SpaceOf(ranges) = Space /\ SpaceOf(ranges) \cup file.location = Free
    BY <1>1, LiveFacts DEF Inv, OnTheWay, Types, Free, Grids, Blocks
<1>3. /\ UNCHANGED <<blocksize, universe, used, on_blocks>> /\ UNCHANGED <<ranges, file, recovered, outcome, seen>>
    BY DEF Move, history
<1>4. (universe \cap Blocks) \ seen' = Unseen
    BY <1>3 DEF Unseen
<1>5. Free = SpaceOf(ranges) /\ PassedIn(skipped, SpaceOf(ranges))
    BY <1>2 DEF SoundAt
<1>6. Place = [list |-> Place.list, at |-> Place.at] /\ Place.list = ranges /\ Place.at = current
    BY DEF Place
<1>7. /\ GoodPlace(ranges, current', offset', Origin, blocksize)
      /\ ToSee(ranges, current', offset', skipped', Unseen)
      /\ skipped' \in {0, skipped} /\ back' \in 0 .. MAX_BACK
    <2>1. MAX_BACK \in Nat /\ back \in 0 .. MAX_BACK
        BY SearchSpaceAssumption DEF Inv, Types
    <2>2. CASE Go_Back /\ back < MAX_BACK /\ Prev_File_Headers # {}
        <3>1. Prev_File_Headers \in SUBSET (1 .. Len(ranges)) /\ \A i \in Prev_File_Headers : i < current
            BY <1>2, GridJoinable, ListFacts DEF Prev_File_Headers
        <3>2. Prev_File_Headers \in SUBSET (0 .. Len(ranges))
            BY <1>2, <3>1
        <3>3. Max(Prev_File_Headers) \in Prev_File_Headers
            BY <1>2, <2>2, <3>2, MaxOf
        <3>4. /\ current' \in 1 .. Len(ranges) /\ current' < current
              /\ offset' = ranges[current'].start /\ back' = back + 1 /\ skipped' = skipped
            BY <2>2, <3>1, <3>3 DEF Go_Back
        <3>5. offset' = StartOf(ranges, current') /\ current' \in 1 .. Len(ranges) + 1
            BY <1>2, <3>4 DEF StartOf
        <3>6. GoodPlace(ranges, current', offset', Origin, blocksize)
            BY <1>2, <3>5, StartPlace
        <3>7. ToSee(ranges, current', offset', skipped', Unseen)
            <4>1. SUFFICES ASSUME NEW s \in Unseen
                           PROVE  s \in SpaceOf(ranges) /\ current' <= Len(ranges) /\ offset' <= s /\ skipped' < s
                BY DEF ToSee
            <4>2. s \in SpaceOf(ranges) /\ current <= Len(ranges) /\ offset <= s /\ skipped < s /\ s \in Nat
                BY <1>2 DEF ToSee
            <4>3. /\ \A k \in 1 .. Len(ranges) : /\ ranges[k].start \in Nat /\ ranges[k].end \in Nat
                                                 /\ ranges[k].start <= ranges[k].end
                  /\ \A k, m \in 1 .. Len(ranges) : k < m => ranges[k].end < ranges[m].start
                BY <1>2, GridJoinable, ListFacts
            <4>4. current \in 1 .. Len(ranges) /\ ranges[current].start <= offset
                BY <1>2, <4>2 DEF GoodPlace
            <4>5. PICK x \in Nat, y \in Nat, z \in Nat :
                     x = ranges[current'].start /\ y = ranges[current'].end /\ z = ranges[current].start
                BY <3>4, <4>3, <4>4
            <4>6. x <= y /\ y < z
                BY <3>4, <4>3, <4>4, <4>5
            <4>7. PICK o \in Nat : o = offset /\ z <= o /\ o <= s /\ s \in Nat
                BY <1>2, <4>2, <4>4, <4>5
            <4>8. x <= s
                BY <4>5, <4>6, <4>7
            <4> QED
                BY <1>2, <3>4, <4>2, <4>5, <4>8
        <3> QED
            BY <2>1, <2>2, <3>4, <3>6, <3>7
    <2>3. CASE Go_Back /\ ~(back < MAX_BACK /\ Prev_File_Headers # {})
        <3>1. PICK to : to = Prev_Location_Smart(Place, skipped, file.start)
            OBVIOUS
        <3>2. current' = to.at /\ offset' = to.offset /\ back' = 0 /\ skipped' = 0
            BY <2>3, <3>1 DEF Go_Back
        <3>3. GoodPlace(ranges, to.at, to.offset, Origin, blocksize) /\ ToSee(ranges, to.at, to.offset, 0, Unseen)
            BY <1>2, <1>5, <1>6, <3>1, GoingBack DEF PassedIn
        <3> QED
            BY <2>1, <3>2, <3>3
    <2>4. CASE Go_On /\ outcome.now # "TRUNCATED" /\ current = Len(ranges) + 1
        <3>1. current' = current /\ offset' = offset /\ skipped' = skipped /\ back' \in {0, back}
            BY <2>4 DEF Go_On, AtHead
        <3> QED
            BY <1>2, <2>1, <3>1
    <2>5. CASE Go_On /\ outcome.now # "TRUNCATED" /\ current # Len(ranges) + 1
        <3>1. PICK to : to = Next_Sector(Place, offset, blocksize)
            OBVIOUS
        <3>2. current' = to.at /\ offset' = to.offset /\ skipped' = skipped /\ back' \in {0, back}
            BY <2>5, <3>1 DEF Go_On, AtHead
        <3>3. /\ GoodPlace(ranges, to.at, to.offset, Origin, blocksize)
              /\ \A s \in SpaceOf(ranges) \cap Grid(Origin, blocksize) :
                    offset < s => to.at <= Len(ranges) /\ to.offset <= s
            BY <1>2, <1>6, <2>5, <3>1, GoingOn
        <3>4. ToSee(ranges, current', offset', skipped', Unseen)
            <4>1. SUFFICES ASSUME NEW s \in Unseen
                           PROVE  s \in SpaceOf(ranges) /\ to.at <= Len(ranges) /\ to.offset <= s /\ skipped < s
                BY <3>2 DEF ToSee
            <4>2. s \in SpaceOf(ranges) /\ offset <= s /\ skipped < s /\ s \in Nat /\ s \in Grid(Origin, blocksize)
                BY <1>2 DEF ToSee
            <4>3. s # offset
                BY <1>2, <2>5 DEF Unseen
            <4>4. offset < s
                BY <1>2, <4>2, <4>3
            <4> QED
                BY <3>3, <4>2, <4>4
        <3> QED
            BY <2>1, <3>2, <3>3, <3>4
    <2>6. Go_Back \/ (Go_On /\ outcome.now # "TRUNCATED")
        BY DEF Move
    <2> QED
        BY <2>2, <2>3, <2>4, <2>5, <2>6
<1>8. Types'
    <2>1. current' \in 1 .. Len(ranges) + 1 /\ offset' \in Nat
        BY <1>7 DEF GoodPlace
    <2>2. skipped' \in Nat
        BY <1>2, <1>7
    <2> QED
        BY <1>1, <1>3, <1>7, <2>1, <2>2 DEF Inv, Types
<1>9. Carved(SpaceOf(ranges') \cup file'.location, recovered')
    BY <1>2, <1>3, CarvedNothing
<1>10. PassedIn(skipped', SpaceOf(ranges') \cup file'.location)
    BY <1>2, <1>3, <1>7 DEF PassedIn
<1>11. /\ ToSee(ranges', current', offset', skipped', (universe \cap Blocks) \ seen')
       /\ GoodPlace(ranges', current', offset', Origin, blocksize)
       /\ SoundAt(ranges', file', recovered')
    BY <1>2, <1>3, <1>4, <1>7
<1> QED
    BY <1>1, <1>3, <1>8, <1>9, <1>10, <1>11, WalkOn

LEMMA TurnStep ==
    ASSUME Inv, Turn
    PROVE  Inv' /\ Carved(Free', recovered')
<1> USE DEF Statuses
<1>1. Live /\ pc = "turn"
    BY DEF Turn, Live
<1>2. /\ Fixed /\ universe # {} /\ SoundAt(ranges, file, recovered)
      /\ GoodPlace(ranges, current, offset, Origin, blocksize)
      /\ PassedIn(skipped, Free) /\ ToSee(ranges, current, offset, skipped, Unseen)
      /\ Unseen \in SUBSET (Nat \ {0}) /\ Unseen \subseteq Blocks /\ Grids \in SUBSET RangeType
      /\ Origin \in Nat \ {0} /\ blocksize \in Nat \ {0} /\ Blocks = Grid(Origin, blocksize)
      /\ current \in 1 .. Len(ranges) + 1 /\ offset \in Nat /\ skipped \in Nat /\ Len(ranges) \in Nat
      /\ SpaceOf(ranges) = Space /\ SpaceOf(ranges) \cup file.location = Free
    BY <1>1, LiveFacts DEF Inv, Types, Free, Blocks
<1>3. UNCHANGED <<blocksize, universe, used, on_blocks>> /\ UNCHANGED <<back, seen>>
    BY DEF Turn, history
<1>4. (universe \cap Blocks) \ seen' = Unseen
    BY <1>3 DEF Unseen
<1>5. CASE /\ ~AtHead
           /\ outcome' = [now |-> "BAD", old |-> outcome.now]
           /\ pc' = "header"
           /\ UNCHANGED <<ranges, current, offset, file, skipped, recovered>>
    <2>1. Types'
        <3>1. outcome' \in [now : Statuses, old : Statuses]
            BY <1>5 DEF Inv, Types
        <3> QED
            BY <1>3, <1>5, <3>1 DEF Inv, Types
    <2>2. Carved(SpaceOf(ranges') \cup file'.location, recovered')
        BY <1>2, <1>5, CarvedNothing
    <2>3. PassedIn(skipped', SpaceOf(ranges') \cup file'.location)
        BY <1>2, <1>5
    <2>4. ToSee(ranges', current', offset', skipped', (universe \cap Blocks) \ seen')
        BY <1>2, <1>4, <1>5
    <2>5. SoundAt(ranges', file', recovered') /\ GoodPlace(ranges', current', offset', Origin, blocksize)
        BY <1>2, <1>5
    <2>6. current' <= Len(ranges')
        BY <1>2, <1>5 DEF AtHead
    <2> QED
        BY <1>1, <1>3, <1>5, <2>1, <2>2, <2>3, <2>4, <2>5, <2>6, WalkOn
<1>6. CASE ~(~AtHead /\ pc' = "header" /\ UNCHANGED <<ranges, current, offset, file, skipped, recovered>>
             /\ outcome' = [now |-> "BAD", old |-> outcome.now])
    <2>1. AtHead /\ \E f \in File_Finish2(file, Place, skipped) :
                LET to == IF f.status = "BAD" THEN [at |-> f.at, offset |-> offset]
                          ELSE Prev_Location_Smart(f, f.skipped, file.start)
                IN  /\ ranges' = f.list /\ recovered' = f.recovered
                    /\ current' = to.at /\ offset' = to.offset
                    /\ skipped' = IF f.status = "BAD" THEN f.skipped ELSE 0
                    /\ outcome' = [now |-> "BAD", old |-> f.status]
                    /\ pc' = IF to.at = Len(f.list) + 1 THEN "quit" ELSE "header"
        BY <1>6 DEF Turn
    <2>2. PICK f \in File_Finish2(file, Place, skipped) :
                LET to == IF f.status = "BAD" THEN [at |-> f.at, offset |-> offset]
                          ELSE Prev_Location_Smart(f, f.skipped, file.start)
                IN  /\ ranges' = f.list /\ recovered' = f.recovered
                    /\ current' = to.at /\ offset' = to.offset
                    /\ skipped' = IF f.status = "BAD" THEN f.skipped ELSE 0
                    /\ outcome' = [now |-> "BAD", old |-> f.status]
                    /\ pc' = IF to.at = Len(f.list) + 1 THEN "quit" ELSE "header"
        BY <2>1
    <2>3. PICK to : to = IF f.status = "BAD" THEN [at |-> f.at, offset |-> offset]
                         ELSE Prev_Location_Smart(f, f.skipped, file.start)
        OBVIOUS
    <2>4. /\ ranges' = f.list /\ recovered' = f.recovered
          /\ current' = to.at /\ offset' = to.offset
          /\ skipped' = IF f.status = "BAD" THEN f.skipped ELSE 0
          /\ outcome' = [now |-> "BAD", old |-> f.status]
          /\ pc' = IF to.at = Len(f.list) + 1 THEN "quit" ELSE "header"
        BY <2>2, <2>3
    <2>5. Left(f, Place, skipped, offset)
        BY <1>1, <1>2, LiveFacts, LeavingAny
    <2>6. file' \in FileType /\ file'.location = {} /\ ~file'.open
        <3>1. file' = Reset_File_Recovery(file)
            BY <1>6 DEF Turn
        <3> QED
            BY <3>1, ResetFile DEF Inv, Types
    <2>7. /\ SoundAt(ranges', file', recovered')
          /\ Carved(SpaceOf(ranges') \cup file'.location, recovered')
        BY <2>4, <2>5, <2>6, LeftSound
    <2>8. /\ IsList(f.list, Grids) /\ GoodPlace(f.list, f.at, offset, Origin, blocksize)
          /\ f.skipped \in {0, skipped} /\ PassedIn(f.skipped, SpaceOf(f.list))
          /\ f.status \in Statuses
        BY <2>5 DEF Left
    <2>9. Len(f.list) \in Nat
        BY <1>2, <2>8, ListFacts
    <2>10. ToSee(f.list, f.at, offset, f.skipped, Unseen)
        BY <1>1, <1>2, <2>5, <2>9, LiveFacts, LeftToSee
    <2>11. /\ GoodPlace(f.list, to.at, to.offset, Origin, blocksize)
           /\ ToSee(f.list, to.at, to.offset, skipped', Unseen)
           /\ PassedIn(skipped', SpaceOf(f.list)) /\ skipped' \in {0, skipped}
        <3>1. CASE f.status = "BAD"
            BY <2>3, <2>4, <2>8, <2>10, <3>1
        <3>2. CASE f.status # "BAD"
            <4>1. to = Prev_Location_Smart(f, f.skipped, file.start) /\ skipped' = 0
                BY <2>3, <2>4, <3>2
            <4>2. /\ GoodPlace(f.list, to.at, to.offset, Origin, blocksize)
                  /\ ToSee(f.list, to.at, to.offset, 0, Unseen)
                BY <1>2, <2>8, <2>10, <4>1, GoingBack DEF PassedIn, Grids
            <4> QED
                BY <4>1, <4>2 DEF PassedIn
        <3> QED
            BY <3>1, <3>2
    <2>12. to.at \in 1 .. Len(f.list) + 1 /\ to.offset \in Nat
        BY <2>11 DEF GoodPlace
    <2>13. Types'
        <3>1. outcome' \in [now : Statuses, old : Statuses]
            BY <2>4, <2>8
        <3>2. skipped' \in Nat /\ pc' \in {"header", "quit"}
            BY <1>2, <2>4, <2>11
        <3> QED
            BY <1>3, <2>4, <2>6, <2>12, <3>1, <3>2 DEF Inv, Types
    <2>14. PassedIn(skipped', SpaceOf(ranges') \cup file'.location)
        BY <2>4, <2>6, <2>11 DEF PassedIn
    <2>15. /\ GoodPlace(ranges', current', offset', Origin, blocksize)
           /\ ToSee(ranges', current', offset', skipped', (universe \cap Blocks) \ seen')
        BY <1>4, <2>4, <2>11
    <2>16. /\ pc' \in {"header", "quit"}
           /\ pc' = "header" => current' <= Len(ranges')
           /\ pc' = "quit" => ~(current' <= Len(ranges'))
        BY <2>4, <2>9, <2>12
    <2> QED
        BY <1>1, <1>3, <2>7, <2>13, <2>14, <2>15, <2>16, WalkOn
<1> QED
    BY <1>5, <1>6

LEMMA AbortStep ==
    ASSUME Inv, Abort
    PROVE  Inv' /\ Carved(Free', recovered')
<1>1. Live /\ pc = "abort" /\ pc' = "stopped"
    BY DEF Abort, Live
<1>2. /\ Fixed /\ universe # {} /\ SoundAt(ranges, file, recovered)
      /\ GoodPlace(ranges, current, offset, Origin, blocksize)
      /\ PassedIn(skipped, Free) /\ ToSee(ranges, current, offset, skipped, Unseen)
      /\ Unseen \in SUBSET (Nat \ {0}) /\ Grids \in SUBSET RangeType
      /\ Origin \in Nat \ {0} /\ blocksize \in Nat \ {0} /\ LAST + MAX_BLOCKSIZE \in Nat
      /\ current \in 1 .. Len(ranges) + 1 /\ Len(ranges) \in Nat
      /\ SpaceOf(ranges) = Space /\ SpaceOf(ranges) \cup file.location = Free
    BY <1>1, LiveFacts, FixedFacts DEF Inv, Types, Free
<1>3. /\ UNCHANGED <<blocksize, universe, used, on_blocks>>
      /\ UNCHANGED <<offset, skipped, recovered, outcome, back, seen>>
    BY DEF Abort, history
<1>4. (universe \cap Blocks) \ seen' = Unseen
    BY <1>3 DEF Unseen
<1>5. file' \in FileType /\ file'.location = {} /\ ~file'.open
    BY ResetFile DEF Inv, Types, Abort
<1>6. /\ SoundAt(ranges', file', recovered') /\ current' \in 1 .. Len(ranges') + 1
      /\ GoodPlace(ranges', current', offset', Origin, blocksize)
      /\ PassedIn(skipped', SpaceOf(ranges') \cup file'.location)
      /\ ToSee(ranges', current', offset', skipped', Unseen)
      /\ Carved(SpaceOf(ranges') \cup file'.location, recovered')
    <2>1. CASE file.open
        <3>1. PICK F : F = File_Finish(file, Place, skipped, 0)
            OBVIOUS
        <3>2. ranges' = F.list /\ current' = F.at
            BY <2>1, <3>1 DEF Abort
        <3>3. file.location \subseteq universe
            BY <1>2 DEF SoundAt, Shared
        <3>4. /\ file.location \subseteq 0 .. LAST + MAX_BLOCKSIZE
              /\ IsList(ranges, GridRanges(Origin, blocksize)) /\ file.location \in Whole(Origin, blocksize)
              /\ file.location \cap SpaceOf(ranges) = {}
            BY <1>2, <3>3, FixedFacts DEF SoundAt, Shared, Grids
        <3>5. PICK n \in Nat : n = LAST + MAX_BLOCKSIZE /\ file.location \subseteq 0 .. n
            BY <1>2, <3>4
        <3>6. Place = [list |-> Place.list, at |-> Place.at] /\ Place.list = ranges /\ Place.at = current
            BY DEF Place
        <3>7. PICK kept \in Whole(Origin, blocksize) :
                 /\ kept \subseteq file.location /\ kept = {}
                 /\ Finish(F, file, Place, skipped, kept, Grids)
            BY <1>2, <3>1, <3>4, <3>5, <3>6, FinishOpen DEF Grids
        <3>8. Left(F, Place, skipped, offset)
            BY <1>2, <3>6, <3>7, Leaving
        <3>9. F.recovered = recovered /\ F.skipped = skipped
            BY <3>7 DEF Finish
        <3>10. /\ SoundAt(F.list, file', recovered) /\ PassedIn(skipped, SpaceOf(F.list) \cup file'.location)
               /\ Carved(SpaceOf(F.list) \cup file'.location, recovered)
            BY <1>5, <3>8, <3>9, LeftSound
        <3>11. /\ GoodPlace(F.list, F.at, offset, Origin, blocksize) /\ F.at \in 1 .. Len(F.list) + 1
               /\ IsList(F.list, Grids)
            BY <3>8 DEF Left
        <3>12. Len(F.list) \in Nat
            BY <1>2, <3>11, ListFacts
        <3>13. ToSee(F.list, F.at, offset, skipped, Unseen)
            BY <1>2, <3>6, <3>8, <3>9, <3>12, LeftToSee
        <3> QED
            BY <1>3, <3>2, <3>10, <3>11, <3>13
    <2>2. CASE ~file.open
        <3>1. ranges' = ranges /\ current' = current /\ file.location = {}
            BY <1>2, <2>2 DEF Abort, SoundAt
        <3>2. Carved(SpaceOf(ranges') \cup file'.location, recovered')
            BY <1>2, <1>3, <1>5, <3>1, CarvedNothing
        <3>3. SoundAt(ranges', file', recovered')
            BY <1>2, <1>3, <1>5, <3>1 DEF SoundAt
        <3> QED
            BY <1>2, <1>3, <1>5, <3>1, <3>2, <3>3
    <2> QED
        BY <2>1, <2>2
<1>7. Types'
    BY <1>1, <1>3, <1>5, <1>6 DEF Inv, Types
<1> QED
    BY <1>1, <1>3, <1>4, <1>5, <1>6, <1>7, WalkOn

----------------------------------------------------------------------------
(* The alignment of the list *)

\* The numbers at a whole number of blocks from d.
Line(d, b) == {d + q * b : q \in Int}

LEMMA LineFacts ==
    ASSUME NEW d \in Int, NEW b \in Nat \ {0}
    PROVE  /\ Line(d, b) \subseteq Int
           /\ \A g \in Line(d, b) : g + b \in Line(d, b)
           /\ \A g, h \in Line(d, b) : g < h => g + b <= h
           /\ \A g, h \in Line(d, b) : g \in Nat /\ g <= h => h \in Grid(g, b)
<1>1. ASSUME NEW q \in Int PROVE q * b \in Int
    OBVIOUS
<1>2. \A g \in Line(d, b) : \E q \in Int : g = d + q * b
    BY DEF Line
<1>3. \A q \in Int : d + q * b \in Line(d, b)
    BY DEF Line
<1>4. Line(d, b) \subseteq Int
    BY <1>1, <1>2
<1>5. ASSUME NEW g \in Line(d, b) PROVE g + b \in Line(d, b)
    <2>1. PICK q \in Int : g = d + q * b
        BY <1>2
    <2>2. PICK r \in Int : r = q + 1
        OBVIOUS
    <2>3. r * b = q * b + b
        BY <2>2
    <2>4. g + b = d + r * b
        BY <1>1, <2>1, <2>3
    <2> QED
        BY <1>3, <2>4, ZenonT(30)
<1>6. ASSUME NEW g \in Line(d, b), NEW h \in Line(d, b), g < h
      PROVE  \E n \in Nat : h = g + b + n * b
    <2>1. PICK p \in Int, q \in Int : g = d + p * b /\ h = d + q * b
        BY <1>2
    <2>2. p < q
        <3> SUFFICES ASSUME q <= p PROVE FALSE
            OBVIOUS
        <3>1. PICK n \in Nat : p = q + n
            <4>1. p - q \in Nat /\ p = q + (p - q)
                OBVIOUS
            <4> QED
                BY <4>1
        <3>2. p * b = q * b + n * b /\ n * b \in Nat /\ q * b \in Int
            BY <3>1
        <3> QED
            BY <1>6, <2>1, <3>2
    <2>3. PICK n \in Nat : q = p + 1 + n
        <3>1. q - p - 1 \in Nat /\ q = p + 1 + (q - p - 1)
            BY <2>2
        <3> QED
            BY <3>1
    <2>4. q * b = p * b + b + n * b /\ n * b \in Nat /\ p * b \in Int
        BY <2>3
    <2>5. h = g + b + n * b
        BY <2>1, <2>4
    <2> QED
        BY <2>5
<1>7. ASSUME NEW g \in Line(d, b), NEW h \in Line(d, b), g < h PROVE g + b <= h
    <2>1. PICK n \in Nat : h = g + b + n * b
        BY <1>6, <1>7
    <2>2. n * b \in Nat /\ g \in Int /\ h \in Int
        BY <1>4
    <2> QED
        BY <2>1, <2>2
<1>8. ASSUME NEW g \in Line(d, b), NEW h \in Line(d, b), g \in Nat, g <= h PROVE h \in Grid(g, b)
    <2>1. CASE g = h
        BY <1>8, <2>1, GridFacts
    <2>2. CASE g # h
        <3>1. g < h
            BY <1>4, <1>8, <2>2
        <3>2. PICK n \in Nat : h = g + b + n * b
            BY <1>6, <3>1
        <3>3. PICK r \in Nat : r = n + 1
            OBVIOUS
        <3>4. r * b = n * b + b /\ n * b \in Nat
            BY <3>3
        <3>5. h = g + r * b
            BY <1>8, <3>2, <3>4
        <3> QED
            BY <3>5 DEF Grid
    <2> QED
        BY <2>1, <2>2
<1> QED
    BY <1>4, <1>5, <1>7, <1>8

\* The last of them that is not behind s.
DownTo(s, d, b) == ((s - d) \div b) * b + d

LEMMA DownFacts ==
    ASSUME NEW d \in Int, NEW b \in Nat \ {0}, NEW s \in Int, NEW w, w = DownTo(s, d, b)
    PROVE  w \in Line(d, b) /\ w \in Int /\ w <= s /\ s < w + b
<1>1. PICK q \in Int, x \in Int : q = (s - d) \div b /\ x = s - d
    OBVIOUS
<1>2. x = q * b + (x % b) /\ x % b \in 0 .. b - 1
    BY <1>1
<1>3. PICK m \in Int, r \in 0 .. b - 1 : m = q * b /\ r = x % b
    BY <1>2
<1>4. x = m + r /\ w = m + d
    BY <1>1, <1>2, <1>3 DEF DownTo
<1>5. w \in Line(d, b)
    <2>1. w = d + q * b
        BY <1>3, <1>4
    <2> QED
        BY <2>1 DEF Line
<1> QED
    BY <1>1, <1>3, <1>4, <1>5

\* Every number is on the line of its remainder, with all that are whole blocks away.
LEMMA OnLine ==
    ASSUME NEW b \in Nat \ {0}, NEW a \in Nat, NEW x \in Grid(a, b), NEW y \in Grid(a, b)
    PROVE  y \in Line(x % b, b) /\ x % b \in 0 .. b - 1
<1>1. PICK p \in Nat, q \in Nat : x = a + p * b /\ y = a + q * b
    BY DEF Grid
<1>2. x \in Nat /\ x % b \in 0 .. b - 1
    <2>1. x \in Nat
        BY GridFacts
    <2> QED
        BY <2>1
<1>3. PICK m \in Int, r \in 0 .. b - 1 : m = x \div b /\ r = x % b /\ x = m * b + r
    BY <1>2
<1>4. PICK n \in Int : n = m + (q - p)
    OBVIOUS
<1>5. n * b = m * b + (q * b - p * b)
    BY <1>4
<1>6. m * b \in Int /\ n * b \in Int /\ p * b \in Int /\ q * b \in Int
    OBVIOUS
<1>7. y = r + n * b
    BY <1>1, <1>3, <1>5, <1>6
<1> QED
    BY <1>2, <1>3, <1>7 DEF Line

\* The parts of update_blocksize.
UpTo(s, d, b) == DownTo(s + b - 1, d, b)
FinalEnd(list, d, b, i) == IF i = Len(list) THEN UpTo(list[i].end + 1, d, b) - 1 ELSE list[i].end
Leads(list, d, b, i) ==
    UpTo(list[i].start, d, b) = list[i].start \/ i = 1 \/ FinalEnd(list, d, b, i - 1) + 1 # list[i].start
LastOf(list, d, b, i) == Min({j \in i .. Len(list) : j = Len(list) \/ Leads(list, d, b, j + 1)})
BeginOf(list, d, b, i) == UpTo(list[i].start, d, b)
EndOf(list, d, b, i) == DownTo(FinalEnd(list, d, b, LastOf(list, d, b, i)) + 1, d, b) - 1
Leaders(list, d, b) == {i \in DOMAIN list : Leads(list, d, b, i) /\ BeginOf(list, d, b, i) <= EndOf(list, d, b, i)}
MarkOf(list, d, b, i) == list[i].file_stat /\ BeginOf(list, d, b, i) = list[i].start

LEMMA UpdateParts ==
    ASSUME NEW list, NEW d, NEW b
    PROVE  LET first == In_Order(Leaders(list, d, b)) IN
           Update_Blocksize(list, b, d) =
           [n \in DOMAIN first |-> Extent(BeginOf(list, d, b, first[n]), EndOf(list, d, b, first[n]),
                                          MarkOf(list, d, b, first[n]))]
BY DEF Update_Blocksize, UpTo, DownTo, FinalEnd, Leads, LastOf, BeginOf, EndOf, Leaders, MarkOf

LEMMA UpFacts ==
    ASSUME NEW d \in Int, NEW b \in Nat \ {0}, NEW s \in Int, NEW w, w = UpTo(s, d, b)
    PROVE  w \in Line(d, b) /\ w \in Int /\ s <= w /\ w < s + b /\ (s \in Line(d, b) => w = s)
<1>1. s + b - 1 \in Int
    OBVIOUS
<1>2. w \in Line(d, b) /\ w \in Int /\ w <= s + b - 1 /\ s + b - 1 < w + b
    BY <1>1, DownFacts DEF UpTo
<1>3. s <= w /\ w < s + b
    BY <1>2
<1>4. s \in Line(d, b) => w = s
    <2> SUFFICES ASSUME s \in Line(d, b), w # s PROVE FALSE
        OBVIOUS
    <2>1. s < w
        BY <1>2, <1>3
    <2>2. s + b <= w
        BY <1>2, <2>1, LineFacts
    <2> QED
        BY <1>2, <1>3, <2>2
<1> QED
    BY <1>2, <1>3, <1>4

\* What is known of the ranges of a list in the partition.
InPart(list, n) ==
    /\ n \in Nat /\ n = Len(list) /\ DOMAIN list = 1 .. n
    /\ \A i \in 1 .. n : /\ list[i].start \in Nat /\ list[i].end \in Nat
                         /\ list[i].start <= list[i].end /\ list[i].file_stat \in BOOLEAN
                         /\ FIRST <= list[i].start /\ list[i].end <= LAST
    /\ \A i, j \in 1 .. n : i < j => list[i].end < list[j].start

LEMMA PartFacts ==
    ASSUME NEW list, IsList(list, PartRanges)
    PROVE  InPart(list, Len(list))
<1>1. PartRanges \in SUBSET RangeType
    BY DEF PartRanges
<1>2. /\ Len(list) \in Nat /\ DOMAIN list = 1 .. Len(list)
      /\ \A i \in 1 .. Len(list) :
            /\ list[i] \in PartRanges /\ list[i].start \in Nat /\ list[i].end \in Nat
            /\ list[i].start <= list[i].end /\ list[i].file_stat \in BOOLEAN
      /\ \A i, j \in 1 .. Len(list) : i < j => list[i].end < list[j].start
    BY <1>1, ListFacts
<1>3. \A r \in PartRanges : FIRST <= r.start /\ r.end <= LAST
    BY DEF PartRanges
<1> QED
    BY <1>2, <1>3 DEF InPart

\* The ranges that make up one of the new list: those from i to l, which touch.
Touching(list, i, l) == \A j \in i .. l - 1 : list[j].end + 1 = list[j + 1].start

LEMMA LastFacts ==
    ASSUME NEW list, NEW n, InPart(list, n), NEW d \in Int, NEW b \in Nat \ {0}, NEW i \in 1 .. n,
           NEW l, l = LastOf(list, d, b, i)
    PROVE  /\ l \in i .. n /\ l \in 1 .. n
           /\ \A j \in i + 1 .. n : Leads(list, d, b, j) => l < j
           /\ Touching(list, i, l)
<1> DEFINE Ends == {j \in i .. n : j = n \/ Leads(list, d, b, j + 1)}
<1>1. n \in Nat /\ n = Len(list)
    BY DEF InPart
<1>2. n \in Ends /\ Ends \in SUBSET Nat
    BY <1>1
<1>3. l = Min(Ends)
    BY <1>1 DEF LastOf
<1>4. l \in Ends /\ \A j \in Ends : l <= j
    <2> HIDE DEF Ends
    <2> QED
        BY <1>2, <1>3, MinOf
<1>5. l \in i .. n /\ l \in 1 .. n
    BY <1>1, <1>4
<1>6. ASSUME NEW j \in i + 1 .. n, Leads(list, d, b, j) PROVE l < j
    <2>1. PICK k \in Nat : k = j - 1
        BY <1>1
    <2>2. k \in i .. n /\ k + 1 = j
        BY <1>1, <2>1
    <2>3. k \in Ends
        BY <1>6, <2>2
    <2> QED
        BY <1>1, <1>4, <1>5, <2>2, <2>3
<1>7. ASSUME NEW j \in i .. l - 1 PROVE list[j].end + 1 = list[j + 1].start
    <2>1. j \in i .. n /\ j < l /\ j # n /\ j + 1 # 1 /\ (j + 1) - 1 = j
        BY <1>1, <1>5
    <2>2. j \notin Ends
        BY <1>1, <1>4, <1>5, <2>1
    <2>3. ~Leads(list, d, b, j + 1)
        BY <2>1, <2>2
    <2>4. FinalEnd(list, d, b, j) + 1 = list[j + 1].start
        BY <2>1, <2>3 DEF Leads
    <2> QED
        BY <1>1, <2>1, <2>4 DEF FinalEnd
<1> QED
    BY <1>5, <1>6, <1>7 DEF Touching

\* Only the end of the last range changes, unless it is that of a block.
SameEnd(list, n, d, b, l, f) == l # n \/ list[l].end + 1 \in Line(d, b) => f = list[l].end

LEMMA FinalFacts ==
    ASSUME NEW list, NEW n, InPart(list, n), NEW d \in Int, NEW b \in Nat \ {0}, NEW l \in 1 .. n,
           NEW f, f = FinalEnd(list, d, b, l)
    PROVE  /\ f \in Nat /\ list[l].end <= f /\ f <= list[l].end + b - 1
           /\ SameEnd(list, n, d, b, l, f)
<1> USE DEF SameEnd
<1>1. n \in Nat /\ n = Len(list) /\ list[l].end \in Nat
    BY DEF InPart
<1>2. PICK e \in Nat : e = list[l].end
    BY <1>1
<1>3. CASE l = n
    <2>1. PICK w : w = UpTo(e + 1, d, b)
        OBVIOUS
    <2>2. w \in Int /\ e + 1 <= w /\ w < e + 1 + b /\ (e + 1 \in Line(d, b) => w = e + 1)
        BY <2>1, UpFacts
    <2>3. f = w - 1
        BY <1>1, <1>2, <1>3, <2>1 DEF FinalEnd
    <2> QED
        BY <1>2, <1>3, <2>2, <2>3
<1>4. CASE l # n
    <2>1. f = e
        BY <1>1, <1>2, <1>4 DEF FinalEnd
    <2> QED
        BY <1>2, <1>4, <2>1
<1> QED
    BY <1>3, <1>4

AlignedRanges(d, b) ==
    {r \in RangeType : /\ r.start \in Line(d, b) /\ r.end + 1 \in Line(d, b)
                       /\ FIRST <= r.start /\ r.end <= LAST + b - 1}

\* The range that begins with the i-th, if it leads and has a block.
LEMMA AlignedRange ==
    ASSUME NEW list, NEW n, InPart(list, n), NEW d \in Int, NEW b \in Nat \ {0},
           NEW i \in Leaders(list, d, b), NEW s, s = BeginOf(list, d, b, i), NEW e, e = EndOf(list, d, b, i),
           NEW l, l = LastOf(list, d, b, i), NEW f, f = FinalEnd(list, d, b, l)
    PROVE  /\ i \in 1 .. n /\ s \in Nat /\ e \in Nat /\ s <= e /\ s \in Line(d, b) /\ e + 1 \in Line(d, b)
           /\ list[i].start <= s /\ e <= f
<1>1. i \in 1 .. n /\ Leads(list, d, b, i) /\ s <= e
    BY DEF InPart, Leaders
<1>2. PICK x \in Nat : x = list[i].start
    BY <1>1 DEF InPart
<1>3. s \in Line(d, b) /\ s \in Int /\ x <= s
    <2>1. s = UpTo(x, d, b)
        BY <1>2 DEF BeginOf
    <2>2. x \in Int
        BY <1>2
    <2>3. s \in Line(d, b) /\ s \in Int /\ x <= s
        BY <2>1, <2>2, UpFacts, ZenonT(30)
    <2> QED
        BY <2>3
<1>4. l \in 1 .. n
    BY <1>1, LastFacts
<1>5. f \in Nat
    BY <1>4, FinalFacts
<1>6. PICK w : w = DownTo(f + 1, d, b)
    OBVIOUS
<1>7. w \in Line(d, b) /\ w \in Int /\ w <= f + 1
    BY <1>5, <1>6, DownFacts
<1>8. e = w - 1
    BY <1>6 DEF EndOf
<1>9. e + 1 = w /\ e \in Int /\ e <= f
    BY <1>5, <1>7, <1>8
<1>10. s \in Nat /\ e \in Nat
    BY <1>1, <1>2, <1>3, <1>9
<1> QED
    BY <1>1, <1>2, <1>3, <1>7, <1>9, <1>10

LEMMA Aligned ==
    ASSUME NEW list, IsList(list, PartRanges), NEW d \in Int, NEW b \in Nat \ {0},
           NEW new, new = Update_Blocksize(list, b, d)
    PROVE  /\ IsList(new, AlignedRanges(d, b))
           /\ \A x \in SpaceOf(new) :
                 x \in SpaceOf(list) \/ /\ list # <<>> /\ list[Len(list)].end < x
                                        /\ list[Len(list)].end + 1 \notin Line(d, b)
<1>1. PICK n \in Nat : n = Len(list) /\ InPart(list, n)
    BY PartFacts DEF InPart
<1>2. /\ DOMAIN list = 1 .. n
      /\ \A i \in 1 .. n : /\ list[i].start \in Nat /\ list[i].end \in Nat
                           /\ list[i].start <= list[i].end /\ list[i].file_stat \in BOOLEAN
                           /\ FIRST <= list[i].start /\ list[i].end <= LAST
      /\ \A i, j \in 1 .. n : i < j => list[i].end < list[j].start
    BY <1>1 DEF InPart
<1> DEFINE S == Leaders(list, d, b)
           B(i) == BeginOf(list, d, b, i)
           E(i) == EndOf(list, d, b, i)
           M(i) == MarkOf(list, d, b, i)
<1>3. S \in SUBSET (0 .. n) /\ S \in SUBSET (1 .. n)
    BY <1>2 DEF Leaders
<1>4. PICK first : first = In_Order(S)
    OBVIOUS
<1>5. PICK c \in Nat : c = Cardinality(S) /\ first \in [1 .. c -> S]
    BY <1>3, <1>4, InOrder
<1>6. \A k, m \in 1 .. c : k < m => first[k] < first[m]
    BY <1>3, <1>4, <1>5, InOrder
<1>7. DOMAIN first = 1 .. c
    BY <1>5
<1>8. new = [k \in 1 .. c |-> Extent(B(first[k]), E(first[k]), M(first[k]))]
    BY <1>4, <1>7, UpdateParts
<1>9. FIRST \in Nat /\ LAST \in Nat
    BY SearchSpaceAssumption
<1>10. ASSUME NEW i \in S PROVE Extent(B(i), E(i), M(i)) \in AlignedRanges(d, b)
    <2>1. PICK l : l = LastOf(list, d, b, i)
        OBVIOUS
    <2>2. PICK f : f = FinalEnd(list, d, b, l)
        OBVIOUS
    <2>3. PICK s, e : s = B(i) /\ e = E(i)
        OBVIOUS
    <2>4. /\ i \in 1 .. n /\ s \in Nat /\ e \in Nat /\ s <= e /\ s \in Line(d, b) /\ e + 1 \in Line(d, b)
          /\ list[i].start <= s /\ e <= f
        BY <1>1, <2>1, <2>2, <2>3, AlignedRange
    <2>5. l \in 1 .. n
        BY <1>1, <2>1, <2>4, LastFacts
    <2>6. f \in Nat /\ f <= list[l].end + b - 1
        BY <1>1, <2>2, <2>5, FinalFacts
    <2>7. PICK x \in Nat, y \in Nat : x = list[i].start /\ y = list[l].end /\ FIRST <= x /\ y <= LAST
        BY <1>2, <2>4, <2>5
    <2>8. FIRST <= s /\ e <= LAST + b - 1
        BY <1>9, <2>4, <2>6, <2>7
    <2>9. M(i) \in BOOLEAN
        BY <1>2, <2>4 DEF MarkOf
    <2>10. Extent(s, e, M(i)) \in AlignedRanges(d, b)
        <3>1. PICK m \in BOOLEAN : m = M(i)
            BY <2>9
        <3>2. Extent(s, e, m) \in AlignedRanges(d, b)
            BY <2>4, <2>8 DEF AlignedRanges, RangeType, Extent
        <3> QED
            BY <3>1, <3>2
    <2> QED
        BY <2>3, <2>10
<1>11. /\ new \in Seq(AlignedRanges(d, b)) /\ Len(new) = c /\ DOMAIN new = 1 .. c
       /\ \A k \in 1 .. c : first[k] \in S /\ new[k] = Extent(B(first[k]), E(first[k]), M(first[k]))
    <2>1. \A k \in 1 .. c : Extent(B(first[k]), E(first[k]), M(first[k])) \in AlignedRanges(d, b)
        BY <1>5, <1>10
    <2> HIDE DEF B, E, M, S
    <2>2. new \in [1 .. c -> AlignedRanges(d, b)]
        BY <1>8, <2>1
    <2>3. new \in Seq(AlignedRanges(d, b)) /\ Len(new) = c
        BY <2>2
    <2> QED
        BY <1>5, <1>8, <2>2, <2>3
<1>12. ASSUME NEW k \in 1 .. c, NEW m \in 1 .. c, k < m PROVE new[k].end < new[m].start
    <2>1. PICK i, j : i = first[k] /\ j = first[m]
        OBVIOUS
    <2>2. i \in S /\ j \in S /\ i < j
        BY <1>6, <1>11, <1>12, <2>1
    <2>3. PICK s, e : s = B(j) /\ e = E(i)
        OBVIOUS
    <2>4. new[k].end = e /\ new[m].start = s
        <3> HIDE DEF B, E, M
        <3> QED
            BY <1>11, <2>1, <2>3 DEF Extent
    <2>5. PICK l : l = LastOf(list, d, b, i)
        OBVIOUS
    <2>6. PICK f : f = FinalEnd(list, d, b, l)
        OBVIOUS
    <2>7. PICK e2, l2, f2 : e2 = E(j) /\ l2 = LastOf(list, d, b, j) /\ f2 = FinalEnd(list, d, b, l2)
        OBVIOUS
    <2>8. i \in 1 .. n /\ e \in Nat /\ e <= f
        <3>1. PICK s2 : s2 = B(i)
            OBVIOUS
        <3> QED
            BY <1>1, <2>2, <2>3, <2>5, <2>6, <3>1, AlignedRange
    <2>9. j \in 1 .. n /\ s \in Nat /\ list[j].start <= s
        BY <1>1, <2>2, <2>3, <2>7, AlignedRange
    <2>10. Leads(list, d, b, j)
        BY <2>2 DEF Leaders
    <2>11. l \in 1 .. n /\ l < j
        <3>1. j \in i + 1 .. n
            BY <2>2, <2>8, <2>9
        <3> QED
            BY <1>1, <2>5, <2>8, <2>10, <3>1, LastFacts
    <2>12. f \in Nat /\ f = list[l].end
        <3>1. l # n
            BY <2>9, <2>11
        <3>2. f \in Nat /\ SameEnd(list, n, d, b, l, f)
            BY <1>1, <2>6, <2>11, FinalFacts
        <3> QED
            BY <3>1, <3>2 DEF SameEnd
    <2>13. PICK x \in Nat, y \in Nat : x = list[l].end /\ y = list[j].start /\ x < y
        BY <1>2, <2>9, <2>11
    <2>14. e < s
        BY <2>8, <2>9, <2>12, <2>13
    <2> QED
        BY <2>4, <2>14
<1>13. IsList(new, AlignedRanges(d, b))
    BY <1>11, <1>12 DEF IsList
<1>14. ASSUME NEW x \in SpaceOf(new), x \notin SpaceOf(list)
       PROVE  list # <<>> /\ list[Len(list)].end < x /\ list[Len(list)].end + 1 \notin Line(d, b)
    <2>1. PICK k \in 1 .. c : x \in SectorsOf(new[k])
        BY <1>11, InSpace
    <2>2. PICK i : i = first[k]
        OBVIOUS
    <2>3. i \in S
        BY <1>11, <2>2
    <2>4. PICK s, e, l, f : /\ s = B(i) /\ e = E(i)
                            /\ l = LastOf(list, d, b, i) /\ f = FinalEnd(list, d, b, l)
        OBVIOUS
    <2>5. i \in 1 .. n /\ s \in Nat /\ e \in Nat /\ list[i].start <= s /\ e <= f
        BY <1>1, <2>3, <2>4, AlignedRange
    <2>6. x \in Nat /\ list[i].start <= x /\ x <= f
        <3>1. new[k].start = s /\ new[k].end = e
            <4> HIDE DEF B, E, M
            <4> QED
                BY <1>11, <2>2, <2>4 DEF Extent
        <3>2. x \in Nat /\ s <= x /\ x <= e
            BY <2>1, <2>5, <3>1 DEF SectorsOf
        <3>3. PICK y \in Nat : y = list[i].start
            BY <1>2, <2>5
        <3>4. l \in 1 .. n
            BY <1>1, <2>4, <2>5, LastFacts
        <3>5. f \in Nat
            BY <1>1, <2>4, <3>4, FinalFacts
        <3> QED
            BY <2>5, <3>2, <3>3, <3>5
    <2>7. l \in i .. n /\ l \in 1 .. n /\ Touching(list, i, l)
        BY <1>1, <2>4, <2>5, LastFacts
    <2> DEFINE J == {j \in i .. l : list[j].start <= x}
    <2>8. PICK j : j \in J /\ \A m \in J : m <= j
        <3>1. J \in SUBSET (0 .. n) /\ i \in J
            BY <2>5, <2>6, <2>7
        <3> HIDE DEF J
        <3>2. J # {}
            BY <3>1
        <3> QED
            BY <3>1, <3>2, MaxOf
    <2>9. j \in i .. l /\ j \in 1 .. n /\ list[j].start <= x
        BY <2>5, <2>7, <2>8
    <2>10. ~(x <= list[j].end)
        <3> SUFFICES ASSUME x <= list[j].end PROVE FALSE
            OBVIOUS
        <3>1. x \in SectorsOf(list[j])
            BY <1>2, <2>6, <2>9 DEF SectorsOf
        <3> QED
            BY <1>1, <1>2, <1>14, <2>9, <3>1, InSpace
    <2>11. j = l
        <3> SUFFICES ASSUME j # l PROVE FALSE
            OBVIOUS
        <3>1. j \in i .. l - 1 /\ j + 1 \in i .. l /\ j + 1 \in 1 .. n /\ ~(j + 1 <= j)
            BY <2>5, <2>7, <2>9
        <3>2. ~(list[j + 1].start <= x)
            BY <2>8, <3>1
        <3>3. PICK y \in Nat, z \in Nat : y = list[j].end /\ z = list[j + 1].start /\ y + 1 = z
            BY <1>2, <2>7, <2>9, <3>1 DEF Touching
        <3> QED
            BY <2>6, <2>10, <3>2, <3>3
    <2>12. PICK y \in Nat : y = list[l].end /\ y < x
        BY <1>2, <2>6, <2>7, <2>10, <2>11
    <2>13. f # y
        BY <2>6, <2>12
    <2>14. l = n /\ y + 1 \notin Line(d, b)
        <3>1. SameEnd(list, n, d, b, l, f)
            BY <1>1, <2>4, <2>7, FinalFacts
        <3> QED
            BY <2>12, <2>13, <3>1 DEF SameEnd
    <2>15. list # <<>>
        BY <1>1, <2>7
    <2> QED
        BY <1>1, <2>12, <2>14, <2>15
<1> QED
    BY <1>13, <1>14

----------------------------------------------------------------------------
(* Before the walk *)

LEMMA Sizes ==
    /\ FIRST \in Nat \ {0} /\ LAST \in Nat /\ FIRST <= LAST /\ MAX_BLOCKSIZE \in Nat /\ MAX_BACK \in Nat
    /\ CLUSTER \in Nat \ {0} /\ {1, CLUSTER, MAX_BLOCKSIZE} \subseteq BlockSizes
    /\ PartRanges \in SUBSET RangeType
    /\ \A b \in BlockSizes : b \in Nat \ {0} /\ b <= MAX_BLOCKSIZE
BY SearchSpaceAssumption DEF BlockSizes, PartRanges

LEMMA Started == Init => Inv
<1> SUFFICES ASSUME Init PROVE Inv
    OBVIOUS
<1> DEFINE r == Extent(FIRST, LAST, FALSE)
<1>1. ranges = <<r>>
    BY DEF Init
<1>2. r \in PartRanges
    BY Sizes DEF PartRanges, RangeType, Extent
<1>3. ranges \in Seq(PartRanges) /\ Len(ranges) = 1
    <2> HIDE DEF r
    <2> QED
        BY <1>1, <1>2
<1>4. IsList(ranges, PartRanges)
    BY <1>3 DEF IsList
<1>5. Types
    BY <1>3, Sizes DEF Init, Types, NoFile, FileType, Statuses
<1>6. BeforeWalk
    BY <1>4 DEF Init, BeforeWalk
<1> QED
    BY <1>5, <1>6 DEF Init, Inv, DuringWalk, Walking, OnTheWay, Live, AllSeen

\* What a step before the walk must show.
LEMMA PrepareOn ==
    ASSUME Inv, Types', BeforeWalk', pc' \in {"find", "align"}
    PROVE  Inv'
BY DEF Inv, DuringWalk, Walking, OnTheWay, Live, AllSeen

LEMMA GridShift ==
    ASSUME NEW a \in Nat, NEW b \in Nat \ {0}, NEW h \in Grid(a, b)
    PROVE  Grid(h, b) \subseteq Grid(a, b)
<1>1. PICK p \in Nat : h = a + p * b
    BY DEF Grid
<1>2. ASSUME NEW q \in Nat PROVE h + q * b \in Grid(a, b)
    <2>1. p + q \in Nat /\ (p + q) * b = p * b + q * b /\ p * b \in Nat /\ q * b \in Nat
        OBVIOUS
    <2>2. h + q * b = a + (p + q) * b
        BY <1>1, <2>1
    <2> QED
        BY <2>1, <2>2 DEF Grid
<1> QED
    BY <1>2 DEF Grid

\* The clusters lie on the grid of the first of them.
LEMMA ClusterFacts ==
    ASSUME NEW heap \in FIRST .. LAST, NEW C \in SUBSET Clusters(heap)
    PROVE  /\ ClusterSectors(C) \in SUBSET (heap .. LAST)
           /\ \A x \in ClusterSectors(C) : x + 1 \notin ClusterSectors(C) => x + 1 \in Grid(heap, CLUSTER)
           /\ \A x \in ClusterSectors(C) : x - 1 \notin ClusterSectors(C) => x \in Grid(heap, CLUSTER)
<1> DEFINE U == ClusterSectors(C)
<1>1. FIRST \in Nat /\ LAST \in Nat /\ heap \in Nat /\ CLUSTER \in Nat \ {0}
    BY Sizes
<1>2. ASSUME NEW x \in U
      PROVE  \E c \in Grid(heap, CLUSTER) : /\ c \in Nat /\ heap <= c /\ c + CLUSTER - 1 <= LAST
                                             /\ x \in c .. c + CLUSTER - 1 /\ c .. c + CLUSTER - 1 \subseteq U
    <2>1. PICK c \in C : x \in c .. c + CLUSTER - 1
        BY DEF ClusterSectors
    <2>2. c \in heap .. LAST /\ (c - heap) % CLUSTER = 0 /\ c + CLUSTER - 1 <= LAST
        BY DEF Clusters
    <2>3. c \in Grid(heap, CLUSTER)
        BY <1>1, <2>2, GridFacts
    <2>4. c .. c + CLUSTER - 1 \subseteq U
        BY DEF ClusterSectors
    <2> QED
        BY <1>1, <2>1, <2>2, <2>3, <2>4
<1> HIDE DEF U
<1>3. ASSUME NEW x \in U PROVE x \in heap .. LAST
    <2>1. PICK c \in Grid(heap, CLUSTER) : /\ c \in Nat /\ heap <= c /\ c + CLUSTER - 1 <= LAST
                                            /\ x \in c .. c + CLUSTER - 1
        BY <1>2
    <2> QED
        BY <1>1, <2>1
<1>4. ASSUME NEW x \in U, x + 1 \notin U PROVE x + 1 \in Grid(heap, CLUSTER)
    <2>1. PICK c \in Grid(heap, CLUSTER) :
             c \in Nat /\ x \in c .. c + CLUSTER - 1 /\ c .. c + CLUSTER - 1 \subseteq U
        BY <1>2
    <2>2. x + 1 \notin c .. c + CLUSTER - 1
        BY <1>4, <2>1
    <2>3. x + 1 = c + CLUSTER
        BY <1>1, <2>1, <2>2
    <2>4. c + CLUSTER \in Grid(heap, CLUSTER)
        BY <1>1, GridFacts
    <2> QED
        BY <2>3, <2>4
<1>5. ASSUME NEW x \in U, x - 1 \notin U PROVE x \in Grid(heap, CLUSTER)
    <2>1. PICK c \in Grid(heap, CLUSTER) :
             c \in Nat /\ x \in c .. c + CLUSTER - 1 /\ c .. c + CLUSTER - 1 \subseteq U
        BY <1>2
    <2>2. x - 1 \notin c .. c + CLUSTER - 1
        BY <1>5, <2>1
    <2>3. x = c
        BY <1>1, <2>1, <2>2
    <2> QED
        BY <2>1, <2>3
<1> QED
    BY <1>3, <1>4, <1>5 DEF U

LEMMA UsedStep ==
    ASSUME Inv, Remove_Used_Space
    PROVE  Inv'
<1>1. /\ pc = "used" /\ current' = 1 /\ offset' = StartOf(ranges', 1)
      /\ UNCHANGED <<walk, universe, seen>>
    BY DEF Remove_Used_Space
<1>2. UNCHANGED <<file, skipped, recovered, outcome, back, universe>>
    BY <1>1 DEF walk
<1>3. PICK fs \in {"ntfs", "fat", "exfat"}, heap \in FIRST .. LAST, readable \in BOOLEAN,
           until \in FIRST .. LAST :
          /\ on_blocks' = (readable /\ On_Blocks(fs, heap))
          /\ blocksize' = IF readable THEN CLUSTER ELSE 0
          /\ pc' = IF readable THEN "align" ELSE "find"
          /\ \E C \in SUBSET Clusters(heap) :
                /\ used' = IF readable THEN ClusterSectors(C) \cup Metadata(fs, heap) ELSE {}
                /\ ranges' = Runs((FIRST .. LAST) \ (Removed(C, readable, until) \cup Metadata(fs, heap)))
    BY ZenonT(30) DEF Remove_Used_Space
<1>3a. PICK C \in SUBSET Clusters(heap) :
          /\ used' = IF readable THEN ClusterSectors(C) \cup Metadata(fs, heap) ELSE {}
          /\ ranges' = Runs((FIRST .. LAST) \ (Removed(C, readable, until) \cup Metadata(fs, heap)))
    BY <1>3
<1>4. PICK S : S = (FIRST .. LAST) \ (Removed(C, readable, until) \cup Metadata(fs, heap))
    OBVIOUS
<1>5. FIRST \in Nat \ {0} /\ LAST \in Nat /\ S \in SUBSET (0 .. LAST)
    BY <1>4, Sizes
<1>6. ranges' = Runs(S)
    BY <1>3a, <1>4
<1>7. PICK list : list = ranges'
    OBVIOUS
<1>8. /\ IsList(list, RangeType) /\ SpaceOf(list) = S
      /\ \A i \in 1 .. Len(list) : /\ list[i].start \in S /\ list[i].end \in S
                                   /\ list[i].start - 1 \notin S /\ list[i].end + 1 \notin S
    BY <1>5, <1>6, <1>7, RunsOf
<1>9. /\ list \in Seq(RangeType) /\ Len(list) \in Nat /\ DOMAIN list = 1 .. Len(list)
      /\ \A i \in 1 .. Len(list) : /\ list[i] \in RangeType /\ list[i].start \in Nat
                                   /\ list[i].end \in Nat /\ list[i].start <= list[i].end
      /\ \A i, j \in 1 .. Len(list) : i < j => list[i].end < list[j].start
    BY <1>8, ListFacts
<1>10. IsList(list, PartRanges)
    <2>1. S \subseteq FIRST .. LAST
        BY <1>4
    <2>2. \A i \in 1 .. Len(list) : list[i] \in PartRanges
        BY <1>8, <1>9, <2>1 DEF PartRanges
    <2>3. list \in Seq(PartRanges)
        BY <1>9, <2>2
    <2> QED
        BY <1>9, <2>3 DEF IsList
<1>11. 1 <= Len(list) => offset' \in SectorsOf(list[1])
    BY <1>1, <1>7, <1>9 DEF StartOf, SectorsOf
<1>12. offset' \in Nat
    BY <1>1, <1>7, <1>9 DEF StartOf
<1>13. Types'
    <2>1. /\ blocksize' \in BlockSizes \cup {0} /\ pc' \in {"align", "find"}
          /\ current' \in 1 .. Len(ranges') + 1
        BY <1>1, <1>3, <1>7, <1>9, Sizes
    <2> QED
        BY <1>1, <1>2, <1>12, <2>1 DEF Inv, Types
<1>14. readable /\ On_Blocks(fs, heap) => AtClusters'
    <2> SUFFICES ASSUME readable, On_Blocks(fs, heap) PROVE AtClusters'
        OBVIOUS
    <2>1. PICK U, M : U = ClusterSectors(C) /\ M = Metadata(fs, heap)
        OBVIOUS
    <2>2. used' = U \cup M /\ S = (FIRST .. LAST) \ (U \cup M) /\ blocksize' = CLUSTER
        BY <1>3, <1>3a, <1>4, <2>1 DEF Removed
    <2>3. /\ U \in SUBSET (heap .. LAST)
          /\ \A x \in U : x + 1 \notin U => x + 1 \in Grid(heap, CLUSTER)
          /\ \A x \in U : x - 1 \notin U => x \in Grid(heap, CLUSTER)
        BY <2>1, ClusterFacts
    <2>4. Space' = S
        BY <1>7, <1>8 DEF Space, SpaceOf
    <2>5. /\ FIRST \in Nat /\ LAST \in Nat /\ heap \in Nat /\ FIRST <= heap /\ heap <= LAST
          /\ CLUSTER \in Nat \ {0}
        BY Sizes
    <2>6. M = {} \/ M = FIRST .. heap - 1
        BY <2>1 DEF Metadata
    <2>7. used' \in SUBSET (FIRST .. LAST)
        <3>1. heap .. LAST \subseteq FIRST .. LAST /\ FIRST .. heap - 1 \subseteq FIRST .. LAST
            BY <2>5
        <3> QED
            BY <2>2, <2>3, <2>6, <3>1
    <2>8. PICK g \in Nat : /\ (M = FIRST .. heap - 1 /\ g = heap) \/ (M = {} /\ g = FIRST)
                           /\ heap \in Grid(g, CLUSTER)
        <3>1. CASE fs = "fat"
            <4>1. M = FIRST .. heap - 1 /\ heap \in Grid(heap, CLUSTER)
                BY <2>1, <2>5, <3>1, GridFacts DEF Metadata
            <4> QED
                BY <2>5, <4>1
        <3>2. CASE fs # "fat"
            <4>1. M = {} /\ (heap - FIRST) % CLUSTER = 0
                BY <2>1, <3>2 DEF Metadata, On_Blocks
            <4>2. heap \in Grid(FIRST, CLUSTER)
                BY <2>5, <4>1, GridFacts
            <4> QED
                BY <2>5, <4>1, <4>2
        <3> QED
            BY <3>1, <3>2
    <2>9. Grid(heap, CLUSTER) \subseteq Grid(g, CLUSTER) /\ g \in Grid(g, CLUSTER)
        BY <2>5, <2>8, GridShift, GridFacts
    <2>10. ASSUME list # <<>> PROVE OnClusters(list, g)
        <3>1. 1 \in 1 .. Len(list) /\ Len(list) \in 1 .. Len(list)
            BY <1>9, <2>10
        <3>2. PICK x \in S : x = list[1].start /\ x - 1 \notin S
            BY <1>8, <3>1
        <3>3. PICK y \in S : y = list[Len(list)].end /\ y + 1 \notin S
            BY <1>8, <3>1
        <3>4. x \in Grid(g, CLUSTER)
            <4> x \in FIRST .. LAST /\ x \notin U /\ x \notin M /\ x \in Nat
                BY <2>2, <2>5
            <4>1. CASE x - 1 \in U
                <5>1. (x - 1) + 1 = x
                    OBVIOUS
                <5>2. x \in Grid(heap, CLUSTER)
                    BY <2>3, <4>1, <5>1
                <5> QED
                    BY <2>9, <5>2
            <4>2. CASE x - 1 \notin U
                <5>1. x = FIRST \/ x - 1 \in M
                    BY <2>2, <2>5, <3>2, <4>2
                <5>2. x = g
                    BY <2>5, <2>8, <5>1
                <5> QED
                    BY <2>9, <5>2
            <4> QED
                BY <4>1, <4>2
        <3>5. y = LAST \/ y + 1 \in Grid(g, CLUSTER)
            <4> SUFFICES ASSUME y # LAST PROVE y + 1 \in Grid(g, CLUSTER)
                OBVIOUS
            <4>1. y \in FIRST .. LAST /\ y \notin U /\ y \notin M /\ y \in Nat
                BY <2>2, <2>5
            <4>2. y + 1 \in FIRST .. LAST /\ (y + 1) - 1 = y
                BY <2>5, <4>1
            <4>3. y + 1 \notin M
                BY <2>5, <2>6, <4>1
            <4>4. y + 1 \in U
                BY <2>2, <3>3, <4>2, <4>3
            <4>5. y + 1 \in Grid(heap, CLUSTER)
                BY <2>3, <4>1, <4>2, <4>4
            <4> QED
                BY <2>9, <4>5
        <3> QED
            BY <3>2, <3>3, <3>4, <3>5 DEF OnClusters
    <2>11. ranges' # <<>> => \E a \in Nat : OnClusters(ranges', a)
        BY <1>7, <2>10
    <2>12. used' \cap Space' = {}
        BY <2>2, <2>4
    <2> QED
        BY <2>2, <2>7, <2>11, <2>12 DEF AtClusters, OnClusters
<1>15. BeforeWalk'
    <2>1. file = NoFile /\ recovered = {} /\ skipped = 0 /\ universe = {}
        BY <1>1 DEF Inv, BeforeWalk, Starting
    <2>2. pc' = "find" => blocksize' = 0 /\ ~on_blocks'
        BY <1>3
    <2>3. on_blocks' => AtClusters'
        BY <1>3, <1>14
    <2> QED
        BY <1>1, <1>2, <1>7, <1>10, <1>11, <2>1, <2>2, <2>3 DEF BeforeWalk
<1> QED
    BY <1>3, <1>13, <1>15, PrepareOn

\* file_found leaves the walk in the range that begins at the header.
LEMMA FileFound ==
    ASSUME IsList(ranges, PartRanges), current \in 1 .. Len(ranges), offset \in SectorsOf(ranges[current]),
           NEW L, L = File_Found
    PROVE  IsList(L.list, PartRanges) /\ L.at \in 1 .. Len(L.list) /\ offset \in SectorsOf(L.list[L.at])
<1> DEFINE R == PartRanges
           r == ranges[current]
<1>1. PICK n \in Nat : n = Len(ranges)
    BY Sizes, ListFacts
<1>2. /\ ranges \in Seq(R) /\ DOMAIN ranges = 1 .. n
      /\ \A k \in 1 .. n : /\ ranges[k] \in R /\ ranges[k].start \in Nat /\ ranges[k].end \in Nat
                           /\ ranges[k].start <= ranges[k].end /\ ranges[k].file_stat \in BOOLEAN
      /\ \A k, m \in 1 .. n : k < m => ranges[k].end < ranges[m].start
    BY <1>1, Sizes, ListFacts
<1>3. PICK s \in Nat, e \in Nat, o \in Nat :
         /\ s = r.start /\ e = r.end /\ o = offset /\ s <= o /\ o <= e /\ FIRST <= s /\ e <= LAST
    <2>1. r \in R /\ r.start \in Nat /\ r.end \in Nat
        BY <1>1, <1>2
    <2>2. offset \in r.start .. r.end
        BY DEF SectorsOf
    <2>3. FIRST <= r.start /\ r.end <= LAST
        BY <2>1 DEF PartRanges
    <2>4. offset \in Nat /\ r.start <= offset /\ offset <= r.end
        BY <2>1, <2>2
    <2> QED
        BY <2>1, <2>3, <2>4
<1>4. FIRST \in Nat /\ LAST \in Nat /\ R \in SUBSET RangeType /\ IsList(ranges, R)
    BY Sizes
<1>5. current \in 1 .. n /\ ranges[current] = r /\ r \in R /\ n = Len(ranges)
    BY <1>1, <1>2
<1>6. Before(ranges, current, s) /\ After(ranges, current + 1, e)
    <2>1. \A k \in 1 .. current - 1 : k \in 1 .. n /\ ranges[k].end < s
        BY <1>1, <1>2, <1>3
    <2>2. \A k \in current + 1 .. n : k \in 1 .. n /\ e < ranges[k].start
        BY <1>1, <1>2, <1>3
    <2> QED
        BY <1>1, <2>1, <2>2 DEF Before, After
<1>7. CASE r.start = offset
    <2> DEFINE q == [r EXCEPT !.file_stat = TRUE]
    <2>1. PICK new : new = [ranges EXCEPT ![current] = q]
        OBVIOUS
    <2>2. L = [list |-> new, at |-> current]
        BY <1>7, <2>1 DEF File_Found
    <2>3. q \in R /\ q.start = s /\ q.end = e
        BY <1>3, <1>5 DEF PartRanges, RangeType
    <2>4. offset \in SectorsOf(q)
        BY <1>3, <2>3 DEF SectorsOf
    <2>5. Before(ranges, current, q.start) /\ After(ranges, current + 1, q.end)
        BY <1>6, <2>3
    <2> HIDE DEF q, R
    <2>6. Lists(new, R, Len(ranges), (SpaceOf(ranges) \ SectorsOf(ranges[current])) \cup SectorsOf(q))
        BY <1>4, <2>1, <2>3, <2>5, ReplaceRange, ZenonT(30)
    <2>7. IsList(new, R) /\ Len(new) = n
        BY <1>1, <2>6 DEF Lists
    <2>8. new[current] = q
        BY <1>2, <1>5, <2>1
    <2> QED
        BY <1>5, <2>2, <2>4, <2>7, <2>8 DEF R
<1>8. CASE r.start # offset
    <2> DEFINE p == [r EXCEPT !.end = offset - 1]
               q == Extent(offset, r.end, TRUE)
    <2>1. PICK cut : cut = [ranges EXCEPT ![current] = p]
        OBVIOUS
    <2>2. PICK new : new = InsertAt(cut, current + 1, q)
        OBVIOUS
    <2>3. L = [list |-> new, at |-> current + 1]
        <3>1. cut = [ranges EXCEPT ![current].end = offset - 1]
            BY <2>1
        <3> QED
            BY <1>8, <2>2, <3>1 DEF File_Found
    <2>4. s < o /\ o - 1 \in Nat
        BY <1>3, <1>8
    <2>5. p \in R /\ p.start = s /\ p.end = o - 1
        <3>1. s <= o - 1 /\ o - 1 <= LAST
            BY <1>3, <1>4, <2>4
        <3> QED
            BY <1>3, <1>5, <2>4, <3>1 DEF PartRanges, RangeType
    <2>6. q \in R /\ q.start = o /\ q.end = e
        <3>1. FIRST <= o
            BY <1>3, <1>4
        <3> QED
            BY <1>3, <3>1 DEF PartRanges, RangeType, Extent
    <2>7. offset \in SectorsOf(q)
        <3>1. offset = o /\ o \in Nat /\ e \in Nat /\ o <= e
            BY <1>3
        <3>2. o \in o .. e
            BY <3>1
        <3> HIDE DEF q
        <3> QED
            BY <2>6, <3>1, <3>2 DEF SectorsOf
    <2>8. \A k \in current + 1 .. n : k \in 1 .. n /\ e < ranges[k].start /\ ranges[k].start \in Nat
        <3> TAKE k \in current + 1 .. n
        <3>1. k \in 1 .. n /\ current \in 1 .. n /\ current < k
            BY <1>1
        <3>2. ranges[k].start \in Nat /\ ranges[current].end < ranges[k].start
            BY <1>2, <3>1
        <3> QED
            BY <1>3, <3>1, <3>2
    <2>9. Before(ranges, current, p.start) /\ After(ranges, current + 1, p.end)
        <3>1. \A k \in current + 1 .. n : o - 1 < ranges[k].start
            BY <1>3, <2>8
        <3> QED
            BY <1>1, <1>6, <2>5, <3>1 DEF After
    <2> HIDE DEF p, q, R
    <2>10. Lists(cut, R, Len(ranges), (SpaceOf(ranges) \ SectorsOf(ranges[current])) \cup SectorsOf(p))
        BY <1>4, <2>1, <2>5, <2>9, ReplaceRange, ZenonT(30)
    <2>11. IsList(cut, R) /\ Len(cut) = n
        BY <1>1, <2>10 DEF Lists
    <2>12. cut[current] = p /\ \A k \in 1 .. n : k # current => cut[k] = ranges[k]
        BY <1>2, <1>5, <2>1
    <2>13. Before(cut, current + 1, q.start)
        <3> SUFFICES ASSUME NEW k \in 1 .. current PROVE cut[k].end < o
            BY <1>5, <2>6 DEF Before
        <3>1. CASE k = current
            BY <2>4, <2>5, <2>12, <3>1
        <3>2. CASE k # current
            <4>1. k \in 1 .. current - 1 /\ k \in 1 .. n
                BY <1>5, <3>2
            <4>2. PICK y \in Nat : y = ranges[k].end /\ y < s
                BY <1>2, <1>6, <4>1 DEF Before
            <4>3. y < o
                BY <1>3, <4>2
            <4> QED
                BY <2>12, <3>2, <4>1, <4>2, <4>3
        <3> QED
            BY <3>1, <3>2
    <2>14. After(cut, current + 1, q.end)
        <3> SUFFICES ASSUME NEW k \in current + 1 .. n PROVE e < cut[k].start
            BY <2>6, <2>11 DEF After
        <3>1. k # current /\ k \in 1 .. n
            BY <1>5
        <3> QED
            BY <2>8, <2>12, <3>1
    <2>15. current + 1 \in 1 .. Len(cut) + 1
        BY <1>5, <2>11
    <2>16. Lists(new, R, Len(cut) + 1, SpaceOf(cut) \cup SectorsOf(q))
        BY <1>4, <2>2, <2>6, <2>11, <2>13, <2>14, <2>15, InsertRange, ZenonT(30)
    <2>17. IsList(new, R) /\ Len(new) = n + 1 /\ current + 1 \in 1 .. Len(new)
        BY <1>5, <2>11, <2>16 DEF Lists
    <2>18. new[current + 1] = q
        <3>1. cut \in Seq(R)
            BY <2>11 DEF IsList
        <3>2. Inserted(new, cut, current + 1, q)
            BY <2>2, <2>6, <2>15, <3>1, InsertElements, ZenonT(30)
        <3> QED
            BY <3>2 DEF Inserted
    <2> QED
        BY <2>3, <2>7, <2>17, <2>18 DEF R
<1> QED
    BY <1>7, <1>8

LEMMA FindStep ==
    ASSUME Inv, Photorec_Find_Blocksize
    PROVE  Inv'
<1>1. /\ pc = "find" /\ UNCHANGED <<blocksize, file, skipped, recovered, outcome, back, universe, used, on_blocks>>
    BY DEF Photorec_Find_Blocksize, walk, history
<1>2. /\ IsList(ranges, PartRanges) /\ Types
      /\ file = NoFile /\ recovered = {} /\ skipped = 0 /\ universe = {}
      /\ blocksize = 0 /\ ~on_blocks
      /\ current <= Len(ranges) => offset \in SectorsOf(ranges[current])
    BY <1>1 DEF Inv, BeforeWalk, Starting
<1>3. CASE pc' = "align" /\ UNCHANGED <<ranges, current, offset>>
    <2>1. Types' /\ BeforeWalk'
        BY <1>1, <1>2, <1>3 DEF Types, BeforeWalk
    <2> QED
        BY <1>3, <2>1, PrepareOn
<1>4. CASE ~AtHead /\ \E L \in {Place, File_Found} :
                         LET next == Next_Sector(L, offset, 1) IN
                         /\ ranges' = L.list /\ current' = next.at /\ offset' = next.offset
                         /\ pc' = pc
    <2>1. PICK L \in {Place, File_Found} :
             LET next == Next_Sector(L, offset, 1) IN
             /\ ranges' = L.list /\ current' = next.at /\ offset' = next.offset /\ pc' = pc
        BY <1>4
    <2>2. Len(ranges) \in Nat
        BY <1>2, Sizes, ListFacts
    <2>3. current \in 1 .. Len(ranges) /\ offset \in SectorsOf(ranges[current])
        BY <1>2, <1>4, <2>2 DEF AtHead, Types
    <2>4. IsList(L.list, PartRanges) /\ L.at \in 1 .. Len(L.list) /\ offset \in SectorsOf(L.list[L.at])
        <3>1. CASE L = Place
            BY <1>2, <2>3, <3>1 DEF Place
        <3>2. CASE L = File_Found
            BY <1>2, <2>3, <3>2, FileFound
        <3> QED
            BY <3>1, <3>2
    <2>5. PICK list, at : list = L.list /\ at = L.at
        OBVIOUS
    <2>6. PICK n \in Nat : n = Len(list)
        BY <2>4, <2>5, Sizes, ListFacts
    <2>7. \A i \in 1 .. n : /\ list[i].start \in Nat /\ list[i].end \in Nat
                            /\ list[i].start <= list[i].end
        BY <2>4, <2>5, <2>6, Sizes, ListFacts
    <2>8. at \in 1 .. n /\ offset \in Nat /\ list[at].start <= offset
        BY <2>4, <2>5, <2>6, <2>7 DEF SectorsOf
    <2>9. PICK next : next = Next_Sector(L, offset, 1)
        OBVIOUS
    <2>10. /\ next.at \in 1 .. n + 1 /\ next.offset \in Nat
           /\ next.at <= n => next.offset \in SectorsOf(list[next.at])
        <3>1. CASE offset + 1 <= list[at].end
            <4>1. next.at = at /\ next.offset = offset + 1
                BY <2>5, <2>9, <3>1 DEF Next_Sector
            <4>2. offset + 1 \in SectorsOf(list[at])
                BY <2>7, <2>8, <3>1 DEF SectorsOf
            <4> QED
                BY <2>8, <4>1, <4>2
        <3>2. CASE ~(offset + 1 <= list[at].end)
            <4>1. next.at = at + 1 /\ next.offset = StartOf(list, at + 1)
                BY <2>5, <2>9, <3>2 DEF Next_Sector
            <4>2. CASE at + 1 <= n
                <5>1. at + 1 \in 1 .. n /\ next.offset = list[at + 1].start
                    BY <2>6, <2>8, <4>1, <4>2 DEF StartOf
                <5> QED
                    BY <2>7, <4>1, <5>1 DEF SectorsOf
            <4>3. CASE ~(at + 1 <= n)
                BY <2>6, <2>8, <4>1, <4>3 DEF StartOf
            <4> QED
                BY <4>2, <4>3
        <3> QED
            BY <3>1, <3>2
    <2>11. ranges' = list /\ current' = next.at /\ offset' = next.offset /\ pc' = "find"
        BY <1>1, <2>1, <2>5, <2>9
    <2>12. Types'
        BY <1>1, <1>2, <2>6, <2>10, <2>11 DEF Types
    <2>13. BeforeWalk'
        BY <1>1, <1>2, <2>4, <2>5, <2>6, <2>10, <2>11 DEF BeforeWalk
    <2> QED
        BY <2>11, <2>12, <2>13, PrepareOn
<1>5. \/ pc' = "align" /\ UNCHANGED <<ranges, current, offset>>
      \/ ~AtHead /\ \E L \in {Place, File_Found} :
                       LET next == Next_Sector(L, offset, 1) IN
                       /\ ranges' = L.list /\ current' = next.at /\ offset' = next.offset
                       /\ pc' = pc
    BY DEF Photorec_Find_Blocksize
<1> QED
    BY <1>3, <1>4, <1>5

\* The block size that is found is one of those that are tried.
LEMMA SizeFound ==
    ASSUME IsList(ranges, PartRanges)
    PROVE  Find_Blocksize \in BlockSizes
<1> DEFINE H == Headers(ranges)
           Agree(S, b) == \A s, t \in S : s % b = t % b
           T == {b \in BlockSizes : b < MAX_BLOCKSIZE /\ Agree(H, b)}
<1>1. /\ Len(ranges) \in Nat /\ DOMAIN ranges = 1 .. Len(ranges)
      /\ \A i \in 1 .. Len(ranges) : ranges[i].start \in Nat
    BY Sizes, ListFacts
<1>2. H \subseteq Nat
    BY <1>1 DEF Headers
<1>3. MAX_BLOCKSIZE \in Nat /\ 1 \in BlockSizes /\ MAX_BLOCKSIZE \in BlockSizes /\ MAX_BLOCKSIZE >= 1
      /\ \A b \in BlockSizes : b \in 0 .. MAX_BLOCKSIZE
    BY Sizes
<1>4. CASE ranges = <<>>
    BY <1>3, <1>4 DEF Find_Blocksize
<1>5. CASE ranges # <<>> /\ Agree(H \cup {ranges[1].start}, MAX_BLOCKSIZE)
    BY <1>3, <1>5 DEF Find_Blocksize
<1>6. CASE ranges # <<>> /\ ~Agree(H \cup {ranges[1].start}, MAX_BLOCKSIZE)
    <2>1. Find_Blocksize = Max(T)
        BY <1>6 DEF Find_Blocksize
    <2>2. 1 \in 1 .. Len(ranges)
        <3>1. ranges \in Seq(PartRanges)
            BY DEF IsList
        <3>2. Len(ranges) # 0
            BY <1>6, <3>1
        <3> QED
            BY <1>1, <3>2
    <2>3. H \cup {ranges[1].start} \subseteq Nat
        BY <1>1, <1>2, <2>2
    <2>4. \A s \in Nat : s % 1 = 0
        OBVIOUS
    <2>5. Agree(H, 1) /\ Agree(H \cup {ranges[1].start}, 1)
        <3> HIDE DEF H
        <3> QED
            BY <1>2, <2>3, <2>4
    <2>6. 1 < MAX_BLOCKSIZE
        BY <1>3, <1>6, <2>5
    <2>7. 1 \in T
        BY <1>3, <2>5, <2>6
    <2>8. T \in SUBSET (0 .. MAX_BLOCKSIZE) /\ T \subseteq BlockSizes
        BY <1>3
    <2> HIDE DEF T
    <2>9. Max(T) \in T
        BY <1>3, <2>7, <2>8, MaxOf
    <2> QED
        BY <2>1, <2>8, <2>9
<1> QED
    BY <1>4, <1>5, <1>6

LEMMA OffsetFound ==
    ASSUME IsList(ranges, PartRanges), NEW b \in Nat \ {0}
    PROVE  /\ Start_Offset(b) \in Int
           /\ blocksize > 0 /\ ranges # <<>> => Start_Offset(b) = ranges[1].start % b
<1>1. /\ Len(ranges) \in Nat /\ DOMAIN ranges = 1 .. Len(ranges)
      /\ \A i \in 1 .. Len(ranges) : ranges[i].start \in Nat
    BY Sizes, ListFacts
<1>2. Headers(ranges) \in SUBSET Nat
    BY <1>1 DEF Headers
<1>3. ranges # <<>> => 1 \in 1 .. Len(ranges)
    <2>1. ranges \in Seq(PartRanges)
        BY DEF IsList
    <2>2. ranges # <<>> => Len(ranges) # 0
        BY <2>1
    <2> QED
        BY <1>1, <2>2
<1>4. ranges # <<>> => ranges[1].start % b \in Int
    BY <1>1, <1>3
<1>5. Headers(ranges) # {} => Min(Headers(ranges)) \in Nat
    BY <1>2, MinOf
<1>6. Headers(ranges) # {} => Min(Headers(ranges)) % b \in Int
    BY <1>5
<1> QED
    BY <1>4, <1>6 DEF Start_Offset

\* What is aligned holds no cluster in use, when the blocks begin at clusters.
LEMMA AlignedFree ==
    ASSUME IsList(ranges, PartRanges), AtClusters, NEW b \in Nat \ {0},
           blocksize > 0 => b = blocksize,
           NEW new, new = Update_Blocksize(ranges, b, Start_Offset(b))
    PROVE  used \cap SpaceOf(new) = {}
<1> SUFFICES ASSUME NEW x \in SpaceOf(new), x \in used PROVE FALSE
    OBVIOUS
<1>1. /\ blocksize = CLUSTER /\ used \in SUBSET (FIRST .. LAST) /\ used \cap Space = {}
      /\ ranges # <<>> => \E g \in Nat : OnClusters(ranges, g)
    BY DEF AtClusters
<1>2. FIRST \in Nat /\ LAST \in Nat /\ CLUSTER \in Nat \ {0}
    BY Sizes
<1>3. b = CLUSTER /\ blocksize > 0
    BY <1>1, <1>2
<1>4. PICK d : d = Start_Offset(b)
    OBVIOUS
<1>5. d \in Int /\ (ranges # <<>> => d = ranges[1].start % b)
    BY <1>3, <1>4, OffsetFound
<1>6. \A y \in SpaceOf(new) : \/ y \in SpaceOf(ranges)
                              \/ /\ ranges # <<>> /\ ranges[Len(ranges)].end < y
                                 /\ ranges[Len(ranges)].end + 1 \notin Line(d, b)
    BY <1>4, <1>5, Aligned, ZenonT(30)
<1>7. SpaceOf(ranges) = Space
    BY DEF SpaceOf, Space
<1>8. /\ ranges # <<>> /\ ranges[Len(ranges)].end < x
      /\ ranges[Len(ranges)].end + 1 \notin Line(d, b)
    BY <1>1, <1>6, <1>7
<1>9. PICK g \in Nat : OnClusters(ranges, g)
    BY <1>1, <1>8
<1>10. ranges[1].start \in Grid(g, CLUSTER) /\ ranges[Len(ranges)].end + 1 \in Grid(g, CLUSTER)
    <2>1. x \in FIRST .. LAST
        BY <1>1
    <2>2. ranges[Len(ranges)].end # LAST
        BY <1>2, <1>8, <2>1
    <2> QED
        BY <1>9, <2>2 DEF OnClusters
<1>11. ranges[Len(ranges)].end + 1 \in Line(ranges[1].start % b, b)
    BY <1>2, <1>3, <1>10, OnLine
<1> QED
    BY <1>5, <1>8, <1>11

\* A list that is aligned, to blocks of b sectors from d, lies on the grid of its first sector.
LEMMA AlignedGrid ==
    ASSUME NEW d \in Int, NEW b \in BlockSizes, NEW new, IsList(new, AlignedRanges(d, b)),
           NEW U, U = SpaceOf(new)
    PROVE  /\ IsList(new, GridRanges(Min(U), b))
           /\ U \in SUBSET (FIRST .. LAST + MAX_BLOCKSIZE)
           /\ new # <<>> => U # {} /\ 1 <= Len(new)
           /\ new = <<>> => U = {}
<1>1. AlignedRanges(d, b) \in SUBSET RangeType
    BY DEF AlignedRanges
<1>2. FIRST \in Nat /\ LAST \in Nat /\ MAX_BLOCKSIZE \in Nat /\ b \in Nat \ {0} /\ b <= MAX_BLOCKSIZE
    BY Sizes
<1>3. PICK n \in Nat : n = Len(new)
    BY <1>1, ListFacts
<1>4. /\ new \in Seq(AlignedRanges(d, b)) /\ DOMAIN new = 1 .. n
      /\ \A i \in 1 .. n : /\ new[i] \in AlignedRanges(d, b)
                           /\ new[i].start \in Nat /\ new[i].end \in Nat /\ new[i].start <= new[i].end
      /\ \A i, j \in 1 .. n : i < j => new[i].end < new[j].start
    BY <1>1, <1>3, ListFacts
<1>5. \A r \in AlignedRanges(d, b) : /\ r \in RangeType /\ r.start \in Line(d, b) /\ r.end + 1 \in Line(d, b)
                                     /\ FIRST <= r.start /\ r.end <= LAST + b - 1
    BY DEF AlignedRanges
<1>6. \A x : x \in U <=> \E i \in 1 .. n : x \in SectorsOf(new[i])
    BY <1>3, <1>4, InSpace
<1>7. \A i \in 1 .. n : new[i].start \in U
    BY <1>4, <1>6 DEF SectorsOf
<1>8. U \in SUBSET (FIRST .. LAST + MAX_BLOCKSIZE)
    <2> SUFFICES ASSUME NEW x \in U PROVE x \in FIRST .. LAST + MAX_BLOCKSIZE
        OBVIOUS
    <2>1. PICK i \in 1 .. n : x \in SectorsOf(new[i])
        BY <1>6
    <2>2. PICK s \in Nat, e \in Nat : s = new[i].start /\ e = new[i].end /\ FIRST <= s /\ e <= LAST + b - 1
        BY <1>4, <1>5
    <2>3. x \in s .. e
        BY <2>1, <2>2 DEF SectorsOf
    <2> QED
        BY <1>2, <2>2, <2>3
<1>9. CASE new = <<>>
    <2>1. n = 0
        BY <1>3, <1>9
    <2>2. U = {}
        BY <1>6, <2>1
    <2>3. IsList(new, GridRanges(Min(U), b))
        BY <1>3, <1>9, <2>1 DEF IsList
    <2> QED
        BY <1>8, <1>9, <2>2, <2>3
<1>10. CASE new # <<>>
    <2>1. 1 \in 1 .. n
        <3>1. n # 0
            BY <1>3, <1>4, <1>10
        <3> QED
            BY <3>1
    <2>2. U # {} /\ U \in SUBSET Nat
        BY <1>2, <1>7, <1>8, <2>1
    <2>3. PICK m \in Nat : m = Min(U) /\ m \in U /\ \A x \in U : m <= x
        BY <2>2, MinOf
    <2>4. PICK i \in 1 .. n : m \in SectorsOf(new[i])
        BY <1>6, <2>3
    <2>5. m = new[i].start
        BY <1>4, <1>7, <2>3, <2>4 DEF SectorsOf
    <2>6. m \in Line(d, b)
        BY <1>4, <1>5, <2>5
    <2>7. \A g, h \in Line(d, b) : g \in Nat /\ g <= h => h \in Grid(g, b)
        BY <1>2, LineFacts
    <2>8. ASSUME NEW k \in 1 .. n PROVE new[k] \in GridRanges(Min(U), b)
        <3>1. PICK s \in Nat, e \in Nat : s = new[k].start /\ e = new[k].end /\ s <= e /\ m <= s
            BY <1>4, <1>7, <2>3
        <3>2. s \in Line(d, b) /\ e + 1 \in Line(d, b) /\ new[k] \in RangeType
            BY <1>4, <1>5, <3>1
        <3>3. m <= e + 1
            BY <3>1
        <3>4. s \in Grid(m, b) /\ e + 1 \in Grid(m, b)
            BY <2>6, <2>7, <3>1, <3>2, <3>3
        <3> QED
            BY <2>3, <3>1, <3>2, <3>4 DEF GridRanges
    <2>9. new \in Seq(GridRanges(Min(U), b))
        BY <1>3, <1>4, <2>8
    <2>10. IsList(new, GridRanges(Min(U), b))
        BY <1>3, <1>4, <2>9 DEF IsList
    <2> QED
        BY <1>3, <1>8, <1>10, <2>1, <2>2, <2>10
<1> QED
    BY <1>9, <1>10

LEMMA AlignStep ==
    ASSUME Inv, Align
    PROVE  Inv' /\ Walking' /\ recovered' = {} /\ Free' = universe'
<1>1. /\ pc = "align" /\ UNCHANGED <<file, skipped, recovered, outcome, back, used, on_blocks, seen>>
      /\ ranges' = Update_Blocksize(ranges, blocksize', Start_Offset(blocksize'))
      /\ current' = 1 /\ offset' = StartOf(ranges', 1)
      /\ pc' \in {"stopped", IF ranges' = <<>> THEN "quit" ELSE "header"}
    BY DEF Align, walk
<1>2. /\ IsList(ranges, PartRanges) /\ Types
      /\ file = NoFile /\ recovered = {} /\ skipped = 0 /\ universe = {}
      /\ on_blocks => AtClusters
    BY <1>1 DEF Inv, BeforeWalk, Starting
<1>3. PICK b \in BlockSizes : b = blocksize' /\ (blocksize > 0 => b = blocksize)
    <2>1. Find_Blocksize \in BlockSizes
        BY <1>2, SizeFound
    <2>2. blocksize \in BlockSizes \/ blocksize = 0
        BY <1>2 DEF Types
    <2>3. blocksize' = IF blocksize > 0 THEN blocksize ELSE Find_Blocksize
        BY DEF Align
    <2> QED
        BY <2>1, <2>2, <2>3
<1>4. PICK d \in Int : d = Start_Offset(b)
    BY <1>2, Sizes, OffsetFound
<1>5. PICK new : new = ranges' /\ new = Update_Blocksize(ranges, b, d)
    BY <1>1, <1>3, <1>4
<1>6. b \in Nat \ {0} /\ b <= MAX_BLOCKSIZE /\ FIRST \in Nat \ {0} /\ LAST \in Nat /\ MAX_BLOCKSIZE \in Nat
    BY Sizes
<1>7. PICK U : U = SpaceOf(new)
    OBVIOUS
<1>8. universe' = U
    BY <1>5, <1>7 DEF Align, SpaceOf
<1>9. IsList(new, AlignedRanges(d, b))
    BY <1>2, <1>5, <1>6, Aligned, ZenonT(30)
<1>10. /\ IsList(new, GridRanges(Min(U), b))
       /\ U \in SUBSET (FIRST .. LAST + MAX_BLOCKSIZE)
       /\ new # <<>> => U # {} /\ 1 <= Len(new)
       /\ new = <<>> => U = {}
    BY <1>7, <1>9, AlignedGrid, ZenonT(30)
<1>11. Origin' = Min(U) /\ blocksize' = b /\ Grids' = GridRanges(Min(U), b) /\ Blocks' = Grid(Min(U), b)
    BY <1>3, <1>8 DEF Origin, Grids, Blocks
<1>12. on_blocks => used \cap U = {}
    BY <1>2, <1>3, <1>4, <1>5, <1>6, <1>7, AlignedFree, ZenonT(30)
<1>13. U \in SUBSET (Nat \ {0}) /\ Len(new) \in Nat
    <2>1. U \in SUBSET (Nat \ {0})
        BY <1>6, <1>10
    <2>2. new \in Seq(GridRanges(Min(U), b))
        BY <1>10 DEF IsList
    <2> QED
        BY <2>1, <2>2
<1>14. file' = NoFile /\ recovered' = {} /\ skipped' = 0 /\ used' = used /\ on_blocks' = on_blocks
    BY <1>1, <1>2
<1>15. Fixed'
    BY <1>3, <1>8, <1>10, <1>12, <1>14 DEF Fixed
<1>16. Shared(U, {}, {})'
    BY <1>8 DEF Shared
<1>17. SoundAt(ranges, file, recovered)'
    <2>1. {} \in Whole(Min(U), b)
        BY DEF Whole
    <2> QED
        BY <1>5, <1>7, <1>10, <1>11, <1>14, <1>16, <2>1 DEF SoundAt, NoFile, Shared
<1>18. GoodPlace(new, 1, StartOf(new, 1), Min(U), b) /\ Ahead(new, 1, StartOf(new, 1), 0)
    <2>1. 1 \in 1 .. Len(new) + 1
        BY <1>13
    <2>2. \A k \in 1 .. 1 - 1 : new[k].end <= 0
        OBVIOUS
    <2> QED
        BY <1>10, <2>1, <2>2, StartPlace, StartAhead
<1>19. ASSUME new # <<>>
       PROVE  ToSee(new, 1, StartOf(new, 1), 0, Unseen')
    <2>1. Unseen' \subseteq U
        BY <1>8 DEF Unseen
    <2>2. \A s \in U : 0 < s
        BY <1>13
    <2> QED
        BY <1>7, <1>18, <2>1, <2>2 DEF ToSee, Ahead
<1>20. Free' = U
    BY <1>5, <1>7, <1>14 DEF Free, Space, SpaceOf, NoFile
<1>21. pc' \in {"stopped", "quit", "header"} /\ (pc' = "quit" => new = <<>>) /\ (pc' = "header" => new # <<>>)
    BY <1>1, <1>5
<1>22. Types'
    <2>1. offset' \in Nat
        BY <1>1, <1>5, <1>18 DEF GoodPlace
    <2>2. current' \in 1 .. Len(ranges') + 1
        BY <1>1, <1>5, <1>13
    <2> QED
        BY <1>1, <1>2, <1>3, <1>21, <2>1, <2>2 DEF Types
<1>23. DuringWalk'
    BY <1>15, <1>17 DEF DuringWalk
<1>24. OnTheWay'
    <2>1. CASE pc' = "header"
        <3>1. new # <<>> /\ U # {} /\ 1 <= Len(new)
            BY <1>10, <1>21, <2>1
        <3>2. PassedIn(skipped, Free)'
            BY <1>14 DEF PassedIn
        <3>3. GoodPlace(ranges, current, offset, Origin, blocksize)'
            BY <1>1, <1>5, <1>11, <1>18
        <3>4. ToSee(ranges, current, offset, skipped, Unseen)'
            BY <1>1, <1>5, <1>14, <1>19, <3>1
        <3> QED
            BY <1>1, <1>5, <1>8, <2>1, <3>1, <3>2, <3>3, <3>4 DEF OnTheWay
    <2>2. CASE pc' # "header"
        BY <1>21, <2>2 DEF OnTheWay, Live
    <2> QED
        BY <2>1, <2>2
<1>25. AllSeen'
    BY <1>8, <1>10, <1>21 DEF AllSeen, Unseen
<1>26. BeforeWalk'
    BY <1>21 DEF BeforeWalk, Starting
<1>27. Walking'
    BY <1>21 DEF Walking
<1> QED
    BY <1>8, <1>14, <1>20, <1>22, <1>23, <1>24, <1>25, <1>26, <1>27 DEF Inv

----------------------------------------------------------------------------
(* The theorems *)

LEMMA StutterStep ==
    ASSUME Inv, UNCHANGED vars
    PROVE  Inv' /\ Free' = Free /\ recovered' = recovered /\ Walking' = Walking
<1>1. UNCHANGED <<ranges, current, offset, blocksize, file, skipped, recovered, outcome, back, pc,
                  universe, used, on_blocks, seen>>
    BY DEF vars, walk, history
<1>2. /\ Origin' = Origin /\ Blocks' = Blocks /\ Grids' = Grids /\ Unseen' = Unseen
      /\ Space' = Space /\ Free' = Free /\ Walking' = Walking
    BY <1>1 DEF Origin, Blocks, Grids, Unseen, Space, Free, Walking
<1>3. Types'
    BY <1>1 DEF Inv, Types
<1>4. BeforeWalk'
    BY <1>1, <1>2 DEF Inv, BeforeWalk, Starting, AtClusters, OnClusters
<1>5. DuringWalk'
    BY <1>1, <1>2 DEF Inv, DuringWalk, Walking, Fixed, SoundAt, Shared
<1>6. OnTheWay'
    BY <1>1, <1>2 DEF Inv, OnTheWay, Live, PassedIn
<1>7. AllSeen'
    BY <1>1, <1>2 DEF Inv, AllSeen
<1> QED
    BY <1>1, <1>2, <1>3, <1>4, <1>5, <1>6, <1>7 DEF Inv

\* What a step does to the free sectors and the files.
CarvedOn ==
    \/ Starting /\ recovered' = recovered
    \/ Live /\ Walking' /\ Carved(Free', recovered')
    \/ Free' = Free /\ recovered' = recovered /\ Walking' = Walking

LEMMA NextStep ==
    ASSUME Inv, [Next]_vars
    PROVE  Inv' /\ CarvedOn
<1> USE DEF CarvedOn
<1>1. CASE Remove_Used_Space
    <2>1. Starting /\ recovered' = recovered
        BY <1>1 DEF Remove_Used_Space, walk, Starting
    <2> QED
        BY <1>1, <2>1, UsedStep
<1>2. CASE Photorec_Find_Blocksize
    <2>1. Starting /\ recovered' = recovered
        BY <1>2 DEF Photorec_Find_Blocksize, walk, Starting
    <2> QED
        BY <1>2, <2>1, FindStep
<1>3. CASE Align
    <2>1. Starting /\ recovered' = recovered
        BY <1>3 DEF Align, walk, Starting
    <2> QED
        BY <1>3, <2>1, AlignStep
<1>4. CASE Photorec_Aux
    <2>1. Live /\ pc' \notin {"used", "find", "align"}
        BY <1>4 DEF Photorec_Aux, Photorec_Check_Header, Photorec_Header_Found, Photorec_Data, Take_Block,
                    Move, Turn, Abort, Live
    <2>2. Inv' /\ Carved(Free', recovered')
        BY <1>4, HeaderStep, DataStep, MoveStep, TurnStep, AbortStep DEF Photorec_Aux
    <2>3. Walking'
        BY <2>1, <2>2 DEF Inv, Types, Walking
    <2> QED
        BY <2>1, <2>2, <2>3
<1>5. CASE UNCHANGED vars
    BY <1>5, StutterStep
<1> QED
    BY <1>1, <1>2, <1>3, <1>4, <1>5 DEF Next

\* In every reachable state the invariant holds (photorec_inject.c:14-335).
THEOREM Correct == Spec => []Inv
<1>1. Inv /\ [Next]_vars => Inv'
    BY NextStep
<1> QED
    BY <1>1, Started, PTL DEF Spec

\* The places, counters and answers of the search keep their types, on any partition
\* (filegen.h, photorec.h).
THEOREM TypeCorrect == Spec => []TypeOK
<1>1. ASSUME Inv PROVE TypeOK
    <2>1. Types
        BY <1>1 DEF Inv
    <2>2. PICK R \in SUBSET RangeType : IsList(ranges, R)
        <3>1. CASE Starting
            BY <1>1, <3>1, Sizes DEF Inv, BeforeWalk
        <3>2. CASE ~Starting
            <4>1. Walking
                BY <2>1, <3>2 DEF Types, Starting, Walking
            <4>2. IsList(ranges, Grids)
                BY <1>1, <4>1 DEF Inv, DuringWalk, SoundAt
            <4>3. Grids \in SUBSET RangeType
                BY DEF Grids, GridRanges
            <4> QED
                BY <4>2, <4>3
        <3> QED
            BY <3>1, <3>2
    <2>3. \A i \in DOMAIN ranges : /\ ranges[i].start \in Nat /\ ranges[i].end \in Nat
                                   /\ ranges[i].file_stat \in BOOLEAN
        BY <2>2, ListFacts
    <2> QED
        BY <2>1, <2>3 DEF Types, TypeOK, FileType, Statuses
<1> QED
    BY <1>1, Correct, PTL

\* Whatever is taken out, cut, joined and given back, the list stays in ascending order, and a
\* list of whole blocks once the walk has begun (photorec.c:495-541, filegen.c).
THEOREM InOrderAlways == Spec => []RangesInOrder
<1>1. ASSUME Inv PROVE RangesInOrder
    <2>1. CASE Starting
        <3>1. IsList(ranges, PartRanges)
            BY <1>1, <2>1 DEF Inv, BeforeWalk
        <3>2. /\ Len(ranges) \in Nat /\ DOMAIN ranges = 1 .. Len(ranges)
              /\ \A i \in 1 .. Len(ranges) : ranges[i].start <= ranges[i].end
              /\ \A i, j \in 1 .. Len(ranges) : i < j => ranges[i].end < ranges[j].start
            BY <3>1, Sizes, ListFacts
        <3>3. \A i \in 1 .. Len(ranges) : i > 1 => i - 1 \in 1 .. Len(ranges) /\ i - 1 < i
            BY <3>2
        <3> QED
            BY <2>1, <3>2, <3>3 DEF RangesInOrder, Starting, Walking
    <2>2. CASE ~Starting
        <3>1. Walking
            BY <1>1, <2>2 DEF Inv, Types, Starting, Walking
        <3>2. Fixed /\ IsList(ranges, Grids) /\ Shared(SpaceOf(ranges), file.location, recovered)
            BY <1>1, <3>1 DEF Inv, DuringWalk, SoundAt
        <3>3. Grids \in SUBSET RangeType
            BY DEF Grids, GridRanges
        <3>4. /\ Len(ranges) \in Nat /\ DOMAIN ranges = 1 .. Len(ranges)
              /\ \A i \in 1 .. Len(ranges) : /\ ranges[i] \in Grids /\ ranges[i].start \in Nat
                                             /\ ranges[i].end \in Nat /\ ranges[i].start <= ranges[i].end
              /\ \A i, j \in 1 .. Len(ranges) : i < j => ranges[i].end < ranges[j].start
            BY <3>2, <3>3, ListFacts
        <3>5. \A i \in 1 .. Len(ranges) : i > 1 => i - 1 \in 1 .. Len(ranges) /\ i - 1 < i
            BY <3>4
        <3>6. ASSUME NEW i \in 1 .. Len(ranges)
              PROVE  /\ (ranges[i].start - Min(universe)) % blocksize = 0
                     /\ (ranges[i].end + 1 - ranges[i].start) % blocksize = 0
            <4>1. ranges[i].start \in SpaceOf(ranges)
                <5>1. ranges[i].start \in SectorsOf(ranges[i])
                    BY <3>4 DEF SectorsOf
                <5> QED
                    BY <3>4, <5>1, InSpace
            <4>2. universe # {}
                BY <3>2, <4>1 DEF Shared
            <4>3. Origin \in Nat /\ blocksize \in Nat \ {0}
                BY <3>2, <4>2, FixedFacts
            <4>4. PICK s \in Nat, e \in Nat : s = ranges[i].start /\ e = ranges[i].end /\ s <= e
                BY <3>4
            <4>5. s \in Grid(Origin, blocksize) /\ e + 1 \in Grid(Origin, blocksize)
                BY <3>4, <4>4 DEF Grids, GridRanges
            <4>6. /\ Origin \in Grid(Origin, blocksize)
                  /\ \A g \in Grid(Origin, blocksize) : Origin <= g
                  /\ \A g, h \in Grid(Origin, blocksize) : g <= h => (h - g) % blocksize = 0
                BY <4>3, GridFacts
            <4>7. Origin <= s /\ s <= e + 1
                BY <4>4, <4>5, <4>6
            <4>8. (s - Origin) % blocksize = 0 /\ ((e + 1) - s) % blocksize = 0
                BY <4>5, <4>6, <4>7
            <4> QED
                BY <4>4, <4>8 DEF Origin
        <3> QED
            BY <3>4, <3>5, <3>6 DEF RangesInOrder
    <2> QED
        BY <2>1, <2>2
<1> QED
    BY <1>1, Correct, PTL

\* No sector is lost and none is in two files: each is free, in the open file, or in one file
\* that was kept (photorec.c:949-1188).
THEOREM OnceAlways == Spec => []EverySectorOnce
<1>1. ASSUME Inv PROVE EverySectorOnce
    <2> SUFFICES ASSUME Walking PROVE Shared(Space, file.location, recovered)
        BY DEF EverySectorOnce, Shared
    <2>1. Shared(SpaceOf(ranges), file.location, recovered)
        BY <1>1 DEF Inv, DuringWalk, SoundAt
    <2>2. SpaceOf(ranges) = Space
        BY DEF SpaceOf, Space
    <2> QED
        BY <2>1, <2>2
<1> QED
    BY <1>1, Correct, PTL

\* A block that is taken is always found in the list: the exit(1) that would end the server is
\* not reached (photorec.c:1029-1031).
THEOREM FoundAlways == Spec => []NeverGivesUp
<1>1. Inv => NeverGivesUp
    BY DEF Inv, Types, NeverGivesUp
<1> QED
    BY <1>1, Correct, PTL

\* When the blocks begin at clusters, no file that is kept has a sector of a cluster that was
\* found in use (common.c:726-737, photorec.c:495, 505).
THEOREM AloneAlways == Spec => []InUseIsLeftAlone
<1>1. ASSUME Inv PROVE InUseIsLeftAlone
    <2>1. CASE Starting
        BY <1>1, <2>1 DEF Inv, BeforeWalk, InUseIsLeftAlone
    <2>2. CASE ~Starting
        <3>1. Walking
            BY <1>1, <2>2 DEF Inv, Types, Starting, Walking
        <3>2. Fixed /\ Shared(SpaceOf(ranges), file.location, recovered)
            BY <1>1, <3>1 DEF Inv, DuringWalk, SoundAt
        <3>3. UNION recovered \subseteq universe /\ (on_blocks => used \cap universe = {})
            BY <3>2 DEF Fixed, Shared
        <3> QED
            BY <3>3 DEF InUseIsLeftAlone
    <2> QED
        BY <2>1, <2>2
<1> QED
    BY <1>1, Correct, PTL

\* However often the search goes back, when it ends by itself it has looked for a header at
\* every block (photorec_inject.c:56-238).
THEOREM SeenAlways == Spec => []NothingUnseen
<1>1. ASSUME Inv PROVE NothingUnseen
    <2> SUFFICES ASSUME pc = "quit", NEW s \in universe, (s - Min(universe)) % blocksize = 0
                 PROVE  s \in seen
        BY DEF NothingUnseen
    <2>1. Fixed /\ Unseen = {} /\ universe # {}
        BY <1>1 DEF Inv, DuringWalk, AllSeen, Walking
    <2>2. Origin \in Nat /\ blocksize \in Nat \ {0} /\ Origin <= s /\ universe \subseteq 0 .. LAST + MAX_BLOCKSIZE
        BY <2>1, FixedFacts
    <2>3. s \in Nat
        BY <2>2
    <2>4. s \in Blocks
        BY <2>2, <2>3, GridFacts DEF Blocks, Origin
    <2> QED
        BY <2>1, <2>4 DEF Unseen
<1> QED
    BY <1>1, Correct, PTL

\* The search only ever carves: once it has begun, a sector leaves what is free only with a file
\* that is kept, and what was kept stays as it is (photorec.c:560-722).
THEOREM Carves == Spec => ImplementsCarving
<1>1. ASSUME Inv PROVE Free \in SUBSET (FIRST .. LAST + MAX_BLOCKSIZE)
    <2>1. SpaceOf(ranges) = Space
        BY DEF SpaceOf, Space
    <2>2. CASE Starting
        <3>1. IsList(ranges, PartRanges) /\ file.location = {}
            BY <1>1, <2>2 DEF Inv, BeforeWalk, NoFile
        <3>2. \A i \in 1 .. Len(ranges) : /\ ranges[i].start \in Nat /\ ranges[i].end \in Nat
                                          /\ ranges[i] \in PartRanges
            BY <3>1, Sizes, ListFacts
        <3>3. \A i \in 1 .. Len(ranges) : FIRST <= ranges[i].start /\ ranges[i].end <= LAST
            BY <3>2 DEF PartRanges
        <3>4. ASSUME NEW x \in SpaceOf(ranges) PROVE x \in FIRST .. LAST + MAX_BLOCKSIZE
            <4>1. DOMAIN ranges = 1 .. Len(ranges)
                BY <3>1, Sizes, ListFacts
            <4>2. PICK i \in 1 .. Len(ranges) : x \in SectorsOf(ranges[i])
                BY <4>1, InSpace
            <4>3. PICK s \in Nat, e \in Nat : s = ranges[i].start /\ e = ranges[i].end /\ FIRST <= s /\ e <= LAST
                BY <3>2, <3>3
            <4>4. x \in s .. e
                BY <4>2, <4>3 DEF SectorsOf
            <4> QED
                BY <4>3, <4>4, Sizes
        <3> QED
            BY <2>1, <3>1, <3>4 DEF Free
    <2>3. CASE ~Starting
        <3>1. Walking
            BY <1>1, <2>3 DEF Inv, Types, Starting, Walking
        <3>2. Fixed /\ Shared(Space, file.location, recovered)
            BY <1>1, <2>1, <3>1 DEF Inv, DuringWalk, SoundAt
        <3> QED
            BY <3>2 DEF Fixed, Shared, Free
    <2> QED
        BY <2>2, <2>3
<1>2. Init => Abstract!Init
    <2> SUFFICES ASSUME Init PROVE Abstract!Init
        OBVIOUS
    <2>1. Free \in SUBSET (FIRST .. LAST + MAX_BLOCKSIZE)
        BY <1>1, Started
    <2>2. Walking = FALSE /\ recovered = {}
        BY DEF Init, Walking
    <2> QED
        BY <2>1, <2>2 DEF Abstract!Init, Free
<1>3. ASSUME Inv, [Next]_vars
      PROVE  [Abstract!Prepare \/ Abstract!Keep]_(Abstract!vars)
    <2>1. Inv' /\ CarvedOn
        BY <1>3, NextStep
    <2>2. Inv' => (Free \in SUBSET (FIRST .. LAST + MAX_BLOCKSIZE))'
        BY <1>1, PTL
    <2>3. CASE Starting /\ recovered' = recovered
        <3>1. Walking = FALSE /\ Walking' \in BOOLEAN
            BY <2>3 DEF Starting, Walking
        <3>2. Abstract!Prepare
            BY <2>1, <2>2, <2>3, <3>1 DEF Abstract!Prepare, Free
        <3> QED
            BY <3>2
    <2>4. CASE Live /\ Walking' /\ Carved(Free', recovered')
        <3>1. Walking = TRUE /\ Walking' = TRUE
            BY <2>4 DEF Live, Walking
        <3>2. PICK kept \in SUBSET Free : recovered' = With(recovered, kept) /\ Free' = Free \ kept
            BY <2>4 DEF Carved
        <3>3. CASE kept = {}
            BY <3>1, <3>2, <3>3 DEF With, Abstract!vars, Free
        <3>4. CASE kept # {}
            <4>1. Abstract!Keep
                BY <3>1, <3>2, <3>4 DEF With, Abstract!Keep, Free
            <4> QED
                BY <4>1
        <3> QED
            BY <3>3, <3>4
    <2>5. CASE Free' = Free /\ recovered' = recovered /\ Walking' = Walking
        BY <2>5 DEF Abstract!vars, Free
    <2> QED
        BY <2>1, <2>3, <2>4, <2>5 DEF CarvedOn
<1> QED
    BY <1>2, <1>3, Correct, PTL DEF Spec, ImplementsCarving, Abstract!Spec
=============================================================================

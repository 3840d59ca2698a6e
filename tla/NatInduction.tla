---------------------------- MODULE NatInduction ----------------------------
(***************************************************************************)
(* Induction over the natural numbers, stated for a set rather than for a  *)
(* predicate, and what follows of it for the one recursive function that   *)
(* the modules share a need for: the sums of the first numbers of a list.  *)
(***************************************************************************)
EXTENDS Integers, WellFoundedInduction, TLAPS

\* A set with 0, and with n + 1 whenever it has n, has every natural number: there is no least
\* one outside it.
LEMMA NatSet ==
    ASSUME NEW S, 0 \in S, \A n \in Nat : n \in S => n + 1 \in S
    PROVE  Nat \subseteq S
<1> DEFINE T == Nat \ S
           R == {ss \in Nat \X Nat : ss[1] < ss[2]}
<1>1. SUFFICES ASSUME T # {} PROVE FALSE
    OBVIOUS
<1>2. IsWellFoundedOn(R, Nat)
    BY NatLessThanWellFounded DEF OpToRel
<1>3. PICK m \in T : \A n \in T : ~ (<<n, m>> \in R)
    <2> HIDE DEF T, R
    <2>1. T \subseteq Nat
        BY DEF T
    <2> QED
        BY <1>1, <1>2, <2>1, WFMin
<1>4. \A n \in T : ~(n < m)
    BY <1>3
<1>5. m # 0 /\ m \in Nat
    OBVIOUS
<1>6. m - 1 \in Nat /\ m - 1 \in S
    BY <1>4, <1>5
<1> QED
    BY <1>5, <1>6

\* A table of sums of the first d numbers exists for each length of the table.
LEMMA SumsExist ==
    ASSUME NEW N \in Nat, NEW a \in [0 .. N - 1 -> Nat]
    PROVE  \E f \in [0 .. N -> Nat] : f[0] = 0 /\ \A d \in 1 .. N : f[d] = f[d - 1] + a[d - 1]
<1> DEFINE Sums(k) == {f \in [0 .. k -> Nat] :
                          f[0] = 0 /\ \A d \in 1 .. k : f[d] = f[d - 1] + a[d - 1]}
           S == {k \in Nat : k <= N => Sums(k) # {}}
<1>1. 0 \in S
    <2>1. [d \in 0 .. 0 |-> 0] \in Sums(0)
        OBVIOUS
    <2> QED
        BY <2>1
<1>2. ASSUME NEW k \in Nat, k \in S PROVE k + 1 \in S
    <2> SUFFICES ASSUME k + 1 <= N PROVE Sums(k + 1) # {}
        <3> HIDE DEF Sums
        <3> QED
            OBVIOUS
    <2>1. PICK f \in [0 .. k -> Nat] : f[0] = 0 /\ \A d \in 1 .. k : f[d] = f[d - 1] + a[d - 1]
        <3>1. Sums(k) # {}
            <4> HIDE DEF Sums
            <4> QED
                BY <1>2
        <3> QED
            BY <3>1
    <2> DEFINE g == [d \in 0 .. k + 1 |-> IF d <= k THEN f[d] ELSE f[k] + a[k]]
    <2>2. a[k] \in Nat /\ f[k] \in Nat
        BY <2>1
    <2>3. g \in [0 .. k + 1 -> Nat]
        BY <2>1, <2>2
    <2>4. g[0] = 0
        BY <2>1
    <2>5. ASSUME NEW d \in 1 .. k + 1 PROVE g[d] = g[d - 1] + a[d - 1]
        <3>1. CASE d <= k
            BY <2>1, <3>1
        <3>2. CASE d = k + 1
            BY <2>1, <3>2
        <3> QED
            BY <3>1, <3>2
    <2>6. g \in Sums(k + 1)
        <3> HIDE DEF g
        <3> QED
            BY <2>3, <2>4, <2>5
    <2> QED
        BY <2>6
<1>3. Nat \subseteq S
    <2> HIDE DEF S
    <2> QED
        BY <1>1, <1>2, NatSet
<1>4. Sums(N) # {}
    <2> HIDE DEF Sums
    <2> QED
        BY <1>3
<1> QED
    BY <1>4

\* Its entries are natural numbers.
LEMMA SumsTyped ==
    ASSUME NEW N \in Nat, NEW a \in [0 .. N - 1 -> Nat], NEW F,
           F[0] = 0, \A d \in 1 .. N : F[d] = F[d - 1] + a[d - 1]
    PROVE  \A k \in 0 .. N : F[k] \in Nat
<1> DEFINE S == {k \in Nat : k <= N => F[k] \in Nat}
<1>1. 0 \in S
    OBVIOUS
<1>2. ASSUME NEW k \in Nat, k \in S PROVE k + 1 \in S
    <2> SUFFICES ASSUME k + 1 <= N PROVE F[k + 1] \in Nat
        OBVIOUS
    <2>1. F[k] \in Nat /\ a[k] \in Nat
        BY <1>2
    <2>2. k + 1 \in 1 .. N /\ (k + 1) - 1 = k
        OBVIOUS
    <2>3. F[k + 1] = F[k] + a[k]
        BY <2>2
    <2> QED
        BY <2>1, <2>3
<1>3. Nat \subseteq S
    <2> HIDE DEF S
    <2> QED
        BY <1>1, <1>2, NatSet
<1> QED
    BY <1>3

\* The right-hand side of F[d \in 0 .. N] == IF d = 0 THEN 0 ELSE F[d - 1] + a[d - 1].
SumsOf(N, a, F) == [d \in 0 .. N |-> IF d = 0 THEN 0 ELSE F[d - 1] + a[d - 1]]

\* Such a table is what this equation defines.
LEMMA SumsDefined ==
    ASSUME NEW N \in Nat, NEW a \in [0 .. N - 1 -> Nat], NEW F,
           F = SumsOf(N, a, F)
    PROVE  F \in [0 .. N -> Nat] /\ F[0] = 0 /\ \A d \in 1 .. N : F[d] = F[d - 1] + a[d - 1]
<1>1. F[0] = 0 /\ \A d \in 1 .. N : F[d] = F[d - 1] + a[d - 1]
    BY DEF SumsOf
<1>2. \A k \in 0 .. N : F[k] \in Nat
    BY <1>1, SumsTyped
<1> QED
    BY <1>1, <1>2 DEF SumsOf

\* So a recursive function that is defined by it has the sums.
LEMMA RunningSum ==
    ASSUME NEW N \in Nat, NEW a \in [0 .. N - 1 -> Nat], NEW F,
           F = CHOOSE f : f = SumsOf(N, a, f)
    PROVE  F \in [0 .. N -> Nat] /\ F[0] = 0 /\ \A d \in 1 .. N : F[d] = F[d - 1] + a[d - 1]
<1>1. PICK f \in [0 .. N -> Nat] : f[0] = 0 /\ \A d \in 1 .. N : f[d] = f[d - 1] + a[d - 1]
    BY SumsExist
<1>2. f = SumsOf(N, a, f)
    BY <1>1 DEF SumsOf
<1>3. F = SumsOf(N, a, F)
    BY <1>2
<1> QED
    BY ZenonT(60), <1>3, SumsDefined
=============================================================================

----------------------------- MODULE DataLemmas -----------------------------
(***************************************************************************)
(* Facts about numbers, sequences and recursive functions that the proofs  *)
(* about GameWorld and JoinGame share.  What a recursive function does is  *)
(* derived from the least number for which it would not.                   *)
(***************************************************************************)
EXTENDS Integers, Sequences, FiniteSets, SequencesExt, Ordering,
        FiniteSetTheorems, WellFoundedInduction, TLAPS

LEMMA LeastExists ==
    ASSUME NEW S \in SUBSET Nat, S # {}
    PROVE  \E least \in S : \A j \in S : least <= j
<1>1. PICK least \in S : \A j \in S : ~ (<<j, least>> \in OpToRel(<, Nat))
    BY NatLessThanWellFounded, WFMin
<1>2. \A j \in S : ~ (j < least)
    BY <1>1 DEF OpToRel
<1> QED
    BY <1>2

\* The states that H makes of s, one after the other.
IsRunOf(g, G, s, n, H) ==
    /\ g \in [0..n -> G]
    /\ g[0] = s
    /\ \A k \in 1..n : g[k] = H[<<g[k - 1], k>>]

\* They are there.
LEMMA RunExists ==
    ASSUME NEW G, NEW s \in G, NEW n \in Nat, NEW H, H \in [G \X (1..n) -> G]
    PROVE  \E g : IsRunOf(g, G, s, n, H)
<1> DEFINE IsRun(g, m) == /\ g \in [0..m -> G]
                          /\ g[0] = s
                          /\ \A k \in 1..m : g[k] = H[<<g[k - 1], k>>]
           bad == {m \in 0..n : ~ \E g : IsRun(g, m)}
<1>1. IsRun([k \in 0..0 |-> s], 0)
    OBVIOUS
<1>2. ASSUME NEW m \in 1..n, NEW g, IsRun(g, m - 1)
      PROVE  \E h : IsRun(h, m)
    <2> DEFINE h == [k \in 0..m |-> IF k = m THEN H[<<g[m - 1], m>>] ELSE g[k]]
    <2>1. m - 1 \in 0..(m - 1) /\ m \in Nat
        OBVIOUS
    <2>2. g[m - 1] \in G
        BY <1>2, <2>1
    <2>3. H[<<g[m - 1], m>>] \in G
        BY <2>2
    <2>4. \A k \in 0..m : k # m => k \in 0..(m - 1)
        BY <2>1
    <2>5. h \in [0..m -> G]
        BY <2>3, <2>4, <1>2
    <2>6. h[0] = s
        BY <1>2, <2>1
    <2>7. ASSUME NEW k \in 1..m
          PROVE  h[k] = H[<<h[k - 1], k>>]
        <3>1. k - 1 \in 0..m /\ k - 1 # m /\ k \in 0..m
            BY <2>1
        <3>2. h[k - 1] = g[k - 1]
            BY <3>1
        <3>3. CASE k = m
            BY <3>1, <3>2, <3>3
        <3>4. CASE k # m
            <4>1. k \in 1..(m - 1) /\ h[k] = g[k]
                BY <3>1, <3>4, <2>1
            <4> QED
                BY <4>1, <3>2, <1>2
        <3> QED
            BY <3>3, <3>4
    <2> HIDE DEF h
    <2> QED
        BY <2>5, <2>6, <2>7
<1> HIDE DEF IsRun
<1>3. bad = {}
    <2> SUFFICES ASSUME bad # {} PROVE FALSE
        OBVIOUS
    <2>1. bad \in SUBSET Nat
        OBVIOUS
    <2> HIDE DEF bad
    <2>2. PICK least \in bad : \A j \in bad : least <= j
        BY <2>1, LeastExists
    <2> USE DEF bad
    <2>3. CASE least = 0
        BY <2>2, <2>3, <1>1
    <2>4. CASE least # 0
        <3>1. least \in 1..n /\ least - 1 \in 0..n /\ ~ (least <= least - 1)
            BY <2>2, <2>4
        <3>2. PICK g : IsRun(g, least - 1)
            BY <3>1, <2>2
        <3> QED
            BY <3>1, <3>2, <1>2, <2>2
    <2> QED
        BY <2>3, <2>4
<1>4. PICK g : IsRun(g, n)
    BY <1>3
<1> QED
    BY <1>4 DEF IsRun, IsRunOf

-----------------------------------------------------------------------------
(* Sequences *)

LEMMA SeqGrows == ASSUME NEW S, NEW T, S \subseteq T, NEW q \in Seq(S) PROVE q \in Seq(T)
<1>1. q \in [1..Len(q) -> T] /\ Len(q) \in Nat
    OBVIOUS
<1> QED
    BY <1>1

LEMMA Concatenation ==
    ASSUME NEW W, NEW r \in Seq(W), NEW n \in Nat, NEW t \in [1..n -> W]
    PROVE  /\ r \o t \in Seq(W)
           /\ Len(r) \in Nat /\ Len(r \o t) = Len(r) + n
           /\ \A k \in 1..Len(r) : (r \o t)[k] = r[k]
           /\ \A k \in 1..(Len(r) + n) : k > Len(r) => (r \o t)[k] = t[k - Len(r)]
<1>1. t \in Seq(W) /\ Len(t) = n
    OBVIOUS
<1> QED
    BY <1>1

LEMMA Associative ==
    ASSUME NEW W, NEW q \in Seq(W), NEW r \in Seq(W), NEW s \in Seq(W)
    PROVE  (q \o r) \o s = q \o (r \o s)
OBVIOUS

\* None of the elements of n parts is left out.
HasParts(flat, n, parts) ==
    \A k \in 1..n : \A j \in 1..Len(parts[k]) : \E l \in 1..Len(flat) : flat[l] = parts[k][j]

\* Each element of a flattened sequence comes from one of its parts, and none
\* is left out.
LEMMA FlattenKeeps ==
    ASSUME NEW W, NEW n \in Nat, NEW parts \in [1..n -> Seq(W)]
    PROVE  FlattenSeq(parts) \in Seq(W) /\ HasParts(FlattenSeq(parts), n, parts)
<1> DEFINE H == [p \in Seq(W) \X (1..n) |-> IF p[2] = 1 THEN parts[1] ELSE p[1] \o parts[p[2]]]
           IsFlat(f) == f = [i \in 1..Len(parts) |-> IF i = 1 THEN parts[i] ELSE f[i - 1] \o parts[i]]
           flat == CHOOSE f : IsFlat(f)
           Holds(s, k) == \A j \in 1..Len(parts[k]) : \E l \in 1..Len(s) : s[l] = parts[k][j]
<1>1. Len(parts) = n
    OBVIOUS
<1>2. CASE n = 0
    <2>1. FlattenSeq(parts) = parts
        BY <1>1, <1>2 DEF FlattenSeq
    <2>2. parts = <<>>
        BY <1>2
    <2> QED
        BY <1>2, <2>1, <2>2 DEF HasParts
<1>3. CASE n # 0
    <2>1. FlattenSeq(parts) = flat[n]
        BY <1>1, <1>3 DEF FlattenSeq
    <2>2. \A k \in 1..n : parts[k] \in Seq(W)
        OBVIOUS
    <2>3. H \in [Seq(W) \X (1..n) -> Seq(W)]
        <3>1. \A p \in Seq(W) \X (1..n) : p[1] \in Seq(W) /\ p[2] \in 1..n
            OBVIOUS
        <3>2. \A q \in Seq(W), r \in Seq(W) : q \o r \in Seq(W)
            OBVIOUS
        <3>3. \A p \in Seq(W) \X (1..n) :
                (IF p[2] = 1 THEN parts[1] ELSE p[1] \o parts[p[2]]) \in Seq(W)
            <4> SUFFICES ASSUME NEW p \in Seq(W) \X (1..n)
                         PROVE  (IF p[2] = 1 THEN parts[1] ELSE p[1] \o parts[p[2]]) \in Seq(W)
                OBVIOUS
            <4>1. CASE p[2] = 1
                BY <2>2, <3>1, <4>1
            <4>2. CASE p[2] # 1
                BY <2>2, <3>1, <3>2, <4>2
            <4> QED
                BY <4>1, <4>2
        <3> QED
            BY <3>3
    <2>4. <<>> \in Seq(W)
        OBVIOUS
    <2>5. PICK g : IsRunOf(g, Seq(W), <<>>, n, H)
        <3> HIDE DEF H
        <3> QED
            BY <2>3, <2>4, RunExists
    <2>6. \A k \in 1..n : g[k] = IF k = 1 THEN parts[k] ELSE g[k - 1] \o parts[k]
        <3> SUFFICES ASSUME NEW k \in 1..n
                     PROVE  g[k] = IF k = 1 THEN parts[k] ELSE g[k - 1] \o parts[k]
            OBVIOUS
        <3>1. k - 1 \in 0..n
            OBVIOUS
        <3>2. g[k - 1] \in Seq(W) /\ g[k] = H[<<g[k - 1], k>>]
            BY <2>5, <3>1 DEF IsRunOf
        <3> QED
            BY <3>2
    <2> DEFINE h == [k \in 1..n |-> g[k]]
    <2>7. IsFlat(h)
        <3>1. \A k \in 1..n : k # 1 => k - 1 \in 1..n
            OBVIOUS
        <3> QED
            BY <1>1, <2>6, <3>1
    <2>8. IsFlat(flat)
        <3> HIDE DEF IsFlat
        <3> QED
            BY <2>7
    <2> HIDE DEF flat, h, H
    <2>9. \A k \in 1..n : flat[k] = IF k = 1 THEN parts[k] ELSE flat[k - 1] \o parts[k]
        BY <1>1, <2>8
    <2> HIDE DEF IsFlat
    <2> DEFINE Good(m) == flat[m] \in Seq(W) /\ \A k \in 1..m : Holds(flat[m], k)
               bad == {m \in 1..n : ~ Good(m)}
    <2>10. Good(1)
        <3>1. 1 \in 1..n
            BY <1>3
        <3>2. flat[1] = parts[1]
            BY <2>9, <3>1
        <3> QED
            BY <2>2, <3>1, <3>2
    <2>11. ASSUME NEW m \in 1..n, m # 1, Good(m - 1)
           PROVE  Good(m)
        <3>1. flat[m] = flat[m - 1] \o parts[m]
            BY <2>9, <2>11
        <3>2. flat[m - 1] \in Seq(W) /\ parts[m] \in Seq(W) /\ flat[m] \in Seq(W)
            BY <2>2, <2>11, <3>1
        <3>3. /\ Len(flat[m - 1]) \in Nat /\ Len(parts[m]) \in Nat
              /\ Len(flat[m]) = Len(flat[m - 1]) + Len(parts[m])
            BY <3>1, <3>2
        <3>4. ASSUME NEW k \in 1..m, NEW j \in 1..Len(parts[k])
              PROVE  \E l \in 1..Len(flat[m]) : flat[m][l] = parts[k][j]
            <4>1. CASE k = m
                <5>1. Len(flat[m - 1]) + j \in 1..Len(flat[m])
                    BY <3>3, <4>1
                <5>2. flat[m][Len(flat[m - 1]) + j] = parts[m][j]
                    BY <3>1, <3>2, <4>1
                <5> QED
                    BY <4>1, <5>1, <5>2
            <4>2. CASE k # m
                <5>1. k \in 1..(m - 1)
                    BY <4>2
                <5>2. PICK l \in 1..Len(flat[m - 1]) : flat[m - 1][l] = parts[k][j]
                    BY <2>11, <5>1
                <5>3. l \in 1..Len(flat[m]) /\ flat[m][l] = flat[m - 1][l]
                    BY <3>1, <3>2, <3>3
                <5> QED
                    BY <5>2, <5>3
            <4> QED
                BY <4>1, <4>2
        <3> QED
            BY <3>2, <3>4
    <2> HIDE DEF Good
    <2>12. bad = {}
        <3> SUFFICES ASSUME bad # {} PROVE FALSE
            OBVIOUS
        <3>1. bad \in SUBSET Nat
            OBVIOUS
        <3> HIDE DEF bad
        <3>2. PICK least \in bad : \A j \in bad : least <= j
            BY <3>1, LeastExists
        <3> USE DEF bad
        <3>3. CASE least = 1
            BY <2>10, <3>2, <3>3
        <3>4. CASE least # 1
            <4>1. least \in 1..n /\ least - 1 \in 1..n /\ ~ (least <= least - 1)
                BY <3>2, <3>4
            <4>2. Good(least - 1)
                BY <4>1, <3>2
            <4> QED
                BY <4>1, <4>2, <2>11, <3>2, <3>4
        <3> QED
            BY <3>3, <3>4
    <2>13. Good(n)
        BY <1>3, <2>12
    <2> QED
        BY <2>1, <2>13 DEF Good, HasParts
<1> QED
    BY <1>2, <1>3

-----------------------------------------------------------------------------
(* The elements of a set in order *)

Rising(s, n) == \A j, k \in 1..n : j < k => s[j] < s[k]

\* A finite set of numbers can be put in order: its least element, then the rest.
LEMMA OrderExists ==
    ASSUME NEW S \in SUBSET Nat, IsFiniteSet(S)
    PROVE  \E s \in [1..Cardinality(S) -> S] : Rising(s, Cardinality(S))
<1> DEFINE Ordered(T) == \E s \in [1..Cardinality(T) -> T] : Rising(s, Cardinality(T))
           bad == {n \in Nat : \E T \in SUBSET Nat :
                       IsFiniteSet(T) /\ Cardinality(T) = n /\ ~ Ordered(T)}
<1>1. ASSUME NEW T \in SUBSET Nat, IsFiniteSet(T), Cardinality(T) = 0
      PROVE  Ordered(T)
    <2>1. [k \in 1..0 |-> 0] \in [1..0 -> T] /\ Rising([k \in 1..0 |-> 0], 0)
        BY DEF Rising
    <2> QED
        BY <1>1, <2>1
<1>2. ASSUME NEW T \in SUBSET Nat, IsFiniteSet(T), Cardinality(T) # 0,
             \A U \in SUBSET Nat : IsFiniteSet(U) /\ Cardinality(U) = Cardinality(T) - 1 => Ordered(U)
      PROVE  Ordered(T)
    <2>1. T # {} /\ Cardinality(T) \in Nat
        BY <1>2, FS_EmptySet, FS_CardinalityType
    <2>2. PICK least \in T : \A j \in T : least <= j
        BY <2>1, LeastExists
    <2> DEFINE n == Cardinality(T)
               rest == T \ {least}
    <2>3. IsFiniteSet(rest) /\ Cardinality(rest) = n - 1
        BY <1>2, <2>2, FS_RemoveElement
    <2>4. PICK r \in [1..(n - 1) -> rest] : Rising(r, n - 1)
        BY <1>2, <2>3
    <2> HIDE DEF n
    <2>5. n \in Nat /\ n # 0
        BY <1>2, <2>1 DEF n
    <2> DEFINE s == [k \in 1..n |-> IF k = 1 THEN least ELSE r[k - 1]]
    <2>6. \A k \in 1..n : k # 1 => k - 1 \in 1..(n - 1)
        BY <2>5
    <2>7. s \in [1..n -> T]
        BY <2>2, <2>4, <2>6
    <2>8. ASSUME NEW j \in 1..n, NEW k \in 1..n, j < k PROVE s[j] < s[k]
        <3>1. k # 1 /\ k - 1 \in 1..(n - 1) /\ s[k] = r[k - 1]
            BY <2>5, <2>8
        <3>2. r[k - 1] \in rest
            BY <2>4, <3>1
        <3>3. CASE j = 1
            <4>1. s[j] = least /\ least \in Nat /\ s[k] \in Nat
                BY <3>3, <3>1, <3>2, <2>2
            <4>2. least <= s[k] /\ s[k] # least
                BY <3>1, <3>2, <2>2
            <4> QED
                BY <4>1, <4>2
        <3>4. CASE j # 1
            <4>1. j - 1 \in 1..(n - 1) /\ j - 1 < k - 1 /\ s[j] = r[j - 1]
                BY <2>5, <2>8, <3>4
            <4> QED
                BY <4>1, <3>1, <2>4 DEF Rising
        <3> QED
            BY <3>3, <3>4
    <2>9. s \in [1..n -> T] /\ Rising(s, n)
        BY <2>7, <2>8 DEF Rising
    <2> QED
        BY <2>9 DEF n
<1> HIDE DEF Ordered
<1>3. bad = {}
    <2> SUFFICES ASSUME bad # {} PROVE FALSE
        OBVIOUS
    <2>1. bad \in SUBSET Nat
        OBVIOUS
    <2> HIDE DEF bad
    <2>2. PICK least \in bad : \A j \in bad : least <= j
        BY <2>1, LeastExists
    <2> USE DEF bad
    <2>3. PICK T \in SUBSET Nat : IsFiniteSet(T) /\ Cardinality(T) = least /\ ~ Ordered(T)
        BY <2>2
    <2>4. CASE least = 0
        BY <2>3, <2>4, <1>1
    <2>5. CASE least # 0
        <3>1. least \in Nat /\ least - 1 \in Nat /\ ~ (least <= least - 1)
            BY <2>2, <2>5
        <3>2. \A U \in SUBSET Nat : IsFiniteSet(U) /\ Cardinality(U) = least - 1 => Ordered(U)
            BY <3>1, <2>2
        <3> QED
            BY <3>1, <3>2, <2>3, <2>5, <1>2
    <2> QED
        BY <2>4, <2>5
<1>4. Ordered(S)
    <2>1. Cardinality(S) \in Nat
        BY FS_CardinalityType
    <2> QED
        BY <2>1, <1>3
<1> QED
    BY <1>4 DEF Ordered

\* Ascending has all elements of the set, in order.
LEMMA AscendingOrders ==
    ASSUME NEW S \in SUBSET Nat, IsFiniteSet(S)
    PROVE  /\ Cardinality(S) \in Nat
           /\ Ascending(S) \in [1..Cardinality(S) -> S]
           /\ \A x \in S : \E k \in 1..Cardinality(S) : Ascending(S)[k] = x
<1> DEFINE n == Cardinality(S)
           s == Ascending(S)
<1>1. n \in Nat
    BY FS_CardinalityType
<1>2. s \in [1..n -> S] /\ \A j, k \in 1..n : j < k => s[j] < s[k]
    BY OrderExists DEF Rising, Ascending
<1> HIDE DEF n, s
<1>3. \A j, k \in 1..n : s[j] = s[k] => j = k
    <2> SUFFICES ASSUME NEW j \in 1..n, NEW k \in 1..n, j # k
                 PROVE  s[j] # s[k]
        OBVIOUS
    <2>1. s[j] \in Nat /\ s[k] \in Nat
        BY <1>2
    <2>2. j < k \/ k < j
        BY <1>1
    <2> QED
        BY <1>2, <2>1, <2>2
<1>4. s \in Injection(1..n, S)
    BY <1>2, <1>3 DEF Injection, IsInjective
<1>5. Cardinality(1..n) = n
    BY <1>1, FS_Interval
<1>6. s \in Surjection(1..n, S)
    BY <1>4, <1>5, FS_Injection DEF n
<1> QED
    BY <1>1, <1>2, <1>6 DEF Surjection, n, s
=============================================================================

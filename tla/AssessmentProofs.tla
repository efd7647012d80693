--------------------------- MODULE AssessmentProofs ---------------------------
(***************************************************************************)
(* What a report says of its findings, for every report that Nmap can write: *)
(* what is kept of it is well formed, and the summary counts all of it and   *)
(* shows the worst.  The first sections are facts about folds, subsequences  *)
(* and sorting that the library does not have.                             *)
(***************************************************************************)
EXTENDS Assessment, FiniteSetTheorems, FunctionTheorems, WellFoundedInduction, TLAPS

(***************************************************************************)
(* Induction and folds                                                     *)
(***************************************************************************)
\* Induction over the natural numbers, for a set.
LEMMA NatSetInduction ==
  ASSUME NEW T, 0 \in T, \A n \in Nat : n \in T => n + 1 \in T
  PROVE  Nat \subseteq T
<1> DEFINE Rest == {n \in Nat : n \notin T}
<1>1. SUFFICES ASSUME Rest # {} PROVE FALSE
  OBVIOUS
<1>2. Rest \subseteq Nat
  OBVIOUS
<1>3. PICK m \in Rest : \A i \in Rest : ~(<<i, m>> \in OpToRel(<, Nat))
  BY <1>1, <1>2, NatLessThanWellFounded, WFMin
<1>4. m \in Nat /\ m \notin T /\ m # 0
  OBVIOUS
<1>5. m - 1 \in Nat /\ m - 1 < m
  BY <1>4
<1>6. m - 1 \in T
  BY <1>2, <1>3, <1>5 DEF OpToRel
<1>7. (m - 1) + 1 \in T
  BY <1>5, <1>6
<1>8. QED
  BY <1>4, <1>7

LEMMA MaxIsLargest ==
  ASSUME NEW n \in Nat, NEW S \in SUBSET (1..n), S # {}
  PROVE  Max(S) \in S /\ \A x \in S : x <= Max(S)
<1> DEFINE T == {k \in Nat : \A R \in SUBSET (1..k) :
                   R # {} => \E x \in R : \A y \in R : x >= y}
<1>1. 0 \in T
  <2>1. 1..0 = {}
    OBVIOUS
  <2>2. QED
    BY <2>1
<1>2. ASSUME NEW k \in Nat, k \in T PROVE k + 1 \in T
  <2>1. SUFFICES ASSUME NEW R \in SUBSET (1..(k + 1)), R # {}
                 PROVE  \E x \in R : \A y \in R : x >= y
    OBVIOUS
  <2>2. CASE k + 1 \in R
    BY <2>2
  <2>3. CASE k + 1 \notin R
    <3>1. R \in SUBSET (1..k)
      BY <2>3
    <3>2. QED
      BY <1>2, <2>1, <3>1
  <2>4. QED
    BY <2>2, <2>3
<1>3. n \in T
  <2> HIDE DEF T
  <2>1. QED
    BY <1>1, <1>2, NatSetInduction
<1>4. \E x \in S : \A y \in S : x >= y
  BY <1>3
<1>5. QED
  BY <1>4 DEF Max

\* The largest of an initial segment, and what is left without it.
LEMMA MaxOfSegment ==
  ASSUME NEW n \in Nat
  PROVE  Max(1..(n + 1)) = n + 1 /\ (1..(n + 1)) \ {n + 1} = 1..n
<1>1. 1..(n + 1) # {} /\ n + 1 \in 1..(n + 1) /\ n + 1 \in Nat /\ 1..(n + 1) \in SUBSET (1..(n + 1))
  OBVIOUS
<1>2. Max(1..(n + 1)) \in 1..(n + 1) /\ n + 1 <= Max(1..(n + 1))
  BY <1>1, MaxIsLargest
<1>3. QED
  BY <1>2

\* The function on sets of indices by which the library defines FoldLeft.
IsFold(f, base, n, step) ==
  \A S \in SUBSET (1..n) : f[S] = IF S = {} THEN base ELSE step[<<Max(S), f[S \ {Max(S)}]>>]

\* It exists, for a step that stays in a set.
LEMMA FoldExists ==
  ASSUME NEW T, NEW base \in T, NEW n \in Nat, NEW step \in [(1..n) \X T -> T]
  PROVE  \E f \in [SUBSET (1..n) -> T] : IsFold(f, base, n, step)
<1> DEFINE Folds(k, f) == IsFold(f, base, k, step)
           Ns == {k \in Nat : k <= n => \E f \in [SUBSET (1..k) -> T] : Folds(k, f)}
<1>0. \A k \in Nat : k \in Ns <=> (k <= n => \E f \in [SUBSET (1..k) -> T] : Folds(k, f))
  OBVIOUS
<1> HIDE DEF Ns
<1>1. 0 \in Ns
  <2>1. [S \in SUBSET (1..0) |-> base] \in [SUBSET (1..0) -> T]
    OBVIOUS
  <2>2. Folds(0, [S \in SUBSET (1..0) |-> base])
    BY DEF IsFold
  <2>3. QED
    BY <1>0, <2>1, <2>2
<1>2. ASSUME NEW k \in Nat, k \in Ns PROVE k + 1 \in Ns
  <2>1. SUFFICES ASSUME k + 1 <= n
                 PROVE  \E f \in [SUBSET (1..(k + 1)) -> T] : Folds(k + 1, f)
    <3>1. k + 1 \in Nat
      OBVIOUS
    <3> HIDE DEF Folds
    <3>2. QED
      BY <1>0, <3>1
  <2>2. PICK f \in [SUBSET (1..k) -> T] : Folds(k, f)
    <3>1. k <= n
      BY <2>1
    <3> HIDE DEF Folds
    <3>2. QED
      BY <1>0, <1>2, <3>1
  <2> DEFINE g == [S \in SUBSET (1..(k + 1)) |->
                     IF k + 1 \in S THEN step[<<k + 1, f[S \ {k + 1}]>>] ELSE f[S]]
  <2>3. \A S \in SUBSET (1..(k + 1)) : S \ {k + 1} \in SUBSET (1..k)
    OBVIOUS
  <2>4. \A S \in SUBSET (1..(k + 1)) : k + 1 \notin S => S \in SUBSET (1..k)
    OBVIOUS
  <2>5. k + 1 \in 1..n
    BY <2>1
  <2>6. ASSUME NEW S \in SUBSET (1..(k + 1)) PROVE g[S] \in T
    BY <2>3, <2>4, <2>5
  <2>7. g \in [SUBSET (1..(k + 1)) -> T]
    BY <2>6
  <2>8. ASSUME NEW S \in SUBSET (1..(k + 1))
        PROVE  g[S] = IF S = {} THEN base ELSE step[<<Max(S), g[S \ {Max(S)}]>>]
    <3>1. CASE k + 1 \in S
      <4>0. k + 1 \in Nat /\ S # {}
        BY <3>1
      <4>1. Max(S) \in S /\ k + 1 <= Max(S)
        BY <3>1, <4>0, MaxIsLargest
      <4>2. Max(S) = k + 1
        <5>1. Max(S) \in 1..(k + 1)
          BY <4>1
        <5>2. QED
          BY <4>1, <5>1
      <4>3. g[S] = step[<<k + 1, f[S \ {k + 1}]>>]
        BY <3>1
      <4>4. g[S \ {k + 1}] = f[S \ {k + 1}]
        BY <2>3
      <4>5. QED
        BY <3>1, <4>2, <4>3, <4>4
    <3>2. CASE k + 1 \notin S
      <4>1. S \in SUBSET (1..k) /\ g[S] = f[S]
        BY <2>4, <3>2
      <4>2. CASE S = {}
        BY <2>2, <4>1, <4>2 DEF IsFold
      <4>3. CASE S # {}
        <5>1. Max(S) \in S
          BY <4>1, <4>3, MaxIsLargest
        <5>2. g[S \ {Max(S)}] = f[S \ {Max(S)}]
          BY <3>2
        <5>3. QED
          BY <2>2, <4>1, <4>3, <5>2 DEF IsFold
      <4>4. QED
        BY <4>2, <4>3
    <3>3. QED
      BY <3>1, <3>2
  <2> HIDE DEF g
  <2>9. QED
    BY <2>7, <2>8 DEF IsFold
<1>3. n \in Ns
  BY <1>1, <1>2, NatSetInduction
<1>4. PICK f \in [SUBSET (1..n) -> T] : Folds(n, f)
  <2>1. n <= n
    OBVIOUS
  <2> HIDE DEF Folds
  <2>2. QED
    BY <1>0, <1>3, <2>1
<1>5. QED
  BY <1>4

(***************************************************************************)
(* Sequences                                                               *)
(***************************************************************************)
LEMMA RangeOfEmpty == RangeOf(<<>>) = {}
  BY DEF RangeOf

LEMMA RangeOfAppend ==
  ASSUME NEW B, NEW s \in Seq(B), NEW b \in B
  PROVE  Append(s, b) \in Seq(B) /\ RangeOf(Append(s, b)) = RangeOf(s) \cup {b} /\ Append(s, b) # <<>>
<1>1. /\ Append(s, b) \in Seq(B) /\ Len(Append(s, b)) = Len(s) + 1 /\ Len(s) \in Nat
      /\ \A i \in 1..Len(s) : Append(s, b)[i] = s[i]
      /\ Append(s, b)[Len(s) + 1] = b
  OBVIOUS
<1>2. DOMAIN s = 1..Len(s) /\ DOMAIN Append(s, b) = 1..(Len(s) + 1)
  BY <1>1
<1>3. RangeOf(Append(s, b)) \subseteq RangeOf(s) \cup {b}
  BY <1>1, <1>2 DEF RangeOf
<1>4. RangeOf(s) \cup {b} \subseteq RangeOf(Append(s, b))
  BY <1>1, <1>2 DEF RangeOf
<1>5. QED
  BY <1>1, <1>3, <1>4

LEMMA RangeOfTail ==
  ASSUME NEW B, NEW s \in Seq(B), s # <<>>
  PROVE  /\ Head(s) \in B /\ Tail(s) \in Seq(B)
         /\ RangeOf(s) = RangeOf(Tail(s)) \cup {Head(s)}
<1>1. /\ Head(s) \in B /\ Tail(s) \in Seq(B) /\ Head(s) = s[1]
      /\ Len(s) \in Nat /\ Len(s) >= 1 /\ Len(Tail(s)) = Len(s) - 1
      /\ \A i \in 1..(Len(s) - 1) : Tail(s)[i] = s[i + 1]
  OBVIOUS
<1>2. DOMAIN s = 1..Len(s) /\ DOMAIN Tail(s) = 1..(Len(s) - 1)
  BY <1>1
<1>3. RangeOf(Tail(s)) \cup {Head(s)} \subseteq RangeOf(s)
  BY <1>1, <1>2 DEF RangeOf
<1>4. ASSUME NEW i \in 1..Len(s) PROVE s[i] \in RangeOf(Tail(s)) \cup {Head(s)}
  <2>1. CASE i = 1
    BY <1>1, <2>1
  <2>2. CASE i # 1
    <3>1. i - 1 \in 1..(Len(s) - 1) /\ s[i] = Tail(s)[i - 1]
      BY <1>1, <2>2
    <3>2. QED
      BY <1>2, <3>1 DEF RangeOf
  <2>3. QED
    BY <2>1, <2>2
<1>5. QED
  BY <1>1, <1>2, <1>3, <1>4 DEF RangeOf

\* A set of numbers has a first, a second, and so on to its last member.
LEMMA NthMember ==
  ASSUME NEW n \in Nat, NEW S \in SUBSET (1..n), NEW k \in 1..Cardinality(S)
  PROVE  \E i \in S : Cardinality({j \in S : j < i}) = k - 1
<1> DEFINE Below(i) == {j \in S : j < i}
           T == {i \in Nat : i \in 1..(n + 1) /\ Cardinality(Below(i)) >= k}
<1>0. \A i \in S : i \in Nat /\ 1 <= i /\ i <= n
  OBVIOUS
<1>1. IsFiniteSet(S) /\ Cardinality(S) \in Nat
  <2>1. IsFiniteSet(1..n)
    BY FS_Interval
  <2>2. QED
    BY <2>1, FS_Subset, FS_CardinalityType
<1>2. \A i : IsFiniteSet(Below(i)) /\ Cardinality(Below(i)) \in Nat
  BY <1>1, FS_Subset, FS_CardinalityType
<1>3. \A i \in Nat : Below(i) \subseteq S /\ \A j \in Nat : j \in Below(i) <=> j \in S /\ j < i
  OBVIOUS
<1>4. \A i : i \in T <=> i \in Nat /\ i \in 1..(n + 1) /\ Cardinality(Below(i)) >= k
  OBVIOUS
<1> HIDE DEF Below, T
<1>5. n + 1 \in T
  <2>1. n + 1 \in Nat /\ \A j \in S : j < n + 1
    BY <1>0
  <2>2. Below(n + 1) = S
    BY <1>0, <1>3, <2>1
  <2>3. QED
    BY <1>1, <1>4, <2>2
<1>6. T \subseteq Nat
  BY <1>4
<1>7. PICK m \in T : \A i \in T : ~(<<i, m>> \in OpToRel(<, Nat))
  BY <1>5, <1>6, NatLessThanWellFounded, WFMin
<1>8. m \in 1..(n + 1) /\ Cardinality(Below(m)) >= k
  BY <1>4
<1>9. \A i \in T : ~(i < m)
  BY <1>6, <1>7 DEF OpToRel
<1>10. m # 1
  <2>1. \A j \in S : ~(j < 1)
    BY <1>0
  <2>2. Below(1) = {}
    BY <1>0, <1>3, <2>1
  <2>3. QED
    BY <1>8, <2>2, FS_EmptySet
<1>11. m - 1 \in 1..n /\ m - 1 \notin T
  BY <1>8, <1>9, <1>10
<1>12. Cardinality(Below(m - 1)) < k
  BY <1>2, <1>4, <1>11
<1>13. \A j : j \in Below(m) <=> j \in Below(m - 1) \/ (j = m - 1 /\ j \in S)
  <2>1. m \in Nat /\ m - 1 \in Nat
    BY <1>8
  <2>2. \A j \in S : j < m <=> j < m - 1 \/ j = m - 1
    BY <1>0, <2>1
  <2>3. \A j \in S : j \in Below(m) <=> j \in Below(m - 1) \/ j = m - 1
    BY <1>0, <1>3, <2>1, <2>2
  <2>4. Below(m) \subseteq S /\ Below(m - 1) \subseteq S
    BY <1>3, <2>1
  <2>5. QED
    BY <2>3, <2>4
<1>14. m - 1 \in S
  <2>1. m - 1 \notin S => Below(m) = Below(m - 1)
    BY <1>13
  <2>2. QED
    BY <1>2, <1>8, <1>12, <2>1
<1>15. m - 1 \notin Below(m - 1)
  <2>1. m - 1 \in Nat /\ ~(m - 1 < m - 1)
    BY <1>8, <1>11
  <2>2. QED
    BY <1>3, <2>1
<1>16. Below(m) = Below(m - 1) \cup {m - 1}
  BY <1>13, <1>14
<1>17. Cardinality(Below(m)) = Cardinality(Below(m - 1)) + 1
  BY <1>2, <1>15, <1>16, FS_AddElement
<1>18. Cardinality(Below(m - 1)) = k - 1
  BY <1>2, <1>8, <1>12, <1>17
<1>19. Below(m - 1) = {j \in S : j < m - 1}
  BY DEF Below
<1>20. QED
  BY <1>14, <1>18, <1>19

\* A subsequence has the same kind of members, and no other.
LEMMA SubsequenceType ==
  ASSUME NEW B, NEW s \in Seq(B), NEW I \in SUBSET (DOMAIN s)
  PROVE  /\ Subsequence(s, I) \in Seq(B)
         /\ RangeOf(Subsequence(s, I)) \subseteq RangeOf(s)
         /\ \A k \in DOMAIN Subsequence(s, I) : \E i \in I : Subsequence(s, I)[k] = s[i]
<1> DEFINE Nth(k) == CHOOSE i \in I : Cardinality({j \in I : j < i}) = k - 1
<1>1. DOMAIN s = 1..Len(s) /\ Len(s) \in Nat /\ I \in SUBSET (1..Len(s))
  OBVIOUS
<1>2. IsFiniteSet(I) /\ Cardinality(I) \in Nat
  <2>1. IsFiniteSet(1..Len(s))
    BY <1>1, FS_Interval
  <2>2. QED
    BY <1>1, <2>1, FS_Subset, FS_CardinalityType
<1>3. Subsequence(s, I) = [k \in 1..Cardinality(I) |-> s[Nth(k)]]
  BY DEF Subsequence
<1>4. \A k \in 1..Cardinality(I) : Nth(k) \in I
  BY <1>1, NthMember
<1> HIDE DEF Nth
<1>5. \A k \in 1..Cardinality(I) : Nth(k) \in DOMAIN s /\ s[Nth(k)] \in B
  <2>1. \A i \in I : i \in DOMAIN s /\ s[i] \in B
    BY <1>1
  <2>2. QED
    BY <1>4, <2>1
<1>6. Subsequence(s, I) \in Seq(B)
  BY <1>2, <1>3, <1>5
<1>7. RangeOf(Subsequence(s, I)) \subseteq RangeOf(s)
  BY <1>3, <1>5 DEF RangeOf
<1>8. \A k \in DOMAIN Subsequence(s, I) : \E i \in I : Subsequence(s, I)[k] = s[i]
  BY <1>3, <1>4
<1>9. QED
  BY <1>6, <1>7, <1>8

\* A subsequence leaves none of its indices out.
LEMMA SubsequenceKeeps ==
  ASSUME NEW B, NEW s \in Seq(B), NEW I \in SUBSET (DOMAIN s)
  PROVE  \A i \in I : \E k \in DOMAIN Subsequence(s, I) : Subsequence(s, I)[k] = s[i]
<1> DEFINE Below(i) == {j \in I : j < i}
           Nth(k) == CHOOSE i \in I : Cardinality(Below(i)) = k - 1
<1>1. DOMAIN s = 1..Len(s) /\ Len(s) \in Nat /\ I \in SUBSET (1..Len(s)) /\ \A i \in I : i \in Nat
  OBVIOUS
<1>2. IsFiniteSet(I) /\ Cardinality(I) \in Nat
  <2>1. IsFiniteSet(1..Len(s))
    BY <1>1, FS_Interval
  <2>2. QED
    BY <1>1, <2>1, FS_Subset, FS_CardinalityType
<1>3. Subsequence(s, I) = [k \in 1..Cardinality(I) |-> s[Nth(k)]]
  BY DEF Subsequence
<1>4. \A i \in I : /\ IsFiniteSet(Below(i)) /\ Cardinality(Below(i)) \in Nat
                   /\ i \notin Below(i) /\ Below(i) \subseteq I
  <2>1. \A i \in I : i \notin Below(i) /\ Below(i) \subseteq I
    BY <1>1
  <2> HIDE DEF Below
  <2>2. QED
    BY <1>2, <2>1, FS_Subset, FS_CardinalityType
<1>5. ASSUME NEW i \in I, NEW j \in I, i < j
      PROVE  Cardinality(Below(i)) < Cardinality(Below(j))
  <2>1. i \in Below(j) /\ Below(i) \subseteq Below(j)
    BY <1>1, <1>5
  <2> HIDE DEF Below
  <2>2. Cardinality(Below(i) \cup {i}) = Cardinality(Below(i)) + 1
    BY <1>4, FS_AddElement
  <2>3. Below(i) \cup {i} \subseteq Below(j)
    BY <2>1
  <2>4. Cardinality(Below(i) \cup {i}) <= Cardinality(Below(j))
    BY <1>4, <2>3, FS_Subset
  <2>5. QED
    BY <1>4, <2>2, <2>4
<1>6. ASSUME NEW i \in I
      PROVE  \E k \in 1..Cardinality(I) : Nth(k) = i
  <2> DEFINE k == Cardinality(Below(i)) + 1
  <2> HIDE DEF Below
  <2>1. k \in Nat /\ k - 1 = Cardinality(Below(i)) /\ 1 <= k
    BY <1>4
  <2>2. k <= Cardinality(I)
    <3>1. Cardinality(Below(i) \cup {i}) = k
      BY <1>4, FS_AddElement
    <3>2. Below(i) \cup {i} \subseteq I
      BY <1>4
    <3>3. QED
      BY <1>2, <3>1, <3>2, FS_Subset
  <2>3. \A j \in I : Cardinality(Below(j)) = k - 1 => j = i
    <3>1. SUFFICES ASSUME NEW j \in I, Cardinality(Below(j)) = k - 1 PROVE j = i
      OBVIOUS
    <3>2. ~(i < j) /\ ~(j < i)
      BY <1>4, <1>5, <2>1, <3>1
    <3>3. QED
      BY <1>1, <3>2
  <2> HIDE DEF k
  <2>4. Nth(k) = i
    BY <2>1, <2>3
  <2>5. k \in 1..Cardinality(I)
    BY <1>2, <2>1, <2>2
  <2> HIDE DEF Nth
  <2>6. QED
    BY <2>4, <2>5
<1> HIDE DEF Nth
<1>7. QED
  BY <1>3, <1>6

(***************************************************************************)
(* Sorting                                                                 *)
(***************************************************************************)
\* Q says which indices may stand before which.
Orders(Q, N) ==
  /\ \A i, j \in 1..N : <<i, j>> \in Q \/ <<j, i>> \in Q
  /\ \A i, j, k \in 1..N : <<i, j>> \in Q /\ <<j, k>> \in Q => <<i, k>> \in Q

LEMMA SomeIndexIsLast ==
  ASSUME NEW N \in Nat, NEW Q, Orders(Q, N), NEW I \in SUBSET (1..N), I # {}
  PROVE  \E m \in I : \A i \in I : <<i, m>> \in Q
<1> DEFINE HasLast(J) == \E m \in J : \A i \in J : <<i, m>> \in Q
           T == {k \in Nat : \A J \in SUBSET (1..k) : J \subseteq 1..N /\ J # {} => HasLast(J)}
<1>1. 0 \in T
  <2>1. 1..0 = {}
    OBVIOUS
  <2>2. QED
    BY <2>1
<1>2. ASSUME NEW k \in Nat, k \in T PROVE k + 1 \in T
  <2>1. SUFFICES ASSUME NEW J \in SUBSET (1..(k + 1)), J \subseteq 1..N, J # {}
                 PROVE  HasLast(J)
    OBVIOUS
  <2> DEFINE K == J \ {k + 1}
  <2>2. K \in SUBSET (1..k) /\ K \subseteq 1..N
    BY <2>1
  <2>3. CASE k + 1 \notin J
    BY <1>2, <2>1, <2>2, <2>3
  <2>4. CASE J = {k + 1}
    BY <2>1, <2>4 DEF Orders
  <2>5. CASE k + 1 \in J /\ J # {k + 1}
    <3>1. K # {}
      BY <2>1, <2>5
    <3>2. PICK m \in K : \A i \in K : <<i, m>> \in Q
      BY <1>2, <2>2, <3>1
    <3>3. k + 1 \in 1..N /\ m \in 1..N
      BY <2>1, <2>2, <2>5
    <3>4. CASE <<k + 1, m>> \in Q
      <4>1. m \in J /\ \A i \in J : <<i, m>> \in Q
        BY <3>2, <3>4
      <4>2. QED
        BY <4>1
    <3>5. CASE <<m, k + 1>> \in Q
      <4>1. \A i \in J : <<i, k + 1>> \in Q
        <5>1. \A i \in K : i \in 1..N /\ <<i, m>> \in Q
          BY <2>2, <3>2
        <5>2. \A i \in K : <<i, k + 1>> \in Q
          BY <3>3, <3>5, <5>1 DEF Orders
        <5>3. <<k + 1, k + 1>> \in Q
          BY <3>3 DEF Orders
        <5>4. QED
          BY <5>2, <5>3
      <4>2. QED
        BY <2>5, <4>1
    <3>6. QED
      BY <3>3, <3>4, <3>5 DEF Orders
  <2>6. QED
    BY <2>3, <2>4, <2>5
<1>3. Nat \subseteq T
  <2> HIDE DEF T
  <2>1. QED
    BY <1>1, <1>2, NatSetInduction
<1>4. QED
  BY <1>3

\* Indices can be put in order, one after the other from the last.
LEMMA SortingExists ==
  ASSUME NEW N \in Nat, NEW Q, Orders(Q, N)
  PROVE  \E p \in Bijection(1..N, 1..N) : \A i, j \in 1..N : i < j => <<p[i], p[j]>> \in Q
<1> DEFINE Sorts(p, c) == \A i, j \in 1..c : i < j => <<p[i], p[j]>> \in Q
           T == {c \in Nat : \A I \in SUBSET (1..N) :
                   Cardinality(I) = c => \E p \in Bijection(1..c, I) : Sorts(p, c)}
<1>0. \A I \in SUBSET (1..N) : IsFiniteSet(I) /\ Cardinality(I) \in Nat
  <2>1. IsFiniteSet(1..N)
    BY FS_Interval
  <2>2. QED
    BY <2>1, FS_Subset, FS_CardinalityType
<1>1. 0 \in T
  <2>1. SUFFICES ASSUME NEW I \in SUBSET (1..N), Cardinality(I) = 0
                 PROVE  \E p \in Bijection(1..0, I) : Sorts(p, 0)
    OBVIOUS
  <2>2. I = {}
    BY <1>0, <2>1, FS_EmptySet
  <2>3. 1..0 = {}
    OBVIOUS
  <2> DEFINE p == [i \in {} |-> i]
  <2>4. p \in Bijection(1..0, I)
    BY <2>2, <2>3 DEF Bijection, Injection, Surjection, IsInjective
  <2>5. Sorts(p, 0)
    BY <2>3
  <2> HIDE DEF p, Sorts
  <2>6. QED
    BY <2>4, <2>5
<1>2. ASSUME NEW c \in Nat, c \in T PROVE c + 1 \in T
  <2>1. SUFFICES ASSUME NEW I \in SUBSET (1..N), Cardinality(I) = c + 1
                 PROVE  \E p \in Bijection(1..(c + 1), I) : Sorts(p, c + 1)
    OBVIOUS
  <2>2. I # {}
    BY <2>1, FS_EmptySet
  <2>3. PICK m \in I : \A i \in I : <<i, m>> \in Q
    BY <2>2, SomeIndexIsLast
  <2>4. I \ {m} \in SUBSET (1..N) /\ Cardinality(I \ {m}) = c
    BY <1>0, <2>1, FS_RemoveElement
  <2>5. PICK q \in Bijection(1..c, I \ {m}) : Sorts(q, c)
    BY <1>2, <2>4
  <2>6. /\ q \in [1..c -> I \ {m}]
        /\ \A i, j \in 1..c : q[i] = q[j] => i = j
        /\ \A t \in I \ {m} : \E i \in 1..c : q[i] = t
    BY DEF Bijection, Injection, Surjection, IsInjective
  <2> DEFINE p == [i \in 1..(c + 1) |-> IF i = c + 1 THEN m ELSE q[i]]
  <2>7. /\ \A i \in 1..c : i \in 1..(c + 1) /\ p[i] = q[i] /\ q[i] \in I \ {m}
        /\ c + 1 \in 1..(c + 1) /\ p[c + 1] = m
        /\ \A i \in 1..(c + 1) : i \in 1..c \/ i = c + 1
    BY <2>6
  <2>8. p \in [1..(c + 1) -> I]
    BY <2>6
  <2> HIDE DEF p
  <2>9. \A i, j \in 1..(c + 1) : p[i] = p[j] => i = j
    BY <2>6, <2>7
  <2>10. \A t \in I : \E i \in 1..(c + 1) : p[i] = t
    BY <2>6, <2>7
  <2>11. p \in Bijection(1..(c + 1), I)
    BY <2>8, <2>9, <2>10 DEF Bijection, Injection, Surjection, IsInjective
  <2>12. Sorts(p, c + 1)
    <3>1. SUFFICES ASSUME NEW i \in 1..(c + 1), NEW j \in 1..(c + 1), i < j
                   PROVE  <<p[i], p[j]>> \in Q
      OBVIOUS
    <3>2. i \in 1..c
      BY <3>1
    <3>3. CASE j = c + 1
      BY <2>3, <2>7, <3>2, <3>3
    <3>4. CASE j # c + 1
      BY <2>5, <2>7, <3>1, <3>2, <3>4
    <3>5. QED
      BY <3>3, <3>4
  <2> HIDE DEF Sorts
  <2>13. QED
    BY <2>11, <2>12
<1>3. Nat \subseteq T
  <2> HIDE DEF T
  <2>1. QED
    BY <1>1, <1>2, NatSetInduction
<1>4. Cardinality(1..N) = N
  BY FS_Interval
<1>5. QED
  BY <1>3, <1>4

\* A sequence that is put in order has the same members.
LEMMA ReorderedType ==
  ASSUME NEW S, NEW s \in Seq(S), NEW p \in Bijection(DOMAIN s, DOMAIN s),
         NEW t, t = [i \in DOMAIN s |-> s[p[i]]]
  PROVE  t \in Seq(S) /\ Len(t) = Len(s) /\ RangeOf(t) = RangeOf(s)
<1>1. DOMAIN s = 1..Len(s) /\ Len(s) \in Nat /\ \A i \in 1..Len(s) : s[i] \in S
  OBVIOUS
<1>2. p \in [1..Len(s) -> 1..Len(s)] /\ \A j \in 1..Len(s) : \E i \in 1..Len(s) : p[i] = j
  BY <1>1 DEF Bijection, Injection, Surjection
<1>3. t = [i \in 1..Len(s) |-> s[p[i]]] /\ \A i \in 1..Len(s) : s[p[i]] \in S
  BY <1>1, <1>2
<1>4. t \in Seq(S) /\ Len(t) = Len(s)
  BY <1>1, <1>3
<1>5. RangeOf(t) \subseteq RangeOf(s)
  BY <1>1, <1>2, <1>3 DEF RangeOf
<1>6. RangeOf(s) \subseteq RangeOf(t)
  <2>1. DOMAIN t = 1..Len(s)
    BY <1>3
  <2>2. \A j \in 1..Len(s) : \E i \in 1..Len(s) : t[i] = s[j]
    BY <1>2, <1>3
  <2>3. \A x \in RangeOf(s) : \E j \in 1..Len(s) : x = s[j]
    BY <1>1 DEF RangeOf
  <2>4. \A i \in 1..Len(s) : t[i] \in RangeOf(t)
    BY <2>1 DEF RangeOf
  <2>5. ASSUME NEW x \in RangeOf(s) PROVE x \in RangeOf(t)
    <3>1. PICK j \in 1..Len(s) : x = s[j]
      BY <2>3
    <3>2. PICK i \in 1..Len(s) : t[i] = s[j]
      BY <2>2
    <3>3. QED
      BY <2>4, <3>1, <3>2
  <2>6. QED
    BY <2>5
<1>7. QED
  BY <1>4, <1>5, <1>6

(***************************************************************************)
(* What is stored of a report                                              *)
(***************************************************************************)
OpenPort == [port : 1..MaxPort, protocol : Protocols, service : STRING]
Host     == [host : Nat \ {0}, ports : Seq(OpenPort) \ {<<>>}]
Finding  == [host : Nat \ {0}, port : 1..MaxPort, protocol : Protocols, severity : Severities]

LEMMA PortsInOrder ==
  ASSUME NEW s \in Seq(OpenPort)
  PROVE  /\ InOrder(s, PortBefore) \in Seq(OpenPort)
         /\ RangeOf(InOrder(s, PortBefore)) = RangeOf(s)
         /\ \A i, j \in DOMAIN InOrder(s, PortBefore) :
              i < j => ~PortBefore(InOrder(s, PortBefore)[j], InOrder(s, PortBefore)[i])
<1> DEFINE N == Len(s)
           Q == {q \in (1..N) \X (1..N) : ~PortBefore(s[q[2]], s[q[1]])}
<1>1. N \in Nat /\ DOMAIN s = 1..N /\ \A i \in 1..N : s[i] \in OpenPort
  OBVIOUS
<1>2. \A i, j \in 1..N : <<i, j>> \in Q <=> ~PortBefore(s[j], s[i])
  OBVIOUS
<1> HIDE DEF Q
<1>3. Orders(Q, N)
  <2>1. \A p \in OpenPort : Rank(p.protocol) \in 1..3 /\ p.port \in Nat
    BY DEF OpenPort, Rank, Protocols
  <2>2. \A p, q \in OpenPort : Rank(p.protocol) = Rank(q.protocol) <=> p.protocol = q.protocol
    BY DEF OpenPort, Rank, Protocols
  <2>3. \A p, q \in OpenPort : ~PortBefore(p, q) \/ ~PortBefore(q, p)
    BY <2>1, <2>2 DEF PortBefore
  <2>4. \A p, q, r \in OpenPort : ~PortBefore(q, p) /\ ~PortBefore(r, q) => ~PortBefore(r, p)
    BY <2>1, <2>2 DEF PortBefore
  <2>5. QED
    BY <1>1, <1>2, <2>3, <2>4 DEF Orders
<1> HIDE DEF N
<1>4. PICK p \in Bijection(1..N, 1..N) : \A i, j \in 1..N : i < j => <<p[i], p[j]>> \in Q
  BY <1>1, <1>3, SortingExists
<1> DEFINE order == CHOOSE q \in Bijection(DOMAIN s, DOMAIN s) :
                      \A i, j \in DOMAIN s : i < j => ~PortBefore(s[q[j]], s[q[i]])
<1>5. /\ order \in Bijection(DOMAIN s, DOMAIN s)
      /\ \A i, j \in DOMAIN s : i < j => ~PortBefore(s[order[j]], s[order[i]])
  <2>1. p \in [1..N -> 1..N]
    BY DEF Bijection, Injection
  <2>2. \A i, j \in 1..N : i < j => ~PortBefore(s[p[j]], s[p[i]])
    BY <1>2, <1>4, <2>1
  <2>3. QED
    BY <1>1, <2>2
<1>6. InOrder(s, PortBefore) = [i \in DOMAIN s |-> s[order[i]]]
  BY DEF InOrder
<1> HIDE DEF order
<1>7. \A i, j \in DOMAIN InOrder(s, PortBefore) :
        i < j => ~PortBefore(InOrder(s, PortBefore)[j], InOrder(s, PortBefore)[i])
  BY <1>5, <1>6
<1>8. QED
  BY <1>5, <1>6, <1>7, ReorderedType

LEMMA HostsInOrder ==
  ASSUME NEW s \in Seq(Host)
  PROVE  /\ InOrder(s, HostBefore) \in Seq(Host)
         /\ RangeOf(InOrder(s, HostBefore)) = RangeOf(s)
         /\ \A i, j \in DOMAIN InOrder(s, HostBefore) :
              i < j => InOrder(s, HostBefore)[i].host <= InOrder(s, HostBefore)[j].host
<1> DEFINE N == Len(s)
           Q == {q \in (1..N) \X (1..N) : ~HostBefore(s[q[2]], s[q[1]])}
<1>0. \A h \in Host : h.host \in Nat
  BY DEF Host
<1>1. N \in Nat /\ DOMAIN s = 1..N /\ \A i \in 1..N : s[i] \in Host /\ s[i].host \in Nat
  BY <1>0
<1>2. \A i, j \in 1..N : <<i, j>> \in Q <=> ~HostBefore(s[j], s[i])
  OBVIOUS
<1> HIDE DEF Q
<1>3. Orders(Q, N)
  <2> DEFINE key == [i \in 1..N |-> s[i].host]
  <2>1. key \in [1..N -> Nat] /\ \A i \in 1..N : key[i] = s[i].host
    BY <1>1
  <2> HIDE DEF N, key
  <2>2. \A i, j \in 1..N : (<<i, j>> \in Q) <=> ~(key[j] < key[i])
    BY <1>2, <2>1 DEF HostBefore
  <2>3. ASSUME NEW i \in 1..N, NEW j \in 1..N PROVE <<i, j>> \in Q \/ <<j, i>> \in Q
    BY <2>1, <2>2
  <2>4. ASSUME NEW i \in 1..N, NEW j \in 1..N, NEW k \in 1..N, <<i, j>> \in Q, <<j, k>> \in Q
        PROVE  <<i, k>> \in Q
    <3>1. key[i] \in Nat /\ key[j] \in Nat /\ key[k] \in Nat
      BY <2>1
    <3>2. ~(key[j] < key[i]) /\ ~(key[k] < key[j])
      BY <2>2, <2>4
    <3>3. ~(key[k] < key[i])
      BY <3>1, <3>2
    <3>4. QED
      BY <2>2, <3>3
  <2>5. QED
    BY <2>3, <2>4 DEF Orders
<1> HIDE DEF N
<1>4. PICK p \in Bijection(1..N, 1..N) : \A i, j \in 1..N : i < j => <<p[i], p[j]>> \in Q
  BY <1>1, <1>3, SortingExists
<1> DEFINE order == CHOOSE q \in Bijection(DOMAIN s, DOMAIN s) :
                      \A i, j \in DOMAIN s : i < j => ~HostBefore(s[q[j]], s[q[i]])
<1>5. /\ order \in Bijection(DOMAIN s, DOMAIN s)
      /\ \A i, j \in DOMAIN s : i < j => ~HostBefore(s[order[j]], s[order[i]])
  <2>1. p \in [1..N -> 1..N]
    BY DEF Bijection, Injection
  <2>2. \A i, j \in 1..N : i < j => ~HostBefore(s[p[j]], s[p[i]])
    BY <1>2, <1>4, <2>1
  <2>3. QED
    BY <1>1, <2>2
<1>6. InOrder(s, HostBefore) = [i \in DOMAIN s |-> s[order[i]]]
  BY DEF InOrder
<1> HIDE DEF order
<1>7. order \in [1..N -> 1..N]
  BY <1>1, <1>5 DEF Bijection, Injection
<1>8. \A i, j \in 1..N : i < j => s[order[i]].host <= s[order[j]].host
  BY <1>1, <1>5, <1>7 DEF HostBefore
<1>9. /\ InOrder(s, HostBefore) \in Seq(Host)
      /\ RangeOf(InOrder(s, HostBefore)) = RangeOf(s)
  BY <1>5, <1>6, ReorderedType
<1>10. QED
  BY <1>1, <1>6, <1>8, <1>9

\* A port as it is stored.
ReadPort(p) == [port |-> p.port, protocol |-> p.protocol, service |-> p.service]

\* What _open_ports returns of a host: its open ports in range of a known
\* protocol, all of them, in the order of protocol and number.
LEMMA OpenPortsType ==
  ASSUME NEW element \in HostElements
  PROVE  /\ OpenPorts(element) \in Seq(OpenPort)
         /\ \A q : q \in RangeOf(OpenPorts(element)) <=>
              \E p \in RangeOf(element.ports) : Reportable(p) /\ q = ReadPort(p)
         /\ \A i, j \in DOMAIN OpenPorts(element) :
              i < j => ~PortBefore(OpenPorts(element)[j], OpenPorts(element)[i])
<1> DEFINE ports == element.ports
           I == {i \in DOMAIN ports : Reportable(ports[i])}
           kept == Kept(ports, Reportable)
           read == [i \in DOMAIN kept |-> ReadPort(kept[i])]
<1>1. ports \in Seq(PortElements) /\ I \in SUBSET (DOMAIN ports)
  BY DEF HostElements
<1>2. kept = Subsequence(ports, I)
  BY DEF Kept
<1>3. OpenPorts(element) = InOrder(read, PortBefore)
  BY DEF OpenPorts, ReadPort
<1>4. \A i \in DOMAIN ports : ports[i] \in PortElements /\ (i \in I <=> Reportable(ports[i]))
  BY <1>1
<1>5. \A q : q \in RangeOf(ports) <=> \E i \in DOMAIN ports : q = ports[i]
  BY DEF RangeOf
<1> HIDE DEF ports, I
<1>6. /\ kept \in Seq(PortElements)
      /\ \A k \in DOMAIN kept : \E i \in I : kept[k] = ports[i]
  BY <1>1, <1>2, SubsequenceType
<1>7. \A i \in I : \E k \in DOMAIN kept : kept[k] = ports[i]
  BY <1>1, <1>2, SubsequenceKeeps
<1> HIDE DEF kept
<1>8. \A k \in DOMAIN kept : kept[k] \in PortElements /\ Reportable(kept[k])
  BY <1>1, <1>4, <1>6
<1>9. \A p \in PortElements : Reportable(p) => ReadPort(p) \in OpenPort
  BY DEF PortElements, OpenPort, Reportable, ReadPort
<1>10. read \in Seq(OpenPort)
  <2>1. DOMAIN kept = 1..Len(kept) /\ Len(kept) \in Nat
    BY <1>6
  <2>2. QED
    BY <1>8, <1>9, <2>1
<1>11. \A q : q \in RangeOf(read) <=> \E k \in DOMAIN kept : q = ReadPort(kept[k])
  BY DEF RangeOf
<1>12. \A q : q \in RangeOf(read) <=> \E p \in RangeOf(ports) : Reportable(p) /\ q = ReadPort(p)
  <2>1. ASSUME NEW q, q \in RangeOf(read)
        PROVE  \E p \in RangeOf(ports) : Reportable(p) /\ q = ReadPort(p)
    <3>1. PICK k \in DOMAIN kept : q = ReadPort(kept[k])
      BY <1>11, <2>1
    <3>2. PICK i \in I : kept[k] = ports[i]
      BY <1>6
    <3>3. kept[k] \in RangeOf(ports) /\ Reportable(kept[k])
      BY <1>1, <1>5, <1>8, <3>2
    <3>4. QED
      BY <3>1, <3>3
  <2>2. ASSUME NEW q, NEW p \in RangeOf(ports), Reportable(p), q = ReadPort(p)
        PROVE  q \in RangeOf(read)
    <3>1. PICK i \in DOMAIN ports : p = ports[i]
      BY <1>5
    <3>2. PICK k \in DOMAIN kept : kept[k] = ports[i]
      BY <1>4, <1>7, <2>2, <3>1
    <3>3. QED
      BY <1>11, <2>2, <3>1, <3>2
  <2>3. QED
    BY <2>1, <2>2
<1> HIDE DEF read
<1>13. /\ InOrder(read, PortBefore) \in Seq(OpenPort)
       /\ RangeOf(InOrder(read, PortBefore)) = RangeOf(read)
       /\ \A i, j \in DOMAIN InOrder(read, PortBefore) :
            i < j => ~PortBefore(InOrder(read, PortBefore)[j], InOrder(read, PortBefore)[i])
  BY <1>10, PortsInOrder
<1>14. QED
  BY <1>3, <1>12, <1>13 DEF ports

\* What parse_nmap_xml returns: the hosts that answered with an open port, all of
\* them, in the order of their addresses.
LEMMA ParsedType ==
  ASSUME NEW report \in Seq(HostElements)
  PROVE  /\ Parsed(report) \in Seq(Host)
         /\ \A g : g \in RangeOf(Parsed(report)) <=>
              \E e \in RangeOf(report) : /\ Answered(e) /\ OpenPorts(e) # <<>>
                                         /\ g = [host |-> e.host, ports |-> OpenPorts(e)]
         /\ \A i, j \in DOMAIN Parsed(report) :
              i < j => Parsed(report)[i].host <= Parsed(report)[j].host
<1> DEFINE Read(e) == [host |-> e.host, ports |-> OpenPorts(e)]
           I    == {i \in DOMAIN report : Answered(report[i])}
           up   == Kept(report, Answered)
           all  == [i \in DOMAIN up |-> Read(up[i])]
           J    == {j \in DOMAIN all : all[j].ports # <<>>}
           open == Kept(all, LAMBDA h : h.ports # <<>>)
           ReadHost == [host : Nat \ {0}, ports : Seq(OpenPort)]
<1>1. I \in SUBSET (DOMAIN report) /\ up = Subsequence(report, I)
  BY DEF Kept
<1>2. \A i \in DOMAIN report : report[i] \in HostElements /\ (i \in I <=> Answered(report[i]))
  OBVIOUS
<1>3. \A e : e \in RangeOf(report) <=> \E i \in DOMAIN report : e = report[i]
  BY DEF RangeOf
<1>4. Parsed(report) = InOrder(open, HostBefore)
  BY DEF Parsed
<1> HIDE DEF I
<1>5. up \in Seq(HostElements) /\ \A k \in DOMAIN up : \E i \in I : up[k] = report[i]
  BY <1>1, SubsequenceType
<1>6. \A i \in I : \E k \in DOMAIN up : up[k] = report[i]
  BY <1>1, SubsequenceKeeps
<1> HIDE DEF up
<1>7. \A k \in DOMAIN up : up[k] \in HostElements /\ Answered(up[k])
  BY <1>1, <1>2, <1>5
<1>8. \A e \in HostElements : Answered(e) => Read(e) \in ReadHost
  BY OpenPortsType DEF HostElements, Answered
<1>9. all \in Seq(ReadHost) /\ DOMAIN all = DOMAIN up /\ \A k \in DOMAIN up : all[k] = Read(up[k])
  <2>1. DOMAIN up = 1..Len(up) /\ Len(up) \in Nat
    BY <1>5
  <2> HIDE DEF ReadHost, Read
  <2>2. QED
    BY <1>7, <1>8, <2>1
<1>10. \A e : Read(e).ports = OpenPorts(e)
  OBVIOUS
<1>11. Parsed(report) = InOrder(open, HostBefore) /\ J \in SUBSET (DOMAIN all) /\ open = Subsequence(all, J)
  BY <1>4 DEF Kept
<1>12. \A k \in DOMAIN all : k \in J <=> all[k].ports # <<>>
  OBVIOUS
<1> HIDE DEF all, J, Read
<1>13. \A j \in J : all[j] \in Host
  <2>1. \A h \in ReadHost : h.ports # <<>> => h \in Host
    BY DEF Host
  <2> HIDE DEF ReadHost
  <2>2. QED
    BY <1>9, <1>11, <1>12, <2>1
<1> HIDE DEF ReadHost
<1>14. open \in Seq(ReadHost) /\ \A k \in DOMAIN open : \E j \in J : open[k] = all[j]
  BY <1>9, <1>11, SubsequenceType
<1>15. \A j \in J : \E k \in DOMAIN open : open[k] = all[j]
  <2>1. all \in Seq(ReadHost) /\ J \in SUBSET (DOMAIN all)
    BY <1>9, <1>11
  <2>2. \A j \in J : \E k \in DOMAIN Subsequence(all, J) : Subsequence(all, J)[k] = all[j]
    BY <2>1, SubsequenceKeeps
  <2>3. QED
    BY <1>11, <2>2
<1> HIDE DEF open
<1>16. open \in Seq(Host)
  <2>1. DOMAIN open = 1..Len(open) /\ Len(open) \in Nat /\ open = [k \in 1..Len(open) |-> open[k]]
    BY <1>14
  <2>2. \A k \in 1..Len(open) : open[k] \in Host
    BY <1>13, <1>14, <2>1
  <2>3. QED
    BY <2>1, <2>2
<1>17. /\ InOrder(open, HostBefore) \in Seq(Host)
       /\ RangeOf(InOrder(open, HostBefore)) = RangeOf(open)
       /\ \A i, j \in DOMAIN InOrder(open, HostBefore) :
            i < j => InOrder(open, HostBefore)[i].host <= InOrder(open, HostBefore)[j].host
  BY <1>16, HostsInOrder
<1>18. \A g : g \in RangeOf(open) <=> \E k \in DOMAIN open : g = open[k]
  BY DEF RangeOf
<1>19. ASSUME NEW g, g \in RangeOf(open)
       PROVE  \E e \in RangeOf(report) : Answered(e) /\ OpenPorts(e) # <<>> /\ g = Read(e)
  <2>1. PICK k \in DOMAIN open : g = open[k]
    BY <1>18, <1>19
  <2>2. PICK j \in J : open[k] = all[j]
    BY <1>14
  <2>3. j \in DOMAIN up /\ all[j] = Read(up[j]) /\ all[j].ports # <<>>
    BY <1>9, <1>11, <1>12
  <2>4. PICK i \in I : up[j] = report[i]
    BY <1>5, <2>3
  <2>5. up[j] \in RangeOf(report) /\ Answered(up[j])
    BY <1>1, <1>3, <1>7, <2>3, <2>4
  <2>6. OpenPorts(up[j]) # <<>>
    BY <1>10, <2>3
  <2>7. QED
    BY <2>1, <2>2, <2>3, <2>5, <2>6
<1>20. ASSUME NEW g, NEW e \in RangeOf(report), Answered(e), OpenPorts(e) # <<>>, g = Read(e)
       PROVE  g \in RangeOf(open)
  <2>1. PICK i \in DOMAIN report : e = report[i]
    BY <1>3
  <2>2. i \in I
    BY <1>2, <1>20, <2>1
  <2>3. PICK k \in DOMAIN up : up[k] = report[i]
    BY <1>6, <2>2
  <2>4. all[k] = g /\ k \in DOMAIN all
    BY <1>9, <1>20, <2>1, <2>3
  <2>5. k \in J
    BY <1>10, <1>12, <1>20, <2>4
  <2>6. PICK l \in DOMAIN open : open[l] = all[k]
    BY <1>15, <2>5
  <2>7. QED
    BY <1>18, <2>4, <2>6
<1>21. \A g : g \in RangeOf(open) <=>
         \E e \in RangeOf(report) : Answered(e) /\ OpenPorts(e) # <<>> /\ g = Read(e)
  BY <1>19, <1>20
<1>22. QED
  BY <1>4, <1>17, <1>21 DEF Read

(***************************************************************************)
(* The verdicts                                                            *)
(***************************************************************************)
LEMMA VerdictType ==
  ASSUME NEW p
  PROVE  Verdict(p) \in Severities
<1> DEFINE hits == {k \in DOMAIN Keywords : <<p.service, Keywords[k][1]>> \in Mentions}
<1>1. CASE \E s \in DOMAIN PortsRated : p.port \in PortsRated[s]
  <2>1. Verdict(p) = CHOOSE s \in DOMAIN PortsRated : p.port \in PortsRated[s]
    BY <1>1 DEF Verdict
  <2>2. Verdict(p) \in DOMAIN PortsRated
    BY <1>1, <2>1
  <2>3. QED
    BY <2>2 DEF PortsRated, Severities, Low, Critical
<1>2. CASE ~(\E s \in DOMAIN PortsRated : p.port \in PortsRated[s]) /\ hits = {}
  BY <1>2 DEF Verdict, Severities, Info
<1>3. CASE ~(\E s \in DOMAIN PortsRated : p.port \in PortsRated[s]) /\ hits # {}
  <2>1. DOMAIN Keywords = 1..12 /\ \A k \in 1..12 : Keywords[k][2] \in Severities
    BY DEF Keywords, Severities, Medium, High, Critical
  <2>2. hits \subseteq Nat /\ hits \subseteq 1..12
    BY <2>1
  <2> DEFINE first == CHOOSE k \in hits : \A j \in hits : k <= j
  <2>3. Verdict(p) = Keywords[first][2]
    BY <1>3 DEF Verdict
  <2> HIDE DEF hits
  <2>4. PICK m \in hits : \A i \in hits : ~(<<i, m>> \in OpToRel(<, Nat))
    BY <1>3, <2>2, NatLessThanWellFounded, WFMin
  <2>5. \A i \in hits : m <= i
    <3>1. \A i \in hits : ~(i < m)
      BY <2>2, <2>4 DEF OpToRel
    <3>2. QED
      BY <2>2, <3>1
  <2>6. first \in hits
    BY <2>5
  <2> HIDE DEF first
  <2>7. QED
    BY <2>1, <2>2, <2>3, <2>6
<1>4. QED
  BY <1>1, <1>2, <1>3

(***************************************************************************)
(* Every port of a scan                                                    *)
(***************************************************************************)
LEMMA RangeOfConcat ==
  ASSUME NEW A, NEW s \in Seq(A), NEW t \in Seq(A)
  PROVE  s \o t \in Seq(A) /\ RangeOf(s \o t) = RangeOf(s) \cup RangeOf(t)
<1>1. /\ s \o t \in Seq(A) /\ Len(s) \in Nat /\ Len(t) \in Nat /\ Len(s \o t) = Len(s) + Len(t)
      /\ \A i \in 1..Len(s) : (s \o t)[i] = s[i]
      /\ \A i \in 1..Len(t) : (s \o t)[Len(s) + i] = t[i]
  OBVIOUS
<1>2. DOMAIN s = 1..Len(s) /\ DOMAIN t = 1..Len(t) /\ DOMAIN (s \o t) = 1..(Len(s) + Len(t))
  BY <1>1
<1>3. ASSUME NEW i \in 1..(Len(s) + Len(t)) PROVE (s \o t)[i] \in RangeOf(s) \cup RangeOf(t)
  <2>1. CASE i <= Len(s)
    BY <1>1, <1>2, <2>1 DEF RangeOf
  <2>2. CASE ~(i <= Len(s))
    <3>1. i - Len(s) \in 1..Len(t) /\ i = Len(s) + (i - Len(s))
      BY <1>1, <2>2
    <3>2. (s \o t)[i] = t[i - Len(s)]
      BY <1>1, <3>1
    <3>3. QED
      BY <1>2, <3>1, <3>2 DEF RangeOf
  <2>3. QED
    BY <2>1, <2>2
<1>4. RangeOf(s \o t) \subseteq RangeOf(s) \cup RangeOf(t)
  BY <1>2, <1>3 DEF RangeOf
<1>5. RangeOf(s) \subseteq RangeOf(s \o t)
  <2>1. \A i \in 1..Len(s) : i \in DOMAIN (s \o t)
    BY <1>1, <1>2
  <2>2. QED
    BY <1>1, <1>2, <2>1 DEF RangeOf
<1>6. RangeOf(t) \subseteq RangeOf(s \o t)
  <2>1. \A i \in 1..Len(t) : Len(s) + i \in DOMAIN (s \o t)
    BY <1>1, <1>2
  <2>2. QED
    BY <1>1, <1>2, <2>1 DEF RangeOf
<1>7. QED
  BY <1>1, <1>4, <1>5, <1>6

\* The function by which the library defines FlattenSeq.
Flattens(f, seqs, n) ==
  \A i \in 1..n : f[i] = IF i = 1 THEN seqs[i] ELSE f[i - 1] \o seqs[i]

Gathers(s, seqs, n) ==
  \A x : x \in RangeOf(s) <=> \E i \in 1..n : x \in RangeOf(seqs[i])

LEMMA FlattenExists ==
  ASSUME NEW A, NEW seqs \in Seq(Seq(A)), NEW n \in Nat, n <= Len(seqs)
  PROVE  \E f \in [1..n -> Seq(A)] : Flattens(f, seqs, n)
<1> DEFINE Has(k) == \E f \in [1..k -> Seq(A)] : Flattens(f, seqs, k)
           T == {k \in Nat : k <= n => Has(k)}
<1>0. Len(seqs) \in Nat /\ \A i \in 1..Len(seqs) : seqs[i] \in Seq(A)
  OBVIOUS
<1>1. 0 \in T
  <2>1. 1..0 = {} /\ [i \in 1..0 |-> <<>>] \in [1..0 -> Seq(A)]
    OBVIOUS
  <2>2. QED
    BY <2>1 DEF Flattens
<1>2. ASSUME NEW k \in Nat, k \in T PROVE k + 1 \in T
  <2>1. SUFFICES ASSUME k + 1 <= n PROVE Has(k + 1)
    OBVIOUS
  <2>2. PICK f \in [1..k -> Seq(A)] : Flattens(f, seqs, k)
    BY <1>2, <2>1
  <2>3. k + 1 \in 1..Len(seqs) /\ seqs[k + 1] \in Seq(A)
    BY <1>0, <2>1
  <2> DEFINE more == IF k + 1 = 1 THEN seqs[k + 1] ELSE f[k] \o seqs[k + 1]
             g == [i \in 1..(k + 1) |-> IF i = k + 1 THEN more ELSE f[i]]
  <2>4. more \in Seq(A)
    <3>1. CASE k = 0
      BY <2>3, <3>1
    <3>2. CASE k # 0
      <4>1. f[k] \in Seq(A)
        BY <3>2
      <4>2. QED
        BY <2>3, <3>2, <4>1
    <3>3. QED
      BY <3>1, <3>2
  <2>5. g[k + 1] = more /\ \A i \in 1..k : g[i] = f[i]
    <3>1. k + 1 \in 1..(k + 1) /\ \A i \in 1..k : i \in 1..(k + 1) /\ i # k + 1
      OBVIOUS
    <3> HIDE DEF more
    <3>2. QED
      BY <3>1
  <2>6. g \in [1..(k + 1) -> Seq(A)]
    <3> HIDE DEF more
    <3>1. QED
      BY <2>4
  <2> HIDE DEF g
  <2>7. ASSUME NEW i \in 1..(k + 1) PROVE g[i] = IF i = 1 THEN seqs[i] ELSE g[i - 1] \o seqs[i]
    <3>1. CASE i = k + 1
      <4>1. CASE k = 0
        BY <2>5, <3>1, <4>1
      <4>2. CASE k # 0
        <5>1. k \in 1..k /\ i - 1 = k /\ i # 1
          BY <3>1, <4>2
        <5>2. QED
          BY <2>5, <3>1, <5>1
      <4>3. QED
        BY <4>1, <4>2
    <3>2. CASE i # k + 1
      <4>1. i \in 1..k
        BY <3>2
      <4>2. CASE i = 1
        BY <2>2, <2>5, <4>1, <4>2 DEF Flattens
      <4>3. CASE i # 1
        <5>1. i - 1 \in 1..k
          BY <4>1, <4>3
        <5>2. QED
          BY <2>2, <2>5, <4>1, <4>3, <5>1 DEF Flattens
      <4>4. QED
        BY <4>2, <4>3
    <3>3. QED
      BY <3>1, <3>2
  <2>8. QED
    BY <2>6, <2>7 DEF Flattens
<1>3. Nat \subseteq T
  <2> HIDE DEF T
  <2>1. QED
    BY <1>1, <1>2, NatSetInduction
<1>4. QED
  BY <1>3

\* A sequence of sequences is flattened without losing or adding a member.
LEMMA FlattenType ==
  ASSUME NEW A, NEW seqs \in Seq(Seq(A))
  PROVE  FlattenSeq(seqs) \in Seq(A) /\ Gathers(FlattenSeq(seqs), seqs, Len(seqs))
<1> DEFINE N == Len(seqs)
           flatten == CHOOSE f : f = [i \in 1..Len(seqs) |->
                        IF i = 1 THEN seqs[i] ELSE f[i - 1] \o seqs[i]]
<1>0. N \in Nat /\ DOMAIN seqs = 1..N /\ \A i \in 1..N : seqs[i] \in Seq(A)
  OBVIOUS
<1>1. CASE N = 0
  <2>1. FlattenSeq(seqs) = seqs /\ seqs = <<>>
    BY <1>1 DEF FlattenSeq
  <2>2. <<>> \in Seq(A) /\ 1..0 = {}
    OBVIOUS
  <2>3. QED
    BY <1>1, <2>1, <2>2, RangeOfEmpty DEF Gathers
<1>2. CASE N # 0
  <2>1. FlattenSeq(seqs) = flatten[N]
    BY <1>2 DEF FlattenSeq
  <2>2. PICK f \in [1..N -> Seq(A)] : Flattens(f, seqs, N)
    BY <1>0, FlattenExists
  <2>3. f = [i \in 1..Len(seqs) |-> IF i = 1 THEN seqs[i] ELSE f[i - 1] \o seqs[i]]
    BY <2>2 DEF Flattens
  <2>4. flatten = [i \in 1..Len(seqs) |-> IF i = 1 THEN seqs[i] ELSE flatten[i - 1] \o seqs[i]]
    BY <2>3
  <2> HIDE DEF flatten
  <2>5. \A i \in 1..N : flatten[i] = IF i = 1 THEN seqs[i] ELSE flatten[i - 1] \o seqs[i]
    BY <2>4
  <2> HIDE DEF N
  <2> DEFINE T == {k \in Nat : k + 1 <= N => flatten[k + 1] \in Seq(A) /\ Gathers(flatten[k + 1], seqs, k + 1)}
  <2>6. 0 \in T
    <3>1. 1 \in 1..N /\ 0 + 1 = 1 /\ \A i \in 1..1 : i = 1
      BY <1>0, <1>2
    <3>2. flatten[1] = seqs[1] /\ seqs[1] \in Seq(A)
      BY <1>0, <2>5, <3>1
    <3>3. Gathers(flatten[1], seqs, 1)
      BY <3>1, <3>2 DEF Gathers
    <3>4. QED
      BY <3>1, <3>2, <3>3
  <2>7. ASSUME NEW k \in Nat, k \in T PROVE k + 1 \in T
    <3>1. SUFFICES ASSUME (k + 1) + 1 <= N
                   PROVE  flatten[(k + 1) + 1] \in Seq(A) /\ Gathers(flatten[(k + 1) + 1], seqs, (k + 1) + 1)
      OBVIOUS
    <3> DEFINE m == k + 1
    <3>2. /\ m \in Nat /\ m + 1 \in 1..N /\ m + 1 # 1 /\ (m + 1) - 1 = m /\ m <= N
          /\ \A i \in 1..(m + 1) : i \in 1..m \/ i = m + 1
          /\ \A i \in 1..m : i \in 1..(m + 1)
          /\ m + 1 \in 1..(m + 1)
      BY <1>0, <3>1
    <3>3. flatten[m] \in Seq(A) /\ Gathers(flatten[m], seqs, m)
      BY <2>7, <3>2
    <3> HIDE DEF m
    <3>4. flatten[m + 1] = flatten[m] \o seqs[m + 1] /\ seqs[m + 1] \in Seq(A)
      BY <1>0, <2>5, <3>2
    <3>5. flatten[m + 1] \in Seq(A) /\ RangeOf(flatten[m + 1]) = RangeOf(flatten[m]) \cup RangeOf(seqs[m + 1])
      BY <3>3, <3>4, RangeOfConcat
    <3>6. Gathers(flatten[m + 1], seqs, m + 1)
      BY <3>2, <3>3, <3>5 DEF Gathers
    <3>7. QED
      BY <3>5, <3>6 DEF m
  <2>8. Nat \subseteq T
    <3> HIDE DEF T
    <3>1. QED
      BY <2>6, <2>7, NatSetInduction
  <2>9. N - 1 \in Nat /\ (N - 1) + 1 = N
    BY <1>0, <1>2
  <2>10. flatten[N] \in Seq(A) /\ Gathers(flatten[N], seqs, N)
    BY <2>8, <2>9
  <2>11. QED
    BY <2>1, <2>10 DEF N
<1>3. QED
  BY <1>1, <1>2

\* Every open port of every host is judged, and nothing else.
LEMMA JudgedType ==
  ASSUME NEW found \in Seq(Host)
  PROVE  /\ Judged(found) \in Seq(Finding)
         /\ \A f : f \in RangeOf(Judged(found)) <=>
              \E i \in DOMAIN found : \E j \in DOMAIN found[i].ports :
                f = [host |-> found[i].host, port |-> found[i].ports[j].port,
                     protocol |-> found[i].ports[j].protocol,
                     severity |-> Verdict(found[i].ports[j])]
<1> DEFINE F(i, j) == [host |-> found[i].host, port |-> found[i].ports[j].port,
                       protocol |-> found[i].ports[j].protocol,
                       severity |-> Verdict(found[i].ports[j])]
           G(i) == [j \in DOMAIN found[i].ports |-> F(i, j)]
           all == [i \in DOMAIN found |-> G(i)]
<1>1. DOMAIN found = 1..Len(found) /\ Len(found) \in Nat /\ \A i \in 1..Len(found) : found[i] \in Host
  OBVIOUS
<1>2. ASSUME NEW i \in 1..Len(found)
      PROVE  G(i) \in Seq(Finding) /\ DOMAIN G(i) = DOMAIN found[i].ports
  <2>1. found[i].host \in Nat \ {0} /\ found[i].ports \in Seq(OpenPort)
    BY <1>1 DEF Host
  <2>2. /\ DOMAIN found[i].ports = 1..Len(found[i].ports) /\ Len(found[i].ports) \in Nat
        /\ \A j \in DOMAIN found[i].ports : found[i].ports[j] \in OpenPort
    BY <2>1
  <2>3. \A p \in OpenPort : p.port \in 1..MaxPort /\ p.protocol \in Protocols
    BY DEF OpenPort
  <2>4. \A j \in DOMAIN found[i].ports : F(i, j) \in Finding
    BY <2>1, <2>2, <2>3, VerdictType DEF Finding
  <2> HIDE DEF F
  <2>5. QED
    BY <2>2, <2>4
<1> HIDE DEF F, G
<1>3. all \in Seq(Seq(Finding)) /\ Len(all) = Len(found) /\ \A i \in 1..Len(found) : all[i] = G(i)
  BY <1>1, <1>2
<1>4. Judged(found) = FlattenSeq(all)
  BY DEF Judged, G, F
<1> HIDE DEF all
<1>5. Judged(found) \in Seq(Finding) /\ Gathers(Judged(found), all, Len(found))
  BY <1>3, <1>4, FlattenType
<1>6. ASSUME NEW i \in 1..Len(found)
      PROVE  \A f : f \in RangeOf(all[i]) <=> \E j \in DOMAIN found[i].ports : f = F(i, j)
  <2>1. RangeOf(all[i]) = {G(i)[j] : j \in DOMAIN found[i].ports}
    BY <1>2, <1>3 DEF RangeOf
  <2>2. \A j \in DOMAIN found[i].ports : G(i)[j] = F(i, j)
    BY DEF G
  <2>3. QED
    BY <2>1, <2>2
<1>7. \A f : f \in RangeOf(Judged(found)) <=>
        \E i \in DOMAIN found : \E j \in DOMAIN found[i].ports : f = F(i, j)
  <2>1. \A f : f \in RangeOf(Judged(found)) <=> \E i \in 1..Len(found) : f \in RangeOf(all[i])
    BY <1>5 DEF Gathers
  <2>2. ASSUME NEW f, f \in RangeOf(Judged(found))
        PROVE  \E i \in DOMAIN found : \E j \in DOMAIN found[i].ports : f = F(i, j)
    <3>1. PICK i \in 1..Len(found) : f \in RangeOf(all[i])
      BY <2>1, <2>2
    <3>2. \E j \in DOMAIN found[i].ports : f = F(i, j)
      BY <1>6, <3>1
    <3>3. QED
      BY <1>1, <3>1, <3>2
  <2>3. ASSUME NEW f, NEW i \in DOMAIN found, NEW j \in DOMAIN found[i].ports, f = F(i, j)
        PROVE  f \in RangeOf(Judged(found))
    <3>1. i \in 1..Len(found)
      BY <1>1
    <3>2. f \in RangeOf(all[i])
      BY <1>6, <2>3, <3>1
    <3>3. QED
      BY <2>1, <3>1, <3>2
  <2>4. QED
    BY <2>2, <2>3
<1>8. QED
  BY <1>5, <1>7 DEF F

(***************************************************************************)
(* The summary                                                             *)
(***************************************************************************)
SummaryType == [counts : [Severities -> Nat], highest : Severities, notable : Seq(Finding)]

LEMMA NothingType == Nothing \in SummaryType
<1>1. <<>> \in Seq(Finding) /\ Info \in Severities
  BY DEF Info, Severities
<1>2. QED
  BY <1>1 DEF Nothing, SummaryType

LEMMA CountType ==
  ASSUME NEW sum \in SummaryType, NEW f \in Finding
  PROVE  /\ Count(sum, f) \in SummaryType
         /\ \A s \in Severities :
              Count(sum, f).counts[s] = IF s = f.severity THEN sum.counts[s] + 1 ELSE sum.counts[s]
         /\ Count(sum, f).highest = (IF f.severity > sum.highest THEN f.severity ELSE sum.highest)
         /\ Count(sum, f).notable = (IF f.severity >= High THEN Append(sum.notable, f) ELSE sum.notable)
<1>1. /\ sum.counts \in [Severities -> Nat] /\ sum.highest \in Severities
      /\ sum.notable \in Seq(Finding) /\ f.severity \in Severities
  BY DEF SummaryType, Finding
<1> DEFINE c == [sum.counts EXCEPT ![f.severity] = @ + 1]
           h == IF f.severity > sum.highest THEN f.severity ELSE sum.highest
           n == IF f.severity >= High THEN Append(sum.notable, f) ELSE sum.notable
<1>2. c \in [Severities -> Nat] /\ h \in Severities /\ n \in Seq(Finding)
  BY <1>1
<1>3. Count(sum, f) = [counts |-> c, highest |-> h, notable |-> n]
  BY DEF Count
<1>4. \A s \in Severities : c[s] = IF s = f.severity THEN sum.counts[s] + 1 ELSE sum.counts[s]
  BY <1>1
<1> HIDE DEF c, n
<1>5. Count(sum, f) \in SummaryType
  BY <1>2, <1>3 DEF SummaryType
<1>6. QED
  BY <1>3, <1>4, <1>5 DEF n

\* The loop of _assess_results, one port at a time.
LEMMA CountingSteps ==
  ASSUME NEW list \in Seq(Finding)
  PROVE  \E h \in [0..Len(list) -> SummaryType] :
           /\ h[0] = Nothing
           /\ \A k \in 0..(Len(list) - 1) : h[k + 1] = Count(h[k], list[k + 1])
           /\ h[Len(list)] = FoldLeft(Count, Nothing, list)
<1> DEFINE N == Len(list)
           step == [p \in (1..N) \X SummaryType |-> Count(p[2], list[p[1]])]
           fold == CHOOSE f : f = [S \in SUBSET (DOMAIN list) |->
                     IF S = {} THEN Nothing ELSE Count(f[S \ {Max(S)}], list[Max(S)])]
<1>1. N \in Nat /\ DOMAIN list = 1..N /\ \A i \in 1..N : list[i] \in Finding
  OBVIOUS
<1>2. step \in [(1..N) \X SummaryType -> SummaryType]
  BY <1>1, CountType
<1>3. PICK f \in [SUBSET (1..N) -> SummaryType] : IsFold(f, Nothing, N, step)
  <2> HIDE DEF step, N
  <2>1. QED
    BY <1>1, <1>2, NothingType, FoldExists
<1>4. FoldLeft(Count, Nothing, list) = fold[DOMAIN list]
  BY DEF FoldLeft, MapThenFoldSet
<1> HIDE DEF N
<1>5. \A S \in SUBSET (1..N) : S # {} => Max(S) \in 1..N
  BY <1>1, MaxIsLargest
<1>6. f = [S \in SUBSET (DOMAIN list) |->
             IF S = {} THEN Nothing ELSE Count(f[S \ {Max(S)}], list[Max(S)])]
  <2>1. ASSUME NEW S \in SUBSET (1..N)
        PROVE  f[S] = IF S = {} THEN Nothing ELSE Count(f[S \ {Max(S)}], list[Max(S)])
    <3>1. CASE S = {}
      BY <1>3, <3>1 DEF IsFold
    <3>2. CASE S # {}
      <4>1. Max(S) \in 1..N /\ f[S \ {Max(S)}] \in SummaryType
        BY <1>5, <3>2
      <4>2. step[<<Max(S), f[S \ {Max(S)}]>>] = Count(f[S \ {Max(S)}], list[Max(S)])
        BY <4>1
      <4> HIDE DEF step
      <4>3. QED
        BY <1>3, <3>2, <4>2 DEF IsFold
    <3>3. QED
      BY <3>1, <3>2
  <2>2. QED
    BY <1>1, <2>1
<1>7. fold = [S \in SUBSET (DOMAIN list) |->
                IF S = {} THEN Nothing ELSE Count(fold[S \ {Max(S)}], list[Max(S)])]
  BY <1>6
<1> HIDE DEF fold
<1>8. fold[{}] = Nothing /\ 1..0 = {}
  BY <1>7
<1>9. ASSUME NEW k \in 0..(N - 1)
      PROVE  fold[1..(k + 1)] = Count(fold[1..k], list[k + 1])
  <2>1. k \in Nat /\ 1..(k + 1) \in SUBSET (1..N) /\ k + 1 \in 1..(k + 1)
    BY <1>1
  <2>2. Max(1..(k + 1)) = k + 1 /\ (1..(k + 1)) \ {k + 1} = 1..k
    BY <2>1, MaxOfSegment
  <2>3. QED
    BY <1>1, <1>7, <2>1, <2>2
<1>10. \A k \in 0..N : fold[1..k] \in SummaryType
  <2> DEFINE T == {k \in Nat : k <= N => fold[1..k] \in SummaryType}
  <2>1. 0 \in T
    BY <1>8, NothingType
  <2>2. ASSUME NEW k \in Nat, k \in T PROVE k + 1 \in T
    <3>1. SUFFICES ASSUME k + 1 <= N PROVE fold[1..(k + 1)] \in SummaryType
      OBVIOUS
    <3>2. k \in 0..(N - 1) /\ k + 1 \in 1..N /\ fold[1..k] \in SummaryType
      BY <1>1, <2>2, <3>1
    <3>3. QED
      BY <1>1, <1>9, <3>2, CountType
  <2>3. Nat \subseteq T
    <3> HIDE DEF T
    <3>1. QED
      BY <2>1, <2>2, NatSetInduction
  <2>4. QED
    BY <2>3
<1> DEFINE h == [k \in 0..N |-> fold[1..k]]
<1>11. h \in [0..N -> SummaryType] /\ h[0] = Nothing
  BY <1>1, <1>8, <1>10
<1>12. \A k \in 0..(N - 1) : h[k + 1] = Count(h[k], list[k + 1])
  BY <1>1, <1>9
<1>13. h[N] = FoldLeft(Count, Nothing, list)
  BY <1>1, <1>4
<1>14. QED
  BY <1>11, <1>12, <1>13 DEF N

\* What the loop has when it has seen the first k findings of a list.
Counts(sum, list, k) ==
  /\ \A s \in Severities : sum.counts[s] = Cardinality({i \in 1..k : list[i].severity = s})
  /\ \A i \in 1..k : list[i].severity <= sum.highest
  /\ sum.highest = Info \/ \E i \in 1..k : list[i].severity = sum.highest
  /\ \A f : f \in RangeOf(sum.notable) <=> \E i \in 1..k : f = list[i] /\ list[i].severity >= High

LEMMA CountsStep ==
  ASSUME NEW list \in Seq(Finding), NEW k \in Nat, k + 1 <= Len(list),
         NEW sum \in SummaryType, Counts(sum, list, k)
  PROVE  Counts(Count(sum, list[k + 1]), list, k + 1)
<1> DEFINE f == list[k + 1]
           more == Count(sum, f)
<1>1. f \in Finding /\ k + 1 \in 1..(k + 1) /\ \A i \in 1..(k + 1) : i \in 1..k \/ i = k + 1
  OBVIOUS
<1>2. \A i \in 1..k : i \in 1..(k + 1) /\ i # k + 1
  OBVIOUS
<1>3. /\ \A s \in Severities : more.counts[s] = IF s = f.severity THEN sum.counts[s] + 1 ELSE sum.counts[s]
      /\ more.highest = (IF f.severity > sum.highest THEN f.severity ELSE sum.highest)
      /\ more.notable = (IF f.severity >= High THEN Append(sum.notable, f) ELSE sum.notable)
  BY <1>1, CountType
<1>4. /\ f.severity \in Severities /\ sum.highest \in Severities /\ sum.notable \in Seq(Finding)
      /\ \A i \in 1..k : list[i].severity \in Severities
  <2>1. \A i \in 1..k : list[i] \in Finding
    OBVIOUS
  <2>2. QED
    BY <1>1, <2>1 DEF SummaryType, Finding
<1> HIDE DEF more
<1>5. ASSUME NEW s \in Severities
      PROVE  more.counts[s] = Cardinality({i \in 1..(k + 1) : list[i].severity = s})
  <2> DEFINE C == {i \in 1..k : list[i].severity = s}
             D == {i \in 1..(k + 1) : list[i].severity = s}
  <2>1. IsFiniteSet(C) /\ k + 1 \notin C
    <3>1. IsFiniteSet(1..k)
      BY FS_Interval
    <3>2. QED
      BY <3>1, FS_Subset
  <2>2. sum.counts[s] = Cardinality(C)
    BY DEF Counts
  <2>3. CASE f.severity = s
    <3>1. D = C \cup {k + 1}
      BY <1>1, <1>2, <2>3
    <3> HIDE DEF C, D
    <3>2. Cardinality(D) = Cardinality(C) + 1
      BY <2>1, <3>1, FS_AddElement
    <3>3. QED
      BY <1>3, <2>2, <2>3, <3>2 DEF D
  <2>4. CASE f.severity # s
    <3>1. D = C
      BY <1>1, <1>2, <2>4
    <3>2. QED
      BY <1>3, <2>2, <2>4, <3>1
  <2>5. QED
    BY <2>3, <2>4
<1>6. \A i \in 1..(k + 1) : list[i].severity <= more.highest
  BY <1>1, <1>3, <1>4 DEF Counts, Severities
<1>7. more.highest = Info \/ \E i \in 1..(k + 1) : list[i].severity = more.highest
  BY <1>1, <1>2, <1>3 DEF Counts
<1>8. \A g : g \in RangeOf(more.notable) <=>
        \E i \in 1..(k + 1) : g = list[i] /\ list[i].severity >= High
  <2>1. CASE f.severity >= High
    <3>1. RangeOf(more.notable) = RangeOf(sum.notable) \cup {f}
      BY <1>1, <1>3, <1>4, <2>1, RangeOfAppend
    <3>2. QED
      BY <1>1, <1>2, <2>1, <3>1 DEF Counts
  <2>2. CASE ~(f.severity >= High)
    <3>1. more.notable = sum.notable
      BY <1>3, <2>2
    <3>2. QED
      BY <1>1, <1>2, <2>2, <3>1 DEF Counts
  <2>3. QED
    BY <2>1, <2>2
<1>9. QED
  BY <1>5, <1>6, <1>7, <1>8 DEF Counts, more

\* The whole loop.
LEMMA CountingIsExact ==
  ASSUME NEW list \in Seq(Finding)
  PROVE  /\ FoldLeft(Count, Nothing, list) \in SummaryType
         /\ Counts(FoldLeft(Count, Nothing, list), list, Len(list))
<1> DEFINE N == Len(list)
<1>1. PICK h \in [0..N -> SummaryType] :
        /\ h[0] = Nothing
        /\ \A k \in 0..(N - 1) : h[k + 1] = Count(h[k], list[k + 1])
        /\ h[N] = FoldLeft(Count, Nothing, list)
  BY CountingSteps
<1>2. N \in Nat
  OBVIOUS
<1> DEFINE T == {k \in Nat : k <= N => Counts(h[k], list, k)}
<1>3. 0 \in T
  <2>1. 1..0 = {} /\ \A s \in Severities : {i \in 1..0 : list[i].severity = s} = {}
    OBVIOUS
  <2>2. Nothing.highest = Info /\ Nothing.notable = <<>> /\ \A s \in Severities : Nothing.counts[s] = 0
    BY DEF Nothing
  <2>3. Counts(Nothing, list, 0)
    BY <2>1, <2>2, FS_EmptySet, RangeOfEmpty DEF Counts
  <2>4. QED
    BY <1>1, <2>3
<1>4. ASSUME NEW k \in Nat, k \in T PROVE k + 1 \in T
  <2>1. SUFFICES ASSUME k + 1 <= N PROVE Counts(h[k + 1], list, k + 1)
    OBVIOUS
  <2>2. k \in 0..(N - 1) /\ k \in 0..N /\ Counts(h[k], list, k) /\ h[k] \in SummaryType
    BY <1>2, <1>4, <2>1
  <2>3. QED
    BY <1>1, <2>1, <2>2, CountsStep
<1>5. Nat \subseteq T
  <2> HIDE DEF T
  <2>1. QED
    BY <1>3, <1>4, NatSetInduction
<1>6. Counts(h[N], list, N) /\ h[N] \in SummaryType
  BY <1>2, <1>5
<1>7. QED
  BY <1>1, <1>6

(***************************************************************************)
(* The notable findings                                                    *)
(***************************************************************************)
\* The worst come first, and nothing is lost or invented by sorting.
LEMMA NotableInOrder ==
  ASSUME NEW s \in Seq(Finding)
  PROVE  /\ InOrder(s, WorseFirst) \in Seq(Finding)
         /\ Len(InOrder(s, WorseFirst)) = Len(s)
         /\ RangeOf(InOrder(s, WorseFirst)) = RangeOf(s)
         /\ \A i, j \in DOMAIN s :
              i < j => ~WorseFirst(InOrder(s, WorseFirst)[j], InOrder(s, WorseFirst)[i])
<1> DEFINE N == Len(s)
           Q == {q \in (1..N) \X (1..N) : ~WorseFirst(s[q[2]], s[q[1]])}
<1>1. N \in Nat /\ DOMAIN s = 1..N /\ \A i \in 1..N : s[i] \in Finding
  OBVIOUS
<1>2. \A i, j \in 1..N : <<i, j>> \in Q <=> ~WorseFirst(s[j], s[i])
  OBVIOUS
<1> HIDE DEF Q
<1>3. Orders(Q, N)
  <2>1. \A f \in Finding : f.severity \in Nat /\ f.host \in Nat /\ f.port \in Nat
    BY DEF Finding, Severities
  <2>2. \A f, g \in Finding : ~WorseFirst(f, g) \/ ~WorseFirst(g, f)
    BY <2>1 DEF WorseFirst
  <2>3. ASSUME NEW f \in Finding, NEW g \in Finding, NEW h \in Finding,
               ~WorseFirst(g, f), ~WorseFirst(h, g)
        PROVE  ~WorseFirst(h, f)
    <3>1. /\ f.severity \in Nat /\ f.host \in Nat /\ f.port \in Nat
          /\ g.severity \in Nat /\ g.host \in Nat /\ g.port \in Nat
          /\ h.severity \in Nat /\ h.host \in Nat /\ h.port \in Nat
      BY <2>1
    <3>2. QED
      BY <2>3, <3>1 DEF WorseFirst
  <2>4. QED
    BY <1>1, <1>2, <2>2, <2>3 DEF Orders
<1> HIDE DEF N
<1>4. PICK p \in Bijection(1..N, 1..N) : \A i, j \in 1..N : i < j => <<p[i], p[j]>> \in Q
  BY <1>1, <1>3, SortingExists
<1> DEFINE order == CHOOSE q \in Bijection(DOMAIN s, DOMAIN s) :
                      \A i, j \in DOMAIN s : i < j => ~WorseFirst(s[q[j]], s[q[i]])
<1>5. /\ order \in Bijection(DOMAIN s, DOMAIN s)
      /\ \A i, j \in DOMAIN s : i < j => ~WorseFirst(s[order[j]], s[order[i]])
  <2>1. p \in [1..N -> 1..N]
    BY DEF Bijection, Injection
  <2>2. \A i, j \in 1..N : i < j => ~WorseFirst(s[p[j]], s[p[i]])
    BY <1>2, <1>4, <2>1
  <2>3. QED
    BY <1>1, <2>2
<1>6. InOrder(s, WorseFirst) = [i \in DOMAIN s |-> s[order[i]]]
  BY DEF InOrder
<1> HIDE DEF order
<1>7. \A i, j \in DOMAIN s :
        i < j => ~WorseFirst(InOrder(s, WorseFirst)[j], InOrder(s, WorseFirst)[i])
  BY <1>5, <1>6
<1>8. QED
  BY <1>5, <1>6, <1>7, ReorderedType

\* What is cut off comes after what is kept, and something is kept of something.
LEMMA FirstOfType ==
  ASSUME NEW S, NEW s \in Seq(S)
  PROVE  /\ FirstOf(s, MaxNotable) \in Seq(S)
         /\ \A k \in DOMAIN FirstOf(s, MaxNotable) :
              k \in DOMAIN s /\ FirstOf(s, MaxNotable)[k] = s[k]
         /\ \A i \in DOMAIN s, k \in DOMAIN FirstOf(s, MaxNotable) :
              i \notin DOMAIN FirstOf(s, MaxNotable) => k < i
         /\ s # <<>> => 1 \in DOMAIN FirstOf(s, MaxNotable)
<1> DEFINE n == IF Len(s) < MaxNotable THEN Len(s) ELSE MaxNotable
           t == SubSeq(s, 1, n)
<1>1. MaxNotable \in Nat \ {0}
  BY NotableAssumption
<1>2. n \in Nat /\ n <= Len(s) /\ Len(s) \in Nat /\ DOMAIN s = 1..Len(s)
  BY <1>1
<1>3. s # <<>> => Len(s) >= 1
  OBVIOUS
<1>4. s # <<>> => n >= 1
  BY <1>1, <1>2, <1>3
<1> HIDE DEF n
<1>5. t \in Seq(S) /\ DOMAIN t = 1..n /\ \A k \in 1..n : t[k] = s[k]
  BY <1>2
<1>6. FirstOf(s, MaxNotable) = t
  BY DEF FirstOf, n
<1> HIDE DEF t
<1>7. QED
  BY <1>2, <1>4, <1>5, <1>6

LEMMA FirstOfBound ==
  ASSUME NEW S, NEW s \in Seq(S)
  PROVE  Len(FirstOf(s, MaxNotable)) <= MaxNotable
<1>1. MaxNotable \in Nat \ {0} /\ Len(s) \in Nat
  BY NotableAssumption
<1>2. QED
  BY <1>1 DEF FirstOf

\* The summary of any findings: every count is exact, the highest severity is
\* that of a finding and of none below, and what is shown is notable, sorted, and
\* no better than what was cut.
Exact(summary, judged) ==
  LET shown   == RangeOf(summary.notable)
      notable == {f \in RangeOf(judged) : f.severity >= High}
  IN  /\ \A s \in Severities :
           summary.counts[s] = Cardinality({i \in DOMAIN judged : judged[i].severity = s})
      /\ \A f \in RangeOf(judged) : f.severity <= summary.highest
      /\ summary.highest = Info \/ \E f \in RangeOf(judged) : f.severity = summary.highest
      /\ summary.highest >= High => summary.notable[1].severity = summary.highest
      /\ shown \subseteq notable
      /\ \A f \in notable \ shown : \A g \in shown : f.severity <= g.severity
      /\ Len(summary.notable) <= MaxNotable
      /\ \A i, j \in DOMAIN summary.notable :
           i < j => ~WorseFirst(summary.notable[j], summary.notable[i])

LEMMA SummaryFields ==
  ASSUME NEW found \in Seq(Host)
  PROVE  LET whole == FoldLeft(Count, Nothing, Judged(found))
         IN  /\ Summary(found).counts = whole.counts
             /\ Summary(found).highest = whole.highest
             /\ Summary(found).notable = FirstOf(InOrder(whole.notable, WorseFirst), MaxNotable)
<1> DEFINE whole == FoldLeft(Count, Nothing, Judged(found))
<1>1. whole \in SummaryType
  BY JudgedType, CountingIsExact
<1>2. Summary(found) = [whole EXCEPT !.notable = FirstOf(InOrder(whole.notable, WorseFirst), MaxNotable)]
  BY DEF Summary
<1> HIDE DEF whole
<1>3. QED
  BY <1>1, <1>2 DEF SummaryType, whole

\* What _assess_results makes of any findings is exact.
THEOREM AssessmentIsExact ==
  ASSUME NEW found \in Seq(Host)
  PROVE  Exact(Summary(found), Judged(found))
<1> DEFINE judged  == Judged(found)
           whole   == FoldLeft(Count, Nothing, judged)
           sorted  == InOrder(whole.notable, WorseFirst)
           listed  == FirstOf(sorted, MaxNotable)
           notable == {f \in RangeOf(judged) : f.severity >= High}
           sum     == Summary(found)
<1>1. judged \in Seq(Finding)
  BY JudgedType
<1> HIDE DEF judged
<1>2. whole \in SummaryType /\ Counts(whole, judged, Len(judged))
  BY <1>1, CountingIsExact
<1>3. sum.counts = whole.counts /\ sum.highest = whole.highest /\ sum.notable = listed
  BY SummaryFields DEF judged
<1> HIDE DEF whole, sum
<1>4. /\ whole.notable \in Seq(Finding) /\ whole.highest \in Severities
      /\ DOMAIN judged = 1..Len(judged) /\ \A i \in DOMAIN judged : judged[i] \in Finding
  BY <1>1, <1>2 DEF SummaryType
<1>5. /\ sorted \in Seq(Finding) /\ RangeOf(sorted) = RangeOf(whole.notable)
      /\ DOMAIN sorted = 1..Len(sorted)
      /\ \A i, j \in DOMAIN sorted : i < j => ~WorseFirst(sorted[j], sorted[i])
  <2> DEFINE list == whole.notable
  <2>1. list \in Seq(Finding)
    BY <1>4
  <2> HIDE DEF list
  <2>2. /\ InOrder(list, WorseFirst) \in Seq(Finding)
        /\ Len(InOrder(list, WorseFirst)) = Len(list)
        /\ RangeOf(InOrder(list, WorseFirst)) = RangeOf(list)
        /\ \A i, j \in DOMAIN list :
             i < j => ~WorseFirst(InOrder(list, WorseFirst)[j], InOrder(list, WorseFirst)[i])
    BY <2>1, NotableInOrder
  <2>3. sorted = InOrder(list, WorseFirst)
    BY DEF list
  <2> HIDE DEF sorted
  <2>4. DOMAIN sorted = 1..Len(sorted) /\ DOMAIN list = 1..Len(list)
    BY <2>1, <2>2, <2>3
  <2>5. QED
    BY <2>2, <2>3, <2>4 DEF list
<1> HIDE DEF sorted
<1>6. /\ \A k \in DOMAIN listed : k \in DOMAIN sorted /\ listed[k] = sorted[k]
      /\ \A i \in DOMAIN sorted, k \in DOMAIN listed : i \notin DOMAIN listed => k < i
      /\ sorted # <<>> => 1 \in DOMAIN listed
  BY <1>5, FirstOfType
<1>7. RangeOf(sorted) = notable
  <2>1. \A f : f \in RangeOf(sorted) <=>
          \E i \in DOMAIN judged : f = judged[i] /\ judged[i].severity >= High
    BY <1>2, <1>4, <1>5 DEF Counts
  <2>2. \A f : f \in RangeOf(judged) <=> \E i \in DOMAIN judged : f = judged[i]
    BY DEF RangeOf
  <2>3. QED
    BY <2>1, <2>2
<1>8. \A f \in RangeOf(judged) : f.severity <= whole.highest /\ f \in Finding
  <2>1. \A i \in DOMAIN judged : judged[i].severity <= whole.highest
    BY <1>2, <1>4 DEF Counts
  <2>2. QED
    BY <1>4, <2>1 DEF RangeOf
<1>9. whole.highest = Info \/ \E f \in RangeOf(judged) : f.severity = whole.highest
  BY <1>2, <1>4 DEF Counts, RangeOf
<1> HIDE DEF listed
<1>10. RangeOf(listed) \subseteq notable
  <2>1. \A k \in DOMAIN listed : listed[k] \in RangeOf(sorted)
    BY <1>6 DEF RangeOf
  <2>2. RangeOf(listed) \subseteq RangeOf(sorted)
    BY <2>1 DEF RangeOf
  <2>3. QED
    BY <1>7, <2>2
<1>11. \A i, j \in DOMAIN sorted : i < j => sorted[j].severity <= sorted[i].severity
  <2>1. \A f, g \in Finding : ~WorseFirst(g, f) => g.severity <= f.severity
    BY DEF WorseFirst, Finding, Severities
  <2>2. \A i \in DOMAIN sorted : sorted[i] \in Finding
    BY <1>5
  <2>3. QED
    BY <1>5, <2>1, <2>2
<1>12. ASSUME NEW f \in notable \ RangeOf(listed), NEW g \in RangeOf(listed)
       PROVE  f.severity <= g.severity
  <2>1. PICK i \in DOMAIN sorted : f = sorted[i]
    BY <1>7 DEF RangeOf
  <2>2. PICK k \in DOMAIN listed : g = listed[k]
    BY DEF RangeOf
  <2>3. i \notin DOMAIN listed
    BY <1>6, <2>1 DEF RangeOf
  <2>4. k < i /\ k \in DOMAIN sorted /\ g = sorted[k]
    BY <1>6, <2>2, <2>3
  <2>5. QED
    BY <1>11, <2>1, <2>4
<1>13. whole.highest >= High => listed[1].severity = whole.highest
  <2>0. \A f \in Finding : f.severity \in Nat
    BY DEF Finding, Severities
  <2>1. SUFFICES ASSUME whole.highest >= High PROVE listed[1].severity = whole.highest
    OBVIOUS
  <2>2. PICK f \in RangeOf(judged) : f.severity = whole.highest
    BY <1>9, <2>1 DEF High, Info
  <2>3. f \in RangeOf(sorted)
    BY <1>7, <2>1, <2>2
  <2>4. PICK i \in DOMAIN sorted : f = sorted[i]
    BY <2>3 DEF RangeOf
  <2>5. sorted # <<>> /\ 1 \in DOMAIN listed /\ listed[1] = sorted[1] /\ 1 \in DOMAIN sorted
    BY <1>5, <1>6, <2>4
  <2>6. sorted[i].severity <= sorted[1].severity
    <3>1. i = 1 \/ 1 < i
      BY <1>5
    <3>2. sorted[i].severity \in Nat
      BY <1>5, <2>0
    <3>3. QED
      BY <1>11, <2>5, <3>1, <3>2
  <2>7. sorted[1] \in RangeOf(judged)
    BY <1>7, <2>5 DEF RangeOf
  <2>8. sorted[1].severity <= whole.highest /\ sorted[1].severity \in Nat /\ whole.highest \in Nat
    BY <1>4, <1>8, <2>0, <2>7 DEF Severities
  <2>9. QED
    BY <2>2, <2>4, <2>5, <2>6, <2>8
<1>14. Len(listed) <= MaxNotable
  BY <1>5, FirstOfBound DEF listed
<1>15. \A i, j \in DOMAIN listed : i < j => ~WorseFirst(listed[j], listed[i])
  BY <1>5, <1>6
<1>16. \A s \in Severities :
         whole.counts[s] = Cardinality({i \in DOMAIN judged : judged[i].severity = s})
  BY <1>2, <1>4 DEF Counts
<1>17. QED
  BY <1>3, <1>8, <1>9, <1>10, <1>12, <1>13, <1>14, <1>15, <1>16 DEF Exact, judged, sum

\* What is stored of a report is what it says: a port of a host is stored exactly
\* when an element of an answering host with a readable address has it open, with
\* a number and a protocol that are kept.
THEOREM ReportIsKept ==
  ASSUME NEW report \in Seq(HostElements), NEW address, NEW port
  PROVE  (\E h \in RangeOf(Parsed(report)) : h.host = address /\ port \in RangeOf(h.ports))
           <=> \E e \in RangeOf(report) :
                 /\ Answered(e) /\ e.host = address
                 /\ \E p \in RangeOf(e.ports) : Reportable(p) /\ port = ReadPort(p)
<1>1. \A g : g \in RangeOf(Parsed(report)) <=>
        \E e \in RangeOf(report) : /\ Answered(e) /\ OpenPorts(e) # <<>>
                                   /\ g = [host |-> e.host, ports |-> OpenPorts(e)]
  BY ParsedType
<1>2. RangeOf(report) \subseteq HostElements
  BY DEF RangeOf
<1>3. ASSUME NEW e \in RangeOf(report)
      PROVE  port \in RangeOf(OpenPorts(e)) <=>
               \E p \in RangeOf(e.ports) : Reportable(p) /\ port = ReadPort(p)
  BY <1>2, OpenPortsType
<1>4. ASSUME NEW h \in RangeOf(Parsed(report)), h.host = address, port \in RangeOf(h.ports)
      PROVE  \E e \in RangeOf(report) :
               /\ Answered(e) /\ e.host = address
               /\ \E p \in RangeOf(e.ports) : Reportable(p) /\ port = ReadPort(p)
  <2>1. PICK e \in RangeOf(report) :
          Answered(e) /\ h = [host |-> e.host, ports |-> OpenPorts(e)]
    BY <1>1
  <2>2. e.host = address /\ port \in RangeOf(OpenPorts(e))
    BY <1>4, <2>1
  <2>3. QED
    BY <1>3, <2>1, <2>2
<1>5. ASSUME NEW e \in RangeOf(report), Answered(e), e.host = address,
             \E p \in RangeOf(e.ports) : Reportable(p) /\ port = ReadPort(p)
      PROVE  \E h \in RangeOf(Parsed(report)) : h.host = address /\ port \in RangeOf(h.ports)
  <2> DEFINE h == [host |-> e.host, ports |-> OpenPorts(e)]
  <2>1. port \in RangeOf(OpenPorts(e))
    BY <1>3, <1>5
  <2>2. OpenPorts(e) # <<>>
    BY <2>1, RangeOfEmpty
  <2>3. h.host = address /\ port \in RangeOf(h.ports)
    BY <1>5, <2>1
  <2>4. h \in RangeOf(Parsed(report))
    BY <1>1, <1>5, <2>2
  <2> HIDE DEF h
  <2>5. QED
    BY <2>3, <2>4
<1>6. QED
  BY <1>4, <1>5

\* assess_port: no port has two severities, a service never changes the severity
\* of a port with a rule, and of the keywords in a service the first decides.
THEOREM VerdictsAreUnambiguous ==
  ASSUME NEW p
  PROVE  /\ \A s \in DOMAIN PortsRated : p.port \in PortsRated[s] => Verdict(p) = s
         /\ \A k \in DOMAIN Keywords :
              /\ \A s \in DOMAIN PortsRated : p.port \notin PortsRated[s]
              /\ <<p.service, Keywords[k][1]>> \in Mentions
              /\ \A j \in DOMAIN Keywords : j < k => <<p.service, Keywords[j][1]>> \notin Mentions
              => Verdict(p) = Keywords[k][2]
<1> DEFINE hits == {k \in DOMAIN Keywords : <<p.service, Keywords[k][1]>> \in Mentions}
<1>1. DOMAIN PortsRated = 1..4
  BY DEF PortsRated, Low, Critical
<1>2. ASSUME NEW s \in DOMAIN PortsRated, p.port \in PortsRated[s]
      PROVE  Verdict(p) = s
  <2>1. \A t \in DOMAIN PortsRated : p.port \in PortsRated[t] => t = s
    <3>1. s \in 1..4
      BY <1>1
    <3>2. \A t \in 1..4 : p.port \in PortsRated[t] => t = s
      BY <1>2, <3>1 DEF PortsRated, Low, Medium, High, Critical
    <3>3. QED
      BY <1>1, <3>2
  <2>2. Verdict(p) = CHOOSE t \in DOMAIN PortsRated : p.port \in PortsRated[t]
    BY <1>2 DEF Verdict
  <2>3. QED
    BY <1>2, <2>1, <2>2
<1>3. ASSUME NEW k \in DOMAIN Keywords,
             \A s \in DOMAIN PortsRated : p.port \notin PortsRated[s],
             <<p.service, Keywords[k][1]>> \in Mentions,
             \A j \in DOMAIN Keywords : j < k => <<p.service, Keywords[j][1]>> \notin Mentions
      PROVE  Verdict(p) = Keywords[k][2]
  <2>1. k \in hits /\ hits \subseteq DOMAIN Keywords
    BY <1>3
  <2>2. DOMAIN Keywords = 1..12
    BY DEF Keywords
  <2>3. \A j \in hits : k <= j
    <3>1. \A j \in hits : ~(j < k)
      BY <1>3
    <3>2. k \in Nat /\ \A j \in hits : j \in Nat
      BY <2>1, <2>2
    <3>3. QED
      BY <3>1, <3>2
  <2>4. Verdict(p) = Keywords[CHOOSE i \in hits : \A j \in hits : i <= j][2]
    BY <1>3, <2>1 DEF Verdict
  <2>5. \A i \in hits : (\A j \in hits : i <= j) => i = k
    <3>1. k \in Nat /\ \A j \in hits : j \in Nat
      BY <2>1, <2>2
    <3>2. QED
      BY <2>1, <2>3, <3>1
  <2> HIDE DEF hits
  <2>6. (CHOOSE i \in hits : \A j \in hits : i <= j) = k
    BY <2>1, <2>3, <2>5
  <2>7. QED
    BY <2>4, <2>6
<1>4. QED
  BY <1>2, <1>3
=============================================================================

------------------------------ MODULE ListProofs ------------------------------
(***************************************************************************)
(* Lemmas about lists that the proofs of Backfill, Fetch, Deltas and       *)
(* Sections rest on, and induction on numbers.                             *)
(***************************************************************************)
EXTENDS Lists, SequencesExt, FiniteSetTheorems, SequenceTheorems, TLAPS

NoRepeats(s) == \A i, j \in DOMAIN s : s[i] = s[j] => i = j

\* R orders the members of S, any two of them.
IsOrder(S, R) ==
  /\ \A x \in S : <<x, x>> \notin R
  /\ \A x, y, z \in S : <<x, y>> \in R /\ <<y, z>> \in R => <<x, z>> \in R
  /\ \A x, y \in S : x = y \/ <<x, y>> \in R \/ <<y, x>> \in R

\* Ranked lists each member of a set once, in its order: the rank in the set tells
\* them apart, and every rank is taken.
LEMMA RankedListsEach ==
  ASSUME NEW S, IsFiniteSet(S), NEW R, IsOrder(S, R)
  PROVE  /\ Ranked(S, R) \in Seq(S)
         /\ NoRepeats(Ranked(S, R))
         /\ ToSet(Ranked(S, R)) = S
         /\ DOMAIN Ranked(S, R) = 1 .. Cardinality(S) /\ Cardinality(S) \in Nat
         /\ \A i, j \in DOMAIN Ranked(S, R) : i < j => <<Ranked(S, R)[i], Ranked(S, R)[j]>> \in R
<1> DEFINE n == Cardinality(S)
           Before(d) == {e \in S : <<e, d>> \in R}
           rank == [d \in S |-> Cardinality(Before(d))]
<1>1. n \in Nat
  BY FS_CardinalityType
<1>2. ASSUME NEW d \in S PROVE rank[d] \in 0 .. n - 1
  <2>1. Before(d) \in SUBSET S /\ Before(d) # S
    BY <1>2 DEF IsOrder
  <2>2. IsFiniteSet(Before(d)) /\ Cardinality(Before(d)) <= n /\ Cardinality(Before(d)) # n
    BY <2>1, FS_Subset, Zenon
  <2>3. Cardinality(Before(d)) \in Nat
    BY <2>2, FS_CardinalityType
  <2> QED
    BY <1>1, <2>2, <2>3
<1>3. ASSUME NEW d \in S, NEW e \in S, <<d, e>> \in R PROVE rank[d] # rank[e]
  <2>1. d \in Before(e) /\ d \notin Before(d) /\ \A c \in Before(d) : c \in Before(e)
    BY <1>3 DEF IsOrder
  <2>2. IsFiniteSet(Before(e))
    BY FS_Subset
  <2>3. Cardinality(Before(d)) # Cardinality(Before(e))
    <3>1. Before(d) \in SUBSET Before(e) /\ Before(d) # Before(e)
      BY <2>1
    <3> QED
      BY <2>2, <3>1, FS_Subset, Zenon
  <2> QED
    BY <2>3
<1>4. rank \in Injection(S, 0 .. n - 1)
  <2>1. rank \in [S -> 0 .. n - 1]
    BY <1>2
  <2>2. \A d, e \in S : rank[d] = rank[e] => d = e
    <3> SUFFICES ASSUME NEW d \in S, NEW e \in S, d # e PROVE rank[d] # rank[e]
      OBVIOUS
    <3>1. <<d, e>> \in R \/ <<e, d>> \in R
      BY DEF IsOrder
    <3> QED
      BY <3>1, <1>3
  <2> QED
    BY <2>1, <2>2, Zenon DEF Injection, IsInjective
<1>5. \A i \in 1 .. n : \E d \in S : Cardinality(Before(d)) = i - 1
  <2>1. IsFiniteSet(0 .. n - 1) /\ Cardinality(0 .. n - 1) = n
    BY <1>1, FS_Interval
  <2>2. rank \in Surjection(S, 0 .. n - 1)
    BY <1>4, <2>1, FS_Injection
  <2>3. \A r \in 0 .. n - 1 : \E d \in S : rank[d] = r
    BY <2>2 DEF Surjection
  <2>4. \A r \in 0 .. n - 1 : \E d \in S : Cardinality(Before(d)) = r
    BY <2>3, Zenon
  <2>5. \A i \in 1 .. n : i - 1 \in 0 .. n - 1
    BY <1>1
  <2> QED
    BY <2>4, <2>5, Zenon
<1> DEFINE s == Ranked(S, R)
<1>6. /\ s = [i \in DOMAIN s |-> s[i]] /\ DOMAIN s = 1 .. n
      /\ \A i \in 1 .. n : s[i] \in S /\ rank[s[i]] = i - 1
  <2>1. \A i \in 1 .. n : /\ s[i] = CHOOSE d \in S : Cardinality(Before(d)) = i - 1
                          /\ s[i] \in S /\ Cardinality(Before(s[i])) = i - 1
    BY <1>5, Zenon DEF Ranked
  <2> QED
    BY <2>1, Zenon DEF Ranked
<1> HIDE DEF rank, s
<1>7. s \in Seq(S) /\ \A i \in 1 .. n : s[i] \in S
  <2>1. s \in [1 .. n -> S]
    BY <1>6, Zenon
  <2> QED
    BY <1>1, <1>6, <2>1
<1>8. NoRepeats(s)
  BY <1>1, <1>6 DEF NoRepeats
<1>9. ASSUME NEW d \in S PROVE \E i \in 1 .. n : s[i] = d
  <2>1. PICK i \in 1 .. n : i - 1 = rank[d]
    <3>1. rank[d] + 1 \in 1 .. n /\ (rank[d] + 1) - 1 = rank[d]
      BY <1>1, <1>2
    <3> QED
      BY <3>1
  <2>2. s[i] \in S /\ rank[s[i]] = rank[d]
    BY <1>6, <2>1
  <2>3. <<s[i], d>> \in R \/ <<d, s[i]>> \in R \/ s[i] = d
    BY <1>9, <2>2 DEF IsOrder
  <2>4. s[i] = d
    <3>1. CASE <<s[i], d>> \in R
      BY <1>3, <1>9, <2>2, <3>1
    <3>2. CASE <<d, s[i]>> \in R
      BY <1>3, <1>9, <2>2, <3>2
    <3> QED
      BY <2>3, <3>1, <3>2
  <2> QED
    BY <2>1, <2>4
<1>10. ToSet(s) = S
  <2>1. ToSet(s) = {s[i] : i \in 1 .. n}
    BY <1>6, Zenon DEF ToSet
  <2>2. ToSet(s) \subseteq S
    BY <1>7, <2>1
  <2>3. S \subseteq ToSet(s)
    BY <1>9, <2>1
  <2> QED
    BY <2>2, <2>3
<1>11. ASSUME NEW i \in 1 .. n, NEW j \in 1 .. n, i < j PROVE <<s[i], s[j]>> \in R
  <2>1. /\ s[i] \in S /\ s[j] \in S
        /\ Cardinality(Before(s[i])) = i - 1 /\ Cardinality(Before(s[j])) = j - 1
    <3>1. s[i] \in S /\ s[j] \in S /\ rank[s[i]] = i - 1 /\ rank[s[j]] = j - 1
      BY <1>6, <1>11
    <3> QED
      BY <3>1 DEF rank
  <2>2. s[i] # s[j]
    <3>1. i - 1 # j - 1
      BY <1>1, <1>11
    <3> QED
      BY <2>1, <3>1, Zenon
  <2>3. ASSUME <<s[j], s[i]>> \in R
        PROVE  Cardinality(Before(s[j])) <= Cardinality(Before(s[i]))
    <3>1. \A e \in S : <<e, s[j]>> \in R => <<e, s[i]>> \in R
      BY <2>1, <2>3 DEF IsOrder
    <3>2. Before(s[j]) \in SUBSET Before(s[i])
      BY <3>1
    <3>3. IsFiniteSet(Before(s[i]))
      BY FS_Subset
    <3> QED
      BY <3>2, <3>3, FS_Subset, Zenon
  <2>4. ~(<<s[j], s[i]>> \in R)
    BY <1>1, <1>11, <2>1, <2>3
  <2> QED
    BY <2>1, <2>2, <2>4 DEF IsOrder
<1> QED
  BY <1>1, <1>6, <1>7, <1>8, <1>10, <1>11 DEF s

\* InOrder lists each number of a set once, in ascending order.
LEMMA InOrderListsEach ==
  ASSUME NEW S \in SUBSET Int, IsFiniteSet(S)
  PROVE  /\ InOrder(S) \in Seq(S)
         /\ NoRepeats(InOrder(S))
         /\ ToSet(InOrder(S)) = S
         /\ DOMAIN InOrder(S) = 1 .. Cardinality(S) /\ Cardinality(S) \in Nat
         /\ \A i, j \in DOMAIN InOrder(S) : i < j => InOrder(S)[i] < InOrder(S)[j]
<1> DEFINE R == {pair \in S \X S : pair[1] < pair[2]}
           s == Ranked(S, R)
<1>1. \A x, y \in S : <<x, y>> \in R <=> x < y
  OBVIOUS
<1>2. s = InOrder(S)
  BY Zenon DEF InOrder
<1>3. \A x, y : <<x, y>> \in R => x < y
  OBVIOUS
<1> HIDE DEF R, s
<1>4. IsOrder(S, R)
  <2>1. \A x \in S : <<x, x>> \notin R
    BY <1>1
  <2>2. \A x, y, z \in S : <<x, y>> \in R /\ <<y, z>> \in R => <<x, z>> \in R
    BY <1>1
  <2>3. \A x, y \in S : x = y \/ <<x, y>> \in R \/ <<y, x>> \in R
    <3>1. \A x, y \in S : x = y \/ x < y \/ y < x
      OBVIOUS
    <3> QED
      BY <1>1, <3>1, Zenon
  <2> QED
    BY <2>1, <2>2, <2>3 DEF IsOrder
<1>5. /\ s \in Seq(S) /\ NoRepeats(s) /\ ToSet(s) = S
      /\ DOMAIN s = 1 .. Cardinality(S) /\ Cardinality(S) \in Nat
      /\ \A i, j \in DOMAIN s : i < j => <<s[i], s[j]>> \in R
  BY <1>4, RankedListsEach, Zenon DEF s
<1> QED
  BY <1>2, <1>3, <1>5, Zenon

LEMMA HeadAndTail ==
  ASSUME NEW D, NEW s \in Seq(D), s # <<>>
  PROVE  /\ Head(s) \in D /\ Tail(s) \in Seq(D)
         /\ ToSet(s) = {Head(s)} \cup ToSet(Tail(s))
         /\ NoRepeats(s) => NoRepeats(Tail(s)) /\ Head(s) \notin ToSet(Tail(s))
<1>1. Len(s) \in Nat \ {0} /\ DOMAIN s = 1 .. Len(s) /\ Head(s) = s[1]
  BY EmptySeq, LenProperties
<1>2. /\ Head(s) \in D /\ Tail(s) \in Seq(D) /\ Len(Tail(s)) = Len(s) - 1
      /\ \A i \in 1 .. Len(s) - 1 : Tail(s)[i] = s[i + 1]
  BY HeadTailProperties
<1>3. DOMAIN Tail(s) = 1 .. Len(s) - 1
  BY <1>2, LenProperties
<1> DEFINE t == Tail(s)
           m == Len(s)
<1>4. t = Tail(s) /\ m \in Nat \ {0} /\ DOMAIN t = 1 .. m - 1 /\ DOMAIN s = 1 .. m
  BY <1>1, <1>3
<1>5. \A i \in 1 .. m - 1 : t[i] = s[i + 1]
  BY <1>2
<1> HIDE DEF t, m
<1>6. \A i \in 1 .. m : i # 1 => i - 1 \in 1 .. m - 1 /\ t[i - 1] = s[i]
  BY <1>4, <1>5
<1>7. ToSet(s) = {Head(s)} \cup ToSet(t)
  <2>1. ToSet(s) = {s[i] : i \in 1 .. m} /\ ToSet(t) = {t[i] : i \in 1 .. m - 1}
    BY <1>4, Zenon DEF ToSet
  <2>2. 1 \in 1 .. m /\ \A i \in 1 .. m - 1 : i + 1 \in 1 .. m
    BY <1>4
  <2>3. \A i \in 1 .. m : s[i] = Head(s) \/ s[i] \in ToSet(t)
    <3> SUFFICES ASSUME NEW i \in 1 .. m, i # 1 PROVE s[i] \in ToSet(t)
      BY <1>1, Zenon
    <3>1. i - 1 \in 1 .. m - 1 /\ t[i - 1] = s[i]
      BY <1>6
    <3> QED
      BY <2>1, <3>1, Zenon
  <2>4. \A i \in 1 .. m - 1 : t[i] \in ToSet(s)
    BY <1>5, <2>1, <2>2
  <2>5. Head(s) \in ToSet(s)
    BY <1>1, <2>1, <2>2
  <2> QED
    BY <2>1, <2>3, <2>4, <2>5
<1>8. ASSUME NoRepeats(s) PROVE NoRepeats(t) /\ Head(s) \notin ToSet(t)
  <2>1. \A i, j \in 1 .. m : s[i] = s[j] => i = j
    BY <1>4, <1>8 DEF NoRepeats
  <2>2. \A i \in 1 .. m - 1 : i + 1 \in 1 .. m /\ i + 1 # 1 /\ 1 \in 1 .. m
    BY <1>4
  <2>3. \A i, j \in 1 .. m - 1 : t[i] = t[j] => i = j
    <3> SUFFICES ASSUME NEW i \in 1 .. m - 1, NEW j \in 1 .. m - 1, t[i] = t[j] PROVE i = j
      OBVIOUS
    <3>1. i + 1 = j + 1
      BY <1>5, <2>1, <2>2
    <3> QED
      BY <3>1
  <2>4. \A i \in 1 .. m - 1 : t[i] # Head(s)
    <3> SUFFICES ASSUME NEW i \in 1 .. m - 1 PROVE t[i] # Head(s)
      OBVIOUS
    <3>1. s[i + 1] # s[1]
      BY <2>1, <2>2
    <3> QED
      BY <1>1, <1>5, <3>1
  <2> QED
    BY <1>4, <2>3, <2>4 DEF NoRepeats, ToSet
<1> QED
  BY <1>2, <1>4, <1>7, <1>8

LEMMA PrefixIsPart ==
  ASSUME NEW D, NEW s \in Seq(D), NEW n \in 1 .. Len(s), NoRepeats(s)
  PROVE  /\ SubSeq(s, 1, n) \in Seq(D) /\ NoRepeats(SubSeq(s, 1, n))
         /\ ToSet(SubSeq(s, 1, n)) \subseteq ToSet(s)
<1> DEFINE t == SubSeq(s, 1, n)
<1>1. Len(s) \in Nat /\ DOMAIN s = 1 .. Len(s) /\ \A i \in 1 .. n : s[i] \in D
  BY LenProperties, ElementOfSeq
<1>2. t \in Seq(D) /\ Len(t) = n /\ \A i \in 1 .. n : t[i] = s[i]
  <2>1. /\ t \in Seq(D) /\ Len(t) = IF 1 <= n THEN n - 1 + 1 ELSE 0
        /\ \A i \in 1 .. n - 1 + 1 : t[i] = s[1 + i - 1]
    BY <1>1, SubSeqProperties
  <2> HIDE DEF t
  <2> QED
    BY <1>1, <2>1
<1>3. DOMAIN t = 1 .. n /\ 1 .. n \subseteq DOMAIN s
  BY <1>1, <1>2, LenProperties
<1> HIDE DEF t
<1>4. NoRepeats(t)
  BY <1>2, <1>3 DEF NoRepeats
<1>5. ToSet(t) \subseteq ToSet(s)
  BY <1>2, <1>3 DEF ToSet
<1> QED
  BY <1>2, <1>4, <1>5 DEF t

LEMMA SmallestOfNumbers ==
  ASSUME NEW S \in SUBSET Int, IsFiniteSet(S), S # {}
  PROVE  \E x \in S : \A y \in S : x <= y
<1> DEFINE s == InOrder(S)
           n == Cardinality(S)
<1>1. /\ s \in Seq(S) /\ ToSet(s) = S /\ DOMAIN s = 1 .. n /\ n \in Nat
      /\ \A i, j \in DOMAIN s : i < j => s[i] < s[j]
  BY InOrderListsEach
<1> HIDE DEF s, n
<1>2. \A i \in 1 .. n : s[i] \in S
  BY <1>1
<1>3. \A y \in S : \E i \in 1 .. n : y = s[i]
  BY <1>1 DEF ToSet
<1>4. 1 \in 1 .. n
  <2>1. PICK y \in S : TRUE
    OBVIOUS
  <2>2. PICK i \in 1 .. n : y = s[i]
    BY <1>3, <2>1
  <2> QED
    BY <1>1, <2>2
<1>5. ASSUME NEW y \in S PROVE s[1] <= y
  <2>1. PICK i \in 1 .. n : y = s[i]
    BY <1>3, <1>5
  <2>2. i = 1 \/ s[1] < s[i]
    BY <1>1, <1>4, <2>1
  <2>3. s[1] \in Int /\ s[i] \in Int
    BY <1>2, <1>4, <2>1
  <2> QED
    BY <2>1, <2>2, <2>3
<1> QED
  BY <1>2, <1>4, <1>5

LEMMA ConcatOfDistinct ==
  ASSUME NEW D, NEW s \in Seq(D), NEW t \in Seq(D)
  PROVE  /\ ToSet(s \o t) = ToSet(s) \cup ToSet(t)
         /\ NoRepeats(s) /\ NoRepeats(t) /\ ToSet(s) \cap ToSet(t) = {} => NoRepeats(s \o t)
<1> DEFINE u == s \o t
           m == Len(s)
           n == Len(t)
<1>1. /\ m \in Nat /\ n \in Nat /\ DOMAIN s = 1 .. m /\ DOMAIN t = 1 .. n
      /\ u \in Seq(D) /\ Len(u) = m + n
      /\ \A i \in 1 .. m + n : u[i] = IF i <= m THEN s[i] ELSE t[i - m]
  BY LenProperties, ConcatProperties
<1> HIDE DEF u, m, n
<1>2. DOMAIN u = 1 .. m + n
  BY <1>1, LenProperties
<1>3. \A i \in 1 .. m + n : \/ i \in 1 .. m /\ u[i] = s[i]
                            \/ i - m \in 1 .. n /\ u[i] = t[i - m]
  BY <1>1
<1>4. \A i \in 1 .. m : i \in 1 .. m + n /\ u[i] = s[i]
  BY <1>1
<1>5. \A i \in 1 .. n : i + m \in 1 .. m + n /\ u[i + m] = t[i]
  <2> SUFFICES ASSUME NEW i \in 1 .. n PROVE i + m \in 1 .. m + n /\ u[i + m] = t[i]
    OBVIOUS
  <2>1. i + m \in 1 .. m + n /\ ~(i + m <= m) /\ (i + m) - m = i
    BY <1>1
  <2> QED
    BY <1>1, <2>1
<1>6. ToSet(u) = ToSet(s) \cup ToSet(t)
  <2>1. \A i \in DOMAIN u : u[i] \in ToSet(s) \/ u[i] \in ToSet(t)
    BY <1>1, <1>2, <1>3, Zenon DEF ToSet
  <2>2. (\A i \in DOMAIN s : s[i] \in ToSet(u)) /\ (\A i \in DOMAIN t : t[i] \in ToSet(u))
    BY <1>1, <1>2, <1>4, <1>5, Zenon DEF ToSet
  <2> QED
    BY <2>1, <2>2 DEF ToSet
<1>7. ASSUME NoRepeats(s), NoRepeats(t), ToSet(s) \cap ToSet(t) = {} PROVE NoRepeats(u)
  <2> SUFFICES ASSUME NEW i \in 1 .. m + n, NEW j \in 1 .. m + n, u[i] = u[j] PROVE i = j
    BY <1>2 DEF NoRepeats
  <2>1. \A k \in 1 .. m, l \in 1 .. n : s[k] # t[l]
    BY <1>1, <1>7 DEF ToSet
  <2>2. CASE i \in 1 .. m /\ u[i] = s[i] /\ j \in 1 .. m /\ u[j] = s[j]
    BY <1>1, <1>7, <2>2 DEF NoRepeats
  <2>3. CASE i - m \in 1 .. n /\ u[i] = t[i - m] /\ j - m \in 1 .. n /\ u[j] = t[j - m]
    <3>1. i - m = j - m
      BY <1>1, <1>7, <2>3 DEF NoRepeats
    <3> QED
      BY <1>1, <3>1
  <2> QED
    BY <1>3, <2>1, <2>2, <2>3
<1> QED
  BY <1>6, <1>7 DEF u

\* Induction up to a number, for a property given as a set: else there would be a
\* smallest number outside of the set.
LEMMA InductionUpTo ==
  ASSUME NEW n \in Nat, NEW P, 0 \in P,
         \A i \in 1 .. n : i - 1 \in P => i \in P
  PROVE  0 .. n \subseteq P
<1> DEFINE Q == {i \in 0 .. n : i \notin P}
<1>1. IsFiniteSet(Q) /\ Q \in SUBSET Int
  <2>1. IsFiniteSet(0 .. n)
    BY FS_Interval
  <2>2. Q \in SUBSET (0 .. n)
    OBVIOUS
  <2>3. IsFiniteSet(Q)
    BY <2>1, <2>2, FS_Subset
  <2> QED
    BY <2>2, <2>3
<1>2. ASSUME Q # {} PROVE FALSE
  <2>1. PICK x \in Q : \A y \in Q : x <= y
    <3> HIDE DEF Q
    <3> QED
      BY <1>1, <1>2, SmallestOfNumbers
  <2>2. x \in 1 .. n /\ x - 1 \in 0 .. n
    BY <2>1
  <2>3. x - 1 \notin Q
    BY <2>1, <2>2
  <2> QED
    BY <2>1, <2>2, <2>3
<1> QED
  BY <1>2

\* f[0 .. n] begins with base, and each value follows from the one before.
IsChain(f, n, Y, base, step) ==
  f \in [0 .. n -> Y] /\ f[0] = base /\ \A i \in 1 .. n : f[i] = step[i][f[i - 1]]

\* A function on the numbers up to n can be defined by its value at 0 and by how each
\* value follows from the one before.
LEMMA ChainExists ==
  ASSUME NEW n \in Nat, NEW Y, NEW base \in Y, NEW step \in [1 .. n -> [Y -> Y]]
  PROVE  \E f : IsChain(f, n, Y, base, step)
<1> DEFINE P == {k \in 0 .. n : \E f : IsChain(f, k, Y, base, step)}
<1>1. 0 \in P
  <2> DEFINE f == [i \in 0 .. 0 |-> base]
  <2>1. f \in [0 .. 0 -> Y] /\ f[0] = base
    OBVIOUS
  <2>2. \A i \in 1 .. 0 : FALSE
    OBVIOUS
  <2>3. IsChain(f, 0, Y, base, step)
    BY <2>1, <2>2, Zenon DEF IsChain
  <2>4. 0 \in 0 .. n
    OBVIOUS
  <2> QED
    BY <2>3, <2>4, Zenon
<1>2. ASSUME NEW k \in 1 .. n, k - 1 \in P PROVE k \in P
  <2>0. PICK f : IsChain(f, k - 1, Y, base, step)
    BY <1>2
  <2>1. /\ f \in [0 .. k - 1 -> Y] /\ f[0] = base
        /\ \A i \in 1 .. k - 1 : f[i] = step[i][f[i - 1]]
    BY <2>0 DEF IsChain
  <2> DEFINE g == [i \in 0 .. k |-> IF i = k THEN step[k][f[k - 1]] ELSE f[i]]
  <2>2. f[k - 1] \in Y /\ step[k] \in [Y -> Y]
    BY <1>2, <2>1
  <2>3. step[k][f[k - 1]] \in Y
    BY <2>2
  <2>4. g \in [0 .. k -> Y]
    BY <1>2, <2>1, <2>3
  <2>5. g[0] = base
    BY <1>2, <2>1
  <2>6. ASSUME NEW i \in 1 .. k PROVE g[i] = step[i][g[i - 1]]
    <3>1. CASE i = k
      <4>1. g[i] = step[k][f[k - 1]] /\ g[i - 1] = f[k - 1]
        BY <1>2, <3>1
      <4> QED
        BY <3>1, <4>1
    <3>2. CASE i # k
      <4>1. g[i] = f[i] /\ g[i - 1] = f[i - 1] /\ i \in 1 .. k - 1
        BY <1>2, <2>6, <3>2
      <4>2. f[i] = step[i][f[i - 1]]
        BY <2>1, <4>1
      <4> QED
        BY <4>1, <4>2
    <3> QED
      BY <3>1, <3>2
  <2>7. IsChain(g, k, Y, base, step)
    BY <2>4, <2>5, <2>6 DEF IsChain
  <2>8. k \in 0 .. n
    BY <1>2
  <2> QED
    BY <2>7, <2>8, Zenon
<1>3. 0 .. n \subseteq P
  <2> HIDE DEF P
  <2> QED
    BY <1>1, <1>2, InductionUpTo
<1>4. n \in P
  BY <1>3
<1> QED
  BY <1>4, Zenon
=============================================================================

------------------------ MODULE CapitalManagerProofs ------------------------
(***************************************************************************)
(* Proofs about CapitalManager, for any number of agents and pools, any    *)
(* limits and any amounts: what totals over a pool's allocations add up    *)
(* to, and that no step loses or makes capital, overdraws a pool or lends  *)
(* an agent more than its limit.                                           *)
(***************************************************************************)
EXTENDS CapitalManager, SequenceTheorems, WellFoundedInduction, TLAPS

-----------------------------------------------------------------------------
(* Totals.                                                                 *)

\* Induction up to n, for a set instead of a predicate.
LEMMA Induction ==
    ASSUME NEW n \in Nat, NEW S, 0 \in S, \A i \in 1..n : i - 1 \in S => i \in S
    PROVE  0..n \subseteq S
  <1> DEFINE Bad == {i \in 0..n : i \notin S}
             R   == OpToRel(<, Nat)
  <1> SUFFICES ASSUME Bad # {} PROVE FALSE
    OBVIOUS
  <1>1. \E i \in Bad : \A j \in Bad : ~ (<<j, i>> \in R)
    <2>1. IsWellFoundedOn(R, Nat)
      BY NatLessThanWellFounded
    <2>2. Bad \subseteq Nat
      OBVIOUS
    <2> HIDE DEF R, Bad
    <2> QED
      BY <2>1, <2>2, WFMin
  <1>2. \A i, j \in Nat : j < i => <<j, i>> \in R
    BY DEF OpToRel
  <1>3. Bad \subseteq Nat
    OBVIOUS
  <1>4. \E i \in Bad : \A j \in Bad : ~ (j < i)
    <2> HIDE DEF R, Bad
    <2> QED
      BY <1>1, <1>2, <1>3
  <1> HIDE DEF R
  <1>5. PICK i \in Bad : \A j \in Bad : ~ (j < i)
    BY <1>4
  <1>6. i \in 1..n /\ i - 1 \in 0..n /\ i - 1 < i
    BY <1>5
  <1> QED
    BY <1>5, <1>6

\* The running sums exist and are what their recursive definition says.
LEMMA PartialFacts ==
    ASSUME NEW s \in Seq(Int)
    PROVE  /\ Partial(s) \in [0..Len(s) -> Int]
           /\ Partial(s)[0] = 0
           /\ \A i \in 1..Len(s) : Partial(s)[i] = Partial(s)[i - 1] + s[i]
  <1> DEFINE n == Len(s)
             Sums(k, f) == f[0] = 0 /\ \A i \in 1..k : f[i] = f[i - 1] + s[i]
             S == {k \in 0..n : \E f \in [0..k -> Int] : Sums(k, f)}
  <1>1. n \in Nat /\ \A i \in 1..n : s[i] \in Int
    OBVIOUS
  <1> HIDE DEF n
  <1>2. 0 \in S
    <2> DEFINE f == [i \in 0..0 |-> 0]
    <2>1. f \in [0..0 -> Int] /\ Sums(0, f)
      OBVIOUS
    <2> HIDE DEF f, Sums
    <2> QED
      BY <1>1, <2>1
  <1>3. ASSUME NEW k \in 1..n, k - 1 \in S
        PROVE  k \in S
    <2>1. PICK f \in [0..k - 1 -> Int] : Sums(k - 1, f)
      BY <1>3
    <2> DEFINE g == [i \in 0..k |-> IF i = k THEN f[k - 1] + s[k] ELSE f[i]]
    <2>2. k \in Nat /\ s[k] \in Int /\ f[k - 1] \in Int
      BY <1>1, <2>1
    <2>3. g \in [0..k -> Int]
      BY <2>1, <2>2
    <2>4. \A i \in 1..k : g[i] = g[i - 1] + s[i]
      BY <2>1, <2>2
    <2>5. g[0] = 0
      BY <2>1, <2>2
    <2> HIDE DEF g
    <2>6. Sums(k, g)
      BY <2>4, <2>5
    <2>7. k \in 0..n
      BY <1>1
    <2> HIDE DEF Sums
    <2> QED
      BY <2>3, <2>6, <2>7
  <1>4. 0..n \subseteq S
    <2> HIDE DEF S
    <2> QED
      BY <1>1, <1>2, <1>3, Induction
  <1>5. PICK f \in [0..n -> Int] : Sums(n, f)
    <2>1. n \in 0..n
      BY <1>1
    <2>2. n \in S
      <3> HIDE DEF S
      <3> QED
        BY <1>4, <2>1
    <2> HIDE DEF Sums
    <2> QED
      BY <2>2
  <1>6. f = [i \in 0..n |-> IF i = 0 THEN 0 ELSE f[i - 1] + s[i]]
    BY <1>1, <1>5
  <1> DEFINE g == Partial(s)
  <1>7. g = [i \in 0..n |-> IF i = 0 THEN 0 ELSE g[i - 1] + s[i]]
    BY <1>6 DEF Partial, n
  <1> HIDE DEF g
  <1> DEFINE T == {i \in 0..n : g[i] = f[i]}
  <1>8. 0 \in T
    BY <1>1, <1>5, <1>7
  <1>9. ASSUME NEW i \in 1..n, i - 1 \in T
        PROVE  i \in T
    BY <1>1, <1>5, <1>7, <1>9
  <1>10. 0..n \subseteq T
    <2> HIDE DEF T
    <2> QED
      BY <1>1, <1>8, <1>9, Induction
  <1>11. g = f
    <2>1. \A i \in 0..n : g[i] = f[i]
      BY <1>10
    <2>2. g = [i \in 0..n |-> g[i]]
      BY <1>7
    <2> QED
      BY <2>1, <2>2
  <1> QED
    BY <1>5, <1>11 DEF n, g

\* A total of integers is one; the total of nothing is 0.
LEMMA TotalType ==
    ASSUME NEW s \in Seq(Int)
    PROVE  Total(s) \in Int /\ (s = << >> => Total(s) = 0)
  <1>1. Len(s) \in Nat /\ Len(s) \in 0..Len(s) /\ (s = << >> => Len(s) = 0)
    OBVIOUS
  <1> QED
    BY <1>1, PartialFacts DEF Total

\* Two sequences that agree up to n have the same running sum there.
LEMMA SamePartial ==
    ASSUME NEW s \in Seq(Int), NEW t \in Seq(Int), NEW n \in Nat, n <= Len(s), n <= Len(t),
           \A i \in 1..n : s[i] = t[i]
    PROVE  Partial(s)[n] = Partial(t)[n]
  <1> DEFINE S == {i \in 0..n : Partial(s)[i] = Partial(t)[i]}
  <1>1. /\ 0 \in 0..n /\ n \in 0..n /\ \A i \in 1..n : i - 1 \in 0..n /\ i \in 0..n
        /\ \A i \in 1..n : i \in 1..Len(s) /\ i \in 1..Len(t)
    OBVIOUS
  <1>2. 0 \in S
    BY <1>1, PartialFacts
  <1>3. ASSUME NEW i \in 1..n, i - 1 \in S
        PROVE  i \in S
    BY <1>1, <1>3, PartialFacts
  <1> HIDE DEF S
  <1>4. 0..n \subseteq S
    BY <1>2, <1>3, Induction
  <1> QED
    BY <1>1, <1>4 DEF S

\* One more number.
LEMMA TotalOfAppend ==
    ASSUME NEW s \in Seq(Int), NEW x \in Int
    PROVE  Total(Append(s, x)) = Total(s) + x
  <1> DEFINE t == Append(s, x)
             n == Len(s)
  <1>1. /\ n \in Nat /\ t \in Seq(Int) /\ Len(t) = n + 1 /\ t[n + 1] = x
        /\ \A i \in 1..n : s[i] = t[i]
        /\ n <= Len(s) /\ n <= Len(t)
    OBVIOUS
  <1> HIDE DEF t, n
  <1>2. Partial(t)[n] = Partial(s)[n]
    BY <1>1, SamePartial
  <1>3. Partial(t)[n + 1] = Partial(t)[n] + t[n + 1]
    <2>1. n + 1 \in 1..Len(t) /\ (n + 1) - 1 = n
      BY <1>1
    <2> QED
      BY <1>1, <2>1, PartialFacts
  <1> QED
    BY <1>1, <1>2, <1>3 DEF Total, t, n

\* Numbers replaced, each by d[i] more: the total grows by the total of d.
LEMMA TotalOfSum ==
    ASSUME NEW s \in Seq(Int), NEW t \in Seq(Int), NEW d \in Seq(Int),
           Len(t) = Len(s), Len(d) = Len(s), \A i \in 1..Len(s) : t[i] = s[i] + d[i]
    PROVE  Total(t) = Total(s) + Total(d)
  <1> DEFINE n == Len(s)
             S == {i \in 0..n : Partial(t)[i] = Partial(s)[i] + Partial(d)[i]}
  <1>1. /\ n \in Nat /\ 0 \in 0..n /\ n \in 0..n /\ \A i \in 1..n : i - 1 \in 0..n /\ i \in 0..n
        /\ \A i \in 1..n : s[i] \in Int /\ t[i] \in Int /\ d[i] \in Int
    OBVIOUS
  <1>2. \A i \in 0..n : Partial(s)[i] \in Int /\ Partial(t)[i] \in Int /\ Partial(d)[i] \in Int
    BY PartialFacts
  <1>3. 0 \in S
    BY <1>1, PartialFacts
  <1>4. ASSUME NEW i \in 1..n, i - 1 \in S
        PROVE  i \in S
    <2>1. /\ Partial(s)[i] = Partial(s)[i - 1] + s[i]
          /\ Partial(t)[i] = Partial(t)[i - 1] + t[i]
          /\ Partial(d)[i] = Partial(d)[i - 1] + d[i]
      BY PartialFacts
    <2>2. Partial(t)[i - 1] = Partial(s)[i - 1] + Partial(d)[i - 1] /\ t[i] = s[i] + d[i]
      BY <1>4
    <2>3. /\ i - 1 \in 0..n /\ i \in 0..n /\ s[i] \in Int /\ d[i] \in Int
          /\ Partial(s)[i - 1] \in Int /\ Partial(d)[i - 1] \in Int
      BY <1>1, <1>2
    <2> DEFINE a == Partial(s)[i - 1]
               b == Partial(d)[i - 1]
               x == s[i]
               y == d[i]
    <2>4. /\ a \in Int /\ b \in Int /\ x \in Int /\ y \in Int
          /\ Partial(s)[i] = a + x /\ Partial(d)[i] = b + y
          /\ Partial(t)[i] = (a + b) + (x + y)
      BY <2>1, <2>2, <2>3
    <2> HIDE DEF a, b, x, y
    <2>5. (a + b) + (x + y) = (a + x) + (b + y)
      BY <2>4
    <2>6. Partial(t)[i] = Partial(s)[i] + Partial(d)[i]
      BY <2>4, <2>5
    <2> QED
      BY <2>3, <2>6
  <1> HIDE DEF S
  <1>5. 0..n \subseteq S
    BY <1>1, <1>3, <1>4, Induction
  <1> QED
    BY <1>1, <1>5 DEF Total, S

\* Each number is at least its counterpart: so is the total.
LEMMA TotalMonotone ==
    ASSUME NEW s \in Seq(Int), NEW t \in Seq(Int), Len(t) = Len(s), \A i \in 1..Len(s) : t[i] <= s[i]
    PROVE  Total(t) <= Total(s)
  <1> DEFINE n == Len(s)
             S == {i \in 0..n : Partial(t)[i] <= Partial(s)[i]}
  <1>1. /\ n \in Nat /\ 0 \in 0..n /\ n \in 0..n /\ \A i \in 1..n : i - 1 \in 0..n /\ i \in 0..n
        /\ \A i \in 1..n : s[i] \in Int /\ t[i] \in Int
    OBVIOUS
  <1>2. \A i \in 0..n : Partial(s)[i] \in Int /\ Partial(t)[i] \in Int
    BY PartialFacts
  <1>3. 0 \in S
    BY <1>1, PartialFacts
  <1>4. ASSUME NEW i \in 1..n, i - 1 \in S
        PROVE  i \in S
    <2>1. Partial(s)[i] = Partial(s)[i - 1] + s[i] /\ Partial(t)[i] = Partial(t)[i - 1] + t[i]
      BY PartialFacts
    <2>2. Partial(t)[i - 1] <= Partial(s)[i - 1] /\ t[i] <= s[i]
      BY <1>4
    <2>3. /\ i - 1 \in 0..n /\ i \in 0..n /\ s[i] \in Int /\ t[i] \in Int
          /\ Partial(s)[i - 1] \in Int /\ Partial(t)[i - 1] \in Int
      BY <1>1, <1>2
    <2> QED
      BY <2>1, <2>2, <2>3
  <1> HIDE DEF S
  <1>5. 0..n \subseteq S
    BY <1>1, <1>3, <1>4, Induction
  <1> QED
    BY <1>1, <1>5 DEF Total, S

\* A total of natural numbers is one.
LEMMA TotalNat ==
    ASSUME NEW s \in Seq(Nat)
    PROVE  Total(s) \in Nat
  <1> DEFINE n == Len(s)
             S == {i \in 0..n : Partial(s)[i] >= 0}
  <1>1. /\ n \in Nat /\ 0 \in 0..n /\ n \in 0..n /\ \A i \in 1..n : i - 1 \in 0..n /\ i \in 0..n
        /\ \A i \in 1..n : s[i] \in Nat
        /\ s \in Seq(Int)
    OBVIOUS
  <1>2. \A i \in 0..n : Partial(s)[i] \in Int
    BY <1>1, PartialFacts
  <1>3. 0 \in S
    BY <1>1, PartialFacts
  <1>4. ASSUME NEW i \in 1..n, i - 1 \in S
        PROVE  i \in S
    <2>1. Partial(s)[i] = Partial(s)[i - 1] + s[i]
      BY <1>1, PartialFacts
    <2>2. /\ i - 1 \in 0..n /\ i \in 0..n /\ s[i] \in Nat /\ Partial(s)[i - 1] \in Int
          /\ Partial(s)[i - 1] >= 0
      BY <1>1, <1>2, <1>4
    <2> QED
      BY <2>1, <2>2
  <1> HIDE DEF S
  <1>5. 0..n \subseteq S
    BY <1>1, <1>3, <1>4, Induction
  <1>6. Partial(s)[n] >= 0
    BY <1>1, <1>5 DEF S
  <1> QED
    BY <1>1, <1>2, <1>6 DEF Total

\* One number replaced.
LEMMA TotalOfUpdate ==
    ASSUME NEW s \in Seq(Int), NEW t \in Seq(Int), NEW i \in 1..Len(s), Len(t) = Len(s),
           \A j \in 1..Len(s) : j # i => t[j] = s[j]
    PROVE  Total(t) = Total(s) + (t[i] - s[i])
  <1> DEFINE n == Len(s)
             Gain(k) == IF k >= i THEN t[i] - s[i] ELSE 0
             S == {k \in 0..n : Partial(t)[k] = Partial(s)[k] + Gain(k)}
  <1>1. /\ n \in Nat /\ i \in 1..n /\ 0 \in 0..n /\ n \in 0..n
        /\ \A k \in 1..n : k - 1 \in 0..n /\ k \in 0..n /\ s[k] \in Int /\ t[k] \in Int
    OBVIOUS
  <1>2. \A k \in 0..n : Partial(s)[k] \in Int /\ Partial(t)[k] \in Int
    BY PartialFacts
  <1>3. 0 \in S
    BY <1>1, PartialFacts
  <1>4. ASSUME NEW k \in 1..n, k - 1 \in S
        PROVE  k \in S
    <2>1. Partial(s)[k] = Partial(s)[k - 1] + s[k] /\ Partial(t)[k] = Partial(t)[k - 1] + t[k]
      BY PartialFacts
    <2>2. Partial(t)[k - 1] = Partial(s)[k - 1] + Gain(k - 1)
      BY <1>4
    <2>3. /\ k \in 0..n /\ s[k] \in Int /\ t[k] \in Int /\ s[i] \in Int /\ t[i] \in Int
          /\ Partial(s)[k - 1] \in Int
      BY <1>1, <1>2
    <2>4. Gain(k - 1) + t[k] = s[k] + Gain(k) /\ Gain(k) \in Int /\ Gain(k - 1) \in Int
      <3>1. CASE k = i
        BY <1>1, <2>3, <3>1
      <3>2. CASE k # i
        <4>1. t[k] = s[k]
          BY <3>2
        <4>2. (k - 1 >= i) <=> (k >= i)
          BY <1>1, <3>2
        <4> QED
          BY <2>3, <4>1, <4>2
      <3> QED
        BY <3>1, <3>2
    <2> HIDE DEF Gain
    <2> DEFINE a == Partial(s)[k - 1]
               g == Gain(k - 1)
               h == Gain(k)
               x == s[k]
               y == t[k]
    <2>5. /\ a \in Int /\ g \in Int /\ h \in Int /\ x \in Int /\ y \in Int
          /\ g + y = x + h /\ Partial(s)[k] = a + x /\ Partial(t)[k] = (a + g) + y
      BY <2>1, <2>2, <2>3, <2>4
    <2> HIDE DEF a, g, h, x, y
    <2>6. (a + g) + y = (a + x) + h
      BY <2>5
    <2>7. Partial(t)[k] = Partial(s)[k] + h
      BY <2>5, <2>6
    <2> QED
      BY <2>3, <2>7 DEF h
  <1> HIDE DEF S
  <1>5. 0..n \subseteq S
    BY <1>1, <1>3, <1>4, Induction
  <1>6. Partial(t)[n] = Partial(s)[n] + Gain(n)
    BY <1>1, <1>5 DEF S
  <1>7. Gain(n) = t[i] - s[i]
    BY <1>1
  <1> QED
    BY <1>6, <1>7 DEF Total

\* One number taken out.
LEMMA TotalOfRemoval ==
    ASSUME NEW s \in Seq(Int), NEW t \in Seq(Int), NEW i \in 1..Len(s), Len(t) = Len(s) - 1,
           \A j \in 1..Len(t) : t[j] = IF j < i THEN s[j] ELSE s[j + 1]
    PROVE  Total(t) = Total(s) - s[i]
  <1> DEFINE n == Len(s) - 1
             S == {k \in 0..n : Partial(t)[k] = IF k < i THEN Partial(s)[k] ELSE Partial(s)[k + 1] - s[i]}
  <1>1. /\ n \in Nat /\ i \in 1..n + 1 /\ 0 \in 0..n /\ n \in 0..n /\ Len(t) = n /\ Len(s) = n + 1
        /\ \A k \in 1..n : k - 1 \in 0..n /\ k \in 0..n /\ k + 1 \in 1..n + 1 /\ k \in 1..n + 1
        /\ \A k \in 1..n + 1 : s[k] \in Int /\ k \in 0..n + 1 /\ k - 1 \in 0..n + 1
        /\ \A k \in 1..n : t[k] \in Int
    OBVIOUS
  <1>2. /\ \A k \in 0..n + 1 : Partial(s)[k] \in Int
        /\ \A k \in 0..n : Partial(t)[k] \in Int
        /\ Partial(s)[0] = 0 /\ Partial(t)[0] = 0
        /\ \A k \in 1..n + 1 : Partial(s)[k] = Partial(s)[k - 1] + s[k]
        /\ \A k \in 1..n : Partial(t)[k] = Partial(t)[k - 1] + t[k]
    BY <1>1, PartialFacts
  <1> HIDE DEF n
  <1>3. 0 \in S
    BY <1>1, <1>2
  <1>4. ASSUME NEW k \in 1..n, k - 1 \in S
        PROVE  k \in S
    <2>1. Partial(t)[k] = Partial(t)[k - 1] + t[k]
      BY <1>2
    <2>2. Partial(t)[k - 1] = IF k - 1 < i THEN Partial(s)[k - 1] ELSE Partial(s)[(k - 1) + 1] - s[i]
      BY <1>4
    <2>3. /\ k \in 0..n /\ (k - 1) + 1 = k /\ (k + 1) - 1 = k
          /\ Partial(s)[k] \in Int /\ Partial(s)[k - 1] \in Int
          /\ s[k] \in Int /\ s[k + 1] \in Int /\ s[i] \in Int
          /\ Partial(s)[k] = Partial(s)[k - 1] + s[k]
          /\ Partial(s)[k + 1] = Partial(s)[k] + s[k + 1]
      <3>1. k + 1 \in 1..n + 1 /\ (k + 1) - 1 = k
        BY <1>1
      <3>2. Partial(s)[k + 1] = Partial(s)[(k + 1) - 1] + s[k + 1]
        BY <1>2, <3>1
      <3>3. Partial(s)[k + 1] = Partial(s)[k] + s[k + 1]
        BY <3>1, <3>2
      <3>4. k \in 0..n /\ k \in 1..n + 1 /\ k \in 0..n + 1 /\ k - 1 \in 0..n + 1 /\ (k - 1) + 1 = k
        BY <1>1
      <3>5. Partial(s)[k] \in Int /\ Partial(s)[k - 1] \in Int /\ Partial(s)[k] = Partial(s)[k - 1] + s[k]
        BY <1>2, <3>4
      <3>6. s[k] \in Int /\ s[k + 1] \in Int /\ s[i] \in Int
        BY <1>1, <3>1, <3>4
      <3> QED
        BY <3>1, <3>3, <3>4, <3>5, <3>6
    <2>4. CASE k < i
      <3>1. k - 1 < i /\ t[k] = s[k]
        BY <1>1, <2>4
      <3>2. Partial(t)[k - 1] = Partial(s)[k - 1]
        BY <2>2, <3>1
      <3>3. Partial(t)[k] = Partial(s)[k]
        BY <2>1, <2>3, <3>1, <3>2
      <3> QED
        BY <2>3, <2>4, <3>3
    <2>5. CASE k = i
      <3>1. k - 1 < i /\ ~(k < i) /\ t[k] = s[k + 1]
        BY <1>1, <2>5
      <3>2. Partial(t)[k - 1] = Partial(s)[k - 1] /\ s[i] = s[k]
        BY <2>2, <2>5, <3>1
      <3>3. Partial(t)[k] = Partial(s)[k - 1] + s[k + 1]
        BY <2>1, <3>1, <3>2
      <3>4. Partial(s)[k + 1] = (Partial(s)[k - 1] + s[k]) + s[k + 1]
        BY <2>3
      <3> DEFINE a == Partial(s)[k - 1]
                 b == s[k]
                 c == s[k + 1]
                 d == Partial(s)[k + 1]
      <3>5. a \in Int /\ b \in Int /\ c \in Int /\ d = (a + b) + c
        BY <2>3, <3>4
      <3>6. a + c = d - b
        <4> HIDE DEF a, b, c, d
        <4> QED
          BY <3>5
      <3>7. Partial(t)[k] = Partial(s)[k + 1] - s[i]
        BY <3>2, <3>3, <3>6
      <3> QED
        BY <2>3, <3>1, <3>7
    <2>6. CASE k > i
      <3>1. ~(k - 1 < i) /\ ~(k < i) /\ t[k] = s[k + 1]
        BY <1>1, <2>6
      <3>2. Partial(t)[k - 1] = Partial(s)[k] - s[i]
        BY <2>2, <2>3, <3>1
      <3> DEFINE a == Partial(s)[k]
                 b == s[i]
                 c == s[k + 1]
                 d == Partial(s)[k + 1]
                 e == Partial(t)[k]
      <3>3. a \in Int /\ b \in Int /\ c \in Int /\ d = a + c /\ e = (a - b) + c
        BY <2>1, <2>3, <3>1, <3>2
      <3>4. e = d - b
        <4> HIDE DEF a, b, c, d, e
        <4> QED
          BY <3>3
      <3> QED
        BY <2>3, <3>1, <3>4
    <2> QED
      BY <1>1, <2>4, <2>5, <2>6
  <1> HIDE DEF S
  <1>5. 0..n \subseteq S
    BY <1>1, <1>3, <1>4, Induction
  <1>6. Partial(t)[n] = IF n < i THEN Partial(s)[n] ELSE Partial(s)[n + 1] - s[i]
    BY <1>1, <1>5 DEF S
  <1>7. n < i => i = n + 1 /\ i - 1 = n
    BY <1>1
  <1>8. Partial(s)[i] = Partial(s)[i - 1] + s[i] /\ Partial(s)[i - 1] \in Int /\ s[i] \in Int
    BY <1>1, <1>2
  <1>9. Partial(t)[n] = Partial(s)[n + 1] - s[i]
    BY <1>6, <1>7, <1>8
  <1> QED
    BY <1>1, <1>9 DEF Total

-----------------------------------------------------------------------------
(* What the totals over a pool's allocations come to.                      *)

LEMMA AmountsType ==
    ASSUME NEW x \in Seq(Allocation)
    PROVE  /\ Len(x) \in Nat /\ DOMAIN x = 1..Len(x)
           /\ \A i \in 1..Len(x) : x[i] \in Allocation /\ x[i].amount \in Nat \ {0}
           /\ AmountsOf(x) \in Seq(Int) /\ Len(AmountsOf(x)) = Len(x)
           /\ \A i \in 1..Len(x) : AmountsOf(x)[i] = x[i].amount
           /\ Total(AmountsOf(x)) \in Nat
  <1>1. /\ Len(x) \in Nat /\ DOMAIN x = 1..Len(x)
        /\ \A i \in 1..Len(x) : x[i] \in Allocation
    OBVIOUS
  <1>2. \A i \in 1..Len(x) : x[i].amount \in Nat \ {0}
    BY <1>1 DEF Allocation
  <1>3. /\ AmountsOf(x) \in Seq(Nat) /\ Len(AmountsOf(x)) = Len(x) /\ AmountsOf(x) \in Seq(Int)
        /\ \A i \in 1..Len(x) : AmountsOf(x)[i] = x[i].amount
    BY <1>1, <1>2 DEF AmountsOf
  <1>4. Total(AmountsOf(x)) \in Nat
    BY <1>3, TotalNat
  <1> QED
    BY <1>1, <1>2, <1>3, <1>4

LEMMA HeldType ==
    ASSUME NEW x \in Seq(Allocation), NEW a
    PROVE  /\ HeldBy(x, a) \in Seq(Int) /\ Len(HeldBy(x, a)) = Len(x)
           /\ \A i \in 1..Len(x) : /\ HeldBy(x, a)[i] = IF x[i].agentId = a THEN x[i].amount ELSE 0
                                   /\ HeldBy(x, a)[i] \in Nat
           /\ Total(HeldBy(x, a)) \in Nat
  <1>1. /\ Len(x) \in Nat /\ DOMAIN x = 1..Len(x)
        /\ \A i \in 1..Len(x) : x[i].amount \in Nat \ {0}
    BY AmountsType
  <1>2. /\ HeldBy(x, a) \in Seq(Nat) /\ Len(HeldBy(x, a)) = Len(x) /\ HeldBy(x, a) \in Seq(Int)
        /\ \A i \in 1..Len(x) : HeldBy(x, a)[i] = IF x[i].agentId = a THEN x[i].amount ELSE 0
    BY <1>1 DEF HeldBy
  <1>3. Total(HeldBy(x, a)) \in Nat
    BY <1>2, TotalNat
  <1>4. \A i \in 1..Len(x) : HeldBy(x, a)[i] \in Nat
    BY <1>1, <1>2
  <1> QED
    BY <1>2, <1>3, <1>4

\* A sequence without its element i.
LEMMA WithoutFacts ==
    ASSUME NEW S, NEW x \in Seq(S), NEW i \in 1..Len(x)
    PROVE  /\ Without(x, i) \in Seq(S) /\ Len(Without(x, i)) = Len(x) - 1
           /\ \A j \in 1..Len(x) - 1 : Without(x, i)[j] = IF j < i THEN x[j] ELSE x[j + 1]
  <1> DEFINE n == Len(x)
             f == SubSeq(x, 1, i - 1)
             b == SubSeq(x, i + 1, n)
  <1>1. n \in Nat /\ i \in 1..n /\ \A j \in 1..n : x[j] \in S
    OBVIOUS
  <1> HIDE DEF n
  <1>2. f \in Seq(S) /\ Len(f) = i - 1 /\ \A j \in 1..i - 1 : f[j] = x[j]
    <2>1. \A j \in 1..i - 1 : x[j] \in S
      BY <1>1
    <2>2. /\ f \in Seq(S) /\ Len(f) = IF 1 <= i - 1 THEN (i - 1) - 1 + 1 ELSE 0
          /\ \A j \in 1..(i - 1) - 1 + 1 : f[j] = x[1 + j - 1]
      BY <1>1, <2>1, SubSeqProperties
    <2>3. /\ (i - 1) - 1 + 1 = i - 1 /\ (~(1 <= i - 1) => i - 1 = 0)
          /\ \A j \in 1..i - 1 : 1 + j - 1 = j
      BY <1>1
    <2> HIDE DEF f
    <2> QED
      BY <2>2, <2>3
  <1>3. b \in Seq(S) /\ Len(b) = n - i /\ \A j \in 1..n - i : b[j] = x[i + j]
    <2>1. \A j \in i + 1..n : x[j] \in S
      BY <1>1
    <2>2. /\ b \in Seq(S) /\ Len(b) = IF i + 1 <= n THEN n - (i + 1) + 1 ELSE 0
          /\ \A j \in 1..n - (i + 1) + 1 : b[j] = x[(i + 1) + j - 1]
      BY <1>1, <2>1, SubSeqProperties
    <2>3. /\ n - (i + 1) + 1 = n - i /\ (~(i + 1 <= n) => n - i = 0)
          /\ \A j \in 1..n - i : (i + 1) + j - 1 = i + j
      BY <1>1
    <2> HIDE DEF b
    <2> QED
      BY <2>2, <2>3
  <1>4. Without(x, i) = f \o b
    BY DEF Without, n
  <1> HIDE DEF f, b
  <1>5. /\ f \o b \in Seq(S) /\ Len(f \o b) = Len(f) + Len(b)
        /\ \A j \in 1..Len(f) + Len(b) : (f \o b)[j] = IF j <= Len(f) THEN f[j] ELSE b[j - Len(f)]
    BY <1>2, <1>3, ConcatProperties
  <1>6. Len(f) + Len(b) = n - 1
    BY <1>1, <1>2, <1>3
  <1>7. ASSUME NEW j \in 1..n - 1
        PROVE  (f \o b)[j] = IF j < i THEN x[j] ELSE x[j + 1]
    <2>1. (f \o b)[j] = IF j <= i - 1 THEN f[j] ELSE b[j - (i - 1)]
      BY <1>2, <1>5, <1>6
    <2>2. CASE j < i
      BY <1>1, <1>2, <2>1, <2>2
    <2>3. CASE ~(j < i)
      <3>1. j - (i - 1) \in 1..n - i /\ i + (j - (i - 1)) = j + 1 /\ ~(j <= i - 1)
        BY <1>1, <2>3
      <3> QED
        BY <1>3, <2>1, <2>3, <3>1
    <2> QED
      BY <2>2, <2>3
  <1> QED
    BY <1>4, <1>5, <1>6, <1>7 DEF n

\* One more allocation.
LEMMA OneMore ==
    ASSUME NEW x \in Seq(Allocation), NEW v \in Allocation
    PROVE  /\ Append(x, v) \in Seq(Allocation)
           /\ Total(AmountsOf(Append(x, v))) = Total(AmountsOf(x)) + v.amount
           /\ \A a : Total(HeldBy(Append(x, v), a)) =
                       Total(HeldBy(x, a)) + (IF v.agentId = a THEN v.amount ELSE 0)
  <1> DEFINE y == Append(x, v)
  <1>1. y \in Seq(Allocation) /\ v.amount \in Nat \ {0}
    BY DEF Allocation
  <1>2. DOMAIN x = 1..Len(x) /\ DOMAIN y = 1..Len(x) + 1 /\ Len(x) \in Nat
        /\ y[Len(x) + 1] = v /\ \A i \in 1..Len(x) : y[i] = x[i]
    OBVIOUS
  <1> HIDE DEF y
  <1>3. AmountsOf(y) = Append(AmountsOf(x), v.amount)
    BY <1>1, <1>2 DEF AmountsOf
  <1>4. \A a : HeldBy(y, a) = Append(HeldBy(x, a), IF v.agentId = a THEN v.amount ELSE 0)
    BY <1>1, <1>2 DEF HeldBy
  <1>5. AmountsOf(x) \in Seq(Int) /\ \A a : HeldBy(x, a) \in Seq(Int)
    BY AmountsType, HeldType
  <1>6. Total(AmountsOf(y)) = Total(AmountsOf(x)) + v.amount
    BY <1>1, <1>3, <1>5, TotalOfAppend
  <1>7. ASSUME NEW a
        PROVE  Total(HeldBy(y, a)) = Total(HeldBy(x, a)) + (IF v.agentId = a THEN v.amount ELSE 0)
    <2> DEFINE g == IF v.agentId = a THEN v.amount ELSE 0
    <2>1. g \in Int /\ HeldBy(y, a) = Append(HeldBy(x, a), g) /\ HeldBy(x, a) \in Seq(Int)
      BY <1>1, <1>4, <1>5
    <2> HIDE DEF g
    <2>2. Total(HeldBy(y, a)) = Total(HeldBy(x, a)) + g
      BY <2>1, TotalOfAppend
    <2> QED
      BY <2>2 DEF g
  <1> QED
    BY <1>1, <1>6, <1>7 DEF y

\* One allocation changed, to the same agent and at most as much.
LEMMA OneReduced ==
    ASSUME NEW x \in Seq(Allocation), NEW y \in Seq(Allocation), NEW i \in 1..Len(x), Len(y) = Len(x),
           \A j \in 1..Len(x) : j # i => y[j] = x[j],
           y[i].agentId = x[i].agentId, y[i].amount <= x[i].amount
    PROVE  /\ Total(AmountsOf(y)) = Total(AmountsOf(x)) + (y[i].amount - x[i].amount)
           /\ \A a : Total(HeldBy(y, a)) <= Total(HeldBy(x, a))
  <1> DEFINE s == AmountsOf(x)
             t == AmountsOf(y)
  <1>1. /\ s \in Seq(Int) /\ t \in Seq(Int) /\ i \in 1..Len(s) /\ Len(t) = Len(s) /\ Len(s) = Len(x)
        /\ \A j \in 1..Len(x) : s[j] = x[j].amount /\ t[j] = y[j].amount
    BY AmountsType
  <1> HIDE DEF s, t
  <1>2. \A j \in 1..Len(s) : j # i => t[j] = s[j]
    BY <1>1
  <1>3. Total(t) = Total(s) + (t[i] - s[i])
    BY <1>1, <1>2, TotalOfUpdate
  <1>4. ASSUME NEW a
        PROVE  Total(HeldBy(y, a)) <= Total(HeldBy(x, a))
    <2> DEFINE u == HeldBy(x, a)
               v == HeldBy(y, a)
    <2>1. /\ u \in Seq(Int) /\ Len(u) = Len(x)
          /\ \A j \in 1..Len(x) : u[j] = IF x[j].agentId = a THEN x[j].amount ELSE 0
      BY HeldType
    <2>2. /\ v \in Seq(Int) /\ Len(v) = Len(x)
          /\ \A j \in 1..Len(x) : v[j] = (IF y[j].agentId = a THEN y[j].amount ELSE 0) /\ v[j] \in Nat
      BY HeldType
    <2> HIDE DEF u, v
    <2>3. ASSUME NEW j \in 1..Len(x)
          PROVE  v[j] <= u[j]
      <3>1. CASE j = i
        BY <2>1, <2>2, <3>1
      <3>2. CASE j # i
        <4>1. v[j] = u[j] /\ v[j] \in Nat
          BY <2>1, <2>2, <3>2
        <4> QED
          BY <4>1
      <3> QED
        BY <3>1, <3>2
    <2>4. Total(v) <= Total(u)
      BY <2>1, <2>2, <2>3, TotalMonotone
    <2> QED
      BY <2>4 DEF u, v
  <1> QED
    BY <1>1, <1>3, <1>4 DEF s, t

\* One allocation taken out.
LEMMA OneLess ==
    ASSUME NEW x \in Seq(Allocation), NEW i \in 1..Len(x)
    PROVE  /\ Without(x, i) \in Seq(Allocation)
           /\ Total(AmountsOf(Without(x, i))) = Total(AmountsOf(x)) - x[i].amount
           /\ \A a : Total(HeldBy(Without(x, i), a)) <= Total(HeldBy(x, a))
  <1> DEFINE y == Without(x, i)
             n == Len(x)
  <1>0. n \in Nat /\ DOMAIN x = 1..n /\ i \in 1..n /\ \A j \in 1..n : x[j] \in Allocation
    OBVIOUS
  <1>1. /\ y \in Seq(Allocation) /\ Len(y) = n - 1
        /\ \A j \in 1..n - 1 : y[j] = IF j < i THEN x[j] ELSE x[j + 1]
    BY WithoutFacts
  <1> HIDE DEF y, n
  <1>2. Total(AmountsOf(y)) = Total(AmountsOf(x)) - x[i].amount
    <2>1. /\ AmountsOf(x) \in Seq(Int) /\ AmountsOf(y) \in Seq(Int)
          /\ Len(AmountsOf(x)) = n /\ Len(AmountsOf(y)) = n - 1
          /\ \A j \in 1..n : AmountsOf(x)[j] = x[j].amount
          /\ \A j \in 1..n - 1 : AmountsOf(y)[j] = y[j].amount
      BY <1>1, AmountsType DEF n
    <2>2. \A j \in 1..n - 1 : j \in 1..n /\ j + 1 \in 1..n
      BY <1>0
    <2>3. \A j \in 1..n - 1 : AmountsOf(y)[j] = IF j < i THEN AmountsOf(x)[j] ELSE AmountsOf(x)[j + 1]
      BY <1>1, <2>1, <2>2
    <2> DEFINE u == AmountsOf(x)
               v == AmountsOf(y)
    <2>4. u[i] = x[i].amount
      BY <1>0, <2>1
    <2>5. /\ u \in Seq(Int) /\ v \in Seq(Int) /\ i \in 1..Len(u) /\ Len(v) = Len(u) - 1
          /\ \A j \in 1..Len(v) : v[j] = IF j < i THEN u[j] ELSE u[j + 1]
      BY <1>0, <2>1, <2>3
    <2>6. Total(v) = Total(u) - u[i]
      <3> HIDE DEF u, v
      <3> QED
        BY <2>5, TotalOfRemoval
    <2> QED
      BY <2>4, <2>6
  <1>3. ASSUME NEW a
        PROVE  Total(HeldBy(y, a)) <= Total(HeldBy(x, a))
    <2> DEFINE u == HeldBy(x, a)
               v == HeldBy(y, a)
    <2>1. /\ u \in Seq(Int) /\ Len(u) = n /\ Total(u) \in Nat
          /\ \A j \in 1..n : u[j] = (IF x[j].agentId = a THEN x[j].amount ELSE 0) /\ u[j] \in Nat
      BY HeldType DEF n
    <2>2. /\ v \in Seq(Int) /\ Len(v) = n - 1
          /\ \A j \in 1..n - 1 : v[j] = IF y[j].agentId = a THEN y[j].amount ELSE 0
      BY <1>1, HeldType
    <2> HIDE DEF u, v
    <2>3. \A j \in 1..n - 1 : j \in 1..n /\ j + 1 \in 1..n
      BY <1>0
    <2>4. \A j \in 1..n - 1 : v[j] = IF j < i THEN u[j] ELSE u[j + 1]
      BY <1>1, <2>1, <2>2, <2>3
    <2>5. Total(v) = Total(u) - u[i] /\ u[i] \in Nat
      BY <1>0, <2>1, <2>2, <2>4, TotalOfRemoval
    <2>6. Total(v) <= Total(u)
      BY <2>1, <2>5
    <2> QED
      BY <2>6 DEF u, v
  <1> QED
    BY <1>1, <1>2, <1>3 DEF y

-----------------------------------------------------------------------------
(* A pool that is in order stays so.                                       *)

Balanced(pool) ==
    pool.availableCapital + pool.reservedCapital + Total(AmountsOf(pool.allocations)) = pool.totalCapital

AgentsLimited(pool) == \A a \in Agents : Total(HeldBy(pool.allocations, a)) <= pool.limits.maxPerAgent

SoundPool(pool) == pool \in Pool /\ Balanced(pool) /\ AgentsLimited(pool)

\* The limits a pool was created with are numbers.
LEMMA LimitsFacts ==
    ASSUME NEW pool, SoundPool(pool)
    PROVE  pool.limits \in Limits /\ pool.limits.maxPerAgent \in Nat
  <1>1. pool.limits \in Limits BY DEF SoundPool, Pool
  <1> QED BY <1>1, LimitsAssumption

\* A pool with other allocations is in order if what they hold less is
\* available, and no agent holds more than it did.
LEMMA SoundAfter ==
    ASSUME NEW pool, SoundPool(pool), NEW y \in Seq(Allocation), NEW g \in Int,
           pool.availableCapital + g \in Nat,
           Total(AmountsOf(y)) + g = Total(AmountsOf(pool.allocations)),
           \A a \in Agents : Total(HeldBy(y, a)) <= pool.limits.maxPerAgent,
           NEW q, q = [totalCapital |-> pool.totalCapital, availableCapital |-> pool.availableCapital + g,
                       reservedCapital |-> pool.reservedCapital, allocations |-> y, limits |-> pool.limits]
    PROVE  SoundPool(q)
  <1>1. /\ pool.totalCapital \in Nat /\ pool.availableCapital \in Nat /\ pool.reservedCapital \in Nat
        /\ pool.allocations \in Seq(Allocation) /\ pool.limits \in Limits
    BY DEF SoundPool, Pool
  <1>2. q \in Pool
    BY <1>1 DEF Pool
  <1>3. /\ q.totalCapital = pool.totalCapital /\ q.availableCapital = pool.availableCapital + g
        /\ q.reservedCapital = pool.reservedCapital /\ q.allocations = y /\ q.limits = pool.limits
    OBVIOUS
  <1>4. Total(AmountsOf(y)) \in Nat
    BY AmountsType
  <1>5. pool.availableCapital + pool.reservedCapital + Total(AmountsOf(pool.allocations)) = pool.totalCapital
    BY DEF SoundPool, Balanced
  <1>6. pool.availableCapital + g + pool.reservedCapital + Total(AmountsOf(y)) = pool.totalCapital
    BY <1>1, <1>4, <1>5
  <1>7. Balanced(q)
    BY <1>3, <1>6 DEF Balanced
  <1>8. AgentsLimited(q)
    BY <1>3 DEF AgentsLimited
  <1> QED
    BY <1>2, <1>7, <1>8 DEF SoundPool

LEMMA PoolFields ==
    ASSUME NEW pool \in Pool, NEW al, NEW av
    PROVE  /\ [pool EXCEPT !.allocations = al, !.availableCapital = av] =
                [totalCapital |-> pool.totalCapital, availableCapital |-> av,
                 reservedCapital |-> pool.reservedCapital, allocations |-> al, limits |-> pool.limits]
           /\ [pool EXCEPT !.availableCapital = av, !.allocations = al] =
                [totalCapital |-> pool.totalCapital, availableCapital |-> av,
                 reservedCapital |-> pool.reservedCapital, allocations |-> al, limits |-> pool.limits]
  <1>1. pool = [totalCapital |-> pool.totalCapital, availableCapital |-> pool.availableCapital,
                reservedCapital |-> pool.reservedCapital, allocations |-> pool.allocations, limits |-> pool.limits]
    BY DEF Pool
  <1> DEFINE r == [pool EXCEPT !.allocations = al]
             t == [pool EXCEPT !.availableCapital = av]
  <1>2. r = [totalCapital |-> pool.totalCapital, availableCapital |-> pool.availableCapital,
             reservedCapital |-> pool.reservedCapital, allocations |-> al, limits |-> pool.limits]
    BY <1>1
  <1>3. t = [totalCapital |-> pool.totalCapital, availableCapital |-> av,
             reservedCapital |-> pool.reservedCapital, allocations |-> pool.allocations, limits |-> pool.limits]
    BY <1>1
  <1>4. /\ [pool EXCEPT !.allocations = al, !.availableCapital = av] = [r EXCEPT !.availableCapital = av]
        /\ [pool EXCEPT !.availableCapital = av, !.allocations = al] = [t EXCEPT !.allocations = al]
    OBVIOUS
  <1> HIDE DEF r, t
  <1>5. [r EXCEPT !.availableCapital = av] =
          [totalCapital |-> pool.totalCapital, availableCapital |-> av,
           reservedCapital |-> pool.reservedCapital, allocations |-> al, limits |-> pool.limits]
    BY <1>2
  <1>6. [t EXCEPT !.allocations = al] =
          [totalCapital |-> pool.totalCapital, availableCapital |-> av,
           reservedCapital |-> pool.reservedCapital, allocations |-> al, limits |-> pool.limits]
    BY <1>3
  <1> QED
    BY <1>4, <1>5, <1>6

\* requestCapital(): what is granted was there, and is within the limit.
LEMMA AllocatedSound ==
    ASSUME NEW pool, SoundPool(pool), NEW q \in Request, WithinLimits(pool, q), Granted(pool, q) > 0
    PROVE  SoundPool(Allocated(pool, q))
  <1> DEFINE g == Granted(pool, q)
             v == [agentId |-> q.agentId, amount |-> g, performance |-> 0]
             x == pool.allocations
  <1>1. pool \in Pool /\ pool.availableCapital \in Nat /\ x \in Seq(Allocation)
    BY DEF SoundPool, Pool
  <1>2. q.agentId \in Agents /\ q.amount \in Nat \ {0}
    BY InputsAssumption DEF Request
  <1>3. g \in Nat \ {0} /\ g <= pool.availableCapital /\ g <= q.amount
    BY <1>1, <1>2 DEF Granted
  <1>4. Allocated(pool, q) = [pool EXCEPT !.allocations = Append(x, v),
                                          !.availableCapital = pool.availableCapital - g]
    BY DEF Allocated
  <1> HIDE DEF g
  <1>5. v \in Allocation /\ v.amount = g /\ v.agentId = q.agentId
    BY <1>2, <1>3 DEF Allocation
  <1> HIDE DEF v
  <1>6. /\ Append(x, v) \in Seq(Allocation)
        /\ Total(AmountsOf(Append(x, v))) = Total(AmountsOf(x)) + g
    BY <1>1, <1>5, OneMore
  <1>7. ASSUME NEW a \in Agents
        PROVE  Total(HeldBy(Append(x, v), a)) <= pool.limits.maxPerAgent
    <2>1. Total(HeldBy(Append(x, v), a)) = Total(HeldBy(x, a)) + (IF q.agentId = a THEN g ELSE 0)
      BY <1>1, <1>5, OneMore
    <2>2. Total(HeldBy(x, a)) \in Nat /\ Total(HeldBy(x, a)) <= pool.limits.maxPerAgent
          /\ pool.limits.maxPerAgent \in Nat
      BY <1>1, HeldType, LimitsFacts DEF SoundPool, AgentsLimited
    <2>3. q.agentId = a => Total(HeldBy(x, a)) + q.amount <= pool.limits.maxPerAgent
      BY DEF WithinLimits
    <2> QED
      BY <1>2, <1>3, <2>1, <2>2, <2>3
  <1> DEFINE y == Append(x, v)
  <1> HIDE DEF y
  <1>8. /\ y \in Seq(Allocation) /\ Total(AmountsOf(y)) = Total(AmountsOf(x)) + g
        /\ \A a \in Agents : Total(HeldBy(y, a)) <= pool.limits.maxPerAgent
    BY <1>6, <1>7 DEF y
  <1>9. /\ -g \in Int /\ pool.availableCapital - g = pool.availableCapital + (-g)
        /\ pool.availableCapital + (-g) \in Nat
    BY <1>1, <1>3
  <1>10. Total(AmountsOf(y)) + (-g) = Total(AmountsOf(x))
    BY <1>1, <1>3, <1>8, AmountsType
  <1>11. Allocated(pool, q) =
           [totalCapital |-> pool.totalCapital, availableCapital |-> pool.availableCapital + (-g),
            reservedCapital |-> pool.reservedCapital, allocations |-> y, limits |-> pool.limits]
    BY <1>1, <1>4, <1>9, PoolFields DEF y
  <1> QED
    BY <1>8, <1>9, <1>10, <1>11, SoundAfter

\* releaseCapital(): the pool gets what the allocation gives up, whole or part.
LEMMA ReleaseSound ==
    ASSUME NEW pool, SoundPool(pool), NEW i \in DOMAIN pool.allocations, NEW amount \in Nat \ {0}
    PROVE  SoundPool(AfterRelease(pool, i, amount))
  <1> DEFINE x == pool.allocations
             held == x[i].amount
             g == Released(held, amount)
             z == [x[i] EXCEPT !.amount = held - g]
             y == IF g >= held THEN Without(x, i) ELSE [x EXCEPT ![i] = z]
  <1>1. pool \in Pool /\ pool.availableCapital \in Nat /\ x \in Seq(Allocation)
    BY DEF SoundPool, Pool
  <1>2. /\ Len(x) \in Nat /\ DOMAIN x = 1..Len(x) /\ i \in 1..Len(x)
        /\ x[i] \in Allocation /\ held \in Nat \ {0}
    BY <1>1, AmountsType
  <1>3. g \in Nat /\ g <= held /\ g > 0
    BY <1>2 DEF Released
  <1>4. AfterRelease(pool, i, amount) =
          [pool EXCEPT !.availableCapital = pool.availableCapital + g, !.allocations = y]
    BY DEF AfterRelease
  <1>5. /\ y \in Seq(Allocation) /\ Total(AmountsOf(y)) = Total(AmountsOf(x)) - g
        /\ \A a : Total(HeldBy(y, a)) <= Total(HeldBy(x, a))
    <2>1. CASE g >= held
      <3>1. g = held /\ y = Without(x, i)
        BY <1>2, <1>3, <2>1
      <3> HIDE DEF y, g
      <3> QED
        BY <1>1, <1>2, <3>1, OneLess
    <2>2. CASE ~(g >= held)
      <3>1. y = [x EXCEPT ![i] = z]
        BY <2>2
      <3>2. held - g \in Nat \ {0} /\ held - g <= held
        BY <1>2, <1>3, <2>2
      <3> HIDE DEF y, g
      <3>3. z \in Allocation /\ z.agentId = x[i].agentId /\ z.amount = held - g
        BY <1>2, <3>2 DEF Allocation
      <3> HIDE DEF z
      <3>4. /\ y \in Seq(Allocation) /\ Len(y) = Len(x) /\ y[i] = z
            /\ \A j \in 1..Len(x) : j # i => y[j] = x[j]
        BY <1>1, <1>2, <3>1, <3>3
      <3>5. y[i].agentId = x[i].agentId /\ y[i].amount = held - g /\ y[i].amount <= x[i].amount
        BY <3>2, <3>3, <3>4
      <3>6. /\ Total(AmountsOf(y)) = Total(AmountsOf(x)) + (y[i].amount - x[i].amount)
            /\ \A a : Total(HeldBy(y, a)) <= Total(HeldBy(x, a))
        BY <1>1, <1>2, <3>4, <3>5, OneReduced
      <3>7. Total(AmountsOf(x)) \in Nat
        BY <1>1, AmountsType
      <3>8. Total(AmountsOf(x)) + (y[i].amount - x[i].amount) = Total(AmountsOf(x)) - g
        BY <1>2, <1>3, <3>5, <3>7
      <3> QED
        BY <3>4, <3>6, <3>8
    <2> QED
      BY <2>1, <2>2
  <1> HIDE DEF y, g
  <1>6. /\ g \in Int /\ pool.availableCapital + g \in Nat
        /\ Total(AmountsOf(y)) + g = Total(AmountsOf(x))
    <2>1. Total(AmountsOf(x)) \in Nat
      BY <1>1, AmountsType
    <2> QED
      BY <1>1, <1>3, <1>5, <2>1
  <1>7. \A a \in Agents : Total(HeldBy(y, a)) <= pool.limits.maxPerAgent
    <2> TAKE a \in Agents
    <2>1. /\ Total(HeldBy(y, a)) \in Nat /\ Total(HeldBy(x, a)) \in Nat /\ pool.limits.maxPerAgent \in Nat
          /\ Total(HeldBy(y, a)) <= Total(HeldBy(x, a))
      BY <1>1, <1>5, HeldType, LimitsFacts
    <2>2. Total(HeldBy(x, a)) <= pool.limits.maxPerAgent
      BY DEF SoundPool, AgentsLimited
    <2> QED
      BY <2>1, <2>2
  <1>8. AfterRelease(pool, i, amount) =
          [totalCapital |-> pool.totalCapital, availableCapital |-> pool.availableCapital + g,
           reservedCapital |-> pool.reservedCapital, allocations |-> y, limits |-> pool.limits]
    BY <1>1, <1>4, PoolFields
  <1> QED
    BY <1>5, <1>6, <1>7, <1>8, SoundAfter

\* updatePerformance(): a profit adds to the capital and to what is available;
\* no allocation is larger or smaller for it.
LEMMA ResultSound ==
    ASSUME NEW pool, SoundPool(pool), NEW i \in DOMAIN pool.allocations, NEW pnl \in Int
    PROVE  SoundPool(AfterResult(pool, i, pnl))
  <1> DEFINE x == pool.allocations
             z == [x[i] EXCEPT !.performance = x[i].performance + pnl]
             y == [x EXCEPT ![i] = z]
             g == Profit(pnl)
             q == AfterResult(pool, i, pnl)
             r == [pool EXCEPT !.allocations = y]
  <1>1. /\ pool \in Pool /\ x \in Seq(Allocation)
        /\ pool.totalCapital \in Nat /\ pool.availableCapital \in Nat /\ pool.reservedCapital \in Nat
        /\ pool.limits \in Limits
    BY DEF SoundPool, Pool
  <1>2. g \in Nat
    BY DEF Profit
  <1>3. Len(x) \in Nat /\ DOMAIN x = 1..Len(x) /\ i \in 1..Len(x) /\ x[i] \in Allocation
    BY <1>1, AmountsType
  <1>4. \A v \in Allocation : LET u == [v EXCEPT !.performance = v.performance + pnl]
                              IN  u \in Allocation /\ u.agentId = v.agentId /\ u.amount = v.amount
    BY DEF Allocation
  <1>5. z \in Allocation /\ z.agentId = x[i].agentId /\ z.amount = x[i].amount
    BY <1>3, <1>4
  <1>6. q = [[r EXCEPT !.totalCapital = pool.totalCapital + g]
                EXCEPT !.availableCapital = pool.availableCapital + g]
    <2>1. [pool EXCEPT !.allocations[i].performance = pool.allocations[i].performance + pnl] = r
      BY <1>3
    <2>2. r.totalCapital = pool.totalCapital /\ r.availableCapital = pool.availableCapital
      BY <1>1
    <2> QED
      BY <1>1, <2>1, <2>2 DEF AfterResult
  <1>7. r = [totalCapital |-> pool.totalCapital, availableCapital |-> pool.availableCapital,
             reservedCapital |-> pool.reservedCapital, allocations |-> y, limits |-> pool.limits]
    <2> HIDE DEF y
    <2>1. pool = [totalCapital |-> pool.totalCapital, availableCapital |-> pool.availableCapital,
                  reservedCapital |-> pool.reservedCapital, allocations |-> x, limits |-> pool.limits]
      BY <1>1 DEF Pool
    <2> QED
      BY <2>1
  <1> HIDE DEF r, q, z, g
  <1>8. /\ y \in Seq(Allocation) /\ Len(y) = Len(x) /\ y[i] = z
        /\ \A j \in 1..Len(x) : j # i => y[j] = x[j]
    BY <1>1, <1>3, <1>5
  <1> HIDE DEF y
  <1>9. q = [totalCapital |-> pool.totalCapital + g, availableCapital |-> pool.availableCapital + g,
             reservedCapital |-> pool.reservedCapital, allocations |-> y, limits |-> pool.limits]
    <2> DEFINE t == [r EXCEPT !.totalCapital = pool.totalCapital + g]
    <2>1. t = [totalCapital |-> pool.totalCapital + g, availableCapital |-> pool.availableCapital,
               reservedCapital |-> pool.reservedCapital, allocations |-> y, limits |-> pool.limits]
      BY <1>7
    <2>2. q = [t EXCEPT !.availableCapital = pool.availableCapital + g]
      BY <1>6
    <2> HIDE DEF t
    <2> QED
      BY <2>1, <2>2
  <1>10. /\ q.totalCapital = pool.totalCapital + g /\ q.availableCapital = pool.availableCapital + g
         /\ q.reservedCapital = pool.reservedCapital /\ q.allocations = y /\ q.limits = pool.limits
         /\ q \in Pool
    BY <1>1, <1>2, <1>8, <1>9 DEF Pool
  <1>11. y[i].agentId = x[i].agentId /\ y[i].amount = x[i].amount /\ x[i].amount \in Nat
    BY <1>3, <1>5, <1>8 DEF Allocation
  <1>12. /\ Total(AmountsOf(y)) = Total(AmountsOf(x)) + (y[i].amount - x[i].amount)
         /\ \A a : Total(HeldBy(y, a)) <= Total(HeldBy(x, a))
    <2>1. y[i].amount <= x[i].amount
      BY <1>11
    <2> QED
      BY <1>1, <1>3, <1>8, <1>11, <2>1, OneReduced
  <1>13. Total(AmountsOf(x)) \in Nat
    BY <1>1, AmountsType
  <1>14. Total(AmountsOf(y)) = Total(AmountsOf(x))
    BY <1>11, <1>12, <1>13
  <1>15. Balanced(q)
    BY <1>1, <1>2, <1>10, <1>13, <1>14 DEF SoundPool, Balanced
  <1>16. AgentsLimited(q)
    <2> SUFFICES ASSUME NEW a \in Agents PROVE Total(HeldBy(y, a)) <= pool.limits.maxPerAgent
      BY <1>10 DEF AgentsLimited
    <2>1. Total(HeldBy(y, a)) \in Nat /\ Total(HeldBy(x, a)) \in Nat /\ pool.limits.maxPerAgent \in Nat
      BY <1>1, <1>8, HeldType, LimitsFacts
    <2>2. Total(HeldBy(x, a)) <= pool.limits.maxPerAgent
      BY DEF SoundPool, AgentsLimited
    <2> QED
      BY <1>12, <2>1, <2>2
  <1> QED
    BY <1>10, <1>15, <1>16 DEF SoundPool, q

\* rebalancePool(): the pool gets what the allocations lose, a fifth of each at
\* most.
LEMMA RebalancedSound ==
    ASSUME NEW pool, SoundPool(pool)
    PROVE  SoundPool(Rebalanced(pool))
  <1> DEFINE x == pool.allocations
             cut == Reductions(x)
             y == Reduced(x, cut)
             g == Total(cut)
             n == Len(x)
  <1>1. pool \in Pool /\ pool.availableCapital \in Nat /\ x \in Seq(Allocation)
    BY DEF SoundPool, Pool
  <1>2. n \in Nat /\ DOMAIN x = 1..n /\ \A i \in 1..n : x[i] \in Allocation /\ x[i].amount \in Nat \ {0}
    BY <1>1, AmountsType
  <1>3. /\ cut \in Seq(Nat) /\ cut \in Seq(Int) /\ Len(cut) = n
        /\ \A i \in 1..n : cut[i] \in Nat /\ cut[i] < x[i].amount
    <2> DEFINE few(i) == 2 * Len(x) * x[i].performance < Total([j \in DOMAIN x |-> x[j].performance])
    <2>1. cut = [i \in 1..n |-> IF few(i) THEN x[i].amount \div 5 ELSE 0]
      BY <1>2 DEF Reductions
    <2> HIDE DEF cut, few
    <2>2. \A m \in Nat \ {0} : m \div 5 \in Nat /\ m \div 5 < m
      OBVIOUS
    <2>3. \A i \in 1..n : cut[i] \in Nat /\ cut[i] < x[i].amount
      BY <1>2, <2>1, <2>2
    <2>4. cut \in [1..n -> Nat]
      BY <2>1, <2>3
    <2> HIDE DEF n
    <2> QED
      BY <1>2, <2>3, <2>4
  <1>4. Rebalanced(pool) = [pool EXCEPT !.availableCapital = pool.availableCapital + g, !.allocations = y]
    BY DEF Rebalanced
  <1> HIDE DEF cut, n
  <1>5. /\ y \in Seq(Allocation) /\ Len(y) = n
        /\ \A i \in 1..n : y[i].agentId = x[i].agentId /\ y[i].amount = x[i].amount - cut[i]
    <2>1. \A v \in Allocation, m \in Nat \ {0} :
            LET u == [v EXCEPT !.amount = m] IN u \in Allocation /\ u.agentId = v.agentId /\ u.amount = m
      BY DEF Allocation
    <2>2. \A i \in 1..n : y[i] = [x[i] EXCEPT !.amount = x[i].amount - cut[i]]
      BY <1>2 DEF Reduced
    <2>3. \A i \in 1..n : x[i].amount - cut[i] \in Nat \ {0}
      BY <1>2, <1>3
    <2>4. \A i \in 1..n : /\ y[i] \in Allocation
                          /\ y[i].agentId = x[i].agentId /\ y[i].amount = x[i].amount - cut[i]
      <3> TAKE i \in 1..n
      <3> DEFINE m == x[i].amount - cut[i]
                 u == [x[i] EXCEPT !.amount = m]
      <3>1. x[i] \in Allocation /\ m \in Nat \ {0} /\ y[i] = u
        BY <1>2, <2>2, <2>3
      <3> HIDE DEF m
      <3>2. u \in Allocation /\ u.agentId = x[i].agentId /\ u.amount = m
        BY <2>1, <3>1
      <3> HIDE DEF u
      <3>3. y[i] \in Allocation /\ y[i].agentId = x[i].agentId /\ y[i].amount = m
        BY <3>1, <3>2
      <3> QED
        BY <3>3 DEF m
    <2>5. y = [i \in 1..n |-> y[i]]
      BY <1>2 DEF Reduced
    <2> HIDE DEF y
    <2>6. y \in Seq(Allocation) /\ Len(y) = n
      BY <1>2, <2>4, <2>5
    <2> QED
      BY <2>4, <2>6
  <1> HIDE DEF y, g
  <1>6. g \in Nat
    BY <1>3, TotalNat DEF g
  <1>7. Total(AmountsOf(x)) = Total(AmountsOf(y)) + g
    <2> DEFINE s == AmountsOf(y)
               t == AmountsOf(x)
    <2>1. /\ s \in Seq(Int) /\ Len(s) = n /\ t \in Seq(Int) /\ Len(t) = n
          /\ \A i \in 1..n : s[i] = y[i].amount /\ t[i] = x[i].amount
      BY <1>1, <1>5, AmountsType DEF n
    <2> HIDE DEF s, t
    <2>2. ASSUME NEW i \in 1..n
          PROVE  t[i] = s[i] + cut[i]
      <3>1. t[i] = x[i].amount /\ s[i] = x[i].amount - cut[i] /\ x[i].amount \in Nat /\ cut[i] \in Nat
        BY <1>2, <1>3, <1>5, <2>1
      <3> QED
        BY <3>1
    <2>3. Len(t) = Len(s) /\ Len(cut) = Len(s) /\ \A i \in 1..Len(s) : t[i] = s[i] + cut[i]
      BY <1>3, <2>1, <2>2
    <2>4. Total(t) = Total(s) + Total(cut)
      BY <1>3, <2>1, <2>3, TotalOfSum
    <2> QED
      BY <2>4 DEF s, t, g
  <1>8. ASSUME NEW a \in Agents
        PROVE  Total(HeldBy(y, a)) <= pool.limits.maxPerAgent
    <2> DEFINE u == HeldBy(x, a)
               v == HeldBy(y, a)
    <2>1. /\ u \in Seq(Int) /\ Len(u) = n /\ Total(u) \in Nat
          /\ \A i \in 1..n : u[i] = IF x[i].agentId = a THEN x[i].amount ELSE 0
      BY <1>1, HeldType DEF n
    <2>2. /\ v \in Seq(Int) /\ Len(v) = n /\ Total(v) \in Nat
          /\ \A i \in 1..n : v[i] = IF y[i].agentId = a THEN y[i].amount ELSE 0
      BY <1>5, HeldType
    <2>3. Total(u) <= pool.limits.maxPerAgent /\ pool.limits.maxPerAgent \in Nat
      BY LimitsFacts DEF SoundPool, AgentsLimited
    <2> HIDE DEF u, v
    <2>4. ASSUME NEW i \in 1..Len(u)
          PROVE  v[i] <= u[i]
      <3>1. /\ i \in 1..n /\ x[i].amount \in Nat /\ cut[i] \in Nat
            /\ y[i].agentId = x[i].agentId /\ y[i].amount = x[i].amount - cut[i]
        BY <1>2, <1>3, <1>5, <2>1
      <3>2. CASE x[i].agentId = a
        <4>1. u[i] = x[i].amount /\ v[i] = x[i].amount - cut[i]
          BY <2>1, <2>2, <3>1, <3>2
        <4> QED
          BY <3>1, <4>1
      <3>3. CASE x[i].agentId # a
        BY <2>1, <2>2, <3>1, <3>3
      <3> QED
        BY <3>2, <3>3
    <2>5. Total(v) <= Total(u)
      BY <2>1, <2>2, <2>4, TotalMonotone
    <2>6. Total(v) <= pool.limits.maxPerAgent
      BY <2>1, <2>2, <2>3, <2>5
    <2> QED
      BY <2>6 DEF v
  <1>9. /\ g \in Int /\ pool.availableCapital + g \in Nat
        /\ Total(AmountsOf(y)) + g = Total(AmountsOf(x))
    BY <1>1, <1>6, <1>7
  <1>10. Rebalanced(pool) =
           [totalCapital |-> pool.totalCapital, availableCapital |-> pool.availableCapital + g,
            reservedCapital |-> pool.reservedCapital, allocations |-> y, limits |-> pool.limits]
    BY <1>1, <1>4, PoolFields
  <1> QED
    BY <1>5, <1>8, <1>9, <1>10, SoundAfter

\* createPool(): the reserve is a part of the total.
LEMMA ReserveFacts ==
    ASSUME NEW total \in Nat, NEW ratio \in 0..100
    PROVE  (total * ratio) \div 100 \in 0..total
  <1>1. total * ratio \in Nat /\ total * ratio <= total * 100
    OBVIOUS
  <1> DEFINE m == total * ratio
  <1>3. m \in Nat /\ m <= total * 100
    BY <1>1
  <1> HIDE DEF m
  <1>4. m \div 100 \in Nat /\ m \div 100 <= total
    BY <1>3
  <1> QED
    BY <1>4 DEF m

\* The smallest of a set of positions, or 0.
LEMMA FirstFacts ==
    ASSUME NEW P \in SUBSET Nat
    PROVE  (P = {} => First(P) = 0) /\ (P # {} => First(P) \in P)
  <1>1. P = {} => First(P) = 0
    BY DEF First
  <1>2. ASSUME P # {} PROVE First(P) \in P
    <2> DEFINE R == OpToRel(<, Nat)
    <2>1. \E i \in P : \A j \in P : ~ (<<j, i>> \in R)
      <3>1. IsWellFoundedOn(R, Nat)
        BY NatLessThanWellFounded
      <3> HIDE DEF R
      <3> QED
        BY <1>2, <3>1, WFMin
    <2>2. \A i, j \in Nat : j < i => <<j, i>> \in R
      BY DEF OpToRel
    <2> HIDE DEF R
    <2>3. \E i \in P : \A j \in P : ~ (j < i)
      BY <2>1, <2>2
    <2>4. \E i \in P : \A j \in P : i <= j
      BY <2>3
    <2> QED
      BY <1>2, <2>4 DEF First
  <1> QED
    BY <1>1, <1>2

-----------------------------------------------------------------------------
(* The invariant.                                                          *)

\* Every pool is in order, and every request that waits has chosen a pool that
\* there is.
CapitalInv ==
    /\ pools \in Seq(Pool) /\ Len(pools) <= MaxPools
    /\ \A p \in DOMAIN pools : SoundPool(pools[p])
    /\ waiting \in Seq(Request)
    /\ \A i \in DOMAIN waiting : waiting[i].pool <= Len(pools)

\* One pool replaced by one in order.
LEMMA OnePoolChanges ==
    ASSUME CapitalInv, NEW p \in DOMAIN pools, NEW pool, SoundPool(pool),
           pools' = [pools EXCEPT ![p] = pool],
           waiting' \in Seq(Request), \A i \in DOMAIN waiting' : waiting'[i].pool <= Len(pools)
    PROVE  CapitalInv'
  <1>1. pools \in Seq(Pool) /\ pool \in Pool
    BY DEF CapitalInv, SoundPool
  <1>2. /\ pools' \in Seq(Pool) /\ Len(pools') = Len(pools) /\ DOMAIN pools' = DOMAIN pools
        /\ pools'[p] = pool /\ \A o \in DOMAIN pools : o # p => pools'[o] = pools[o]
    BY <1>1
  <1>3. \A o \in DOMAIN pools' : SoundPool(pools'[o])
    BY <1>2 DEF CapitalInv
  <1>4. \A o \in DOMAIN pools' : SoundPool(pools[o])'
    BY <1>3 DEF SoundPool, Balanced, AgentsLimited
  <1> QED
    BY <1>2, <1>4 DEF CapitalInv

\* The positions PoolFor() and PoolOf() come to.
LEMMA PoolForFacts ==
    ASSUME CapitalInv, NEW amount
    PROVE  PoolFor(amount) \in 0..MaxPools /\ PoolFor(amount) <= Len(pools)
  <1>1. DOMAIN pools = 1..Len(pools) /\ Len(pools) \in Nat /\ Len(pools) <= MaxPools /\ MaxPools \in Nat
    BY BoundsAssumption DEF CapitalInv
  <1> DEFINE P == IF Sufficient(amount) # {} THEN Sufficient(amount) ELSE Fullest
  <1>2. P \subseteq 1..Len(pools)
    BY <1>1 DEF Sufficient, Fullest
  <1>3. PoolFor(amount) = First(P)
    BY DEF PoolFor
  <1> HIDE DEF P
  <1>4. First(P) \in P \cup {0}
    <2> HIDE DEF P
    <2>1. P \in SUBSET Nat
      BY <1>1, <1>2
    <2> QED
      BY <2>1, FirstFacts
  <1>5. First(P) \in 0..Len(pools)
    <2> DEFINE n == Len(pools)
    <2>1. n \in Nat /\ P \subseteq 1..n
      BY <1>1, <1>2
    <2> HIDE DEF n
    <2>2. P \cup {0} \subseteq 0..n
      BY <2>1
    <2> QED
      BY <1>4, <2>2 DEF n
  <1>6. 0..Len(pools) \subseteq 0..MaxPools /\ \A n \in 0..Len(pools) : n <= Len(pools)
    BY <1>1
  <1> QED
    BY <1>3, <1>5, <1>6

LEMMA PoolOfFacts ==
    ASSUME CapitalInv, NEW a, PoolOf(a) # 0
    PROVE  /\ PoolOf(a) \in DOMAIN pools /\ SoundPool(pools[PoolOf(a)])
           /\ First(Held(PoolOf(a), a)) \in DOMAIN pools[PoolOf(a)].allocations
  <1> DEFINE P == {p \in DOMAIN pools : Held(p, a) # {}}
  <1>1. pools \in Seq(Pool) /\ DOMAIN pools = 1..Len(pools)
    BY DEF CapitalInv
  <1>2. P \subseteq Nat
    BY <1>1
  <1>3. PoolOf(a) = First(P)
    BY DEF PoolOf
  <1> HIDE DEF P
  <1>4. PoolOf(a) \in P
    BY <1>2, <1>3, FirstFacts
  <1> DEFINE p == PoolOf(a)
  <1> HIDE DEF p
  <1>5. p \in DOMAIN pools /\ Held(p, a) # {} /\ SoundPool(pools[p])
    BY <1>4 DEF P, p, CapitalInv
  <1>6. pools[p].allocations \in Seq(Allocation)
    BY <1>5 DEF SoundPool, Pool
  <1>7. Held(p, a) \subseteq DOMAIN pools[p].allocations /\ Held(p, a) \subseteq Nat
    BY <1>6 DEF Held
  <1>8. First(Held(p, a)) \in Held(p, a)
    BY <1>5, <1>7, FirstFacts
  <1> QED
    BY <1>5, <1>7, <1>8 DEF p

LEMMA InitCapital == Init => CapitalInv
  BY BoundsAssumption DEF Init, CapitalInv

LEMMA NextCapital == CapitalInv /\ [Next]_vars => CapitalInv'
  <1> SUFFICES ASSUME CapitalInv, [Next]_vars PROVE CapitalInv'
    OBVIOUS
  <1>0. /\ pools \in Seq(Pool) /\ Len(pools) \in Nat /\ DOMAIN pools = 1..Len(pools)
        /\ Len(pools) <= MaxPools /\ MaxPools \in Nat
        /\ waiting \in Seq(Request) /\ \A i \in DOMAIN waiting : waiting[i].pool <= Len(pools)
        /\ \A p \in DOMAIN pools : SoundPool(pools[p])
    BY BoundsAssumption DEF CapitalInv
  <1>1. ASSUME NEW total \in Totals, NEW limits \in Limits, CreatePool(total, limits)
        PROVE  CapitalInv'
    <2> DEFINE reserved == (total * limits.reserveRatio) \div 100
               pool == [totalCapital |-> total, availableCapital |-> total - reserved,
                        reservedCapital |-> reserved, allocations |-> << >>, limits |-> limits]
    <2>1. pools' = Append(pools, pool) /\ waiting' = waiting /\ Len(pools) < MaxPools
      BY <1>1 DEF CreatePool
    <2>2. total \in Nat /\ reserved \in 0..total
      <3>1. limits.reserveRatio \in 0..100
        BY LimitsAssumption
      <3> QED
        BY <3>1, InputsAssumption, ReserveFacts
    <2> HIDE DEF reserved
    <2>3. << >> \in Seq(Allocation)
      OBVIOUS
    <2>4. AmountsOf(<< >>) = << >> /\ \A a : HeldBy(<< >>, a) = << >>
      BY DEF AmountsOf, HeldBy
    <2>5. Total(<< >>) = 0
      <3>1. << >> \in Seq(Int)
        OBVIOUS
      <3> QED
        BY <3>1, TotalType
    <2>6. pool \in Pool /\ total - reserved \in Nat
      BY <2>2, <2>3 DEF Pool
    <2>7. Balanced(pool)
      BY <2>2, <2>4, <2>5 DEF Balanced
    <2>8. AgentsLimited(pool)
      <3>1. pool.limits.maxPerAgent \in Nat
        BY LimitsAssumption
      <3> QED
        BY <2>4, <2>5, <3>1 DEF AgentsLimited
    <2> HIDE DEF pool
    <2>9. /\ pools' \in Seq(Pool) /\ Len(pools') = Len(pools) + 1
          /\ DOMAIN pools' = 1..Len(pools) + 1 /\ pools'[Len(pools) + 1] = pool
          /\ \A p \in 1..Len(pools) : pools'[p] = pools[p]
      BY <1>0, <2>1, <2>6
    <2>10. \A p \in DOMAIN pools' : SoundPool(pools'[p])
      <3>1. \A p \in DOMAIN pools' : p \in 1..Len(pools) \/ p = Len(pools) + 1
        BY <1>0, <2>9
      <3> QED
        BY <1>0, <2>6, <2>7, <2>8, <2>9, <3>1 DEF SoundPool
    <2>11. \A i \in DOMAIN waiting : waiting[i].pool <= Len(pools')
      <3>1. \A i \in DOMAIN waiting : waiting[i].pool \in 0..MaxPools /\ waiting[i].pool <= Len(pools)
        <4>1. \A i \in DOMAIN waiting : waiting[i] \in Request
          BY <1>0
        <4> QED
          BY <1>0, <4>1 DEF Request
      <3> QED
        BY <1>0, <2>9, <3>1
    <2> QED
      BY <1>0, <2>1, <2>9, <2>10, <2>11 DEF CapitalInv
  <1>2. ASSUME NEW a \in Agents, NEW amount \in Amounts, NEW urgent \in BOOLEAN, NEW highRisk \in BOOLEAN,
               RequestCapital(a, amount, urgent, highRisk)
        PROVE  CapitalInv'
    <2> DEFINE q == [agentId |-> a, amount |-> amount, urgent |-> urgent,
                     highRisk |-> highRisk, pool |-> PoolFor(amount)]
    <2>1. waiting' = Append(waiting, q) /\ pools' = pools
      BY <1>2 DEF RequestCapital
    <2>2. q \in Request /\ q.pool <= Len(pools)
      BY PoolForFacts DEF Request
    <2> HIDE DEF q
    <2>3. /\ waiting' \in Seq(Request)
          /\ \A i \in DOMAIN waiting' : waiting'[i] = q \/ (i \in DOMAIN waiting /\ waiting'[i] = waiting[i])
      BY <1>0, <2>1, <2>2
    <2> QED
      BY <1>0, <2>1, <2>2, <2>3 DEF CapitalInv
  <1>3. ASSUME NEW a \in Agents, NEW amount \in Amounts, ReleaseCapital(a, amount)
        PROVE  CapitalInv'
    <2> DEFINE p == PoolOf(a)
               i == First(Held(p, a))
    <2>1. p \in DOMAIN pools /\ SoundPool(pools[p]) /\ i \in DOMAIN pools[p].allocations
      BY <1>3, PoolOfFacts DEF ReleaseCapital
    <2>2. pools' = [pools EXCEPT ![p] = AfterRelease(pools[p], i, amount)] /\ waiting' = waiting
      BY <1>3 DEF ReleaseCapital
    <2> HIDE DEF p, i
    <2>3. SoundPool(AfterRelease(pools[p], i, amount))
      BY <2>1, InputsAssumption, ReleaseSound
    <2> QED
      BY <1>0, <2>1, <2>2, <2>3, OnePoolChanges
  <1>4. CASE Decide
    <2> DEFINE q == Head(waiting)
    <2>1. waiting # << >> /\ waiting' = Tail(waiting)
      BY <1>4 DEF Decide
    <2>2. q \in Request /\ q.pool \in 0..MaxPools /\ q.pool <= Len(pools)
      <3>1. q = waiting[1] /\ 1 \in DOMAIN waiting /\ q \in Request
        BY <1>0, <2>1
      <3> QED
        BY <1>0, <3>1 DEF Request
    <2>3. waiting' \in Seq(Request) /\ \A i \in DOMAIN waiting' : waiting'[i].pool <= Len(pools)
      <3>1. /\ waiting' \in Seq(Request) /\ Len(waiting) \in Nat
            /\ \A i \in DOMAIN waiting' : i + 1 \in DOMAIN waiting /\ waiting'[i] = waiting[i + 1]
        BY <1>0, <2>1
      <3> QED
        BY <1>0, <3>1
    <2>4. CASE /\ q.pool # 0
               /\ WithinLimits(pools[q.pool], q) /\ Granted(pools[q.pool], q) > 0
               /\ pools' = [pools EXCEPT ![q.pool] = Allocated(pools[q.pool], q)]
      <3>1. q.pool \in DOMAIN pools
        BY <1>0, <2>2, <2>4
      <3>2. SoundPool(Allocated(pools[q.pool], q))
        BY <1>0, <2>2, <2>4, <3>1, AllocatedSound
      <3> HIDE DEF q
      <3> QED
        BY <2>3, <2>4, <3>1, <3>2, OnePoolChanges
    <2>5. CASE pools' = pools
      BY <1>0, <2>3, <2>5 DEF CapitalInv
    <2> QED
      BY <1>4, <2>4, <2>5 DEF Decide
  <1>5. ASSUME NEW a \in Agents, NEW pnl \in Results, UpdatePerformance(a, pnl)
        PROVE  CapitalInv'
    <2> DEFINE p == PoolOf(a)
               i == First(Held(p, a))
    <2>1. p \in DOMAIN pools /\ SoundPool(pools[p]) /\ i \in DOMAIN pools[p].allocations
      BY <1>5, PoolOfFacts DEF UpdatePerformance
    <2>2. pools' = [pools EXCEPT ![p] = AfterResult(pools[p], i, pnl)] /\ waiting' = waiting
      BY <1>5 DEF UpdatePerformance
    <2> HIDE DEF p, i
    <2>3. SoundPool(AfterResult(pools[p], i, pnl))
      BY <2>1, InputsAssumption, ResultSound
    <2> QED
      BY <1>0, <2>1, <2>2, <2>3, OnePoolChanges
  <1>6. ASSUME NEW p \in DOMAIN pools, RebalancePool(p)
        PROVE  CapitalInv'
    BY <1>0, <1>6, RebalancedSound, OnePoolChanges DEF RebalancePool
  <1>7. CASE UNCHANGED vars
    BY <1>7 DEF vars, CapitalInv, SoundPool, Balanced, AgentsLimited
  <1> QED
    BY <1>1, <1>2, <1>3, <1>4, <1>5, <1>6, <1>7 DEF Next

LEMMA CapitalInvHolds == Spec => []CapitalInv
  BY InitCapital, NextCapital, PTL DEF Spec

-----------------------------------------------------------------------------
(* The properties.                                                         *)

\* requestCapital(), capital-manager.ts:105-135: for any agents, amounts and
\* pools, a pool is never overdrawn by requests that chose it before others
\* took from it, and no allocation of nothing is kept.
THEOREM TypeOKHolds == Spec => []TypeOK
  <1>1. CapitalInv => TypeOK
    BY DEF CapitalInv, TypeOK
  <1> QED
    BY <1>1, CapitalInvHolds, PTL

\* Through every interleaving of requests, releases, results and rebalancing
\* (capital-manager.ts:78-240, 342-375) what is available, reserved and lent
\* adds up to the pool's total.
THEOREM BooksBalanceHolds == Spec => []BooksBalance
  <1>1. CapitalInv => BooksBalance
    BY DEF CapitalInv, SoundPool, Balanced, BooksBalance
  <1> QED
    BY <1>1, CapitalInvHolds, PTL

\* checkLimits(), capital-manager.ts:316-340: no pool ever lends an agent more
\* than maxPerAgent, however its requests, those of others and rebalancing
\* interleave.
THEOREM PerAgentLimitHolds == Spec => []PerAgentLimit
  <1>1. CapitalInv => PerAgentLimit
    BY DEF CapitalInv, SoundPool, AgentsLimited, PerAgentLimit
  <1> QED
    BY <1>1, CapitalInvHolds, PTL
=============================================================================

----------------------------- MODULE OrderLemmas -----------------------------
(***************************************************************************)
(* Facts about natural numbers the proofs of several modules rest on: the  *)
(* least element of a set, the running totals of a sequence, and the ranks *)
(* and the weights of a finite set in sorted order.  What would be proved  *)
(* by induction is proved by looking at the least counterexample.          *)
(***************************************************************************)
EXTENDS Sums, FiniteSetTheorems, TLAPS

\* A set of natural numbers that is not empty has a least element.
LEMMA LeastOf ==
    ASSUME NEW S, S \subseteq Nat, S # {}
    PROVE  \E n \in S : \A m \in S : n <= m
<1> DEFINE less == OpToRel(<, Nat)
<1>1. IsWellFoundedOn(less, Nat)
  BY NatLessThanWellFounded
<1>2. \A m, n \in Nat : m < n => <<m, n>> \in less
  BY DEF OpToRel
<1> HIDE DEF less
<1>3. PICK n \in S : \A m \in S : ~(<<m, n>> \in less)
  BY <1>1, WFMin
<1>4. ASSUME NEW m \in S PROVE n <= m
  <2>1. m \in Nat /\ n \in Nat
    OBVIOUS
  <2>2. ~(m < n)
    BY <1>2, <1>3, <2>1
  <2>3. QED
    BY <2>1, <2>2
<1>5. QED
  BY <1>4

(***************************************************************************)
(* Running totals.                                                         *)
(***************************************************************************)
SumsBody(ws, g) == [i \in 0..Len(ws) |-> IF i = 0 THEN 0 ELSE g[i - 1] + ws[i]]

\* They are well defined: were they not, there would be a shortest prefix of
\* the sequence without them.
LEMMA RunningSumsExist ==
    ASSUME NEW ws \in Seq(Nat)
    PROVE  \E g \in [0..Len(ws) -> Nat] : g = SumsBody(ws, g)
<1> DEFINE n == Len(ws)
           OK(g, k) == \A i \in 0..k : g[i] = IF i = 0 THEN 0 ELSE g[i - 1] + ws[i]
           Sums(k) == {g \in [0..n -> Nat] : OK(g, k)}
           Short == {k \in 0..n : Sums(k) = {}}
<1>0. n \in Nat /\ \A i \in 1..n : ws[i] \in Nat
  OBVIOUS
<1> HIDE DEF n
<1>1. Short = {}
  <2>1. SUFFICES ASSUME Short # {} PROVE FALSE
    OBVIOUS
  <2>2. PICK k \in Short : \A m \in Short : k <= m
    <3>1. Short \subseteq Nat
      BY <1>0
    <3>2. QED
      BY <2>1, <3>1, LeastOf
  <2>3. CASE k = 0
    <3>1. [i \in 0..n |-> 0] \in Sums(0)
      BY <1>0
    <3>2. QED
      BY <2>2, <2>3, <3>1
  <2>4. CASE k > 0
    <3>0. k \in 0..n /\ k - 1 \in 0..n /\ ~(k <= k - 1)
      BY <1>0, <2>2, <2>4
    <3>1. PICK g \in Sums(k - 1) : TRUE
      <4> HIDE DEF Sums
      <4>1. k - 1 \notin Short
        BY <2>2, <3>0
      <4>2. QED
        BY <3>0, <4>1
    <3> DEFINE g2 == [g EXCEPT ![k] = g[k - 1] + ws[k]]
    <3>2. g2 \in [0..n -> Nat]
      BY <1>0, <3>0, <3>1
    <3>3. OK(g2, k)
      BY <1>0, <2>4, <3>0, <3>1
    <3>4. g2 \in Sums(k)
      BY <3>2, <3>3
    <3>5. QED
      BY <2>2, <3>4
  <2>5. QED
    BY <1>0, <2>2, <2>3, <2>4
<1>2. PICK g \in Sums(n) : TRUE
  <2>1. n \in 0..n
    BY <1>0
  <2> HIDE DEF Sums
  <2>2. QED
    BY <1>1, <2>1
<1>3. g = SumsBody(ws, g)
  BY <1>2 DEF SumsBody, n
<1>4. QED
  BY <1>2, <1>3 DEF n

\* The equations of the running totals.
LEMMA RunningSumsFacts ==
    ASSUME NEW ws \in Seq(Nat)
    PROVE  /\ RunningSums(ws)[0] = 0
           /\ \A i \in 1..Len(ws) : RunningSums(ws)[i] = RunningSums(ws)[i - 1] + ws[i]
           /\ RunningSums(ws) \in [0..Len(ws) -> Nat]
<1> DEFINE n == Len(ws)
           s == RunningSums(ws)
           Odd == {i \in 0..n : s[i] \notin Nat}
<1>0. n \in Nat /\ \A i \in 1..n : ws[i] \in Nat
  OBVIOUS
<1>1. \E g : g = SumsBody(ws, g)
  BY RunningSumsExist
<1>2. s = CHOOSE g : g = SumsBody(ws, g)
  BY DEF RunningSums, SumsBody
<1>3. s = SumsBody(ws, s)
  BY <1>1, <1>2
<1> HIDE DEF s
<1>4. s = [i \in 0..n |-> IF i = 0 THEN 0 ELSE s[i - 1] + ws[i]]
  BY <1>3 DEF SumsBody
<1> HIDE DEF n
<1>5. s[0] = 0 /\ \A i \in 1..n : s[i] = s[i - 1] + ws[i]
  BY <1>0, <1>4
<1>6. Odd = {}
  <2>1. SUFFICES ASSUME Odd # {} PROVE FALSE
    OBVIOUS
  <2>2. PICK k \in Odd : \A m \in Odd : k <= m
    <3>1. Odd \subseteq Nat
      BY <1>0
    <3>2. QED
      BY <2>1, <3>1, LeastOf
  <2>3. k = 0 \/ s[k - 1] \in Nat
    BY <1>0, <2>2
  <2>4. QED
    BY <1>0, <1>5, <2>2, <2>3
<1>7. s \in [0..n -> Nat]
  BY <1>4, <1>6
<1>8. QED
  BY <1>5, <1>7 DEF n, s

LEMMA SumIsNat ==
    ASSUME NEW ws \in Seq(Nat)
    PROVE  SumOf(ws) \in Nat
<1>1. RunningSums(ws) \in [0..Len(ws) -> Nat] /\ Len(ws) \in 0..Len(ws)
  BY RunningSumsFacts
<1>2. QED
  BY <1>1 DEF SumOf

\* Running totals never decrease.
LEMMA RunningSumsGrow ==
    ASSUME NEW ws \in Seq(Nat), NEW i \in 0..Len(ws), NEW j \in i..Len(ws)
    PROVE  RunningSums(ws)[i] <= RunningSums(ws)[j]
<1> DEFINE n == Len(ws)
           s == RunningSums(ws)
           Odd == {k \in i..n : ~(s[i] <= s[k])}
<1>1. /\ n \in Nat /\ \A k \in 1..n : ws[k] \in Nat
      /\ s[0] = 0 /\ \A k \in 1..n : s[k] = s[k - 1] + ws[k]
      /\ s \in [0..n -> Nat]
      /\ i \in 0..n /\ j \in i..n
  BY RunningSumsFacts
<1> HIDE DEF s, n
<1>2. Odd = {}
  <2>1. SUFFICES ASSUME Odd # {} PROVE FALSE
    OBVIOUS
  <2>2. PICK k \in Odd : \A m \in Odd : k <= m
    <3>1. Odd \subseteq Nat
      BY <1>1
    <3>2. QED
      BY <2>1, <3>1, LeastOf
  <2>3. k \in 1..n /\ k - 1 \in i..n
    <3>1. k \in i..n /\ s[i] \in Nat /\ k # i
      BY <1>1, <2>2
    <3>2. QED
      BY <1>1, <3>1
  <2>4. s[i] <= s[k - 1]
    <3>1. k - 1 \notin Odd
      BY <1>1, <2>2, <2>3
    <3>2. QED
      BY <2>3, <3>1
  <2>5. s[k] = s[k - 1] + ws[k] /\ ws[k] \in Nat /\ s[k - 1] \in Nat /\ s[i] \in Nat
    BY <1>1, <2>3
  <2>6. QED
    BY <2>2, <2>4, <2>5
<1>3. QED
  BY <1>1, <1>2 DEF s, n

\* A sequence that is nowhere larger has no larger sum.
LEMMA SumsPointwise ==
    ASSUME NEW us \in Seq(Nat), NEW ws \in Seq(Nat), Len(us) = Len(ws),
           \A i \in 1..Len(ws) : us[i] <= ws[i]
    PROVE  SumOf(us) <= SumOf(ws)
<1> DEFINE n == Len(ws)
           r == RunningSums(us)
           s == RunningSums(ws)
           Odd == {k \in 0..n : ~(r[k] <= s[k])}
<1>1. /\ n \in Nat /\ \A k \in 1..n : us[k] \in Nat /\ ws[k] \in Nat /\ us[k] <= ws[k]
      /\ r[0] = 0 /\ s[0] = 0
      /\ \A k \in 1..n : r[k] = r[k - 1] + us[k] /\ s[k] = s[k - 1] + ws[k]
      /\ r \in [0..n -> Nat] /\ s \in [0..n -> Nat]
  BY RunningSumsFacts
<1>2. SumOf(us) = r[n] /\ SumOf(ws) = s[n]
  BY DEF SumOf
<1> HIDE DEF r, s, n
<1>3. Odd = {}
  <2>1. SUFFICES ASSUME Odd # {} PROVE FALSE
    OBVIOUS
  <2>2. PICK k \in Odd : \A m \in Odd : k <= m
    <3>1. Odd \subseteq Nat
      BY <1>1
    <3>2. QED
      BY <2>1, <3>1, LeastOf
  <2>3. k \in 1..n /\ k - 1 \in 0..n /\ r[k - 1] <= s[k - 1]
    BY <1>1, <2>2
  <2>4. /\ r[k] = r[k - 1] + us[k] /\ s[k] = s[k - 1] + ws[k] /\ us[k] <= ws[k]
        /\ us[k] \in Nat /\ ws[k] \in Nat /\ r[k - 1] \in Nat /\ s[k - 1] \in Nat
    BY <1>1, <2>3
  <2>5. QED
    BY <2>2, <2>3, <2>4
<1>4. n \in 0..n
  BY <1>1
<1>5. QED
  BY <1>2, <1>3, <1>4

\* A sequence that differs from another in one place differs from it in its sum
\* as it does there.
LEMMA SumsApart ==
    ASSUME NEW us \in Seq(Nat), NEW ws \in Seq(Nat), Len(us) = Len(ws),
           NEW p \in 1..Len(ws), NEW x \in Nat, ws[p] = us[p] + x,
           \A i \in 1..Len(ws) : i # p => ws[i] = us[i]
    PROVE  SumOf(ws) = SumOf(us) + x
<1> DEFINE n == Len(ws)
           r == RunningSums(us)
           s == RunningSums(ws)
           Odd == {k \in 0..n : s[k] # r[k] + (IF k < p THEN 0 ELSE x)}
<1>0. /\ n \in Nat /\ \A k \in 1..n : us[k] \in Nat /\ ws[k] \in Nat
      /\ p \in 1..n /\ ws[p] = us[p] + x
      /\ \A k \in 1..n : k # p => ws[k] = us[k]
  OBVIOUS
<1>1. /\ r[0] = 0 /\ s[0] = 0
      /\ \A k \in 1..n : r[k] = r[k - 1] + us[k] /\ s[k] = s[k - 1] + ws[k]
      /\ r \in [0..n -> Nat] /\ s \in [0..n -> Nat]
  BY RunningSumsFacts
<1>2. SumOf(us) = r[n] /\ SumOf(ws) = s[n]
  BY DEF SumOf
<1> HIDE DEF r, s, n
<1>3. Odd = {}
  <2>1. SUFFICES ASSUME Odd # {} PROVE FALSE
    OBVIOUS
  <2>2. PICK k \in Odd : \A m \in Odd : k <= m
    <3>1. Odd \subseteq Nat
      BY <1>0
    <3>2. QED
      BY <2>1, <3>1, LeastOf
  <2>3. k \in 1..n /\ k - 1 \in 0..n
    BY <1>0, <1>1, <2>2
  <2>4. s[k - 1] = r[k - 1] + (IF k - 1 < p THEN 0 ELSE x)
    BY <2>2, <2>3
  <2>5. /\ r[k] = r[k - 1] + us[k] /\ s[k] = s[k - 1] + ws[k]
        /\ us[k] \in Nat /\ ws[k] \in Nat /\ r[k - 1] \in Nat /\ s[k - 1] \in Nat
    BY <1>0, <1>1, <2>3
  <2>6. s[k] = r[k] + (IF k < p THEN 0 ELSE x)
    <3>1. CASE k = p
      BY <1>0, <2>3, <2>4, <2>5, <3>1
    <3>2. CASE k # p
      <4>1. ws[k] = us[k]
        BY <1>0, <2>3, <3>2
      <4>2. CASE k < p
        BY <1>0, <2>3, <2>4, <2>5, <4>1, <4>2
      <4>3. CASE ~(k < p)
        <5>1. ~(k - 1 < p)
          BY <1>0, <2>3, <3>2, <4>3
        <5>2. QED
          <6>1. s[k - 1] = r[k - 1] + x /\ s[k] = s[k - 1] + us[k]
            BY <2>4, <2>5, <4>1, <5>1
          <6>2. s[k] = r[k] + x
            BY <2>5, <6>1
          <6>3. QED
            BY <4>3, <6>2
      <4>4. QED
        BY <4>2, <4>3
    <3>3. QED
      BY <3>1, <3>2
  <2>7. QED
    BY <2>2, <2>6
<1>4. n \in 0..n /\ ~(n < p)
  BY <1>0
<1>5. QED
  BY <1>2, <1>3, <1>4

(***************************************************************************)
(* Sums over some of the indices of a sequence.                            *)
(***************************************************************************)
Chosen(ws, P) == [i \in 1..Len(ws) |-> IF i \in P THEN ws[i] ELSE 0]

LEMMA ChosenFacts ==
    ASSUME NEW ws \in Seq(Nat), NEW P
    PROVE  /\ Chosen(ws, P) \in Seq(Nat) /\ Len(Chosen(ws, P)) = Len(ws)
           /\ \A i \in 1..Len(ws) : Chosen(ws, P)[i] = IF i \in P THEN ws[i] ELSE 0
           /\ SumAt(ws, P) = SumOf(Chosen(ws, P))
           /\ SumAt(ws, P) \in Nat
<1>1. Chosen(ws, P) \in [1..Len(ws) -> Nat] /\ Len(ws) \in Nat
  BY DEF Chosen
<1>2. Chosen(ws, P) \in Seq(Nat) /\ Len(Chosen(ws, P)) = Len(ws)
  BY <1>1
<1>3. SumAt(ws, P) = SumOf(Chosen(ws, P))
  BY DEF SumAt, Chosen
<1>4. SumOf(Chosen(ws, P)) \in Nat
  BY <1>2, SumIsNat
<1>5. QED
  BY <1>2, <1>3, <1>4 DEF Chosen

\* More indices, no smaller a sum.
LEMMA SumAtGrows ==
    ASSUME NEW ws \in Seq(Nat), NEW P, NEW Q,
           \A i \in 1..Len(ws) : i \in P => i \in Q
    PROVE  SumAt(ws, P) <= SumAt(ws, Q)
<1> DEFINE us == Chosen(ws, P)
           vs == Chosen(ws, Q)
<1>1. \A i \in 1..Len(ws) : ws[i] \in Nat
  OBVIOUS
<1>2. /\ us \in Seq(Nat) /\ Len(us) = Len(ws) /\ SumAt(ws, P) = SumOf(us)
      /\ \A i \in 1..Len(ws) : us[i] = IF i \in P THEN ws[i] ELSE 0
  BY ChosenFacts
<1>3. /\ vs \in Seq(Nat) /\ Len(vs) = Len(ws) /\ SumAt(ws, Q) = SumOf(vs)
      /\ \A i \in 1..Len(ws) : vs[i] = IF i \in Q THEN ws[i] ELSE 0
  BY ChosenFacts
<1> HIDE DEF us, vs
<1>4. Len(us) = Len(vs) /\ \A i \in 1..Len(vs) : us[i] <= vs[i]
  <2>1. Len(us) = Len(vs) /\ Len(vs) = Len(ws)
    BY <1>2, <1>3
  <2>2. ASSUME NEW i \in 1..Len(vs) PROVE us[i] <= vs[i]
    <3>1. i \in 1..Len(ws)
      BY <2>1
    <3>2. ws[i] \in Nat /\ (us[i] = IF i \in P THEN ws[i] ELSE 0)
          /\ (vs[i] = IF i \in Q THEN ws[i] ELSE 0) /\ (i \in P => i \in Q)
      BY <1>1, <1>2, <1>3, <3>1
    <3>3. QED
      BY <3>2
  <2>3. QED
    BY <2>1, <2>2
<1>5. SumOf(us) <= SumOf(vs)
  BY <1>2, <1>3, <1>4, SumsPointwise
<1>6. QED
  BY <1>2, <1>3, <1>5

\* One index more adds its number.
LEMMA SumAtAdd ==
    ASSUME NEW ws \in Seq(Nat), NEW P, NEW p \in 1..Len(ws), p \notin P
    PROVE  SumAt(ws, P \cup {p}) = SumAt(ws, P) + ws[p]
<1> DEFINE us == Chosen(ws, P)
           vs == Chosen(ws, P \cup {p})
<1>1. ws[p] \in Nat
  OBVIOUS
<1>2. /\ us \in Seq(Nat) /\ Len(us) = Len(ws) /\ SumAt(ws, P) = SumOf(us)
      /\ \A i \in 1..Len(ws) : us[i] = IF i \in P THEN ws[i] ELSE 0
  BY ChosenFacts
<1>3. /\ vs \in Seq(Nat) /\ Len(vs) = Len(ws) /\ SumAt(ws, P \cup {p}) = SumOf(vs)
      /\ \A i \in 1..Len(ws) : vs[i] = IF i \in P \cup {p} THEN ws[i] ELSE 0
  BY ChosenFacts
<1> HIDE DEF us, vs
<1>4. vs[p] = us[p] + ws[p] /\ p \in 1..Len(vs)
  BY <1>1, <1>2, <1>3
<1>5. \A i \in 1..Len(vs) : i # p => vs[i] = us[i]
  BY <1>2, <1>3
<1>6. Len(us) = Len(vs)
  BY <1>2, <1>3
<1>7. SumOf(vs) = SumOf(us) + ws[p]
  BY <1>1, <1>2, <1>3, <1>4, <1>5, <1>6, SumsApart
<1>8. QED
  BY <1>2, <1>3, <1>7

\* No index, no sum.
LEMMA SumAtNothing ==
    ASSUME NEW ws \in Seq(Nat)
    PROVE  SumAt(ws, {}) = 0
<1> DEFINE us == Chosen(ws, {})
           r == RunningSums(us)
           n == Len(ws)
           Odd == {k \in 0..n : r[k] # 0}
<1>1. /\ us \in Seq(Nat) /\ Len(us) = n /\ SumAt(ws, {}) = SumOf(us)
      /\ \A i \in 1..n : us[i] = 0
  BY ChosenFacts
<1>2. n \in Nat
  OBVIOUS
<1> HIDE DEF us, n
<1>3. /\ r[0] = 0 /\ \A k \in 1..n : r[k] = r[k - 1] + us[k]
      /\ r \in [0..n -> Nat]
  BY <1>1, RunningSumsFacts
<1>4. SumOf(us) = r[n]
  BY <1>1 DEF SumOf
<1> HIDE DEF r
<1>5. Odd = {}
  <2>1. SUFFICES ASSUME Odd # {} PROVE FALSE
    OBVIOUS
  <2>2. PICK k \in Odd : \A m \in Odd : k <= m
    <3>1. Odd \subseteq Nat
      BY <1>2
    <3>2. QED
      BY <2>1, <3>1, LeastOf
  <2>3. k \in 1..n /\ k - 1 \in 0..n /\ r[k - 1] = 0
    BY <1>2, <1>3, <2>2
  <2>4. r[k] = 0
    BY <1>1, <1>3, <2>3
  <2>5. QED
    BY <2>2, <2>4
<1>6. QED
  BY <1>1, <1>2, <1>4, <1>5

(***************************************************************************)
(* Products.                                                               *)
(***************************************************************************)
LEMMA ProductGrows ==
    ASSUME NEW a \in Nat, NEW b \in Nat, NEW c \in Nat, a <= b
    PROVE  c * a \in Nat /\ c * b \in Nat /\ c * a <= c * b
<1>1. b - a \in Nat /\ b = a + (b - a)
  OBVIOUS
<1>2. c * (b - a) \in Nat /\ c * b = c * a + c * (b - a) /\ c * a \in Nat /\ c * b \in Nat
  BY <1>1
<1>3. QED
  BY <1>2

\* Quotient and remainder.
LEMMA Division ==
    ASSUME NEW x \in Nat, NEW den \in Nat, 0 < den
    PROVE  /\ x \div den \in Nat /\ x % den \in Nat /\ x % den < den
           /\ x = den * (x \div den) + (x % den)
OBVIOUS

(***************************************************************************)
(* Interpolation in a list of numbers a[1] <= ... <= a[n], den times as    *)
(* large, at the index x / den, counted from 0.                            *)
(***************************************************************************)
Ascending(a, n) == /\ a \in [1..n -> Nat]
                   /\ \A i, j \in 1..n : i <= j => a[i] <= a[j]

Interpolated(a, den, x) ==
    LET l == x \div den
        f == x % den
    IN IF f = 0 THEN den * a[l + 1] ELSE (den - f) * a[l + 1] + f * a[l + 2]

\* The index and its neighbour are in the list.
LEMMA IndexInList ==
    ASSUME NEW n \in Nat \ {0}, NEW den \in Nat, 0 < den,
           NEW x \in Nat, x <= den * (n - 1)
    PROVE  /\ (x \div den) + 1 \in 1..n
           /\ x % den > 0 => (x \div den) + 2 \in 1..n
<1> DEFINE l == x \div den
           f == x % den
<1>1. l \in Nat /\ f \in Nat /\ f < den /\ x = den * l + f
  BY Division
<1> HIDE DEF l, f
<1>2. n - 1 \in Nat /\ den * (n - 1) \in Nat /\ den * l \in Nat
  BY <1>1
<1>3. l <= n - 1
  <2>1. SUFFICES ASSUME n - 1 < l PROVE FALSE
    BY <1>1, <1>2
  <2>2. (n - 1) + 1 <= l /\ (n - 1) + 1 \in Nat
    BY <1>1, <1>2, <2>1
  <2>3. den * ((n - 1) + 1) <= den * l
    BY <1>1, <2>2, ProductGrows
  <2>4. den * ((n - 1) + 1) = den * (n - 1) + den
    BY <1>2
  <2>5. QED
    BY <1>1, <1>2, <2>3, <2>4
<1>4. ASSUME f > 0 PROVE l < n - 1
  <2>1. SUFFICES ASSUME l = n - 1 PROVE FALSE
    BY <1>1, <1>2, <1>3
  <2>2. den * l = den * (n - 1)
    BY <2>1
  <2>3. QED
    BY <1>1, <1>2, <1>4, <2>2
<1>5. l + 1 \in 1..n /\ (f > 0 => l + 2 \in 1..n)
  BY <1>1, <1>3, <1>4
<1>6. QED
  BY <1>5 DEF l, f

\* What is interpolated lies between the two neighbours.
LEMMA InterpolatedBetween ==
    ASSUME NEW n \in Nat \ {0}, NEW a, Ascending(a, n),
           NEW den \in Nat, 0 < den, NEW x \in Nat, x <= den * (n - 1)
    PROVE  LET l == x \div den
               f == x % den
               q == Interpolated(a, den, x)
           IN  /\ q \in Nat /\ den * a[l + 1] <= q
               /\ f = 0 => q = den * a[l + 1]
               /\ f > 0 => /\ q <= den * a[l + 2]
                           /\ q = den * a[l + 1] + f * (a[l + 2] - a[l + 1])
<1> DEFINE l == x \div den
           f == x % den
           q == Interpolated(a, den, x)
<1>1. l \in Nat /\ f \in Nat /\ f < den
  BY Division
<1>2. l + 1 \in 1..n /\ (f > 0 => l + 2 \in 1..n)
  BY IndexInList
<1>3. q = IF f = 0 THEN den * a[l + 1] ELSE (den - f) * a[l + 1] + f * a[l + 2]
  BY DEF Interpolated
<1> HIDE DEF l, f, q
<1>4. a[l + 1] \in Nat
  BY <1>2 DEF Ascending
<1>5. CASE f = 0
  <2>1. q = den * a[l + 1] /\ den * a[l + 1] \in Nat
    BY <1>3, <1>4, <1>5
  <2>2. QED
    BY <1>5, <2>1 DEF l, f, q
<1>6. CASE f > 0
  <2> DEFINE low == a[l + 1]
             d == a[l + 2] - a[l + 1]
  <2>1. low \in Nat /\ d \in Nat /\ a[l + 2] = low + d
    <3>1. a[l + 2] \in Nat /\ a[l + 1] <= a[l + 2]
      BY <1>1, <1>2, <1>6 DEF Ascending
    <3>2. QED
      BY <1>4, <3>1
  <2>2. q = (den - f) * a[l + 1] + f * a[l + 2]
    BY <1>1, <1>3, <1>6
  <2> HIDE DEF d
  <2>3. q = (den - f) * low + f * (low + d)
    BY <2>1, <2>2
  <2> HIDE DEF low
  <2>4. (den - f) * low + f * (low + d) = den * low + f * d
    BY <1>1, <2>1
  <2>5. f * d \in Nat /\ den * low \in Nat /\ den * (low + d) = den * low + den * d
    BY <1>1, <2>1
  <2>6. f * d <= den * d /\ den * d \in Nat
    <3>1. d * f <= d * den /\ d * den \in Nat
      BY <1>1, <2>1, ProductGrows
    <3>2. d * f = f * d /\ d * den = den * d
      BY <1>1, <2>1
    <3>3. QED
      BY <3>1, <3>2
  <2>7. q = den * low + f * d
    BY <2>3, <2>4
  <2>8. q \in Nat /\ den * low <= q /\ q <= den * (low + d)
    BY <2>5, <2>6, <2>7
  <2>9. q \in Nat /\ den * a[l + 1] <= q /\ q <= den * a[l + 2]
        /\ q = den * a[l + 1] + f * (a[l + 2] - a[l + 1])
    BY <2>1, <2>7, <2>8 DEF low, d
  <2>10. QED
    BY <1>6, <2>9 DEF l, f, q
<1>7. QED
  BY <1>1, <1>5, <1>6 DEF f

\* ... and so between bounds of the whole list.
LEMMA InterpolatedAbove ==
    ASSUME NEW n \in Nat \ {0}, NEW a, Ascending(a, n),
           NEW den \in Nat, 0 < den, NEW x \in Nat, x <= den * (n - 1),
           NEW m \in Nat, \A i \in 1..n : m <= a[i]
    PROVE  den * m <= Interpolated(a, den, x)
<1> DEFINE l == x \div den
           q == Interpolated(a, den, x)
<1>1. l + 1 \in 1..n
  BY IndexInList
<1>2. q \in Nat /\ den * a[l + 1] <= q
  BY InterpolatedBetween
<1> HIDE DEF l, q
<1>3. a[l + 1] \in Nat /\ m <= a[l + 1]
  BY <1>1 DEF Ascending
<1>4. den * m <= den * a[l + 1] /\ den * m \in Nat /\ den * a[l + 1] \in Nat
  BY <1>3, ProductGrows
<1>5. den * m <= q
  BY <1>2, <1>4
<1>6. QED
  BY <1>5 DEF q

LEMMA InterpolatedBelow ==
    ASSUME NEW n \in Nat \ {0}, NEW a, Ascending(a, n),
           NEW den \in Nat, 0 < den, NEW x \in Nat, x <= den * (n - 1),
           NEW m \in Nat, \A i \in 1..n : a[i] <= m
    PROVE  Interpolated(a, den, x) <= den * m
<1> DEFINE l == x \div den
           f == x % den
           q == Interpolated(a, den, x)
<1>1. l + 1 \in 1..n /\ (f > 0 => l + 2 \in 1..n) /\ f \in Nat
  BY IndexInList, Division
<1>2. /\ q \in Nat
      /\ f = 0 => q = den * a[l + 1]
      /\ f > 0 => q <= den * a[l + 2]
  BY InterpolatedBetween
<1> HIDE DEF l, f, q
<1>3. \E i \in 1..n : q <= den * a[i]
  <2>1. CASE f = 0
    <3>1. den * a[l + 1] \in Nat
      BY <1>2, <2>1
    <3>2. QED
      BY <1>1, <1>2, <2>1, <3>1
  <2>2. CASE f > 0
    BY <1>1, <1>2, <2>2
  <2>3. QED
    BY <1>1, <2>1, <2>2
<1>4. PICK i \in 1..n : q <= den * a[i]
  BY <1>3
<1>5. a[i] \in Nat /\ a[i] <= m
  BY DEF Ascending
<1>6. den * a[i] <= den * m /\ den * a[i] \in Nat /\ den * m \in Nat
  BY <1>5, ProductGrows
<1>7. q <= den * m
  BY <1>2, <1>4, <1>6
<1>8. QED
  BY <1>7 DEF q

\* A later index never has a smaller value: the indices are x / dx and y / dy.
LEMMA InterpolatedAscends ==
    ASSUME NEW n \in Nat \ {0}, NEW a, Ascending(a, n),
           NEW dx \in Nat, 0 < dx, NEW x \in Nat, x <= dx * (n - 1),
           NEW dy \in Nat, 0 < dy, NEW y \in Nat, y <= dy * (n - 1),
           dy * x <= dx * y
    PROVE  dy * Interpolated(a, dx, x) <= dx * Interpolated(a, dy, y)
<1> DEFINE l == x \div dx
           f == x % dx
           m == y \div dy
           g == y % dy
           q == Interpolated(a, dx, x)
           r == Interpolated(a, dy, y)
<1>1. /\ l \in Nat /\ f \in Nat /\ f < dx /\ x = dx * l + f
      /\ m \in Nat /\ g \in Nat /\ g < dy /\ y = dy * m + g
  BY Division
<1>2. /\ l + 1 \in 1..n /\ (f > 0 => l + 2 \in 1..n)
      /\ m + 1 \in 1..n /\ (g > 0 => m + 2 \in 1..n)
  BY IndexInList
<1>3. /\ q \in Nat /\ dx * a[l + 1] <= q
      /\ f = 0 => q = dx * a[l + 1]
      /\ f > 0 => q <= dx * a[l + 2] /\ q = dx * a[l + 1] + f * (a[l + 2] - a[l + 1])
  BY InterpolatedBetween
<1>4. /\ r \in Nat /\ dy * a[m + 1] <= r
      /\ g = 0 => r = dy * a[m + 1]
      /\ g > 0 => r <= dy * a[m + 2] /\ r = dy * a[m + 1] + g * (a[m + 2] - a[m + 1])
  BY InterpolatedBetween
<1> HIDE DEF l, f, m, g, q, r
<1>5. a \in [1..n -> Nat] /\ \A i, j \in 1..n : i <= j => a[i] <= a[j]
  BY DEF Ascending
<1>6. /\ dy * x = (dx * dy) * l + dy * f /\ dx * y = (dx * dy) * m + dx * g
      /\ dy * f \in Nat /\ dx * g \in Nat /\ dx * dy \in Nat
  BY <1>1
<1>7. dx * g < dx * dy
  <2>1. dx * (g + 1) <= dx * dy
    BY <1>1, ProductGrows
  <2>2. dx * (g + 1) = dx * g + dx /\ dx * dy \in Nat
    BY <1>1
  <2>3. QED
    BY <1>6, <2>1, <2>2
<1>8. l <= m
  <2>1. SUFFICES ASSUME m + 1 <= l PROVE FALSE
    BY <1>1
  <2>2. (dx * dy) * (m + 1) <= (dx * dy) * l /\ (dx * dy) * l \in Nat
    BY <1>1, <1>6, <2>1, ProductGrows
  <2>3. (dx * dy) * (m + 1) = (dx * dy) * m + dx * dy /\ (dx * dy) * m \in Nat
    BY <1>1, <1>6
  <2>4. QED
    BY <1>6, <1>7, <2>2, <2>3
<1>9. CASE l < m
  <2>1. l + 2 \in 1..n /\ a[l + 1] \in Nat /\ a[l + 2] \in Nat /\ a[m + 1] \in Nat
        /\ a[l + 1] <= a[l + 2] /\ a[l + 2] <= a[m + 1]
    BY <1>1, <1>2, <1>5, <1>9
  <2>2. q <= dx * a[m + 1]
    <3>1. dx * a[l + 1] <= dx * a[m + 1] /\ dx * a[l + 2] <= dx * a[m + 1]
          /\ dx * a[l + 1] \in Nat /\ dx * a[l + 2] \in Nat /\ dx * a[m + 1] \in Nat
      BY <2>1, ProductGrows
    <3>2. q <= dx * a[l + 1] \/ q <= dx * a[l + 2]
      BY <1>1, <1>3
    <3>3. QED
      BY <1>3, <3>1, <3>2
  <2>3. dy * q <= dy * (dx * a[m + 1])
    BY <1>3, <2>1, <2>2, ProductGrows
  <2>4. dx * (dy * a[m + 1]) <= dx * r
    <3>1. dy * a[m + 1] \in Nat
      BY <2>1
    <3>2. QED
      BY <1>4, <3>1, ProductGrows
  <2>5. dy * (dx * a[m + 1]) = dx * (dy * a[m + 1])
    BY <2>1
  <2>6. /\ dy * q \in Nat /\ dx * r \in Nat
        /\ dx * (dy * a[m + 1]) \in Nat /\ dy * (dx * a[m + 1]) \in Nat
    BY <1>3, <1>4, <2>1
  <2>7. QED
    BY <2>3, <2>4, <2>5, <2>6 DEF q, r
<1>10. CASE l = m
  <2> DEFINE low == a[l + 1]
  <2>1. dy * f <= dx * g
    <3>1. (dx * dy) * l = (dx * dy) * m /\ (dx * dy) * l \in Nat
      BY <1>1, <1>6, <1>10
    <3>2. QED
      BY <1>6, <3>1
  <2>2. low \in Nat
    BY <1>2, <1>5
  <2>3. CASE g = 0
    <3>1. f = 0
      <4>1. dx * g = 0
        BY <2>3
      <4>2. f >= 1 => dy * f >= 1
        BY <1>1
      <4>3. QED
        BY <1>1, <1>6, <2>1, <4>1, <4>2
    <3>2. q = dx * low /\ r = dy * low
      BY <1>3, <1>4, <1>10, <2>3, <3>1
    <3> HIDE DEF low
    <3>3. dy * q = dx * r /\ dx * r \in Nat
      BY <2>2, <3>2
    <3>4. QED
      BY <3>3 DEF q, r
  <2>4. CASE g > 0
    <3> DEFINE d == a[l + 2] - a[l + 1]
    <3>1. d \in Nat
      BY <1>1, <1>2, <1>5, <1>10, <2>4
    <3>2. r = dy * low + g * d
      BY <1>4, <1>10, <2>4
    <3>3. q = dx * low + f * d
      <4>1. CASE f = 0
        <5>1. f * d = 0 /\ q = dx * low
          BY <1>3, <3>1, <4>1
        <5> HIDE DEF d, low
        <5>2. QED
          BY <2>2, <5>1
      <4>2. CASE f > 0
        BY <1>3, <4>2
      <4>3. QED
        BY <1>1, <4>1, <4>2
    <3> HIDE DEF d, low
    <3>4. dy * q = (dx * dy) * low + (dy * f) * d
      BY <1>1, <2>2, <3>1, <3>3
    <3>5. dx * r = (dx * dy) * low + (dx * g) * d
      BY <1>1, <2>2, <3>1, <3>2
    <3>6. (dy * f) * d <= (dx * g) * d /\ (dy * f) * d \in Nat /\ (dx * g) * d \in Nat
      <4>1. d * (dy * f) <= d * (dx * g) /\ d * (dy * f) \in Nat /\ d * (dx * g) \in Nat
        BY <1>6, <2>1, <3>1, ProductGrows
      <4>2. d * (dy * f) = (dy * f) * d /\ d * (dx * g) = (dx * g) * d
        BY <1>1, <3>1
      <4>3. QED
        BY <4>1, <4>2
    <3>7. (dx * dy) * low \in Nat
      BY <2>2
    <3>8. dy * q <= dx * r
      BY <3>4, <3>5, <3>6, <3>7
    <3>9. QED
      BY <3>8 DEF q, r
  <2>5. QED
    BY <1>1, <2>3, <2>4
<1>11. QED
  BY <1>1, <1>8, <1>9, <1>10

(***************************************************************************)
(* A finite set listed in the order of a value.                            *)
(***************************************************************************)
Lists(s, n, P) == s \in Bijection(1..n, P)
FirstListed(s, k) == {s[i] : i \in 1..k}

\* The first k of a list without repetition are k.
LEMMA FirstOfList ==
    ASSUME NEW P, NEW n \in Nat, NEW s, Lists(s, n, P), NEW k \in 0..n
    PROVE  /\ FirstListed(s, k) \subseteq P
           /\ IsFiniteSet(FirstListed(s, k)) /\ Cardinality(FirstListed(s, k)) = k
<1> DEFINE f == [i \in 1..k |-> s[i]]
<1>1. s \in [1..n -> P] /\ \A i, j \in 1..n : s[i] = s[j] => i = j
  BY DEF Lists, Bijection, Injection, IsInjective
<1>2. k \in Nat /\ 1..k \subseteq 1..n
  OBVIOUS
<1>3. f \in [1..k -> FirstListed(s, k)]
  BY DEF FirstListed
<1>4. \A i, j \in 1..k : f[i] = f[j] => i = j
  BY <1>1, <1>2
<1>5. \A p \in FirstListed(s, k) : \E i \in 1..k : f[i] = p
  BY DEF FirstListed
<1>6. f \in Bijection(1..k, FirstListed(s, k))
  BY <1>3, <1>4, <1>5 DEF Bijection, Injection, Surjection, IsInjective
<1>7. ExistsBijection(1..k, FirstListed(s, k))
  BY <1>6 DEF ExistsBijection
<1>8. IsFiniteSet(FirstListed(s, k))
  BY <1>2, <1>7, FS_NatBijection
<1>9. Cardinality(FirstListed(s, k)) = k
  BY <1>2, <1>7, FS_CountingElements
<1>10. FirstListed(s, k) \subseteq P
  BY <1>1, <1>2 DEF FirstListed
<1>11. QED
  BY <1>8, <1>9, <1>10

\* The list of a finite set has it all.
LEMMA ListFacts ==
    ASSUME NEW P, NEW n \in Nat, NEW s, Lists(s, n, P)
    PROVE  /\ s \in [1..n -> P]
           /\ \A i, j \in 1..n : s[i] = s[j] => i = j
           /\ \A p \in P : \E i \in 1..n : s[i] = p
           /\ IsFiniteSet(P) /\ Cardinality(P) = n
<1>1. /\ s \in [1..n -> P] /\ \A i, j \in 1..n : s[i] = s[j] => i = j
      /\ \A p \in P : \E i \in 1..n : s[i] = p
  BY DEF Lists, Bijection, Injection, Surjection, IsInjective
<1>2. P = FirstListed(s, n)
  BY <1>1 DEF FirstListed
<1>3. QED
  BY <1>1, <1>2, FirstOfList

\* a lists the values v of s[1], ..., s[n].
AreValues(a, v, s, n) == \A i \in 1..n : a[i] = v[s[i]]
AtOrBelow(P, v, den, q) == {p \in P : den * v[p] <= q}
StrictlyBelow(P, v, den, q) == {p \in P : den * v[p] < q}

\* The rank of an interpolated value: more than the rank it was taken at are at
\* or below it, fewer than one more than that are strictly below.
LEMMA RankOfInterpolated ==
    ASSUME NEW P, NEW n \in Nat \ {0}, NEW s, Lists(s, n, P),
           NEW v, NEW a, Ascending(a, n), AreValues(a, v, s, n),
           NEW den \in Nat, 0 < den, NEW x \in Nat, x <= den * (n - 1),
           NEW q, q = Interpolated(a, den, x)
    PROVE  /\ den * Cardinality(AtOrBelow(P, v, den, q)) > x
           /\ den * Cardinality(StrictlyBelow(P, v, den, q)) < x + den
<1>0. /\ s \in [1..n -> P] /\ \A p \in P : \E i \in 1..n : s[i] = p
      /\ IsFiniteSet(P)
  <2>1. n \in Nat
    OBVIOUS
  <2>2. QED
    BY ONLY <2>1, Lists(s, n, P), ListFacts
<1> DEFINE l == x \div den
           f == x % den
<1>1. l \in Nat /\ f \in Nat /\ f < den /\ x = den * l + f /\ den * l \in Nat
  BY Division
<1>2. l + 1 \in 1..n /\ (f > 0 => l + 2 \in 1..n)
  BY IndexInList
<1>3. /\ q \in Nat /\ den * a[l + 1] <= q
      /\ f = 0 => q = den * a[l + 1]
      /\ f > 0 => q <= den * a[l + 2] /\ q = den * a[l + 1] + f * (a[l + 2] - a[l + 1])
  BY InterpolatedBetween
<1> HIDE DEF l, f
<1> DEFINE within == {p \in P : den * v[p] <= q}
           below == {p \in P : den * v[p] < q}
<1>4. a \in [1..n -> Nat] /\ \A i, j \in 1..n : i <= j => a[i] <= a[j]
  BY DEF Ascending
<1>5. \A i \in 1..n : a[i] = v[s[i]]
  BY DEF AreValues
<1>6. IsFiniteSet(within) /\ Cardinality(within) \in Nat
      /\ IsFiniteSet(below) /\ Cardinality(below) \in Nat
  BY <1>0, FS_Subset, FS_CardinalityType
<1>7. den * Cardinality(within) > x
  <2>1. FirstListed(s, l + 1) \subseteq within
    <3>1. SUFFICES ASSUME NEW i \in 1..(l + 1)
                   PROVE  s[i] \in within
      BY DEF FirstListed
    <3>2. i \in 1..n /\ a[i] <= a[l + 1] /\ a[i] \in Nat /\ a[l + 1] \in Nat
      BY <1>1, <1>2, <1>4
    <3>3. den * a[i] <= den * a[l + 1] /\ den * a[i] \in Nat /\ den * a[l + 1] \in Nat
      BY <3>2, ProductGrows
    <3>4. den * a[i] <= q
      BY <1>3, <3>3
    <3>5. QED
      BY <1>0, <1>5, <3>2, <3>4
  <2>2. l + 1 <= Cardinality(within)
    <3> DEFINE k == l + 1
    <3>1. k \in 0..n /\ n \in Nat
      BY <1>2
    <3> HIDE DEF k
    <3>2. Cardinality(FirstListed(s, k)) = k
      BY ONLY <3>1, Lists(s, n, P), FirstOfList
    <3>3. QED
      BY <1>6, <2>1, <3>2, FS_Subset DEF k
  <2> HIDE DEF within
  <2>3. den * (l + 1) <= den * Cardinality(within)
    BY <1>1, <1>6, <2>2, ProductGrows
  <2>4. den * (l + 1) = den * l + den /\ den * Cardinality(within) \in Nat
    BY <1>1, <1>6
  <2>5. QED
    BY <1>1, <2>3, <2>4
<1>8. den * Cardinality(below) < x + den
  <2> DEFINE m == IF f = 0 THEN l ELSE l + 1
  <2>1. m \in 0..n /\ m \in Nat
    BY <1>1, <1>2
  <2>2. q <= den * a[m + 1] /\ m + 1 \in 1..n
    <3>1. CASE f = 0
      BY <1>2, <1>3, <3>1
    <3>2. CASE f > 0
      BY <1>1, <1>2, <1>3, <3>2
    <3>3. QED
      BY <1>1, <3>1, <3>2
  <2>3. den * m < x + den
    <3>1. CASE f = 0
      BY <1>1, <3>1
    <3>2. CASE f > 0
      <4>1. den * m = den * l + den
        BY <1>1, <3>2
      <4>2. QED
        BY <1>1, <3>2, <4>1
    <3>3. QED
      BY <1>1, <3>1, <3>2
  <2> HIDE DEF m
  <2>4. below \subseteq FirstListed(s, m)
    <3>1. SUFFICES ASSUME NEW p \in below
                   PROVE  p \in FirstListed(s, m)
      OBVIOUS
    <3>2. PICK i \in 1..n : s[i] = p
      BY <1>0
    <3>3. i \in 1..m
      <4>1. SUFFICES ASSUME m + 1 <= i PROVE FALSE
        BY <2>1
      <4>2. a[m + 1] <= a[i] /\ a[i] \in Nat /\ a[m + 1] \in Nat
        BY <1>4, <2>2, <4>1
      <4>3. den * a[m + 1] <= den * a[i] /\ den * a[m + 1] \in Nat /\ den * a[i] \in Nat
        BY <4>2, ProductGrows
      <4>4. den * a[i] < q
        BY <1>5, <3>2
      <4>5. QED
        BY <1>3, <2>2, <4>3, <4>4
    <3>4. QED
      BY <3>2, <3>3 DEF FirstListed
  <2>5. Cardinality(below) <= m
    <3>1. n \in Nat
      OBVIOUS
    <3>2. IsFiniteSet(FirstListed(s, m)) /\ Cardinality(FirstListed(s, m)) = m
      BY ONLY <2>1, <3>1, Lists(s, n, P), FirstOfList
    <3>3. QED
      BY <2>4, <3>2, FS_Subset
  <2> HIDE DEF below
  <2>6. den * Cardinality(below) <= den * m /\ den * Cardinality(below) \in Nat /\ den * m \in Nat
    BY <1>6, <2>1, <2>5, ProductGrows
  <2>7. QED
    BY <1>1, <2>3, <2>6
<1>9. QED
  BY <1>7, <1>8 DEF AtOrBelow, StrictlyBelow

\* Two sorts of the same set by the same value have the same values: were the
\* i-th of the second higher, the first i of the first would be among the first
\* i - 1 of the second.
LEMMA SortingsNeverExceed ==
    ASSUME NEW P, NEW n \in Nat, NEW v,
           NEW s, Lists(s, n, P), NEW a, Ascending(a, n), AreValues(a, v, s, n),
           NEW r, Lists(r, n, P), NEW b, Ascending(b, n), AreValues(b, v, r, n),
           NEW i \in 1..n
    PROVE  b[i] <= a[i]
<1>1. SUFFICES ASSUME a[i] < b[i] PROVE FALSE
  BY DEF Ascending
<1>2. /\ s \in [1..n -> P] /\ \A p \in P : \E k \in 1..n : r[k] = p
  <2>1. s \in [1..n -> P]
    BY ONLY n \in Nat, Lists(s, n, P), ListFacts
  <2>2. /\ r \in [1..n -> P]
        /\ \A j, k \in 1..n : r[j] = r[k] => j = k
        /\ \A p \in P : \E k \in 1..n : r[k] = p
        /\ IsFiniteSet(P) /\ Cardinality(P) = n
    BY ONLY n \in Nat, Lists(r, n, P), ListFacts
  <2>3. QED
    BY <2>1, <2>2
<1>3. /\ \A j \in 1..n : a[j] = v[s[j]] /\ b[j] = v[r[j]]
      /\ \A j \in 1..n : a[j] \in Nat /\ b[j] \in Nat
      /\ \A j, k \in 1..n : j <= k => a[j] <= a[k] /\ b[j] <= b[k]
  BY DEF AreValues, Ascending
<1>4. FirstListed(s, i) \subseteq FirstListed(r, i - 1)
  <2>1. SUFFICES ASSUME NEW j \in 1..i PROVE s[j] \in FirstListed(r, i - 1)
    BY DEF FirstListed
  <2>2. j \in 1..n /\ a[j] <= a[i]
    BY <1>3
  <2>3. PICK k \in 1..n : r[k] = s[j]
    BY <1>2, <2>2
  <2>4. b[k] = a[j]
    BY <1>3, <2>2, <2>3
  <2>5. k < i
    BY <1>1, <1>3, <2>2, <2>4
  <2>6. k \in 1..(i - 1)
    BY <2>5
  <2>7. QED
    BY <2>3, <2>6 DEF FirstListed
<1>5. /\ Cardinality(FirstListed(s, i)) = i
      /\ IsFiniteSet(FirstListed(r, i - 1)) /\ Cardinality(FirstListed(r, i - 1)) = i - 1
  <2> DEFINE k == i - 1
  <2>1. i \in 0..n /\ k \in 0..n
    OBVIOUS
  <2> HIDE DEF k
  <2>2. Cardinality(FirstListed(s, i)) = i
    BY ONLY <2>1, n \in Nat, Lists(s, n, P), FirstOfList
  <2>3. IsFiniteSet(FirstListed(r, k)) /\ Cardinality(FirstListed(r, k)) = k
    BY ONLY <2>1, n \in Nat, Lists(r, n, P), FirstOfList
  <2>4. QED
    BY <2>2, <2>3 DEF k
<1>6. QED
  BY <1>4, <1>5, FS_Subset

\* So the order a sort leaves equal values in does not show in its values.
LEMMA SortingsAgree ==
    ASSUME NEW P, NEW n \in Nat, NEW v,
           NEW s, Lists(s, n, P), NEW a, Ascending(a, n), AreValues(a, v, s, n),
           NEW r, Lists(r, n, P), NEW b, Ascending(b, n), AreValues(b, v, r, n)
    PROVE  a = b
<1>1. ASSUME NEW i \in 1..n PROVE a[i] = b[i]
  <2>1. b[i] <= a[i] /\ a[i] <= b[i]
    BY SortingsNeverExceed
  <2>2. QED
    BY <2>1 DEF Ascending
<1>2. QED
  BY <1>1 DEF Ascending

\* A finite set can be listed in the order of a value: were there sets that
\* cannot, a smallest of them could be, after the least of its values.
Sorted(s, v, n) == \A i, j \in 1..n : i <= j => v[s[i]] <= v[s[j]]

LEMMA SortingExists ==
    ASSUME NEW P, IsFiniteSet(P), NEW v \in [P -> Nat]
    PROVE  \E s \in Bijection(1..Cardinality(P), P) : Sorted(s, v, Cardinality(P))
<1> DEFINE Listed(T, k) == \E s \in Bijection(1..k, T) : Sorted(s, v, k)
           Odd == {k \in Nat : \E T \in SUBSET P : Cardinality(T) = k /\ ~Listed(T, k)}
<1>1. \A T \in SUBSET P : IsFiniteSet(T) /\ Cardinality(T) \in Nat
  BY FS_Subset, FS_CardinalityType
<1>2. Odd = {}
  <2>1. SUFFICES ASSUME Odd # {} PROVE FALSE
    OBVIOUS
  <2> HIDE DEF Listed
  <2>2. PICK k \in Odd : \A m \in Odd : k <= m
    <3>1. Odd \subseteq Nat
      OBVIOUS
    <3> HIDE DEF Odd
    <3>2. QED
      BY <2>1, <3>1, LeastOf
  <2>3. PICK T \in SUBSET P : Cardinality(T) = k /\ ~Listed(T, k)
    BY <2>2
  <2>4. k \in Nat
    BY <2>2
  <2>5. CASE k = 0
    <3>1. T = {}
      BY <1>1, <2>3, <2>5, FS_EmptySet
    <3>2. 1..k = {}
      BY <2>5
    <3> DEFINE e == [i \in 1..k |-> i]
    <3>3. e \in [1..k -> T] /\ \A i, j \in 1..k : e[i] = e[j] => i = j
      BY <3>2
    <3>4. e \in Bijection(1..k, T)
      BY <3>1, <3>3 DEF Bijection, Injection, Surjection, IsInjective
    <3>5. Sorted(e, v, k)
      BY <3>2 DEF Sorted
    <3>6. QED
      BY <2>3, <3>4, <3>5 DEF Listed
  <2>6. CASE k > 0
    <3>1. PICK p \in T : \A q \in T : v[p] <= v[q]
      <4> DEFINE S == {v[q] : q \in T}
      <4>1. T # {}
        BY <2>3, <2>6, FS_EmptySet
      <4>2. S \subseteq Nat /\ S # {}
        BY <4>1
      <4>3. PICK x \in S : \A y \in S : x <= y
        <5> HIDE DEF S
        <5>1. QED
          BY <4>2, LeastOf
      <4>4. QED
        BY <4>3
    <3> DEFINE U == T \ {p}
    <3>2. U \in SUBSET P /\ Cardinality(U) = k - 1 /\ k - 1 \in Nat
      <4>1. IsFiniteSet(T)
        BY <1>1
      <4>2. Cardinality(U) = Cardinality(T) - 1
        BY <4>1, FS_RemoveElement
      <4>3. QED
        BY <2>3, <2>4, <2>6, <4>2
    <3>3. Listed(U, k - 1)
      <4>1. ~(k <= k - 1)
        BY <2>4
      <4>2. k - 1 \notin Odd
        BY <2>2, <4>1
      <4>3. QED
        BY <3>2, <4>2
    <3>4. PICK s \in Bijection(1..(k - 1), U) : Sorted(s, v, k - 1)
      BY <3>3 DEF Listed
    <3>5. /\ s \in [1..(k - 1) -> U] /\ \A i, j \in 1..(k - 1) : s[i] = s[j] => i = j
          /\ \A q \in U : \E i \in 1..(k - 1) : s[i] = q
          /\ \A i, j \in 1..(k - 1) : i <= j => v[s[i]] <= v[s[j]]
      BY <3>4 DEF Bijection, Injection, Surjection, IsInjective, Sorted
    <3> HIDE DEF U
    <3>6. p \notin U /\ T = U \cup {p}
      BY DEF U
    <3> DEFINE t == [i \in 1..k |-> IF i = 1 THEN p ELSE s[i - 1]]
    <3>7. t[1] = p /\ 1 \in 1..k
      BY <2>4, <2>6
    <3>8. ASSUME NEW i \in 1..k, i # 1
          PROVE  i - 1 \in 1..(k - 1) /\ t[i] = s[i - 1] /\ t[i] \in U
      BY <2>4, <3>5, <3>8
    <3>9. t \in [1..k -> T]
      BY <3>5, <3>6, <3>8
    <3> HIDE DEF t
    <3>10. ASSUME NEW i \in 1..k, NEW j \in 1..k, t[i] = t[j] PROVE i = j
      <4>1. CASE i = 1 \/ j = 1
        BY <3>6, <3>7, <3>8, <3>10, <4>1
      <4>2. CASE i # 1 /\ j # 1
        <5>1. i - 1 = j - 1
          BY <3>5, <3>8, <3>10, <4>2
        <5>2. QED
          BY <2>4, <5>1
      <4>3. QED
        BY <4>1, <4>2
    <3>11. ASSUME NEW q \in T PROVE \E i \in 1..k : t[i] = q
      <4>1. CASE q = p
        BY <3>7, <4>1
      <4>2. CASE q \in U
        <5>1. PICK i \in 1..(k - 1) : s[i] = q
          BY <3>5, <4>2
        <5>2. i + 1 \in 1..k /\ i + 1 # 1 /\ (i + 1) - 1 = i
          BY <2>4
        <5>3. t[i + 1] = q
          BY <3>8, <5>1, <5>2
        <5>4. QED
          BY <5>2, <5>3
      <4>3. QED
        BY <3>6, <4>1, <4>2
    <3>12. ASSUME NEW i \in 1..k, NEW j \in 1..k, i <= j PROVE v[t[i]] <= v[t[j]]
      <4>1. CASE i = 1
        BY <3>1, <3>7, <3>9, <4>1
      <4>2. CASE i # 1
        <5>1. j # 1 /\ i - 1 <= j - 1
          BY <2>4, <3>12, <4>2
        <5>2. QED
          BY <3>5, <3>8, <4>2, <5>1
      <4>3. QED
        BY <4>1, <4>2
    <3>13. t \in Bijection(1..k, T)
      BY <3>9, <3>10, <3>11 DEF Bijection, Injection, Surjection, IsInjective
    <3>14. Sorted(t, v, k)
      BY <3>12 DEF Sorted
    <3>15. QED
      BY <2>3, <3>13, <3>14 DEF Listed
  <2>7. QED
    BY <2>4, <2>5, <2>6
<1>3. QED
  BY <1>1, <1>2

(***************************************************************************)
(* The weights ws of a finite set of indices, in the order of a value.     *)
(***************************************************************************)
\* us lists the weights of s[1], ..., s[n].
AreWeights(us, ws, s, n) ==
    us \in Seq(Nat) /\ Len(us) = n /\ \A i \in 1..n : us[i] = ws[s[i]]

\* A set of indices P with the list s of it and the list us of their weights.
WeighedList(ws, P, n, s, us) ==
    /\ ws \in Seq(Nat) /\ P \subseteq 1..Len(ws)
    /\ n \in Nat /\ Lists(s, n, P) /\ AreWeights(us, ws, s, n)

LEMMA WeighedListFacts ==
    ASSUME NEW ws, NEW P, NEW n, NEW s, NEW us, WeighedList(ws, P, n, s, us)
    PROVE  /\ ws \in Seq(Nat) /\ P \subseteq 1..Len(ws)
           /\ n \in Nat /\ s \in [1..n -> P]
           /\ \A i, j \in 1..n : s[i] = s[j] => i = j
           /\ P = FirstListed(s, n)
           /\ us \in Seq(Nat) /\ Len(us) = n /\ \A i \in 1..n : us[i] = ws[s[i]]
<1>1. /\ s \in [1..n -> P] /\ \A i, j \in 1..n : s[i] = s[j] => i = j
      /\ \A p \in P : \E i \in 1..n : s[i] = p
  BY DEF WeighedList, Lists, Bijection, Injection, Surjection, IsInjective
<1>2. P = FirstListed(s, n)
  BY <1>1 DEF FirstListed
<1>3. QED
  BY <1>1, <1>2 DEF WeighedList, AreWeights

\* The running total of a list of weights is the weight of its first elements.
LEMMA RunningSumsOfList ==
    ASSUME NEW ws, NEW P, NEW n, NEW s, NEW us, WeighedList(ws, P, n, s, us),
           NEW k \in 0..n
    PROVE  RunningSums(us)[k] = SumAt(ws, FirstListed(s, k))
<1> DEFINE r == RunningSums(us)
           Odd == {i \in 0..n : r[i] # SumAt(ws, FirstListed(s, i))}
<1>1. /\ ws \in Seq(Nat) /\ P \subseteq 1..Len(ws) /\ n \in Nat
      /\ s \in [1..n -> P] /\ \A i, j \in 1..n : s[i] = s[j] => i = j
  BY WeighedListFacts
<1>2. us \in Seq(Nat) /\ Len(us) = n /\ \A i \in 1..n : us[i] = ws[s[i]]
  BY WeighedListFacts
<1>3. r[0] = 0 /\ \A i \in 1..n : r[i] = r[i - 1] + us[i]
  BY <1>2, RunningSumsFacts
<1> HIDE DEF r
<1>4. Odd = {}
  <2>1. SUFFICES ASSUME Odd # {} PROVE FALSE
    OBVIOUS
  <2>2. PICK i \in Odd : \A m \in Odd : i <= m
    <3>1. Odd \subseteq Nat
      BY <1>1
    <3>2. QED
      BY <2>1, <3>1, LeastOf
  <2>3. i # 0
    <3>1. FirstListed(s, 0) = {}
      BY DEF FirstListed
    <3>2. r[0] = SumAt(ws, FirstListed(s, 0))
      BY <1>1, <1>3, <3>1, SumAtNothing
    <3>3. QED
      BY <2>2, <3>2
  <2>4. i \in 1..n /\ i - 1 \in 0..n
    BY <1>1, <2>2, <2>3
  <2>5. r[i - 1] = SumAt(ws, FirstListed(s, i - 1))
    <3>1. i - 1 \notin Odd
      BY <2>2, <2>4
    <3>2. QED
      BY <2>4, <3>1
  <2>6. FirstListed(s, i) = FirstListed(s, i - 1) \cup {s[i]} /\ s[i] \notin FirstListed(s, i - 1)
    <3>1. 1..i = (1..(i - 1)) \cup {i} /\ i \notin 1..(i - 1)
      BY <1>1, <2>4
    <3>2. 1..(i - 1) \subseteq 1..n
      BY <1>1, <2>4
    <3>3. QED
      BY <1>1, <2>4, <3>1, <3>2 DEF FirstListed
  <2>7. s[i] \in 1..Len(ws) /\ us[i] = ws[s[i]]
    BY <1>1, <1>2, <2>4
  <2>8. SumAt(ws, FirstListed(s, i)) = SumAt(ws, FirstListed(s, i - 1)) + ws[s[i]]
    BY <1>1, <2>6, <2>7, SumAtAdd
  <2>9. r[i] = SumAt(ws, FirstListed(s, i))
    BY <1>3, <2>4, <2>5, <2>7, <2>8
  <2>10. QED
    BY <2>2, <2>9
<1>5. QED
  BY <1>4 DEF r

\* The value at the first index whose running total reaches a share of the
\* whole is the least one up to which the set holds that share.
LEMMA FirstReachedCovers ==
    ASSUME NEW ws, NEW P, NEW n, NEW s, NEW us, WeighedList(ws, P, n, s, us),
           NEW v, NEW a, Ascending(a, n), AreValues(a, v, s, n),
           NEW num \in Nat, NEW den \in Nat,
           NEW k \in 1..n,
           den * RunningSums(us)[k] >= num * RunningSums(us)[n],
           \A j \in 1..n : den * RunningSums(us)[j] >= num * RunningSums(us)[n] => k <= j
    PROVE  LET Enough(x) == den * SumAt(ws, {p \in P : v[p] <= x}) >= num * SumAt(ws, P)
           IN  /\ Enough(a[k])
               /\ \A p \in P : Enough(v[p]) => a[k] <= v[p]
<1> DEFINE all == SumAt(ws, P)
           r == RunningSums(us)
<1>0. n \in Nat /\ s \in [1..n -> P] /\ P = FirstListed(s, n)
  BY WeighedListFacts
<1>1. k \in 1..n
  OBVIOUS
<1>2. ws \in Seq(Nat) /\ \A p \in P : \E i \in 1..n : s[i] = p
  BY <1>0, WeighedListFacts DEF FirstListed
<1>3. /\ a \in [1..n -> Nat] /\ \A i, j \in 1..n : i <= j => a[i] <= a[j]
      /\ \A i \in 1..n : a[i] = v[s[i]]
  BY DEF Ascending, AreValues
<1>5. ASSUME NEW i \in 0..n PROVE r[i] = SumAt(ws, FirstListed(s, i)) /\ r[i] \in Nat
  <2>1. r[i] = SumAt(ws, FirstListed(s, i))
    BY RunningSumsOfList
  <2>2. SumAt(ws, FirstListed(s, i)) \in Nat
    BY <1>2, ChosenFacts
  <2>3. QED
    BY <2>1, <2>2
<1>6. r[n] = all /\ all \in Nat
  <2>1. n \in 0..n
    BY <1>0, <1>1
  <2>2. QED
    BY <1>0, <1>5, <2>1
<1>7. den * r[k] >= num * all /\ \A j \in 1..n : den * r[j] >= num * all => k <= j
  BY <1>6
<1> HIDE DEF r, all
<1> DEFINE Upto(x) == {p \in P : v[p] <= x}
<1>8. ASSUME NEW x PROVE SumAt(ws, Upto(x)) \in Nat
  BY <1>2, ChosenFacts
<1>9. den * SumAt(ws, Upto(a[k])) >= num * all
  <2>1. FirstListed(s, k) \subseteq Upto(a[k])
    <3>1. SUFFICES ASSUME NEW i \in 1..k PROVE s[i] \in Upto(a[k])
      BY DEF FirstListed
    <3>2. i \in 1..n /\ a[i] <= a[k]
      BY <1>0, <1>1, <1>3
    <3>3. QED
      BY <1>0, <1>2, <1>3, <3>2
  <2>2. SumAt(ws, FirstListed(s, k)) <= SumAt(ws, Upto(a[k]))
    BY <2>1, <1>2, SumAtGrows
  <2>3. r[k] <= SumAt(ws, Upto(a[k])) /\ r[k] \in Nat
    BY <1>0, <1>1, <1>5, <2>2
  <2> HIDE DEF Upto
  <2>4. den * r[k] <= den * SumAt(ws, Upto(a[k]))
    BY <1>8, <2>3, ProductGrows
  <2>5. den * r[k] \in Nat /\ den * SumAt(ws, Upto(a[k])) \in Nat /\ num * all \in Nat
    BY <1>6, <1>8, <2>3
  <2>6. QED
    BY <1>7, <2>4, <2>5
<1>10. ASSUME NEW p \in P, den * SumAt(ws, Upto(v[p])) >= num * all
       PROVE  a[k] <= v[p]
  <2>1. PICK m \in 1..n : s[m] = p
    BY <1>2
  <2>2. v[p] = a[m] /\ a[m] \in Nat /\ a[k] \in Nat
    BY <1>3, <2>1
  <2>3. SUFFICES ASSUME a[m] < a[k] PROVE FALSE
    BY <2>2
  <2>4. m < k /\ k - 1 \in 1..n /\ k - 1 \in 0..n
    BY <1>0, <1>1, <1>3, <2>2, <2>3
  <2>5. Upto(v[p]) \subseteq FirstListed(s, k - 1)
    <3>1. SUFFICES ASSUME NEW o \in Upto(v[p]) PROVE o \in FirstListed(s, k - 1)
      OBVIOUS
    <3>2. PICK i \in 1..n : s[i] = o
      BY <1>2
    <3>3. a[i] <= a[m] /\ a[i] \in Nat
      BY <1>3, <2>2, <3>2
    <3>4. ~(k <= i)
      BY <1>3, <2>2, <2>3, <3>3
    <3>5. i \in 1..(k - 1)
      BY <1>0, <1>1, <3>4
    <3>6. QED
      BY <3>2, <3>5 DEF FirstListed
  <2>6. SumAt(ws, Upto(v[p])) <= SumAt(ws, FirstListed(s, k - 1))
    BY <2>5, <1>2, SumAtGrows
  <2>7. SumAt(ws, Upto(v[p])) <= r[k - 1] /\ r[k - 1] \in Nat
    BY <1>5, <2>4, <2>6
  <2> HIDE DEF Upto
  <2>8. den * SumAt(ws, Upto(v[p])) <= den * r[k - 1]
    BY <1>8, <2>7, ProductGrows
  <2>9. den * r[k - 1] \in Nat /\ den * SumAt(ws, Upto(v[p])) \in Nat /\ num * all \in Nat
    BY <1>6, <1>8, <2>7
  <2>10. den * r[k - 1] >= num * all
    BY <1>0, <1>10, <2>8, <2>9
  <2>11. k <= k - 1
    BY <1>7, <2>4, <2>10
  <2>12. QED
    BY <1>0, <1>1, <2>11
<1>11. QED
  BY <1>9, <1>10 DEF all
=============================================================================

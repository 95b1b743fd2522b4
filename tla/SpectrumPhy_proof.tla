-------------------------- MODULE SpectrumPhy_proof --------------------------
(***************************************************************************)
(* What the radio promises its channel access manager, for all powers,     *)
(* durations and bounds, if no sum of powers is equal to the threshold.    *)
(*                                                                         *)
(* The list of power changes is compared with the queue of events through  *)
(* two sums: Air(q, t), what the events of the queue will take off after   *)
(* t, and PowerAt(list, first, t), the list read up to t.  Tracks says     *)
(* that they agree now and at every later time.                            *)
(***************************************************************************)
EXTENDS SpectrumPhy_props, FiniteSetTheorems, NaturalsInduction, WellFoundedInduction, TLAPS

-----------------------------------------------------------------------------
(* Numbers, and the sums of a list.                                        *)

LEMMA Least == ASSUME NEW T \in SUBSET Nat, T # {} PROVE \E m \in T : \A n \in T : m <= n
<1> DEFINE R == {ss \in Nat \X Nat : ss[1] < ss[2]}
<1>1. IsWellFoundedOn(R, Nat)
  BY NatLessThanWellFounded, SMT DEF OpToRel
<1> HIDE DEF R
<1>2. PICK m \in T : \A n \in T : <<n, m>> \notin R
  BY <1>1, WFMin, Zenon
<1>3. \A n \in T : ~(n < m)
  BY <1>2 DEF R
<1> QED BY <1>3

LEMMA Inductive ==
    ASSUME NEW T, 0 \in T, \A n \in Nat : n \in T => n + 1 \in T
    PROVE  Nat \subseteq T
<1> SUFFICES ASSUME Nat \ T # {} PROVE FALSE
  OBVIOUS
<1>1. PICK m \in Nat \ T : \A n \in Nat \ T : m <= n
  BY Least
<1>2. m # 0 /\ m - 1 \in Nat
  BY <1>1
<1>3. m - 1 \in T
  BY <1>1, <1>2
<1> QED BY <1>1, <1>2, <1>3

LEMMA PartialSumsAre ==
    ASSUME NEW s \in Seq(Int)
    PROVE  /\ PartialSums(s) \in [0 .. Len(s) -> Int]
           /\ PartialSums(s)[0] = 0
           /\ \A n \in 1 .. Len(s) : PartialSums(s)[n] = PartialSums(s)[n - 1] + s[n]
<1> DEFINE Upto(f, n) == /\ f \in [0 .. n -> Int] /\ f[0] = 0
                         /\ \A i \in 1 .. n : f[i] = f[i - 1] + s[i]
           T == {n \in Nat : n <= Len(s) => \E f \in [0 .. n -> Int] : Upto(f, n)}
<1>1. 0 \in T
  <2>1. Upto([i \in 0 .. 0 |-> 0], 0)
    OBVIOUS
  <2> QED BY <2>1
<1>2. ASSUME NEW n \in Nat, n \in T PROVE n + 1 \in T
  <2> HIDE DEF Upto
  <2> SUFFICES ASSUME n + 1 <= Len(s) PROVE \E f \in [0 .. n + 1 -> Int] : Upto(f, n + 1)
    OBVIOUS
  <2>0. n <= Len(s)
    OBVIOUS
  <2>1. PICK f \in [0 .. n -> Int] : Upto(f, n)
    BY <1>2, <2>0
  <2> DEFINE g == [i \in 0 .. n + 1 |-> IF i = n + 1 THEN f[n] + s[n + 1] ELSE f[i]]
  <2>2. s[n + 1] \in Int
    OBVIOUS
  <2>3. g \in [0 .. n + 1 -> Int]
    BY <2>2
  <2>4. Upto(g, n + 1)
    BY <2>1, <2>3 DEF Upto
  <2> QED BY <2>3, <2>4
<1>3. PICK f \in [0 .. Len(s) -> Int] : Upto(f, Len(s))
  <2>1. Len(s) \in T
    <3> HIDE DEF T
    <3> QED BY <1>1, <1>2, Inductive
  <2> QED BY <2>1
<1> DEFINE Step(g) == [n \in 0 .. Len(s) |-> IF n = 0 THEN 0 ELSE g[n - 1] + s[n]]
<1>4. f = Step(f)
  <2>1. \A n \in 0 .. Len(s) : f[n] = Step(f)[n]
    BY <1>3
  <2> QED BY <2>1
<1>5. PartialSums(s) = Step(PartialSums(s))
  <2>1. PartialSums(s) = CHOOSE g : g = Step(g)
    BY DEF PartialSums
  <2> HIDE DEF Step
  <2> QED BY <1>4, <2>1, Zenon
<1> DEFINE P == PartialSums(s)
<1>6. /\ P[0] = 0 /\ \A n \in 1 .. Len(s) : P[n] = P[n - 1] + s[n]
      /\ P = [n \in 0 .. Len(s) |-> P[n]]
  <2> HIDE DEF P
  <2>1. P = Step(P)
    BY <1>5 DEF P
  <2> QED BY <2>1
<1>7. P \in [0 .. Len(s) -> Int]
  <2> DEFINE W == {n \in Nat : n <= Len(s) => P[n] \in Int}
  <2>1. 0 \in W
    BY <1>6
  <2>2. ASSUME NEW n \in Nat, n \in W PROVE n + 1 \in W
    <3> HIDE DEF P
    <3> SUFFICES ASSUME n + 1 <= Len(s) PROVE P[n + 1] \in Int
      OBVIOUS
    <3>1. P[n] \in Int /\ s[n + 1] \in Int
      BY <2>2
    <3>2. n + 1 \in 1 .. Len(s) /\ (n + 1) - 1 = n
      OBVIOUS
    <3>3. P[n + 1] = P[n] + s[n + 1]
      BY <1>6, <3>2
    <3> QED BY <3>1, <3>3
  <2>3. Nat \subseteq W
    <3> HIDE DEF W
    <3> QED BY <2>1, <2>2, Inductive
  <2> HIDE DEF P
  <2>4. \A n \in 0 .. Len(s) : P[n] \in Int
    BY <2>3
  <2> QED BY <1>6, <2>4
<1> QED BY <1>6, <1>7

LEMMA InductiveFrom ==
    ASSUME NEW T, NEW k \in Nat, NEW m \in Nat, k \in T, k <= m,
           \A n \in Nat : k <= n /\ n < m /\ n \in T => n + 1 \in T
    PROVE  m \in T
<1> DEFINE W == {n \in Nat : k <= n /\ n <= m => n \in T}
<1>1. 0 \in W
  OBVIOUS
<1>2. ASSUME NEW n \in Nat, n \in W PROVE n + 1 \in W
  <2> SUFFICES ASSUME k <= n + 1, n + 1 <= m PROVE n + 1 \in T
    OBVIOUS
  <2>1. CASE n + 1 = k
    BY <2>1
  <2>2. CASE k <= n
    BY <1>2, <2>2
  <2> QED BY <2>1, <2>2
<1>3. m \in W
  <2> HIDE DEF W
  <2> QED BY <1>1, <1>2, Inductive
<1> QED BY <1>3

LEMMA SumsAre ==
    ASSUME NEW s \in Seq(Int)
    PROVE  /\ Sum(s) \in Int /\ Sum(s) = PartialSums(s)[Len(s)] /\ Len(s) \in Nat
           /\ PartialSums(s)[0] = 0
           /\ \A n \in Nat : n <= Len(s) => PartialSums(s)[n] \in Int
           /\ \A n \in Nat : n < Len(s) =>
                /\ s[n + 1] \in Int
                /\ PartialSums(s)[n + 1] = PartialSums(s)[n] + s[n + 1]
<1> DEFINE P == PartialSums(s)
<1>1. /\ P \in [0 .. Len(s) -> Int] /\ P[0] = 0
      /\ \A n \in 1 .. Len(s) : P[n] = P[n - 1] + s[n]
  BY PartialSumsAre
<1> HIDE DEF P
<1>2. Len(s) \in Nat
  OBVIOUS
<1>3. \A n \in Nat : n <= Len(s) => P[n] \in Int
  BY <1>1
<1>4. ASSUME NEW n \in Nat, n < Len(s) PROVE s[n + 1] \in Int /\ P[n + 1] = P[n] + s[n + 1]
  <2>1. n + 1 \in 1 .. Len(s) /\ (n + 1) - 1 = n
    BY <1>4
  <2>2. P[n + 1] = P[(n + 1) - 1] + s[n + 1]
    BY <1>1, <2>1
  <2> QED BY <2>1, <2>2
<1> QED BY <1>1, <1>2, <1>3, <1>4 DEF P, Sum

LEMMA SumsBelow ==
    ASSUME NEW s \in Seq(Int), NEW t \in Seq(Int), NEW m \in Nat, m <= Len(s), m <= Len(t),
           \A i \in 1 .. m : s[i] <= t[i]
    PROVE  PartialSums(s)[m] <= PartialSums(t)[m]
<1> DEFINE P == PartialSums(s)
           Q == PartialSums(t)
           T == {n \in Nat : P[n] <= Q[n]}
<1>1. /\ P[0] = 0 /\ Q[0] = 0
      /\ \A n \in Nat : n <= m => P[n] \in Int /\ Q[n] \in Int
      /\ \A n \in Nat : n < m =>
           /\ s[n + 1] \in Int /\ P[n + 1] = P[n] + s[n + 1]
           /\ t[n + 1] \in Int /\ Q[n + 1] = Q[n] + t[n + 1]
  <2> HIDE DEF P, Q
  <2>1. /\ P[0] = 0
        /\ \A n \in Nat : n <= Len(s) => P[n] \in Int
        /\ \A n \in Nat : n < Len(s) => s[n + 1] \in Int /\ P[n + 1] = P[n] + s[n + 1]
    BY SumsAre DEF P
  <2>2. /\ Q[0] = 0
        /\ \A n \in Nat : n <= Len(t) => Q[n] \in Int
        /\ \A n \in Nat : n < Len(t) => t[n + 1] \in Int /\ Q[n + 1] = Q[n] + t[n + 1]
    BY SumsAre DEF Q
  <2>3. \A n \in Nat : /\ n <= m => n <= Len(s) /\ n <= Len(t)
                       /\ n < m => n < Len(s) /\ n < Len(t)
    OBVIOUS
  <2>4. \A n \in Nat : n <= m => P[n] \in Int /\ Q[n] \in Int
    BY <2>1, <2>2, <2>3
  <2>5. ASSUME NEW n \in Nat, n < m
        PROVE  /\ s[n + 1] \in Int /\ P[n + 1] = P[n] + s[n + 1]
               /\ t[n + 1] \in Int /\ Q[n + 1] = Q[n] + t[n + 1]
    BY <2>1, <2>2, <2>3, <2>5
  <2> QED BY <2>1, <2>2, <2>4, <2>5
<1> HIDE DEF P, Q
<1>2. 0 \in T
  BY <1>1
<1>3. ASSUME NEW n \in Nat, n < m, n \in T PROVE n + 1 \in T
  <2>1. s[n + 1] <= t[n + 1]
    BY <1>3
  <2> QED BY <1>1, <1>3, <2>1
<1>4. m \in T
  <2> HIDE DEF T
  <2> QED BY <1>2, <1>3, InductiveFrom
<1> QED BY <1>4 DEF P, Q

LEMMA SumsSame ==
    ASSUME NEW s \in Seq(Int), NEW t \in Seq(Int), NEW m \in Nat, m <= Len(s), m <= Len(t),
           \A i \in 1 .. m : s[i] = t[i]
    PROVE  PartialSums(s)[m] = PartialSums(t)[m]
<1>1. \A i \in 1 .. m : s[i] <= t[i] /\ t[i] <= s[i]
  <2> TAKE i \in 1 .. m
  <2>1. i \in 1 .. Len(s) /\ s[i] \in Int /\ s[i] = t[i]
    OBVIOUS
  <2> QED BY <2>1
<1>2. PartialSums(s)[m] <= PartialSums(t)[m] /\ PartialSums(t)[m] <= PartialSums(s)[m]
  BY <1>1, SumsBelow
<1>3. PartialSums(s)[m] \in Int /\ PartialSums(t)[m] \in Int
  BY SumsAre
<1> QED BY <1>2, <1>3

LEMMA SumsFall ==
    ASSUME NEW s \in Seq(Int), NEW k \in Nat, NEW m \in Nat, k <= m, m <= Len(s),
           \A i \in k + 1 .. m : s[i] <= 0
    PROVE  PartialSums(s)[m] <= PartialSums(s)[k]
<1> DEFINE P == PartialSums(s)
           T == {n \in Nat : P[n] <= P[k]}
<1>1. /\ \A n \in Nat : n <= Len(s) => P[n] \in Int
      /\ \A n \in Nat : n < Len(s) => s[n + 1] \in Int /\ P[n + 1] = P[n] + s[n + 1]
      /\ Len(s) \in Nat
  BY SumsAre
<1> HIDE DEF P
<1>2. k \in T
  BY <1>1
<1>3. ASSUME NEW n \in Nat, k <= n, n < m, n \in T PROVE n + 1 \in T
  <2>1. s[n + 1] <= 0 /\ n < Len(s)
    BY <1>3, <1>1
  <2>2. P[n] \in Int /\ P[k] \in Int /\ s[n + 1] \in Int /\ P[n + 1] = P[n] + s[n + 1]
    BY <1>1, <1>3, <2>1
  <2> QED BY <1>3, <2>1, <2>2
<1>4. m \in T
  <2> HIDE DEF T
  <2> QED BY <1>2, <1>3, InductiveFrom
<1> QED BY <1>4 DEF P

LEMMA SumOfZeros ==
    ASSUME NEW s \in Seq(Int), \A i \in 1 .. Len(s) : s[i] = 0
    PROVE  Sum(s) = 0
<1> DEFINE P == PartialSums(s)
           T == {n \in Nat : n <= Len(s) => P[n] = 0}
<1>1. /\ P[0] = 0 /\ Len(s) \in Nat /\ Sum(s) = P[Len(s)]
      /\ \A n \in Nat : n < Len(s) => P[n + 1] = P[n] + s[n + 1]
  BY SumsAre
<1> HIDE DEF P
<1>2. 0 \in T
  BY <1>1
<1>3. ASSUME NEW n \in Nat, n \in T PROVE n + 1 \in T
  <2> SUFFICES ASSUME n + 1 <= Len(s) PROVE P[n + 1] = 0
    OBVIOUS
  <2>1. P[n] = 0 /\ n < Len(s) /\ n + 1 \in 1 .. Len(s)
    BY <1>1, <1>3
  <2>2. s[n + 1] = 0 /\ P[n + 1] = P[n] + s[n + 1]
    BY <1>1, <2>1
  <2> QED BY <2>1, <2>2
<1>4. Len(s) \in T
  <2> HIDE DEF T
  <2> QED BY <1>1, <1>2, <1>3, Inductive
<1> QED BY <1>1, <1>4

\* A number put into a list anywhere adds itself.
LEMMA SumInserted ==
    ASSUME NEW s \in Seq(Int), NEW r \in Seq(Int), NEW k \in 1 .. Len(s) + 1,
           Len(r) = Len(s) + 1,
           \A i \in 1 .. k - 1 : r[i] = s[i],
           \A i \in k .. Len(s) : r[i + 1] = s[i]
    PROVE  Sum(r) = Sum(s) + r[k]
<1> DEFINE P == PartialSums(s)
           Q == PartialSums(r)
           T == {n \in Nat : Q[n + 1] = P[n] + r[k]}
<1>1. /\ \A n \in Nat : n <= Len(s) => P[n] \in Int /\ Q[n + 1] \in Int
      /\ \A n \in Nat : n < Len(s) => s[n + 1] \in Int /\ P[n + 1] = P[n] + s[n + 1]
      /\ \A n \in Nat : n < Len(r) => r[n + 1] \in Int /\ Q[n + 1] = Q[n] + r[n + 1]
      /\ Sum(s) = P[Len(s)] /\ Sum(r) = Q[Len(r)] /\ Len(s) \in Nat
  BY SumsAre
<1>2. Q[k - 1] = P[k - 1]
  <2>1. k - 1 \in Nat /\ k - 1 <= Len(s) /\ k - 1 <= Len(r)
    BY <1>1
  <2>2. \A i \in 1 .. k - 1 : r[i] = s[i]
    OBVIOUS
  <2> HIDE DEF P, Q
  <2> QED BY <2>1, <2>2, SumsSame DEF P, Q
<1> HIDE DEF P, Q
<1>3. k - 1 \in T
  <2>1. k - 1 \in Nat /\ k - 1 < Len(r) /\ (k - 1) + 1 = k
    BY <1>1
  <2> QED BY <1>1, <1>2, <2>1
<1>4. ASSUME NEW n \in Nat, k - 1 <= n, n < Len(s), n \in T PROVE n + 1 \in T
  <2>1. r[n + 2] = s[n + 1]
    <3>1. n + 1 \in k .. Len(s) /\ (n + 1) + 1 = n + 2
      BY <1>4, <1>1
    <3> QED BY <3>1
  <2>2. Q[n + 2] = Q[n + 1] + r[n + 2]
    <3>1. n + 1 \in Nat /\ n + 1 < Len(r) /\ (n + 1) + 1 = n + 2
      BY <1>4, <1>1
    <3> QED BY <3>1, <1>1
  <2>3. P[n + 1] = P[n] + s[n + 1] /\ P[n] \in Int /\ s[n + 1] \in Int
    BY <1>4, <1>1
  <2>4. r[k] \in Int
    BY <1>1
  <2>5. Q[n + 1] = P[n] + r[k]
    BY <1>4
  <2>6. Q[n + 2] = P[n + 1] + r[k]
    BY <2>1, <2>2, <2>3, <2>4, <2>5
  <2> QED BY <2>6
<1>5. Len(s) \in T
  <2> HIDE DEF T
  <2>1. k - 1 \in Nat /\ k - 1 <= Len(s)
    BY <1>1
  <2> QED BY <1>1, <1>3, <1>4, <2>1, InductiveFrom
<1> QED BY <1>1, <1>5

\* A list in two parts.
LEMMA SumSplit ==
    ASSUME NEW s \in Seq(Int), NEW k \in Nat, k <= Len(s), NEW r \in Seq(Int),
           Len(r) = Len(s) - k, \A i \in 1 .. Len(r) : r[i] = s[k + i]
    PROVE  Sum(s) = PartialSums(s)[k] + Sum(r)
<1> DEFINE P == PartialSums(s)
           Q == PartialSums(r)
           T == {n \in Nat : P[k + n] = P[k] + Q[n]}
<1>1. /\ \A n \in Nat : n <= Len(s) => P[n] \in Int
      /\ \A n \in Nat : n < Len(s) => s[n + 1] \in Int /\ P[n + 1] = P[n] + s[n + 1]
      /\ \A n \in Nat : n <= Len(r) => Q[n] \in Int
      /\ \A n \in Nat : n < Len(r) => r[n + 1] \in Int /\ Q[n + 1] = Q[n] + r[n + 1]
      /\ Sum(s) = P[Len(s)] /\ Sum(r) = Q[Len(r)] /\ Len(s) \in Nat /\ Len(r) \in Nat
      /\ Q[0] = 0
  BY SumsAre
<1> HIDE DEF P, Q
<1>2. 0 \in T
  BY <1>1
<1>3. ASSUME NEW n \in Nat, n < Len(r), n \in T PROVE n + 1 \in T
  <2>1. n + 1 \in 1 .. Len(r) /\ k + (n + 1) = k + n + 1
    BY <1>3, <1>1
  <2>2. r[n + 1] = s[k + (n + 1)]
    BY <2>1
  <2>3. P[k + n + 1] = P[k + n] + s[k + n + 1]
    BY <1>3, <1>1
  <2>4. Q[n + 1] = Q[n] + r[n + 1] /\ r[n + 1] \in Int /\ Q[n] \in Int /\ P[k] \in Int
    BY <1>3, <1>1
  <2>5. P[k + n] = P[k] + Q[n]
    BY <1>3
  <2>6. P[k + (n + 1)] = (P[k] + Q[n]) + r[n + 1]
    BY <2>1, <2>2, <2>3, <2>5
  <2>7. (P[k] + Q[n]) + r[n + 1] = P[k] + Q[n + 1]
    BY <2>4
  <2> QED BY <2>6, <2>7
<1>4. Len(r) \in T
  <2> HIDE DEF T
  <2> QED BY <1>1, <1>2, <1>3, InductiveFrom
<1>5. k + Len(r) = Len(s)
  BY <1>1
<1>6. P[Len(s)] = P[k] + Q[Len(r)]
  BY <1>4, <1>5
<1> QED BY <1>1, <1>6 DEF P
-----------------------------------------------------------------------------
(* Queues in the order of time.                                            *)

InOrder(q) == \A i, j \in DOMAIN q : i <= j => q[i].at <= q[j].at

\* What is due by t is the first part of a queue.
LEMMA DueFirst ==
    ASSUME NEW T, \A x \in T : x.at \in Int, NEW q \in Seq(T), InOrder(q), NEW t \in Int
    PROVE  /\ DueBy(q, t) \in Nat /\ DueBy(q, t) <= Len(q)
           /\ \A i \in 1 .. Len(q) : q[i].at <= t <=> i <= DueBy(q, t)
<1> DEFINE W == {n \in Nat : n + 1 <= Len(q) => ~(q[n + 1].at <= t)}
<1>1. PICK k \in W : \A n \in W : k <= n
  <2>1. Len(q) \in W
    OBVIOUS
  <2> HIDE DEF W
  <2>2. W \in SUBSET Nat
    BY DEF W
  <2> QED BY <2>1, <2>2, Least
<1>2. k \in Nat /\ k <= Len(q)
  <2>1. Len(q) \in W
    OBVIOUS
  <2>2. W \in SUBSET Nat
    OBVIOUS
  <2> HIDE DEF W
  <2> QED BY <1>1, <2>1, <2>2
<1>0. \A n \in Nat : n < k => n \notin W
  <2> HIDE DEF W
  <2> QED BY <1>1, <1>2
<1>3. ASSUME NEW i \in 1 .. Len(q) PROVE q[i].at <= t <=> i <= k
  <2>1. CASE i <= k
    <3>1. i - 1 \in Nat /\ i - 1 \notin W
      BY <1>0, <1>2, <2>1
    <3>2. (i - 1) + 1 = i
      OBVIOUS
    <3> QED BY <2>1, <3>1, <3>2
  <2>2. CASE i > k
    <3>1. k + 1 \in 1 .. Len(q) /\ k + 1 <= i
      BY <1>2, <2>2
    <3>2. ~(q[k + 1].at <= t)
      BY <1>1, <3>1
    <3>3. q[k + 1].at <= q[i].at
      BY <3>1 DEF InOrder
    <3>4. q[k + 1].at \in Int /\ q[i].at \in Int
      BY <3>1
    <3> QED BY <2>2, <3>2, <3>3, <3>4, <1>2
  <2> QED BY <2>1, <2>2, <1>2
<1>4. {i \in DOMAIN q : q[i].at <= t} = 1 .. k
  BY <1>2, <1>3
<1>5. DueBy(q, t) = k
  <2>1. DueBy(q, t) = Cardinality(1 .. k)
    BY <1>4 DEF DueBy
  <2>2. Cardinality(1 .. k) = IF 1 > k THEN 0 ELSE k - 1 + 1
    BY <1>2, FS_Interval
  <2> QED BY <1>2, <2>1, <2>2
<1> QED BY <1>2, <1>3, <1>5

LEMMA TupleIsSeq ==
    ASSUME NEW T, NEW n \in Nat, NEW r \in [1 .. n -> T]
    PROVE  r \in Seq(T) /\ Len(r) = n
OBVIOUS

LEMMA Joined ==
    ASSUME NEW T, NEW a \in Seq(T), NEW c \in Seq(T)
    PROVE  /\ a \o c \in Seq(T) /\ Len(a \o c) = Len(a) + Len(c)
           /\ \A i \in 1 .. Len(a) + Len(c) :
                (a \o c)[i] = IF i <= Len(a) THEN a[i] ELSE c[i - Len(a)]
OBVIOUS

\* Insert puts one element in, in order, and leaves the others as they are.
LEMMA Inserted ==
    ASSUME NEW T, \A x \in T : x.at \in Int, NEW q \in Seq(T), InOrder(q), NEW x \in T
    PROVE  LET r == Insert(q, x)
               k == DueBy(q, x.at) + 1
           IN  /\ r \in Seq(T) /\ Len(r) = Len(q) + 1 /\ InOrder(r)
               /\ k \in 1 .. Len(q) + 1
               /\ \A i \in 1 .. Len(r) :
                    /\ r[i] = IF i < k THEN q[i] ELSE IF i = k THEN x ELSE q[i - 1]
                    /\ i < k => r[i].at <= x.at
                    /\ i > k => r[i].at > x.at
<1> DEFINE r == Insert(q, x)
           k == DueBy(q, x.at) + 1
<1>0. /\ DueBy(q, x.at) \in Nat /\ DueBy(q, x.at) <= Len(q)
      /\ \A i \in 1 .. Len(q) : q[i].at <= x.at <=> i <= DueBy(q, x.at)
  BY DueFirst
<1>1. k \in Nat /\ k \in 1 .. Len(q) + 1
  BY <1>0
<1>2. \A i \in 1 .. Len(q) : q[i].at <= x.at <=> i < k
  BY <1>0
<1>3. r = SubSeq(q, 1, k - 1) \o <<x>> \o SubSeq(q, k, Len(q))
  BY DEF Insert, InsertAt
<1> HIDE DEF r, k
<1> DEFINE a == SubSeq(q, 1, k - 1)
           c == SubSeq(q, k, Len(q))
<1>4. /\ a \in Seq(T) /\ Len(a) = k - 1
      /\ \A i \in 1 .. k - 1 : a[i] = q[i]
  BY <1>1
<1>5. /\ c \in Seq(T) /\ Len(c) = Len(q) - k + 1
      /\ \A i \in 1 .. Len(q) - k + 1 : c[i] = q[k + i - 1]
  BY <1>1
<1> HIDE DEF a, c
<1>6. r \in Seq(T) /\ Len(r) = Len(q) + 1
  <2>1. r = (a \o <<x>>) \o c
    BY <1>3 DEF a, c
  <2>2. a \o <<x>> \in Seq(T) /\ Len(a \o <<x>>) = k
    BY <1>1, <1>4
  <2> DEFINE b == a \o <<x>>
  <2> HIDE DEF b
  <2>3. r \in Seq(T) /\ Len(r) = Len(b) + Len(c)
    BY <1>5, <2>1, <2>2, Joined DEF b
  <2>4. Len(b) = k
    BY <2>2 DEF b
  <2> QED BY <1>1, <1>5, <2>3, <2>4
<1>7. \A i \in 1 .. Len(r) : r[i] = IF i < k THEN q[i] ELSE IF i = k THEN x ELSE q[i - 1]
  <2>1. a \o <<x>> \in Seq(T) /\ Len(a \o <<x>>) = k /\ (a \o <<x>>)[k] = x
        /\ \A i \in 1 .. k - 1 : (a \o <<x>>)[i] = a[i]
    BY <1>1, <1>4
  <2>2. r = (a \o <<x>>) \o c
    BY <1>3 DEF a, c
  <2> TAKE i \in 1 .. Len(r)
  <2>3. CASE i < k
    BY <1>1, <1>4, <1>5, <1>6, <2>1, <2>2, <2>3
  <2>4. CASE i = k
    BY <1>1, <1>4, <1>5, <1>6, <2>1, <2>2, <2>4
  <2>5. CASE i > k
    <3>1. r[i] = c[i - k] /\ i - k \in 1 .. Len(q) - k + 1 /\ k + (i - k) - 1 = i - 1
      BY <1>1, <1>4, <1>5, <1>6, <2>1, <2>2, <2>5
    <3> QED BY <1>1, <1>5, <2>5, <3>1
  <2> QED BY <1>1, <2>3, <2>4, <2>5
<1>8. \A i \in 1 .. Len(r) : (i < k => r[i].at <= x.at) /\ (i > k => r[i].at > x.at)
  <2> TAKE i \in 1 .. Len(r)
  <2>1. CASE i < k
    BY <1>1, <1>2, <1>6, <1>7, <2>1
  <2>2. CASE i > k
    <3>1. i - 1 \in 1 .. Len(q) /\ ~(i - 1 < k) /\ r[i] = q[i - 1]
      BY <1>1, <1>6, <1>7, <2>2
    <3>2. q[i - 1].at \in Int /\ x.at \in Int
      BY <3>1
    <3> QED BY <1>1, <1>2, <3>1, <3>2, <2>2
  <2> QED BY <2>1, <2>2, <1>1
<1>9. InOrder(r)
  <2> SUFFICES ASSUME NEW i \in 1 .. Len(r), NEW j \in 1 .. Len(r), i <= j
               PROVE  r[i].at <= r[j].at
    BY <1>6 DEF InOrder
  <2>1. r[i].at \in Int /\ r[j].at \in Int /\ x.at \in Int
    BY <1>6
  <2>2. CASE i <= k /\ k <= j
    <3>1. r[k] = x /\ (i = k \/ i < k) /\ (j = k \/ j > k)
      BY <1>1, <1>6, <1>7, <2>2
    <3> QED BY <1>8, <2>1, <3>1
  <2>3. CASE j < k
    <3>1. i \in DOMAIN q /\ j \in DOMAIN q /\ r[i] = q[i] /\ r[j] = q[j]
      BY <1>1, <1>6, <1>7, <2>3
    <3> QED BY <3>1 DEF InOrder
  <2>4. CASE i > k
    <3>1. i - 1 \in DOMAIN q /\ j - 1 \in DOMAIN q /\ i - 1 <= j - 1
      BY <1>1, <1>6, <2>4
    <3>2. r[i] = q[i - 1] /\ r[j] = q[j - 1]
      <4>1. r[i] = q[i - 1]
        BY <1>1, <1>7, <2>4
      <4>2. r[j] = q[j - 1]
        BY <1>1, <1>7, <2>4
      <4> QED BY <4>1, <4>2
    <3>3. q[i - 1].at <= q[j - 1].at
      BY <3>1 DEF InOrder
    <3> QED BY <3>2, <3>3
  <2> QED BY <1>1, <2>2, <2>3, <2>4
<1> QED BY <1>1, <1>6, <1>7, <1>8, <1>9 DEF r, k

\* RemoveAt takes one element out; Tail the first.
LEMMA Removed ==
    ASSUME NEW T, NEW q \in Seq(T), NEW k \in 1 .. Len(q), NEW r,
           r = RemoveAt(q, k) \/ (k = 1 /\ r = Tail(q))
    PROVE  /\ r \in Seq(T) /\ Len(r) = Len(q) - 1
           /\ \A i \in 1 .. Len(r) : r[i] = IF i < k THEN q[i] ELSE q[i + 1]
           /\ InOrder(q) => InOrder(r)
<1>1. /\ r \in Seq(T) /\ Len(r) = Len(q) - 1
      /\ \A i \in 1 .. Len(r) : r[i] = IF i < k THEN q[i] ELSE q[i + 1]
  <2>1. CASE k = 1 /\ r = Tail(q)
    <3>1. q # <<>>
      OBVIOUS
    <3>2. Tail(q) \in Seq(T) /\ Len(Tail(q)) = Len(q) - 1
          /\ \A i \in 1 .. Len(q) - 1 : Tail(q)[i] = q[i + 1]
      BY <3>1
    <3> QED BY <2>1, <3>2
  <2>2. CASE r = RemoveAt(q, k)
    <3> DEFINE a == SubSeq(q, 1, k - 1)
               c == SubSeq(q, k + 1, Len(q))
    <3>1. a \in Seq(T) /\ Len(a) = k - 1 /\ \A i \in 1 .. k - 1 : a[i] = q[i]
      OBVIOUS
    <3>2. c \in Seq(T) /\ Len(c) = Len(q) - k /\ \A i \in 1 .. Len(q) - k : c[i] = q[k + i]
      OBVIOUS
    <3>3. r = a \o c
      BY <2>2 DEF RemoveAt
    <3> HIDE DEF a, c
    <3>4. r \in Seq(T) /\ Len(r) = Len(q) - 1
      <4>1. r \in Seq(T) /\ Len(r) = Len(a) + Len(c)
        BY <3>1, <3>2, <3>3, Joined
      <4>2. Len(a) = k - 1 /\ Len(c) = Len(q) - k
        BY <3>1, <3>2
      <4> QED BY <4>1, <4>2
    <3>5. \A i \in 1 .. Len(r) : r[i] = IF i < k THEN a[i] ELSE c[i - (k - 1)]
      <4>1. Len(r) = Len(a) + Len(c)
        BY <3>1, <3>2, <3>3, Joined
      <4>2. \A i \in 1 .. Len(a) + Len(c) :
              (a \o c)[i] = IF i <= Len(a) THEN a[i] ELSE c[i - Len(a)]
        BY <3>1, <3>2, Joined
      <4>3. Len(a) = k - 1
        BY <3>1
      <4>4. \A i \in 1 .. Len(r) : r[i] = IF i <= k - 1 THEN a[i] ELSE c[i - (k - 1)]
        BY <3>3, <4>1, <4>2, <4>3
      <4>5. \A i \in 1 .. Len(r) : i <= k - 1 <=> i < k
        OBVIOUS
      <4> QED BY <4>4, <4>5
    <3>6. ASSUME NEW i \in 1 .. Len(r) PROVE r[i] = IF i < k THEN q[i] ELSE q[i + 1]
      <4>1. CASE i < k
        BY <3>1, <3>4, <3>5, <4>1
      <4>2. CASE i >= k
        <5>1. i - (k - 1) \in 1 .. Len(q) - k /\ k + (i - (k - 1)) = i + 1
          BY <3>4, <4>2
        <5>2. r[i] = c[i - (k - 1)]
          BY <3>5, <4>2
        <5>3. c[i - (k - 1)] = q[i + 1]
          BY <3>2, <5>1
        <5> QED BY <4>2, <5>2, <5>3
      <4> QED BY <4>1, <4>2
    <3> QED BY <3>4, <3>6
  <2> QED BY <2>1, <2>2
<1>2. ASSUME InOrder(q) PROVE InOrder(r)
  <2> SUFFICES ASSUME NEW i \in 1 .. Len(r), NEW j \in 1 .. Len(r), i <= j
               PROVE  r[i].at <= r[j].at
    <3>1. DOMAIN r = 1 .. Len(r)
      BY <1>1
    <3> QED BY <3>1 DEF InOrder
  <2> DEFINE a == IF i < k THEN i ELSE i + 1
             b == IF j < k THEN j ELSE j + 1
  <2>1. a \in DOMAIN q /\ b \in DOMAIN q /\ a <= b
    BY <1>1
  <2>2. r[i] = q[a] /\ r[j] = q[b]
    BY <1>1
  <2> HIDE DEF a, b
  <2>3. q[a].at <= q[b].at
    BY <1>2, <2>1 DEF InOrder
  <2> QED BY <2>2, <2>3
<1> QED BY <1>1, <1>2

-----------------------------------------------------------------------------
(* The power on the air, by the scheduled events and by the list.          *)

Kinds == {"DoSubtractSignal", "EndTx", "EndRxData", "EndRxCtrl", "EndRxSrs",
          "CheckIfStillBusy"}
Events == [at : Nat, kind : Kinds, power : Powers \union {0}]
Changes == [at : Int, delta : Int]

LEMMA EventTypes ==
    /\ \A x \in Events : x.at \in Int /\ x.at >= 0 /\ x.power \in Int /\ x.power >= 0
    /\ \A x \in Changes : x.at \in Int /\ x.delta \in Int
<1>1. Powers \union {0} \subseteq Nat
  BY SpectrumAssumption
<1>2. \A x \in Events : x.at \in Nat /\ x.power \in Powers \union {0}
  BY DEF Events
<1>3. \A x \in Changes : x.at \in Int /\ x.delta \in Int
  BY DEF Changes
<1> QED BY <1>1, <1>2, <1>3

Powered(q, t) == [i \in DOMAIN q |-> IF q[i].at > t THEN q[i].power ELSE 0]
Air(q, t) == Sum(Powered(q, t))

Changed(list, t) == [i \in DOMAIN list |-> IF list[i].at <= t THEN list[i].delta ELSE 0]
PowerAt(list, first, t) == first + Sum(Changed(list, t))

LEMMA PoweredType ==
    ASSUME NEW q \in Seq(Events), NEW t \in Int
    PROVE  /\ Powered(q, t) \in Seq(Int) /\ Powered(q, t) \in Seq(Powers \union {0})
           /\ Len(Powered(q, t)) = Len(q) /\ DOMAIN q = 1 .. Len(q) /\ Len(q) \in Nat
           /\ Air(q, t) \in Int
           /\ \A i \in 1 .. Len(q) :
                Powered(q, t)[i] = IF q[i].at > t THEN q[i].power ELSE 0
<1>1. \A i \in 1 .. Len(q) : q[i].power \in Int /\ q[i].power \in Powers \union {0}
  <2> TAKE i \in 1 .. Len(q)
  <2>1. q[i] \in Events
    OBVIOUS
  <2>2. q[i].power \in Powers \union {0}
    BY <2>1 DEF Events
  <2> QED BY <2>1, <2>2, EventTypes
<1>2. /\ Powered(q, t) \in Seq(Int) /\ Powered(q, t) \in Seq(Powers \union {0})
      /\ Len(Powered(q, t)) = Len(q) /\ DOMAIN q = 1 .. Len(q) /\ Len(q) \in Nat
      /\ \A i \in 1 .. Len(q) :
           Powered(q, t)[i] = IF q[i].at > t THEN q[i].power ELSE 0
  BY <1>1 DEF Powered
<1> QED BY <1>2, SumsAre DEF Air

LEMMA ChangedType ==
    ASSUME NEW list \in Seq(Changes), NEW t \in Int
    PROVE  /\ Changed(list, t) \in Seq(Int)
           /\ Len(Changed(list, t)) = Len(list) /\ DOMAIN list = 1 .. Len(list)
           /\ Len(list) \in Nat
           /\ Sum(Changed(list, t)) \in Int
           /\ \A i \in 1 .. Len(list) :
                Changed(list, t)[i] = IF list[i].at <= t THEN list[i].delta ELSE 0
<1>1. \A i \in 1 .. Len(list) : list[i].delta \in Int
  BY EventTypes
<1>2. /\ Changed(list, t) \in Seq(Int)
      /\ Len(Changed(list, t)) = Len(list) /\ DOMAIN list = 1 .. Len(list)
      /\ Len(list) \in Nat
      /\ \A i \in 1 .. Len(list) :
           Changed(list, t)[i] = IF list[i].at <= t THEN list[i].delta ELSE 0
  BY <1>1 DEF Changed
<1> QED BY <1>2, SumsAre

\* One more element, anywhere.
LEMMA AirWith ==
    ASSUME NEW q \in Seq(Events), NEW r \in Seq(Events), NEW k \in 1 .. Len(q) + 1,
           Len(r) = Len(q) + 1, NEW t \in Int,
           \A i \in 1 .. k - 1 : r[i] = q[i],
           \A i \in k .. Len(q) : r[i + 1] = q[i]
    PROVE  Air(r, t) = Air(q, t) + IF r[k].at > t THEN r[k].power ELSE 0
<1> DEFINE s == Powered(q, t)
           u == Powered(r, t)
<1>1. /\ s \in Seq(Int) /\ Len(s) = Len(q) /\ Len(q) \in Nat
      /\ \A i \in 1 .. Len(q) : s[i] = IF q[i].at > t THEN q[i].power ELSE 0
      /\ u \in Seq(Int) /\ Len(u) = Len(r)
      /\ \A i \in 1 .. Len(r) : u[i] = IF r[i].at > t THEN r[i].power ELSE 0
  BY PoweredType
<1> HIDE DEF s, u
<1>2. ASSUME NEW i \in 1 .. k - 1 PROVE u[i] = s[i]
  <2>1. i \in 1 .. Len(q) /\ i \in 1 .. Len(r) /\ r[i] = q[i]
    BY <1>1
  <2> QED BY <1>1, <2>1
<1>3. ASSUME NEW i \in k .. Len(s) PROVE u[i + 1] = s[i]
  <2>1. i \in k .. Len(q) /\ i \in 1 .. Len(q) /\ i + 1 \in 1 .. Len(r)
    BY <1>1
  <2> QED BY <1>1, <2>1
<1>4. Sum(u) = Sum(s) + u[k]
  <2>1. k \in 1 .. Len(s) + 1 /\ Len(u) = Len(s) + 1
    BY <1>1
  <2> QED BY <1>1, <1>2, <1>3, <2>1, SumInserted
<1>5. k \in 1 .. Len(r)
  BY <1>1
<1> QED BY <1>1, <1>4, <1>5 DEF Air, s, u

LEMMA PowerAtWith ==
    ASSUME NEW q \in Seq(Changes), NEW r \in Seq(Changes), NEW k \in 1 .. Len(q) + 1,
           Len(r) = Len(q) + 1, NEW t \in Int, NEW first \in Int,
           \A i \in 1 .. k - 1 : r[i] = q[i],
           \A i \in k .. Len(q) : r[i + 1] = q[i]
    PROVE  PowerAt(r, first, t) = PowerAt(q, first, t) + IF r[k].at <= t THEN r[k].delta ELSE 0
<1> DEFINE s == Changed(q, t)
           u == Changed(r, t)
<1>1. /\ s \in Seq(Int) /\ Len(s) = Len(q) /\ Len(q) \in Nat /\ Sum(s) \in Int
      /\ \A i \in 1 .. Len(q) : s[i] = IF q[i].at <= t THEN q[i].delta ELSE 0
      /\ u \in Seq(Int) /\ Len(u) = Len(r) /\ Sum(u) \in Int
      /\ \A i \in 1 .. Len(r) : u[i] = IF r[i].at <= t THEN r[i].delta ELSE 0
  BY ChangedType
<1> HIDE DEF s, u
<1>2. ASSUME NEW i \in 1 .. k - 1 PROVE u[i] = s[i]
  <2>1. i \in 1 .. Len(q) /\ i \in 1 .. Len(r) /\ r[i] = q[i]
    BY <1>1
  <2> QED BY <1>1, <2>1
<1>3. ASSUME NEW i \in k .. Len(s) PROVE u[i + 1] = s[i]
  <2>1. i \in k .. Len(q) /\ i \in 1 .. Len(q) /\ i + 1 \in 1 .. Len(r)
    BY <1>1
  <2> QED BY <1>1, <2>1
<1>4. Sum(u) = Sum(s) + u[k]
  <2>1. k \in 1 .. Len(s) + 1 /\ Len(u) = Len(s) + 1
    BY <1>1
  <2> QED BY <1>1, <1>2, <1>3, <2>1, SumInserted
<1>5. k \in 1 .. Len(r) /\ u[k] \in Int
  BY <1>1
<1>6. PowerAt(r, first, t) = PowerAt(q, first, t) + u[k]
  BY <1>1, <1>4, <1>5 DEF PowerAt, s, u
<1> QED BY <1>1, <1>5, <1>6

LEMMA InsertedAir ==
    ASSUME NEW q \in Seq(Events), InOrder(q), NEW x \in Events, NEW t \in Int
    PROVE  Air(Insert(q, x), t) = Air(q, t) + IF x.at > t THEN x.power ELSE 0
<1> DEFINE r == Insert(q, x)
           k == DueBy(q, x.at) + 1
<1>1. /\ r \in Seq(Events) /\ Len(r) = Len(q) + 1 /\ k \in 1 .. Len(q) + 1
      /\ \A i \in 1 .. Len(r) : r[i] = IF i < k THEN q[i] ELSE IF i = k THEN x ELSE q[i - 1]
  BY Inserted, EventTypes
<1> HIDE DEF r, k
<1>2. \A i \in 1 .. k - 1 : r[i] = q[i]
  BY <1>1
<1>3. \A i \in k .. Len(q) : r[i + 1] = q[i]
  BY <1>1
<1>4. r[k] = x
  BY <1>1
<1> QED BY <1>1, <1>2, <1>3, <1>4, AirWith DEF r

LEMMA InsertedPowerAt ==
    ASSUME NEW q \in Seq(Changes), InOrder(q), NEW x \in Changes, NEW t \in Int,
           NEW first \in Int
    PROVE  PowerAt(Insert(q, x), first, t) =
             PowerAt(q, first, t) + IF x.at <= t THEN x.delta ELSE 0
<1> DEFINE r == Insert(q, x)
           k == DueBy(q, x.at) + 1
<1>1. /\ r \in Seq(Changes) /\ Len(r) = Len(q) + 1 /\ k \in 1 .. Len(q) + 1
      /\ \A i \in 1 .. Len(r) : r[i] = IF i < k THEN q[i] ELSE IF i = k THEN x ELSE q[i - 1]
  BY Inserted, EventTypes
<1> HIDE DEF r, k
<1>2. \A i \in 1 .. k - 1 : r[i] = q[i]
  BY <1>1
<1>3. \A i \in k .. Len(q) : r[i + 1] = q[i]
  BY <1>1
<1>4. r[k] = x
  BY <1>1
<1>5. PowerAt(r, first, t) = PowerAt(q, first, t) + IF r[k].at <= t THEN r[k].delta ELSE 0
  BY <1>1, <1>2, <1>3, PowerAtWith
<1> QED BY <1>4, <1>5 DEF r

LEMMA AirWithout ==
    ASSUME NEW q \in Seq(Events), NEW k \in 1 .. Len(q), NEW t \in Int,
           NEW r \in Seq(Events), Len(r) = Len(q) - 1,
           \A i \in 1 .. Len(r) : r[i] = IF i < k THEN q[i] ELSE q[i + 1]
    PROVE  Air(q, t) = Air(r, t) + IF q[k].at > t THEN q[k].power ELSE 0
<1>1. k \in 1 .. Len(r) + 1 /\ Len(q) = Len(r) + 1
  OBVIOUS
<1>2. \A i \in 1 .. k - 1 : q[i] = r[i]
  OBVIOUS
<1>3. \A i \in k .. Len(r) : q[i + 1] = r[i]
  OBVIOUS
<1> QED BY <1>1, <1>2, <1>3, AirWith

LEMMA RemovedAir ==
    ASSUME NEW q \in Seq(Events), NEW k \in 1 .. Len(q), NEW t \in Int, NEW r,
           r = RemoveAt(q, k) \/ (k = 1 /\ r = Tail(q))
    PROVE  Air(q, t) = Air(r, t) + IF q[k].at > t THEN q[k].power ELSE 0
<1>1. /\ r \in Seq(Events) /\ Len(r) = Len(q) - 1
      /\ \A i \in 1 .. Len(r) : r[i] = IF i < k THEN q[i] ELSE q[i + 1]
  BY Removed
<1> QED BY <1>1, AirWithout

\* The later, the less is on the air; if it is less, something ended.
LEMMA AirFalls ==
    ASSUME NEW q \in Seq(Events), NEW t \in Int, NEW u \in Int, t <= u
    PROVE  /\ Air(q, u) <= Air(q, t)
           /\ Air(q, u) # Air(q, t) =>
                \E i \in DOMAIN q : q[i].power > 0 /\ t < q[i].at /\ q[i].at <= u
<1> DEFINE s == Powered(q, t)
           v == Powered(q, u)
<1>1. /\ s \in Seq(Int) /\ Len(s) = Len(q) /\ Len(q) \in Nat /\ DOMAIN q = 1 .. Len(q)
      /\ \A i \in 1 .. Len(q) : s[i] = IF q[i].at > t THEN q[i].power ELSE 0
      /\ v \in Seq(Int) /\ Len(v) = Len(q)
      /\ \A i \in 1 .. Len(q) : v[i] = IF q[i].at > u THEN q[i].power ELSE 0
      /\ Air(q, t) = PartialSums(s)[Len(q)] /\ Air(q, u) = PartialSums(v)[Len(q)]
  BY PoweredType, SumsAre DEF Air
<1>2. \A i \in 1 .. Len(q) : /\ q[i].at \in Int /\ q[i].power \in Int /\ q[i].power >= 0
  BY EventTypes
<1> HIDE DEF s, v
<1>3. ASSUME NEW i \in 1 .. Len(q) PROVE v[i] <= s[i]
  <2>1. /\ s[i] = IF q[i].at > t THEN q[i].power ELSE 0
        /\ v[i] = IF q[i].at > u THEN q[i].power ELSE 0
    BY <1>1
  <2>2. q[i].at \in Int /\ q[i].power \in Int /\ q[i].power >= 0
    BY <1>2
  <2> QED BY <2>1, <2>2
<1>4. Air(q, u) <= Air(q, t)
  <2>1. Len(q) \in Nat /\ Len(q) <= Len(s) /\ Len(q) <= Len(v)
    BY <1>1
  <2>2. PartialSums(v)[Len(q)] <= PartialSums(s)[Len(q)]
    BY <1>1, <1>3, <2>1, SumsBelow
  <2> QED BY <1>1, <2>2
<1>5. ASSUME \A i \in DOMAIN q : ~(q[i].power > 0 /\ t < q[i].at /\ q[i].at <= u)
      PROVE  Air(q, u) = Air(q, t)
  <2>1. ASSUME NEW i \in 1 .. Len(q) PROVE v[i] = s[i]
    <3>1. /\ s[i] = IF q[i].at > t THEN q[i].power ELSE 0
          /\ v[i] = IF q[i].at > u THEN q[i].power ELSE 0
      BY <1>1
    <3>2. /\ q[i].at \in Int /\ q[i].power \in Int /\ q[i].power >= 0
          /\ ~(q[i].power > 0 /\ t < q[i].at /\ q[i].at <= u)
      BY <1>1, <1>2, <1>5
    <3> QED BY <3>1, <3>2
  <2> QED BY <1>1, <2>1, SumsSame
<1> QED BY <1>4, <1>5

\* Nothing lasts for ever.
LEMMA AirEnds ==
    ASSUME NEW q \in Seq(Events)
    PROVE  \E t \in Nat : Air(q, t) <= 0
<1> DEFINE Bounded(n) == \E t \in Nat : \A i \in 1 .. n : q[i].at <= t
           T == {n \in Nat : n <= Len(q) => Bounded(n)}
<1>1. 0 \in T
  OBVIOUS
<1>2. ASSUME NEW n \in Nat, n \in T PROVE n + 1 \in T
  <2>1. ASSUME n + 1 <= Len(q) PROVE Bounded(n + 1)
    <3>1. PICK t \in Nat : \A i \in 1 .. n : q[i].at <= t
      BY <1>2, <2>1
    <3>2. \A i \in 1 .. n + 1 : q[i].at \in Nat
      BY <2>1, EventTypes
    <3>3. n + 1 \in 1 .. n + 1 /\ \A i \in 1 .. n + 1 : i = n + 1 \/ i \in 1 .. n
      OBVIOUS
    <3>4. CASE q[n + 1].at > t
      <4>1. \A i \in 1 .. n + 1 : q[i].at <= q[n + 1].at
        BY <3>1, <3>2, <3>3, <3>4
      <4> QED BY <3>2, <3>3, <4>1
    <3>5. CASE ~(q[n + 1].at > t)
      <4>1. \A i \in 1 .. n + 1 : q[i].at <= t
        BY <3>1, <3>2, <3>3, <3>5
      <4> QED BY <4>1
    <3> QED BY <3>4, <3>5
  <2> HIDE DEF Bounded
  <2> QED BY <2>1
<1>3. Len(q) \in T
  <2> HIDE DEF T
  <2> QED BY <1>1, <1>2, Inductive
<1>4. PICK t \in Nat : \A i \in 1 .. Len(q) : q[i].at <= t
  <2>1. Bounded(Len(q))
    <3> HIDE DEF Bounded
    <3> QED BY <1>3
  <2> QED BY <2>1
<1> DEFINE s == Powered(q, t)
<1>5. /\ s \in Seq(Int) /\ Len(s) = Len(q) /\ Len(q) \in Nat
      /\ \A i \in 1 .. Len(q) : s[i] = IF q[i].at > t THEN q[i].power ELSE 0
      /\ Air(q, t) = PartialSums(s)[Len(q)] /\ PartialSums(s)[0] = 0
  BY PoweredType, SumsAre DEF Air
<1> HIDE DEF s
<1>6. \A i \in 0 + 1 .. Len(q) : s[i] <= 0
  <2> TAKE i \in 0 + 1 .. Len(q)
  <2>1. i \in 1 .. Len(q)
    OBVIOUS
  <2>2. q[i].at <= t /\ q[i].at \in Int
    BY <1>4, <2>1, EventTypes
  <2> QED BY <1>5, <2>1, <2>2
<1>7. PartialSums(s)[Len(q)] <= PartialSums(s)[0]
  BY <1>5, <1>6, SumsFall
<1> QED BY <1>5, <1>7

\* What is on the air when the clock has moved on.
LEMMA TickedAir ==
    ASSUME NEW q \in Seq(Events), NEW r \in Seq(Events), Len(r) = Len(q), NEW t \in Int,
           \A i \in 1 .. Len(q) : r[i].at = q[i].at - 1 /\ r[i].power = q[i].power
    PROVE  Air(r, t) = Air(q, t + 1)
<1> DEFINE s == Powered(r, t)
           v == Powered(q, t + 1)
<1>1. /\ s \in Seq(Int) /\ Len(s) = Len(q) /\ Len(q) \in Nat
      /\ \A i \in 1 .. Len(q) : s[i] = IF r[i].at > t THEN r[i].power ELSE 0
      /\ v \in Seq(Int) /\ Len(v) = Len(q)
      /\ \A i \in 1 .. Len(q) : v[i] = IF q[i].at > t + 1 THEN q[i].power ELSE 0
      /\ Air(r, t) = PartialSums(s)[Len(q)] /\ Air(q, t + 1) = PartialSums(v)[Len(q)]
  BY PoweredType, SumsAre DEF Air
<1> HIDE DEF s, v
<1>3. ASSUME NEW i \in 1 .. Len(q) PROVE s[i] = v[i]
  <2>1. /\ s[i] = IF r[i].at > t THEN r[i].power ELSE 0
        /\ v[i] = IF q[i].at > t + 1 THEN q[i].power ELSE 0
    BY <1>1
  <2>2. q[i].at \in Int /\ r[i].at = q[i].at - 1 /\ r[i].power = q[i].power
    BY EventTypes
  <2> QED BY <2>1, <2>2
<1> QED BY <1>1, <1>3, SumsSame

LEMMA TickedPowerAt ==
    ASSUME NEW q \in Seq(Changes), NEW r \in Seq(Changes), Len(r) = Len(q), NEW t \in Nat,
           NEW first \in Int,
           \A i \in 1 .. Len(q) : /\ r[i].at = IF q[i].at < 0 THEN q[i].at ELSE q[i].at - 1
                                  /\ r[i].delta = q[i].delta
    PROVE  PowerAt(r, first, t) = PowerAt(q, first, t + 1)
<1> DEFINE s == Changed(r, t)
           v == Changed(q, t + 1)
<1>1. /\ s \in Seq(Int) /\ Len(s) = Len(q) /\ Len(q) \in Nat
      /\ \A i \in 1 .. Len(q) : s[i] = IF r[i].at <= t THEN r[i].delta ELSE 0
      /\ v \in Seq(Int) /\ Len(v) = Len(q)
      /\ \A i \in 1 .. Len(q) : v[i] = IF q[i].at <= t + 1 THEN q[i].delta ELSE 0
      /\ Sum(s) = PartialSums(s)[Len(q)] /\ Sum(v) = PartialSums(v)[Len(q)]
  BY ChangedType, SumsAre
<1> HIDE DEF s, v
<1>3. ASSUME NEW i \in 1 .. Len(q) PROVE s[i] = v[i]
  <2>1. /\ s[i] = IF r[i].at <= t THEN r[i].delta ELSE 0
        /\ v[i] = IF q[i].at <= t + 1 THEN q[i].delta ELSE 0
    BY <1>1
  <2>2. /\ q[i].at \in Int /\ r[i].delta = q[i].delta
        /\ r[i].at = IF q[i].at < 0 THEN q[i].at ELSE q[i].at - 1
    BY EventTypes
  <2> QED BY <2>1, <2>2
<1>4. Sum(s) = Sum(v)
  <2>1. Len(q) <= Len(s) /\ Len(q) <= Len(v)
    BY <1>1
  <2>2. PartialSums(s)[Len(q)] = PartialSums(v)[Len(q)]
    BY <1>1, <1>3, <2>1, SumsSame
  <2> QED BY <1>1, <2>2
<1> QED BY <1>4 DEF PowerAt, s, v

\* The list read up to t.
LEMMA PowerAtIsAfter ==
    ASSUME NEW list \in Seq(Changes), InOrder(list), NEW first \in Int, NEW t \in Int
    PROVE  PowerAt(list, first, t) = PowerAfter(list, DueBy(list, t), first)
<1> DEFINE k == DueBy(list, t)
           s == Changed(list, t)
           v == [i \in DOMAIN list |-> list[i].delta]
<1>1. /\ k \in Nat /\ k <= Len(list)
      /\ \A i \in 1 .. Len(list) : list[i].at <= t <=> i <= k
  BY DueFirst, EventTypes
<1>2. /\ s \in Seq(Int) /\ Len(s) = Len(list) /\ Len(list) \in Nat
      /\ \A i \in 1 .. Len(list) : s[i] = IF list[i].at <= t THEN list[i].delta ELSE 0
  BY ChangedType
<1>3. \A i \in 1 .. Len(list) : list[i].delta \in Int
  BY EventTypes
<1>4. /\ v \in Seq(Int) /\ Len(v) = Len(list)
      /\ \A i \in 1 .. Len(list) : v[i] = list[i].delta
  BY <1>3
<1>5. PowerAfter(list, k, first) = first + PartialSums(v)[k]
  BY DEF PowerAfter
<1>6. PowerAt(list, first, t) = first + Sum(s)
  BY DEF PowerAt
<1> HIDE DEF k, s, v
<1>7. PartialSums(s)[k] = PartialSums(v)[k]
  <2>1. ASSUME NEW i \in 1 .. k PROVE s[i] = v[i]
    <3>1. i \in 1 .. Len(list) /\ i <= k
      BY <1>1
    <3> QED BY <1>1, <1>2, <1>4, <3>1
  <2> QED BY <1>1, <1>2, <1>4, <2>1, SumsSame
<1>8. Sum(s) = PartialSums(s)[k]
  <2>1. \A i \in k + 1 .. Len(s) : i \in 1 .. Len(list) /\ s[i] = 0
    BY <1>1, <1>2
  <2> DEFINE r == [i \in 1 .. Len(s) - k |-> 0]
  <2>2. r \in Seq(Int) /\ Len(r) = Len(s) - k /\ \A i \in 1 .. Len(r) : r[i] = 0
    BY <1>1, <1>2
  <2> HIDE DEF r
  <2>3. ASSUME NEW i \in 1 .. Len(r) PROVE r[i] = s[k + i]
    <3>1. k + i \in k + 1 .. Len(s)
      BY <2>2, <1>1, <1>2
    <3> QED BY <2>1, <2>2, <3>1
  <2>4. Sum(s) = PartialSums(s)[k] + Sum(r)
    BY <1>1, <1>2, <2>2, <2>3, SumSplit
  <2>5. Sum(r) = 0
    BY <2>2, SumOfZeros
  <2>6. PartialSums(s)[k] \in Int
    BY <1>1, <1>2, SumsAre
  <2> QED BY <2>4, <2>5, <2>6
<1> QED BY <1>5, <1>6, <1>7, <1>8 DEF k

-----------------------------------------------------------------------------
(* The list of changes tells what the scheduled events will do.            *)

\* Every event that takes power off is a change of the list, of the same time.
Listed(q, list) ==
    \A i \in DOMAIN q : q[i].power > 0 => \E j \in DOMAIN list : list[j].at = q[i].at

Tracks(q, pow, list, first) ==
    /\ q \in Seq(Events) /\ InOrder(q)
    /\ list \in Seq(Changes) /\ InOrder(list)
    /\ first \in Int
    /\ pow = Air(q, -1)
    /\ \A t \in Nat : PowerAt(list, first, t) = Air(q, t)
    /\ Listed(q, list)

\* The power rises only in the past, or now: then that is the first change of the list,
\* "unless" data is received and does not end now.
RisesArePast(list, unless) ==
    \A i \in DOMAIN list :
        list[i].delta > 0 => list[i].at <= 0 /\ (list[i].at = 0 /\ ~unless => i = 1)

\* An event without power does not matter.
LEMMA TracksInserted ==
    ASSUME NEW q, NEW pow, NEW list, NEW first, Tracks(q, pow, list, first),
           NEW x \in Events, x.power = 0
    PROVE  /\ Tracks(Insert(q, x), pow, list, first)
           /\ \A t \in Int : Air(Insert(q, x), t) = Air(q, t)
<1> DEFINE r == Insert(q, x)
           k == DueBy(q, x.at) + 1
<1>0. q \in Seq(Events) /\ InOrder(q) /\ Listed(q, list)
  BY DEF Tracks
<1>1. /\ r \in Seq(Events) /\ Len(r) = Len(q) + 1 /\ InOrder(r) /\ k \in 1 .. Len(q) + 1
      /\ \A i \in 1 .. Len(r) : r[i] = IF i < k THEN q[i] ELSE IF i = k THEN x ELSE q[i - 1]
  BY <1>0, Inserted, EventTypes
<1>2. ASSUME NEW t \in Int PROVE Air(r, t) = Air(q, t)
  <2>1. Air(r, t) = Air(q, t) + IF x.at > t THEN x.power ELSE 0
    BY <1>0, InsertedAir
  <2>2. Air(q, t) \in Int
    BY <1>0, PoweredType
  <2> QED BY <2>1, <2>2
<1> HIDE DEF r, k
<1>3. Listed(r, list)
  <2> SUFFICES ASSUME NEW i \in 1 .. Len(r), r[i].power > 0
               PROVE  \E j \in DOMAIN list : list[j].at = r[i].at
    BY <1>1 DEF Listed
  <2>1. PICK m \in DOMAIN q : r[i] = q[m]
    <3>1. CASE i < k
      BY <1>0, <1>1, <3>1
    <3>2. CASE i = k
      BY <1>1, <3>2
    <3>3. CASE i > k
      <4>1. i - 1 \in DOMAIN q /\ r[i] = q[i - 1]
        BY <1>0, <1>1, <3>3
      <4> QED BY <4>1
    <3> QED BY <1>1, <3>1, <3>2, <3>3
  <2> QED BY <1>0, <2>1 DEF Listed
<1> QED BY <1>1, <1>2, <1>3 DEF Tracks, r

TakenOff(q, k, r) == r = RemoveAt(q, k) \/ (k = 1 /\ r = Tail(q))

\* Events are taken off when they are due; a check, which has no power, also before.
LEMMA TracksRemoved ==
    ASSUME NEW q, NEW pow, NEW list, NEW first, Tracks(q, pow, list, first),
           NEW k \in 1 .. Len(q), NEW r, TakenOff(q, k, r),
           q[k].power = 0 \/ q[k].at = 0
    PROVE  /\ Tracks(r, pow - q[k].power, list, first)
           /\ \A t \in Nat : Air(r, t) = Air(q, t)
<1>0. q \in Seq(Events) /\ InOrder(q) /\ Listed(q, list) /\ pow = Air(q, -1)
  BY DEF Tracks
<1>1. /\ r \in Seq(Events) /\ Len(r) = Len(q) - 1 /\ InOrder(r)
      /\ \A i \in 1 .. Len(r) : r[i] = IF i < k THEN q[i] ELSE q[i + 1]
  BY <1>0, Removed DEF TakenOff
<1>2. q[k].at \in Int /\ q[k].at >= 0 /\ q[k].power \in Int
  BY <1>0, EventTypes
<1>3. ASSUME NEW t \in Int
      PROVE  /\ Air(r, t) \in Int
             /\ Air(q, t) = Air(r, t) + IF q[k].at > t THEN q[k].power ELSE 0
  <2>1. Air(r, t) \in Int
    BY <1>1, PoweredType
  <2>2. Air(q, t) = Air(r, t) + IF q[k].at > t THEN q[k].power ELSE 0
    BY <1>0, RemovedAir DEF TakenOff
  <2> QED BY <2>1, <2>2
<1>4. ASSUME NEW t \in Nat PROVE Air(r, t) = Air(q, t)
  <2>0. t \in Int
    OBVIOUS
  <2>1. /\ Air(r, t) \in Int
        /\ Air(q, t) = Air(r, t) + IF q[k].at > t THEN q[k].power ELSE 0
    BY <1>3, <2>0
  <2>2. q[k].power = 0 \/ ~(q[k].at > t)
    OBVIOUS
  <2> QED BY <1>2, <2>1, <2>2
<1>5. pow - q[k].power = Air(r, -1)
  <2>1. q[k].at > -1
    BY <1>2
  <2>2. Air(r, -1) \in Int /\ Air(q, -1) = Air(r, -1) + q[k].power
    BY <1>3, <2>1
  <2> QED BY <1>0, <1>2, <2>2
<1>6. Listed(r, list)
  <2> SUFFICES ASSUME NEW i \in 1 .. Len(r), r[i].power > 0
               PROVE  \E j \in DOMAIN list : list[j].at = r[i].at
    BY <1>1 DEF Listed
  <2>1. PICK m \in DOMAIN q : r[i] = q[m]
    <3>1. CASE i < k
      BY <1>0, <1>1, <3>1
    <3>2. CASE i >= k
      <4>1. i + 1 \in DOMAIN q /\ r[i] = q[i + 1]
        BY <1>0, <1>1, <3>2
      <4> QED BY <4>1
    <3> QED BY <1>1, <3>1, <3>2
  <2> QED BY <1>0, <2>1 DEF Listed
<1> QED BY <1>1, <1>4, <1>5, <1>6 DEF Tracks

LEMMA TickedTypes ==
    /\ \A x \in Events : x.at > 0 =>
         LET y == [x EXCEPT !.at = @ - 1]
         IN  y \in Events /\ y.at = x.at - 1 /\ y.power = x.power /\ y.kind = x.kind
    /\ \A x \in Changes :
         LET y == [x EXCEPT !.at = IF @ < 0 THEN @ ELSE @ - 1]
         IN  /\ y \in Changes /\ y.delta = x.delta
             /\ y.at = IF x.at < 0 THEN x.at ELSE x.at - 1
BY DEF Events, Changes

LEMMA TickedEvents ==
    ASSUME NEW q \in Seq(Events), \A i \in DOMAIN q : q[i].at > 0,
           NEW r, r = [i \in DOMAIN q |-> [q[i] EXCEPT !.at = @ - 1]]
    PROVE  /\ Len(r) = Len(q) /\ Len(q) \in Nat /\ DOMAIN q = 1 .. Len(q) /\ r \in Seq(Events)
       /\ \A i \in 1 .. Len(q) : /\ r[i].at = q[i].at - 1 /\ r[i].power = q[i].power
                                 /\ q[i].at \in Int /\ q[i].at > 0
<1>1. Len(q) \in Nat /\ DOMAIN q = 1 .. Len(q) /\ \A i \in 1 .. Len(q) : q[i] \in Events
  OBVIOUS
<1>2. \A i \in 1 .. Len(q) : /\ r[i] \in Events /\ r[i].at = q[i].at - 1
                             /\ r[i].power = q[i].power /\ q[i].at \in Int /\ q[i].at > 0
  BY <1>1, TickedTypes, EventTypes
<1>3. r \in [1 .. Len(q) -> Events]
  BY <1>1, <1>2
<1>4. r \in Seq(Events) /\ Len(r) = Len(q)
  BY <1>1, <1>3, TupleIsSeq
<1> QED BY <1>1, <1>2, <1>4

LEMMA TickedChanges ==
    ASSUME NEW list \in Seq(Changes),
           NEW new, new = [i \in DOMAIN list |->
                             [list[i] EXCEPT !.at = IF @ < 0 THEN @ ELSE @ - 1]]
    PROVE  /\ Len(new) = Len(list) /\ Len(list) \in Nat /\ DOMAIN list = 1 .. Len(list)
       /\ new \in Seq(Changes)
       /\ \A i \in 1 .. Len(list) :
            /\ new[i].at = IF list[i].at < 0 THEN list[i].at ELSE list[i].at - 1
            /\ new[i].delta = list[i].delta /\ list[i].at \in Int
<1>1. /\ Len(list) \in Nat /\ DOMAIN list = 1 .. Len(list)
      /\ \A i \in 1 .. Len(list) : list[i] \in Changes
  OBVIOUS
<1>2. \A i \in 1 .. Len(list) :
         /\ new[i].at = IF list[i].at < 0 THEN list[i].at ELSE list[i].at - 1
         /\ new[i].delta = list[i].delta /\ new[i] \in Changes /\ list[i].at \in Int
  BY <1>1, TickedTypes, EventTypes
<1>3. new \in [1 .. Len(list) -> Changes]
  BY <1>1, <1>2
<1>4. new \in Seq(Changes) /\ Len(new) = Len(list)
  BY <1>1, <1>3, TupleIsSeq
<1> QED BY <1>1, <1>2, <1>4

LEMMA TracksTicked ==
    ASSUME NEW q, NEW pow, NEW list, NEW first, Tracks(q, pow, list, first),
           NEW r \in Seq(Events), Len(r) = Len(q),
           \A i \in 1 .. Len(q) : /\ r[i].at = q[i].at - 1 /\ r[i].power = q[i].power
                                  /\ q[i].at \in Int /\ q[i].at > 0,
           NEW new \in Seq(Changes), Len(new) = Len(list),
           \A i \in 1 .. Len(list) :
             /\ new[i].at = IF list[i].at < 0 THEN list[i].at ELSE list[i].at - 1
             /\ new[i].delta = list[i].delta /\ list[i].at \in Int
    PROVE  /\ Tracks(r, pow, new, first)
           /\ \A t \in Int : Air(r, t) = Air(q, t + 1)
           /\ \A unless : RisesArePast(list, unless) => RisesArePast(new, FALSE)
<1>0. /\ q \in Seq(Events) /\ InOrder(q) /\ Listed(q, list)
      /\ list \in Seq(Changes) /\ InOrder(list)
      /\ first \in Int /\ pow = Air(q, -1)
      /\ \A t \in Nat : PowerAt(list, first, t) = Air(q, t)
  BY DEF Tracks
<1>1. /\ Len(q) \in Nat /\ DOMAIN q = 1 .. Len(q) /\ DOMAIN r = 1 .. Len(q)
      /\ Len(list) \in Nat /\ DOMAIN list = 1 .. Len(list) /\ DOMAIN new = 1 .. Len(list)
  BY <1>0
<1>3. ASSUME NEW t \in Int PROVE Air(r, t) = Air(q, t + 1)
  BY <1>0, <1>1, TickedAir
<1>4. ASSUME NEW t \in Nat PROVE PowerAt(new, first, t) = Air(r, t)
  <2>1. PowerAt(new, first, t) = PowerAt(list, first, t + 1)
    BY <1>0, <1>1, TickedPowerAt
  <2>2. PowerAt(list, first, t + 1) = Air(q, t + 1)
    BY <1>0
  <2> QED BY <1>3, <2>1, <2>2
<1>5. pow = Air(r, -1)
  <2>1. Air(r, -1) = Air(q, -1 + 1)
    BY <1>3
  <2>2. Air(q, 0) = Air(q, -1)
    <3>1. \A i \in DOMAIN q : q[i].at \in Int /\ q[i].at > 0
      BY <1>1
    <3>2. -1 <= 0 /\ -1 \in Int /\ 0 \in Int
      OBVIOUS
    <3>3. \A i \in DOMAIN q : ~(q[i].at <= 0)
      BY <3>1
    <3>4. Air(q, 0) # Air(q, -1) => \E i \in DOMAIN q : q[i].at <= 0
      BY <1>0, <3>2, AirFalls
    <3> QED BY <3>3, <3>4
  <2> QED BY <1>0, <2>1, <2>2
<1>6. InOrder(r)
  <2> SUFFICES ASSUME NEW i \in 1 .. Len(q), NEW j \in 1 .. Len(q), i <= j
               PROVE  r[i].at <= r[j].at
    BY <1>1 DEF InOrder
  <2>1. q[i].at <= q[j].at
    BY <1>0, <1>1 DEF InOrder
  <2>2. /\ r[i].at = q[i].at - 1 /\ q[i].at \in Int
        /\ r[j].at = q[j].at - 1 /\ q[j].at \in Int
    BY <1>1
  <2> QED BY <2>1, <2>2
<1>7. InOrder(new)
  <2> SUFFICES ASSUME NEW i \in 1 .. Len(list), NEW j \in 1 .. Len(list), i <= j
               PROVE  new[i].at <= new[j].at
    BY <1>1 DEF InOrder
  <2>1. list[i].at <= list[j].at
    BY <1>0, <1>1 DEF InOrder
  <2>2. /\ new[i].at = IF list[i].at < 0 THEN list[i].at ELSE list[i].at - 1
        /\ new[j].at = IF list[j].at < 0 THEN list[j].at ELSE list[j].at - 1
        /\ list[i].at \in Int /\ list[j].at \in Int
    BY <1>1
  <2> QED BY <2>1, <2>2
<1>8. Listed(r, new)
  <2> SUFFICES ASSUME NEW i \in 1 .. Len(q), r[i].power > 0
               PROVE  \E j \in DOMAIN new : new[j].at = r[i].at
    BY <1>1 DEF Listed
  <2>1. r[i].at = q[i].at - 1 /\ q[i].power > 0 /\ q[i].at \in Int /\ q[i].at > 0
    BY <1>1
  <2>2. PICK j \in DOMAIN list : list[j].at = q[i].at
    BY <1>0, <1>1, <2>1 DEF Listed
  <2>3. new[j].at = list[j].at - 1
    BY <1>1, <2>1, <2>2
  <2>4. j \in DOMAIN new
    BY <1>1
  <2> QED BY <2>1, <2>2, <2>3, <2>4
<1>9. ASSUME NEW unless, RisesArePast(list, unless) PROVE RisesArePast(new, FALSE)
  <2>1. ASSUME NEW i \in 1 .. Len(list), new[i].delta > 0 PROVE new[i].at < 0
    <3>1. list[i].delta > 0 /\ list[i].at <= 0
      BY <1>1, <1>9, <2>1 DEF RisesArePast
    <3>2. new[i].at = (IF list[i].at < 0 THEN list[i].at ELSE list[i].at - 1) /\ list[i].at \in Int
      BY <1>1
    <3> QED BY <3>1, <3>2
  <2>2. DOMAIN new = 1 .. Len(list) /\ \A i \in 1 .. Len(list) : new[i].at \in Int
    BY <1>1
  <2>3. ASSUME NEW i \in DOMAIN new, new[i].delta > 0
        PROVE  new[i].at <= 0 /\ ~(new[i].at = 0)
    BY <2>1, <2>2, <2>3
  <2> QED BY <2>3 DEF RisesArePast
<1> QED BY <1>0, <1>1, <1>3, <1>4, <1>5, <1>6, <1>7, <1>8, <1>9 DEF Tracks

\* The list tells of p more than the events.
Raised(q, list, first, p) == \A t \in Nat : PowerAt(list, first, t) = Air(q, t) + p

LEMMA InsertedChange ==
    ASSUME NEW q \in Seq(Changes), InOrder(q), NEW x \in Changes
    PROVE  LET r == Insert(q, x)
               k == DueBy(q, x.at) + 1
           IN  /\ r \in Seq(Changes) /\ Len(r) = Len(q) + 1 /\ InOrder(r)
               /\ k \in 1 .. Len(q) + 1
               /\ \A i \in 1 .. Len(r) :
                    /\ r[i] = IF i < k THEN q[i] ELSE IF i = k THEN x ELSE q[i - 1]
                    /\ i < k => r[i].at <= x.at
                    /\ i > k => r[i].at > x.at
BY Inserted, EventTypes

LEMMA InsertedEvent ==
    ASSUME NEW q \in Seq(Events), InOrder(q), NEW x \in Events
    PROVE  LET r == Insert(q, x)
               k == DueBy(q, x.at) + 1
           IN  /\ r \in Seq(Events) /\ Len(r) = Len(q) + 1 /\ InOrder(r)
               /\ k \in 1 .. Len(q) + 1
               /\ \A i \in 1 .. Len(r) :
                    /\ r[i] = IF i < k THEN q[i] ELSE IF i = k THEN x ELSE q[i - 1]
                    /\ i < k => r[i].at <= x.at
                    /\ i > k => r[i].at > x.at
BY Inserted, EventTypes

LEMMA DueChanges ==
    ASSUME NEW q \in Seq(Changes), InOrder(q), NEW t \in Int
    PROVE  /\ DueBy(q, t) \in Nat /\ DueBy(q, t) <= Len(q)
           /\ \A i \in 1 .. Len(q) : q[i].at <= t <=> i <= DueBy(q, t)
BY DueFirst, EventTypes

\* A new signal raises the power now.  While data is received the list is kept ...
LEMMA RaisedReceiving ==
    ASSUME NEW q, NEW pow, NEW list, NEW first, Tracks(q, pow, list, first),
           RisesArePast(list, TRUE), NEW x \in Changes, x.at = 0, x.delta > 0
    PROVE  LET base == Insert(list, x)
           IN  /\ base \in Seq(Changes) /\ InOrder(base) /\ RisesArePast(base, TRUE)
               /\ Raised(q, base, first, x.delta)
               /\ Listed(q, base)
<1> DEFINE base == Insert(list, x)
           k == DueBy(list, x.at) + 1
<1>0. /\ q \in Seq(Events) /\ Listed(q, list) /\ list \in Seq(Changes) /\ InOrder(list)
      /\ first \in Int /\ \A t \in Nat : PowerAt(list, first, t) = Air(q, t)
  BY DEF Tracks
<1>1. DOMAIN list = 1 .. Len(list) /\ Len(list) \in Nat
  BY <1>0
<1>2. /\ base \in Seq(Changes) /\ Len(base) = Len(list) + 1 /\ InOrder(base)
      /\ k \in 1 .. Len(list) + 1
      /\ \A i \in 1 .. Len(base) :
           base[i] = IF i < k THEN list[i] ELSE IF i = k THEN x ELSE list[i - 1]
  <2>1. \A y \in Changes :
          LET r == Insert(list, y)
              m == DueBy(list, y.at) + 1
          IN  /\ r \in Seq(Changes) /\ Len(r) = Len(list) + 1 /\ InOrder(r)
              /\ m \in 1 .. Len(list) + 1
              /\ \A i \in 1 .. Len(r) :
                   r[i] = IF i < m THEN list[i] ELSE IF i = m THEN y ELSE list[i - 1]
    BY <1>0, InsertedChange
  <2> QED BY <2>1
<1>3. ASSUME NEW t \in Nat PROVE PowerAt(base, first, t) = Air(q, t) + x.delta
  <2>1. PowerAt(base, first, t) = PowerAt(list, first, t) + IF x.at <= t THEN x.delta ELSE 0
    BY <1>0, InsertedPowerAt
  <2> QED BY <1>0, <2>1
<1> HIDE DEF base, k
<1>4. DOMAIN base = 1 .. Len(base)
  BY <1>2
<1>5. RisesArePast(base, TRUE)
  <2> SUFFICES ASSUME NEW i \in 1 .. Len(base), base[i].delta > 0 PROVE base[i].at <= 0
    BY <1>4 DEF RisesArePast
  <2>1. CASE i < k
    <3>1. i \in DOMAIN list /\ base[i] = list[i]
      BY <1>1, <1>2, <2>1
    <3> QED BY <3>1 DEF RisesArePast
  <2>2. CASE i = k
    <3>1. base[i] = x
      BY <1>2, <2>2
    <3> QED BY <3>1
  <2>3. CASE i > k
    <3>1. i - 1 \in DOMAIN list /\ base[i] = list[i - 1]
      BY <1>1, <1>2, <2>3
    <3> QED BY <3>1 DEF RisesArePast
  <2> QED BY <1>2, <2>1, <2>2, <2>3
<1>6. Listed(q, base)
  <2> SUFFICES ASSUME NEW i \in DOMAIN q, q[i].power > 0
               PROVE  \E j \in DOMAIN base : base[j].at = q[i].at
    BY DEF Listed
  <2>1. PICK m \in DOMAIN list : list[m].at = q[i].at
    BY <1>0 DEF Listed
  <2>2. CASE m < k
    <3>1. m \in DOMAIN base /\ base[m] = list[m]
      BY <1>1, <1>2, <1>4, <2>2
    <3> QED BY <2>1, <3>1
  <2>3. CASE m >= k
    <3>1. m + 1 \in 1 .. Len(base) /\ ~(m + 1 < k) /\ m + 1 # k /\ (m + 1) - 1 = m
      BY <1>1, <1>2, <2>3
    <3>2. base[m + 1] = list[m]
      BY <1>2, <3>1
    <3> QED BY <1>4, <2>1, <3>1, <3>2
  <2> QED BY <1>1, <1>2, <2>2, <2>3
<1>7. Raised(q, base, first, x.delta)
  BY <1>3 DEF Raised
<1> QED BY <1>2, <1>5, <1>6, <1>7 DEF base

\* ... and otherwise what is past of it is summed up: "base" is x before the part of the
\* list that is still to come, from the k-th change on.
Cut(list, x, k, rest, base) ==
    /\ k = DueBy(list, 0) /\ k \in Nat /\ k <= Len(list)
    /\ \A i \in 1 .. Len(list) : list[i].at <= 0 <=> i <= k
    /\ rest \in Seq(Changes) /\ Len(rest) = Len(list) - k
    /\ \A i \in 1 .. Len(list) - k : rest[i] = list[k + i]
    /\ base \in Seq(Changes) /\ Len(base) = Len(list) - k + 1
    /\ base[1] = x
    /\ \A i \in 1 .. Len(list) - k : base[i + 1] = rest[i]

LEMMA Dropped ==
    ASSUME NEW s \in Seq(Changes), NEW k \in Nat, k <= Len(s),
           NEW r, r = SubSeq(s, k + 1, Len(s))
    PROVE  /\ r \in Seq(Changes) /\ Len(r) = Len(s) - k
           /\ \A i \in 1 .. Len(s) - k : r[i] = s[k + i]
<1>1. Len(s) \in Nat /\ \A i \in k + 1 .. Len(s) : s[i] \in Changes
  OBVIOUS
<1>2. r \in Seq(Changes) /\ Len(r) = Len(s) - k
  BY <1>1
<1>3. \A i \in 1 .. Len(s) - k : r[i] = s[k + i]
  BY <1>1
<1> QED BY <1>2, <1>3

LEMMA Ahead ==
    ASSUME NEW list \in Seq(Changes), InOrder(list), NEW x \in Changes,
           NEW k, k = DueBy(list, 0),
           NEW rest, rest = SubSeq(list, k + 1, Len(list)),
           NEW base, base = <<x>> \o rest
    PROVE  Cut(list, x, k, rest, base)
<1>1. /\ k \in Nat /\ k <= Len(list) /\ Len(list) \in Nat
      /\ \A i \in 1 .. Len(list) : list[i].at <= 0 <=> i <= k
  <2>1. \A t \in Int : /\ DueBy(list, t) \in Nat /\ DueBy(list, t) <= Len(list)
                        /\ \A i \in 1 .. Len(list) : list[i].at <= t <=> i <= DueBy(list, t)
    BY DueChanges
  <2>2. 0 \in Int /\ Len(list) \in Nat
    OBVIOUS
  <2> QED BY <2>1, <2>2, Zenon
<1>2. /\ rest \in Seq(Changes) /\ Len(rest) = Len(list) - k
      /\ \A i \in 1 .. Len(list) - k : rest[i] = list[k + i]
  BY <1>1, Dropped
<1> DEFINE one == <<x>>
<1>3. one \in Seq(Changes) /\ Len(one) = 1 /\ one[1] = x /\ base = one \o rest
  OBVIOUS
<1> HIDE DEF one
<1>4. /\ base \in Seq(Changes) /\ Len(base) = Len(one) + Len(rest)
      /\ \A i \in 1 .. Len(one) + Len(rest) :
           base[i] = IF i <= Len(one) THEN one[i] ELSE rest[i - Len(one)]
  BY <1>2, <1>3, Joined
<1>5. Len(base) = Len(list) - k + 1
  BY <1>1, <1>2, <1>3, <1>4
<1>6. base[1] = x
  <2>1. 1 \in 1 .. Len(one) + Len(rest) /\ 1 <= Len(one)
    BY <1>1, <1>2, <1>3
  <2> QED BY <1>3, <1>4, <2>1
<1>7. ASSUME NEW i \in 1 .. Len(list) - k PROVE base[i + 1] = rest[i]
  <2>1. i + 1 \in 1 .. Len(one) + Len(rest) /\ ~(i + 1 <= Len(one)) /\ (i + 1) - Len(one) = i
    <3>1. /\ Len(one) = 1 /\ Len(rest) = Len(list) - k /\ Len(list) \in Nat /\ k \in Nat
          /\ k <= Len(list)
      BY <1>1, <1>2, <1>3
    <3> QED BY <3>1
  <2> QED BY <1>4, <2>1
<1> QED BY <1>1, <1>2, <1>4, <1>5, <1>6, <1>7 DEF Cut

\* The power that a list has told of is that of the rest, from the sum of what is past.
LEMMA SummedPower ==
    ASSUME NEW list \in Seq(Changes), InOrder(list), NEW first \in Int,
           NEW x, NEW k, NEW rest, NEW base, Cut(list, x, k, rest, base), NEW t \in Nat
    PROVE  /\ PowerAfter(list, k, first) \in Int
           /\ PowerAt(rest, PowerAfter(list, k, first), t) = PowerAt(list, first, t)
<1> DEFINE s == Changed(list, t)
           r == Changed(rest, t)
           u == Changed(list, 0)
<1>0. /\ k \in Nat /\ k = DueBy(list, 0) /\ k <= Len(list)
      /\ \A i \in 1 .. Len(list) : list[i].at <= 0 <=> i <= k
      /\ rest \in Seq(Changes) /\ Len(rest) = Len(list) - k
      /\ \A i \in 1 .. Len(list) - k : rest[i] = list[k + i]
  BY DEF Cut
<1>a. Len(list) \in Nat /\ Len(rest) \in Nat
  BY <1>0
<1>1. /\ s \in Seq(Int) /\ Len(s) = Len(list) /\ Sum(s) \in Int
      /\ \A i \in 1 .. Len(list) : s[i] = IF list[i].at <= t THEN list[i].delta ELSE 0
  BY <1>0, ChangedType
<1>b. /\ r \in Seq(Int) /\ Len(r) = Len(rest) /\ Sum(r) \in Int
      /\ \A i \in 1 .. Len(rest) : r[i] = IF rest[i].at <= t THEN rest[i].delta ELSE 0
  BY <1>0, ChangedType
<1>c. /\ u \in Seq(Int) /\ Len(u) = Len(list) /\ Sum(u) \in Int
      /\ \A i \in 1 .. Len(list) : u[i] = IF list[i].at <= 0 THEN list[i].delta ELSE 0
  BY <1>0, ChangedType
<1>2. \A i \in 1 .. Len(list) : list[i].delta \in Int /\ list[i].at \in Int
  BY EventTypes
<1>3. PowerAt(list, first, 0) = first + Sum(u)
  BY DEF PowerAt
<1>4. PowerAt(list, first, 0) = PowerAfter(list, k, first)
  BY <1>0, PowerAtIsAfter
<1>5. PowerAt(list, first, t) = first + Sum(s)
  BY DEF PowerAt
<1>6. PowerAt(rest, PowerAfter(list, k, first), t) = PowerAfter(list, k, first) + Sum(r)
  BY DEF PowerAt
<1> HIDE DEF s, r, u
<1>7. Sum(s) = PartialSums(s)[k] + Sum(r)
  <2>1. ASSUME NEW i \in 1 .. Len(r) PROVE r[i] = s[k + i]
    <3>1. i \in 1 .. Len(rest) /\ k + i \in 1 .. Len(list) /\ rest[i] = list[k + i]
      <4>1. i \in 1 .. Len(list) - k
        BY <1>0, <1>a, <1>b
      <4> QED BY <1>0, <1>a, <4>1
    <3> QED BY <1>0, <1>a, <1>1, <1>b, <1>c, <3>1
  <2>2. Len(r) = Len(s) - k /\ k <= Len(s)
    BY <1>0, <1>a, <1>1, <1>b
  <2> QED BY <1>0, <1>a, <1>1, <1>b, <1>c, <2>1, <2>2, SumSplit
<1>8. Sum(u) = PartialSums(s)[k]
  <2> DEFINE z == Changed(rest, 0)
  <2>1. /\ z \in Seq(Int) /\ Len(z) = Len(rest)
        /\ \A i \in 1 .. Len(rest) : z[i] = IF rest[i].at <= 0 THEN rest[i].delta ELSE 0
    BY <1>0, ChangedType
  <2> HIDE DEF z
  <2>2. ASSUME NEW i \in 1 .. Len(z) PROVE z[i] = 0 /\ z[i] = u[k + i]
    <3>1. i \in 1 .. Len(rest) /\ k + i \in 1 .. Len(list) /\ rest[i] = list[k + i]
      <4>1. i \in 1 .. Len(list) - k
        BY <1>0, <1>a, <2>1
      <4> QED BY <1>0, <1>a, <4>1
    <3>2. ~(list[k + i].at <= 0)
      BY <1>0, <3>1
    <3>3. z[i] = 0
      BY <2>1, <3>1, <3>2
    <3>4. u[k + i] = 0
      BY <1>c, <3>1, <3>2
    <3> QED BY <3>3, <3>4
  <2>3. Len(z) = Len(u) - k /\ k <= Len(u)
    BY <1>0, <1>a, <1>1, <1>b, <1>c, <2>1
  <2>4. Sum(u) = PartialSums(u)[k] + Sum(z)
    BY <1>0, <1>a, <1>1, <1>b, <1>c, <2>1, <2>2, <2>3, SumSplit
  <2>5. Sum(z) = 0
    BY <2>1, <2>2, SumOfZeros
  <2>6. ASSUME NEW i \in 1 .. k PROVE u[i] = s[i]
    <3>1. i \in 1 .. Len(list) /\ list[i].at <= 0
      BY <1>0, <1>a
    <3>2. list[i].at \in Int
      BY <1>2, <3>1
    <3>3. u[i] = list[i].delta
      BY <1>c, <3>1
    <3>4. t \in Int /\ list[i].at <= t
      BY <3>1, <3>2
    <3>5. s[i] = list[i].delta
      BY <1>1, <3>1, <3>4
    <3> QED BY <3>3, <3>5
  <2>7. PartialSums(u)[k] = PartialSums(s)[k]
    BY <1>0, <1>a, <1>1, <1>b, <1>c, <2>6, SumsSame
  <2>8. PartialSums(u)[k] \in Int
    BY <1>0, <1>a, <1>1, <1>b, <1>c, SumsAre
  <2> QED BY <2>4, <2>5, <2>7, <2>8
<1>9. PowerAfter(list, k, first) = first + Sum(u) /\ Sum(u) \in Int
  BY <1>3, <1>4, <1>c
<1>10. Sum(s) = Sum(u) + Sum(r) /\ Sum(r) \in Int
  BY <1>7, <1>8, <1>b
<1>11. (first + Sum(u)) + Sum(r) = first + (Sum(u) + Sum(r)) /\ first + Sum(u) \in Int
  BY <1>9, <1>10
<1> QED BY <1>5, <1>6, <1>9, <1>10, <1>11

LEMMA AheadInOrder ==
    ASSUME NEW list \in Seq(Changes), InOrder(list), NEW x \in Changes, x.at = 0,
           NEW k \in Nat, NEW rest \in Seq(Changes), NEW base \in Seq(Changes),
           Cut(list, x, k, rest, base)
    PROVE  /\ InOrder(base)
           /\ x.delta > 0 /\ RisesArePast(list, TRUE) => RisesArePast(base, FALSE)
           /\ \A q \in Seq(Events) : Listed(q, list) => Listed(q, base)
<1>0. /\ DOMAIN list = 1 .. Len(list) /\ DOMAIN base = 1 .. Len(base) /\ Len(list) \in Nat
  OBVIOUS
<1>a. k <= Len(list) /\ Len(rest) = Len(list) - k /\ Len(base) = Len(list) - k + 1
  BY DEF Cut
<1>b. base[1] = x
  BY DEF Cut
<1>c. \A i \in 1 .. Len(list) : list[i].at <= 0 <=> i <= k
  BY DEF Cut
<1>d. \A i \in 1 .. Len(list) - k : base[i + 1] = rest[i] /\ rest[i] = list[k + i]
  BY DEF Cut
<1>1. ASSUME NEW i \in 1 .. Len(base)
      PROVE  \/ i = 1 /\ base[i] = x
             \/ \E m \in 1 .. Len(list) : m = k + (i - 1) /\ i # 1 /\ m > k /\ base[i] = list[m]
  <2>1. CASE i = 1
    BY <1>0, <1>a, <1>b, <2>1
  <2>2. CASE i # 1
    <3>1. i - 1 \in 1 .. Len(list) - k /\ (i - 1) + 1 = i
      BY <1>0, <1>a, <1>b, <2>2
    <3>2. base[i] = rest[i - 1] /\ rest[i - 1] = list[k + (i - 1)]
      BY <1>d, <3>1
    <3>3. k + (i - 1) \in 1 .. Len(list) /\ k + (i - 1) > k
      BY <1>0, <1>a, <1>b, <3>1
    <3> QED BY <2>2, <3>2, <3>3
  <2> QED BY <2>1, <2>2
<1>2. \A m \in 1 .. Len(list) : list[m] \in Changes /\ list[m].at \in Int /\ list[m].delta \in Int
  BY EventTypes
<1>3. \A m \in 1 .. Len(list) : m > k => list[m].at > 0
  BY <1>c, <1>2
<1>4. InOrder(base)
  <2> SUFFICES ASSUME NEW i \in 1 .. Len(base), NEW j \in 1 .. Len(base), i <= j
               PROVE  base[i].at <= base[j].at
    BY <1>0 DEF InOrder
  <2>1. CASE i = 1 /\ j = 1
    BY <1>0, <1>a, <1>b, <2>1
  <2>2. CASE i = 1 /\ j # 1
    <3>1. PICK m \in 1 .. Len(list) : m > k /\ base[j] = list[m]
      BY <1>1, <2>2
    <3>2. base[j].at > 0 /\ base[i].at = 0 /\ base[j].at \in Int
      BY <1>0, <1>a, <1>b, <1>2, <1>3, <2>2, <3>1
    <3> QED BY <3>2
  <2>3. CASE i # 1
    <3>1. j # 1
      BY <1>0, <1>a, <1>b, <2>3
    <3>2. PICK m \in 1 .. Len(list) : m = k + (i - 1) /\ base[i] = list[m]
      BY <1>1, <2>3
    <3>3. PICK n \in 1 .. Len(list) : n = k + (j - 1) /\ base[j] = list[n]
      BY <1>1, <3>1
    <3>4. m <= n
      BY <1>0, <1>a, <1>b, <3>2, <3>3
    <3>5. list[m].at <= list[n].at
      BY <1>0, <1>a, <1>b, <3>4 DEF InOrder
    <3> QED BY <3>2, <3>3, <3>5
  <2> QED BY <2>1, <2>2, <2>3
<1>5. ASSUME x.delta > 0, RisesArePast(list, TRUE) PROVE RisesArePast(base, FALSE)
  <2>1. ASSUME NEW i \in 1 .. Len(base), base[i].delta > 0 PROVE i = 1 /\ base[i].at = 0
    <3>1. CASE i = 1
      BY <1>0, <1>a, <1>b, <3>1
    <3>2. CASE i # 1
      <4>1. PICK m \in 1 .. Len(list) : m > k /\ base[i] = list[m]
        BY <1>1, <3>2
      <4>2. list[m].at > 0 /\ list[m].at \in Int
        BY <1>2, <1>3, <4>1
      <4>3. list[m].at <= 0
        BY <1>0, <1>a, <1>b, <1>5, <2>1, <4>1 DEF RisesArePast
      <4> QED BY <4>2, <4>3
    <3> QED BY <3>1, <3>2
  <2> QED BY <1>0, <1>a, <1>b, <2>1 DEF RisesArePast
<1>6. ASSUME NEW q \in Seq(Events), Listed(q, list) PROVE Listed(q, base)
  <2> SUFFICES ASSUME NEW i \in DOMAIN q, q[i].power > 0
               PROVE  \E j \in DOMAIN base : base[j].at = q[i].at
    BY DEF Listed
  <2>1. PICK m \in 1 .. Len(list) : list[m].at = q[i].at
    BY <1>0, <1>a, <1>b, <1>6 DEF Listed
  <2>2. q[i].at \in Int /\ q[i].at >= 0
    BY EventTypes
  <2>3. CASE m <= k
    <3>1. list[m].at <= 0
      BY <1>c, <2>1, <2>3
    <3>2. q[i].at = 0
      BY <2>1, <2>2, <3>1
    <3>3. 1 \in DOMAIN base /\ base[1].at = 0
      BY <1>0, <1>a, <1>b
    <3> QED BY <3>2, <3>3
  <2>4. CASE m > k
    <3>1. m - k \in 1 .. Len(list) - k /\ k + (m - k) = m
      BY <1>0, <1>a, <1>b, <2>4
    <3>2. (m - k) + 1 \in DOMAIN base
      BY <1>0, <1>a, <1>b, <3>1
    <3>3. base[(m - k) + 1] = rest[m - k] /\ rest[m - k] = list[k + (m - k)]
      BY <1>d, <3>1
    <3> QED BY <2>1, <3>1, <3>2, <3>3
  <2> QED BY <1>0, <1>a, <1>b, <2>3, <2>4
<1> QED BY <1>4, <1>5, <1>6

LEMMA RaisedAhead ==
    ASSUME NEW q, NEW pow, NEW list, NEW first, Tracks(q, pow, list, first),
           RisesArePast(list, TRUE), NEW x \in Changes, x.at = 0, x.delta > 0,
           NEW k \in Nat, NEW rest \in Seq(Changes), NEW base \in Seq(Changes),
           Cut(list, x, k, rest, base), NEW new, new = PowerAfter(list, k, first)
    PROVE  /\ base \in Seq(Changes) /\ InOrder(base) /\ RisesArePast(base, FALSE)
           /\ new \in Int
           /\ Raised(q, base, new, x.delta)
           /\ Listed(q, base)
<1>0. /\ q \in Seq(Events) /\ Listed(q, list) /\ list \in Seq(Changes) /\ InOrder(list)
      /\ first \in Int /\ \A t \in Nat : PowerAt(list, first, t) = Air(q, t)
  BY DEF Tracks
<1>1. /\ Len(rest) = Len(list) - k
      /\ Len(base) = Len(list) - k + 1 /\ base[1] = x
      /\ \A i \in 1 .. Len(list) - k : base[i + 1] = rest[i]
      /\ \A i \in 1 .. Len(list) - k : rest[i] = list[k + i]
      /\ \A i \in 1 .. Len(list) : list[i].at <= 0 <=> i <= k
      /\ k <= Len(list)
  BY DEF Cut
<1>a. Len(list) \in Nat
  BY <1>0
<1>2. InOrder(base) /\ RisesArePast(base, FALSE) /\ Listed(q, base)
  <2>1. /\ InOrder(base)
        /\ x.delta > 0 /\ RisesArePast(list, TRUE) => RisesArePast(base, FALSE)
        /\ \A y \in Seq(Events) : Listed(y, list) => Listed(y, base)
    BY <1>0, AheadInOrder
  <2> QED BY <1>0, <2>1
<1>3. \A t \in Nat : new \in Int /\ PowerAt(rest, new, t) = PowerAt(list, first, t)
  BY <1>0, SummedPower
<1>4. new \in Int
  BY <1>3
<1>5. ASSUME NEW t \in Nat PROVE PowerAt(base, new, t) = Air(q, t) + x.delta
  <2>1. PowerAt(base, new, t) = PowerAt(rest, new, t) + IF base[1].at <= t THEN base[1].delta ELSE 0
    <3>1. 1 \in 1 .. Len(rest) + 1 /\ Len(base) = Len(rest) + 1
      BY <1>a, <1>1
    <3>2. \A i \in 1 .. 1 - 1 : base[i] = rest[i]
      OBVIOUS
    <3>3. \A i \in 1 .. Len(rest) : base[i + 1] = rest[i]
      BY <1>1
    <3>4. t \in Int
      OBVIOUS
    <3> QED BY <1>1, <1>4, <3>1, <3>2, <3>3, <3>4, PowerAtWith
  <2> QED BY <1>0, <1>1, <1>3, <2>1
<1> QED BY <1>1, <1>2, <1>4, <1>5 DEF Raised

LEMMA RaisedSummed ==
    ASSUME NEW q, NEW pow, NEW list, NEW first, Tracks(q, pow, list, first),
           RisesArePast(list, TRUE), NEW x \in Changes, x.at = 0, x.delta > 0,
           NEW base, base = <<x>> \o SubSeq(list, DueBy(list, 0) + 1, Len(list)),
           NEW new, new = PowerAfter(list, DueBy(list, 0), first)
    PROVE  /\ base \in Seq(Changes) /\ InOrder(base) /\ RisesArePast(base, FALSE)
           /\ new \in Int
           /\ Raised(q, base, new, x.delta)
           /\ Listed(q, base)
<1>0. list \in Seq(Changes) /\ InOrder(list)
  BY DEF Tracks
<1>1. PICK k, rest : k = DueBy(list, 0) /\ rest = SubSeq(list, k + 1, Len(list))
  OBVIOUS
<1>2. Cut(list, x, k, rest, base) /\ new = PowerAfter(list, k, first)
  <2>1. base = <<x>> \o rest
    BY <1>1
  <2> QED BY <1>0, <1>1, <2>1, Ahead
<1>5. k \in Nat /\ rest \in Seq(Changes) /\ base \in Seq(Changes)
  BY <1>2 DEF Cut
<1>6. \A n \in Nat, s \in Seq(Changes) :
         Cut(list, x, n, s, base) /\ new = PowerAfter(list, n, first) =>
           /\ InOrder(base) /\ RisesArePast(base, FALSE)
           /\ new \in Int
           /\ Raised(q, base, new, x.delta)
           /\ Listed(q, base)
  <2> SUFFICES ASSUME NEW n \in Nat, NEW s \in Seq(Changes),
                      Cut(list, x, n, s, base) /\ new = PowerAfter(list, n, first)
               PROVE  /\ InOrder(base) /\ RisesArePast(base, FALSE)
                      /\ new \in Int
                      /\ Raised(q, base, new, x.delta)
                      /\ Listed(q, base)
    OBVIOUS
  <2> QED BY <1>5, RaisedAhead
<1> QED BY <1>2, <1>5, <1>6

\* The signal that raised the power takes it off again when it ends.
LEMMA Lowered ==
    ASSUME NEW q \in Seq(Events), InOrder(q), NEW pow, pow = Air(q, -1),
           NEW base \in Seq(Changes), InOrder(base), Listed(q, base),
           NEW new \in Int, NEW p \in Int, p > 0, Raised(q, base, new, p),
           NEW d \in Nat, d > 0,
           NEW y \in Changes, y.at = d, y.delta = -p,
           NEW e \in Events, e.at = d, e.power = p
    PROVE  /\ Tracks(Insert(q, e), pow + p, Insert(base, y), new)
           /\ \A unless \in BOOLEAN :
                RisesArePast(base, unless) => RisesArePast(Insert(base, y), unless)
           /\ \A t \in Int : Air(Insert(q, e), t) >= Air(q, t)
<1> DEFINE r == Insert(q, e)
           s == Insert(base, y)
           k == DueBy(q, e.at) + 1
           m == DueBy(base, y.at) + 1
<1>1. /\ r \in Seq(Events) /\ Len(r) = Len(q) + 1 /\ InOrder(r) /\ k \in 1 .. Len(q) + 1
      /\ \A i \in 1 .. Len(r) : r[i] = IF i < k THEN q[i] ELSE IF i = k THEN e ELSE q[i - 1]
  <2>1. \A x \in Events :
          LET rr == Insert(q, x)
              kk == DueBy(q, x.at) + 1
          IN  /\ rr \in Seq(Events) /\ Len(rr) = Len(q) + 1 /\ InOrder(rr)
              /\ kk \in 1 .. Len(q) + 1
              /\ \A i \in 1 .. Len(rr) :
                   rr[i] = IF i < kk THEN q[i] ELSE IF i = kk THEN x ELSE q[i - 1]
    BY InsertedEvent
  <2> QED BY <2>1
<1>2. /\ s \in Seq(Changes) /\ Len(s) = Len(base) + 1 /\ InOrder(s)
      /\ m \in 1 .. Len(base) + 1
      /\ \A i \in 1 .. Len(s) :
           /\ s[i] = IF i < m THEN base[i] ELSE IF i = m THEN y ELSE base[i - 1]
           /\ i > m => s[i].at > y.at
  <2>1. \A x \in Changes :
          LET rr == Insert(base, x)
              kk == DueBy(base, x.at) + 1
          IN  /\ rr \in Seq(Changes) /\ Len(rr) = Len(base) + 1 /\ InOrder(rr)
              /\ kk \in 1 .. Len(base) + 1
              /\ \A i \in 1 .. Len(rr) :
                   /\ rr[i] = IF i < kk THEN base[i] ELSE IF i = kk THEN x ELSE base[i - 1]
                   /\ i > kk => rr[i].at > x.at
    BY InsertedChange
  <2> QED BY <2>1
<1>3. \A t \in Int : Air(r, t) = Air(q, t) + IF e.at > t THEN e.power ELSE 0
  BY InsertedAir
<1>4. \A t \in Nat : PowerAt(s, new, t) = PowerAt(base, new, t) + IF y.at <= t THEN y.delta ELSE 0
  BY InsertedPowerAt
<1>5. \A t \in Int : Air(q, t) \in Int
  BY PoweredType
<1>6. \A t \in Nat : PowerAt(base, new, t) = Air(q, t) + p
  BY DEF Raised
<1> HIDE DEF r, s, k, m
<1>7. /\ DOMAIN q = 1 .. Len(q) /\ Len(q) \in Nat /\ DOMAIN r = 1 .. Len(r)
      /\ DOMAIN base = 1 .. Len(base) /\ Len(base) \in Nat /\ DOMAIN s = 1 .. Len(s)
  BY <1>1, <1>2
<1>8. ASSUME NEW t \in Nat PROVE PowerAt(s, new, t) = Air(r, t)
  <2>1. Air(r, t) = Air(q, t) + IF d > t THEN p ELSE 0
    BY <1>3
  <2>2. PowerAt(s, new, t) = (Air(q, t) + p) + IF d <= t THEN -p ELSE 0
    BY <1>4, <1>6
  <2>3. Air(q, t) \in Int
    BY <1>5
  <2> QED BY <2>1, <2>2, <2>3
<1>9. pow + p = Air(r, -1)
  <2>1. -1 \in Int /\ d > -1
    OBVIOUS
  <2> QED BY <1>3, <2>1
<1>10. Listed(r, s)
  <2> SUFFICES ASSUME NEW i \in 1 .. Len(r), r[i].power > 0
               PROVE  \E j \in DOMAIN s : s[j].at = r[i].at
    BY <1>7 DEF Listed
  <2>1. CASE i = k
    <3>1. r[i] = e /\ m \in DOMAIN s /\ s[m] = y
      BY <1>1, <1>2, <1>7, <2>1
    <3> QED BY <3>1
  <2>2. CASE i # k
    <3>1. PICK n \in DOMAIN q : r[i] = q[n]
      <4>1. CASE i < k
        <5>1. i \in DOMAIN q /\ r[i] = q[i]
          BY <1>1, <1>7, <4>1
        <5> QED BY <5>1
      <4>2. CASE i > k
        <5>1. i - 1 \in DOMAIN q /\ r[i] = q[i - 1]
          BY <1>1, <1>7, <4>2
        <5> QED BY <5>1
      <4>3. i < k \/ i > k
        BY <1>1, <2>2
      <4> QED BY <4>1, <4>2, <4>3
    <3>2. PICK j \in DOMAIN base : base[j].at = q[n].at
      BY <3>1 DEF Listed
    <3>3. CASE j < m
      <4>1. j \in DOMAIN s /\ s[j] = base[j]
        BY <1>2, <1>7, <3>3
      <4> QED BY <3>1, <3>2, <4>1
    <3>4. CASE j >= m
      <4>1. j + 1 \in 1 .. Len(s) /\ ~(j + 1 < m) /\ j + 1 # m /\ (j + 1) - 1 = j
        BY <1>2, <1>7, <3>4
      <4>2. s[j + 1] = base[j]
        BY <1>2, <4>1
      <4> QED BY <1>7, <3>1, <3>2, <4>1, <4>2
    <3> QED BY <1>2, <1>7, <3>3, <3>4
  <2> QED BY <2>1, <2>2
<1>11. ASSUME NEW unless \in BOOLEAN, RisesArePast(base, unless) PROVE RisesArePast(s, unless)
  <2> SUFFICES ASSUME NEW i \in 1 .. Len(s), s[i].delta > 0
               PROVE  s[i].at <= 0 /\ (s[i].at = 0 /\ ~unless => i = 1)
    BY <1>7 DEF RisesArePast
  <2>1. CASE i < m
    <3>1. i \in DOMAIN base /\ s[i] = base[i]
      BY <1>2, <1>7, <2>1
    <3> QED BY <1>11, <3>1 DEF RisesArePast
  <2>2. CASE i = m
    <3>1. s[i] = y
      BY <1>2, <2>2
    <3> QED BY <3>1
  <2>3. CASE i > m
    <3>1. i - 1 \in DOMAIN base /\ s[i] = base[i - 1] /\ s[i].at > d
      BY <1>2, <1>7, <2>3
    <3>2. base[i - 1].at <= 0 /\ base[i - 1].at \in Int
      BY <1>11, <3>1, EventTypes DEF RisesArePast
    <3> QED BY <3>1, <3>2
  <2> QED BY <1>2, <2>1, <2>2, <2>3
<1>12. ASSUME NEW t \in Int PROVE Air(r, t) >= Air(q, t)
  <2>1. Air(r, t) = Air(q, t) + IF e.at > t THEN p ELSE 0
    BY <1>3
  <2>2. Air(q, t) \in Int
    BY <1>5
  <2> QED BY <2>1, <2>2
<1> QED BY <1>1, <1>2, <1>8, <1>9, <1>10, <1>11, <1>12 DEF Tracks, r, s

LEMMA NewRecords ==
    ASSUME NEW p \in Powers, NEW d \in Nat
    PROVE  /\ p \in Int /\ p > 0
           /\ \E x \in Changes : x = [at |-> 0, delta |-> p] /\ x.at = 0 /\ x.delta = p
           /\ \E y \in Changes : y = [at |-> d, delta |-> -p] /\ y.at = d /\ y.delta = -p
           /\ \E e \in Events : /\ e = [at |-> d, kind |-> "DoSubtractSignal", power |-> p]
                                /\ e.at = d /\ e.power = p /\ e.kind = "DoSubtractSignal"
<1>1. p \in Int /\ p > 0
  BY SpectrumAssumption
<1>2. /\ [at |-> 0, delta |-> p] \in Changes /\ [at |-> 0, delta |-> p].at = 0
      /\ [at |-> 0, delta |-> p].delta = p
  BY <1>1 DEF Changes
<1>3. /\ [at |-> d, delta |-> -p] \in Changes /\ [at |-> d, delta |-> -p].at = d
      /\ [at |-> d, delta |-> -p].delta = -p
  BY <1>1 DEF Changes
<1>4. [at |-> d, kind |-> "DoSubtractSignal", power |-> p] \in Events
  BY DEF Events, Kinds
<1>5. \E e \in Events : /\ e = [at |-> d, kind |-> "DoSubtractSignal", power |-> p]
                        /\ e.at = d /\ e.power = p /\ e.kind = "DoSubtractSignal"
  BY <1>4
<1> QED BY <1>1, <1>2, <1>3, <1>5

\* AppendEvent, and the event that will take the signal off.
LEMMA Appended ==
    ASSUME Tracks(events, power, changes, firstPower), receiving \in BOOLEAN,
           RisesArePast(changes, TRUE), NEW p \in Powers, NEW d \in Nat, d > 0,
           AppendEvent(p, d)
    PROVE  /\ Tracks(WithEndOf(p, d), power + p, changes', firstPower')
           /\ RisesArePast(changes', receiving)
           /\ \A t \in Int : Air(WithEndOf(p, d), t) >= Air(events, t)
<1>1. p \in Int /\ p > 0
  BY NewRecords
<1>2. PICK x \in Changes : x = [at |-> 0, delta |-> p] /\ x.at = 0 /\ x.delta = p
  BY NewRecords
<1>3. PICK y \in Changes : y = [at |-> d, delta |-> -p] /\ y.at = d /\ y.delta = -p
  BY NewRecords
<1>4. PICK e \in Events : /\ e = [at |-> d, kind |-> "DoSubtractSignal", power |-> p]
                          /\ e.at = d /\ e.power = p
  BY NewRecords
<1>5. WithEndOf(p, d) = Insert(events, e)
  BY <1>4 DEF WithEndOf
<1>6. /\ events \in Seq(Events) /\ InOrder(events) /\ power = Air(events, -1)
  BY DEF Tracks
<1>7. /\ receiving => firstPower' = firstPower /\ changes' = Insert(Insert(changes, x), y)
      /\ ~receiving =>
           /\ firstPower' = PowerAfter(changes, DueBy(changes, 0), firstPower)
           /\ changes' = Insert(<<x>> \o SubSeq(changes, DueBy(changes, 0) + 1, Len(changes)), y)
  BY <1>2, <1>3 DEF AppendEvent, FirstPower
<1>8. PICK base \in Seq(Changes) :
         /\ InOrder(base) /\ Listed(events, base) /\ firstPower' \in Int
         /\ Raised(events, base, firstPower', p) /\ RisesArePast(base, receiving)
         /\ changes' = Insert(base, y)
  <2>1. CASE receiving
    <3>1. PICK b : b = Insert(changes, x)
      OBVIOUS
    <3>2. /\ b \in Seq(Changes) /\ InOrder(b) /\ RisesArePast(b, TRUE)
          /\ Raised(events, b, firstPower, p) /\ Listed(events, b)
      BY <1>1, <1>2, <3>1, RaisedReceiving
    <3>3. receiving = TRUE /\ firstPower' = firstPower /\ firstPower \in Int
          /\ changes' = Insert(b, y)
      BY <1>7, <2>1, <3>1 DEF Tracks
    <3> QED BY <3>2, <3>3
  <2>2. CASE ~receiving
    <3>1. PICK b : b = <<x>> \o SubSeq(changes, DueBy(changes, 0) + 1, Len(changes))
      OBVIOUS
    <3>2. PICK new : new = PowerAfter(changes, DueBy(changes, 0), firstPower)
      OBVIOUS
    <3>3. /\ b \in Seq(Changes) /\ InOrder(b) /\ RisesArePast(b, FALSE)
          /\ new \in Int /\ Raised(events, b, new, p) /\ Listed(events, b)
      BY <1>1, <1>2, <3>1, <3>2, RaisedSummed
    <3>4. receiving = FALSE /\ firstPower' = new /\ changes' = Insert(b, y)
      BY <1>7, <2>2, <3>1, <3>2
    <3> QED BY <3>3, <3>4
  <2> QED BY <2>1, <2>2
<1>9. /\ Tracks(Insert(events, e), power + p, Insert(base, y), firstPower')
      /\ \A unless \in BOOLEAN :
           RisesArePast(base, unless) => RisesArePast(Insert(base, y), unless)
      /\ \A t \in Int : Air(Insert(events, e), t) >= Air(events, t)
  BY <1>1, <1>3, <1>4, <1>6, <1>8, Lowered
<1> QED BY <1>5, <1>8, <1>9

-----------------------------------------------------------------------------
(* GetEnergyDuration.                                                      *)

\* Where the list has told of all that is due by t, or of a part of what happens at t, the
\* power is at least what it is then.
LEMMA LastOfInstant ==
    ASSUME NEW list \in Seq(Changes), InOrder(list), NEW first \in Int,
           RisesArePast(list, FALSE), NEW m \in 1 .. Len(list), list[m].at >= 0
    PROVE  /\ PowerAfter(list, m, first) \in Int
           /\ PowerAt(list, first, list[m].at) \in Int
           /\ PowerAt(list, first, list[m].at) <= PowerAfter(list, m, first)
<1> DEFINE v == [i \in DOMAIN list |-> list[i].delta]
<1>0. DOMAIN list = 1 .. Len(list) /\ Len(list) \in Nat
  OBVIOUS
<1>1. \A i \in 1 .. Len(list) : list[i].delta \in Int /\ list[i].at \in Int
  BY EventTypes
<1>2. v \in Seq(Int) /\ Len(v) = Len(list) /\ \A i \in 1 .. Len(list) : v[i] = list[i].delta
  BY <1>1
<1>3. PICK a \in Int : a = list[m].at
  BY <1>1
<1>4. PICK k \in Nat : k = DueBy(list, a) /\ k <= Len(list)
                       /\ \A i \in 1 .. Len(list) : list[i].at <= a <=> i <= k
  <2>1. \A t \in Int : /\ DueBy(list, t) \in Nat /\ DueBy(list, t) <= Len(list)
                       /\ \A i \in 1 .. Len(list) : list[i].at <= t <=> i <= DueBy(list, t)
    BY DueChanges
  <2> QED BY <2>1
<1>5. m <= k
  BY <1>3, <1>4
<1>6. \A n \in Nat : PowerAfter(list, n, first) = first + PartialSums(v)[n]
  BY DEF PowerAfter
<1>7. PowerAt(list, first, a) = PowerAfter(list, k, first)
  BY <1>4, PowerAtIsAfter
<1> HIDE DEF v
<1>8. ASSUME NEW i \in m + 1 .. k PROVE v[i] <= 0
  <2>1. i \in 1 .. Len(list) /\ m <= i /\ i # 1 /\ i <= k
    BY <1>0, <1>4
  <2>2. list[m].at <= list[i].at
    BY <1>0, <2>1 DEF InOrder
  <2>3. ~(list[i].delta > 0)
    <3> SUFFICES ASSUME list[i].delta > 0 PROVE FALSE
      OBVIOUS
    <3>1. list[i].at <= 0 /\ (list[i].at = 0 => i = 1)
      BY <1>0, <2>1 DEF RisesArePast
    <3>2. list[i].at = 0
      BY <1>1, <2>1, <2>2, <3>1
    <3> QED BY <2>1, <3>1, <3>2
  <2> QED BY <1>1, <1>2, <2>1, <2>3
<1>9. PartialSums(v)[k] <= PartialSums(v)[m]
  BY <1>2, <1>4, <1>5, <1>8, SumsFall
<1>10. PartialSums(v)[k] \in Int /\ PartialSums(v)[m] \in Int
  BY <1>0, <1>2, <1>4, SumsAre
<1> QED BY <1>3, <1>4, <1>6, <1>7, <1>9, <1>10

QuietFrom(q, t0) == Air(q, t0) < Threshold /\ \A t \in Nat : t < t0 => Air(q, t) >= Threshold

\* The first time at which there is less than the threshold on the air is that of a change.
LEMMA FirstQuiet ==
    ASSUME NEW q \in Seq(Events), NEW list, Listed(q, list), Air(q, -1) >= Threshold
    PROVE  \E t0 \in Nat : /\ QuietFrom(q, t0)
                           /\ \E i \in DOMAIN q : q[i].at = t0
                           /\ \E j \in DOMAIN list : list[j].at = t0
<1> DEFINE Quiet == {t \in Nat : Air(q, t) < Threshold}
<1>0. /\ Threshold \in Int /\ Threshold > 0
  BY SpectrumAssumption
<1>1. \A t \in Int : Air(q, t) \in Int
  BY PoweredType
<1>2. PICK t0 \in Quiet : \A t \in Quiet : t0 <= t
  <2>1. PICK t \in Nat : Air(q, t) <= 0
    BY AirEnds
  <2>2. t \in Quiet
    BY <1>0, <1>1, <2>1
  <2>3. Quiet \in SUBSET Nat
    OBVIOUS
  <2> HIDE DEF Quiet
  <2> QED BY <2>2, <2>3, Least
<1>3. /\ t0 \in Nat /\ Air(q, t0) < Threshold
      /\ \A t \in Nat : t < t0 => Air(q, t) >= Threshold
  BY <1>0, <1>1, <1>2
<1>4. t0 - 1 \in Int /\ t0 - 1 <= t0 /\ t0 \in Int
  BY <1>3
<1>5. Air(q, t0 - 1) >= Threshold
  <2>1. CASE t0 = 0
    BY <2>1
  <2>2. CASE t0 # 0
    BY <1>3, <2>2
  <2> QED BY <2>1, <2>2
<1>6. PICK i \in DOMAIN q : q[i].power > 0 /\ t0 - 1 < q[i].at /\ q[i].at <= t0
  <2>1. Air(q, t0) # Air(q, t0 - 1)
    BY <1>0, <1>1, <1>3, <1>4, <1>5
  <2> QED BY <1>4, <2>1, AirFalls
<1>7. q[i].at = t0
  <2>1. q[i].at \in Int
    BY EventTypes
  <2> QED BY <1>3, <1>6, <2>1
<1>8. \E j \in DOMAIN list : list[j].at = t0
  BY <1>6, <1>7 DEF Listed
<1> QED BY <1>3, <1>7, <1>8 DEF QuietFrom

EndsAt(list, first, t) == list # <<>> /\ list[LoopEnds(list, first)].at = t

\* The loop ends at a change of that time.
LEMMA LoopEndsAt ==
    ASSUME NEW q, NEW pow, NEW list, NEW first, Tracks(q, pow, list, first),
           RisesArePast(list, FALSE), NEW t0 \in Nat, QuietFrom(q, t0),
           \E j \in DOMAIN list : list[j].at = t0
    PROVE  EndsAt(list, first, t0)
<1>0. /\ q \in Seq(Events) /\ list \in Seq(Changes) /\ InOrder(list) /\ first \in Int
      /\ \A t \in Nat : PowerAt(list, first, t) = Air(q, t)
      /\ Threshold \in Int
      /\ Air(q, t0) < Threshold
  BY SpectrumAssumption DEF Tracks, QuietFrom
<1>a. \A t \in Nat : t < t0 => Air(q, t) >= Threshold
  BY DEF QuietFrom
<1>1. DOMAIN list = 1 .. Len(list) /\ Len(list) \in Nat
      /\ \A i \in 1 .. Len(list) : list[i].at \in Int
  BY <1>0, EventTypes
<1>2. PICK j \in 1 .. Len(list) : list[j].at = t0
  BY <1>1
<1>3. PICK k \in Nat : k = DueBy(list, t0) /\ k <= Len(list)
                       /\ \A i \in 1 .. Len(list) : list[i].at <= t0 <=> i <= k
  <2>1. \A t \in Int : /\ DueBy(list, t) \in Nat /\ DueBy(list, t) <= Len(list)
                       /\ \A i \in 1 .. Len(list) : list[i].at <= t <=> i <= DueBy(list, t)
    BY <1>0, DueChanges
  <2>2. t0 \in Int
    OBVIOUS
  <2> QED BY <2>1, <2>2, Zenon
<1>4. k \in 1 .. Len(list) /\ list[k].at = t0
  <2>1. j <= k
    BY <1>2, <1>3
  <2>2. k \in 1 .. Len(list)
    BY <1>1, <1>3, <2>1
  <2>3. list[j].at <= list[k].at
    BY <1>0, <1>1, <2>1, <2>2 DEF InOrder
  <2>4. list[k].at <= t0
    BY <1>3, <2>2
  <2> QED BY <1>1, <1>2, <2>2, <2>3, <2>4
<1>5. PowerAfter(list, k, first) < Threshold
  <2>1. PowerAt(list, first, t0) = PowerAfter(list, k, first)
    BY <1>0, <1>3, PowerAtIsAfter
  <2> QED BY <1>0, <2>1
<1> DEFINE over == {i \in DOMAIN list :
                      list[i].at >= 0 /\ PowerAfter(list, i, first) < Threshold}
<1>6. k \in over
  BY <1>1, <1>4, <1>5
<1>7. PICK m \in over : \A i \in over : m <= i
  <2>1. over \in SUBSET Nat
    BY <1>1
  <2> HIDE DEF over
  <2> QED BY <1>6, <2>1, Least
<1>8. LoopEnds(list, first) = m
  <2>1. \A n \in over : (\A i \in over : n <= i) => n = m
    <3>1. over \in SUBSET Nat
      BY <1>1
    <3> HIDE DEF over
    <3> QED BY <1>7, <3>1
  <2>2. (CHOOSE n \in over : \A i \in over : n <= i) = m
    <3> HIDE DEF over
    <3> QED BY <1>7, <2>1
  <2>3. LoopEnds(list, first) = IF over = {} THEN Len(list)
                                ELSE CHOOSE n \in over : \A i \in over : n <= i
    BY DEF LoopEnds
  <2> HIDE DEF over
  <2> QED BY <1>6, <2>2, <2>3
<1>9. m \in 1 .. Len(list) /\ list[m].at >= 0 /\ PowerAfter(list, m, first) < Threshold
      /\ m <= k
  BY <1>1, <1>6, <1>7
<1>10. list[m].at = t0
  <2>1. list[m].at <= t0
    <3>1. list[m].at <= list[k].at
      BY <1>0, <1>1, <1>4, <1>9 DEF InOrder
    <3> QED BY <1>4, <3>1
  <2>2. /\ PowerAfter(list, m, first) \in Int
        /\ PowerAt(list, first, list[m].at) \in Int
        /\ PowerAt(list, first, list[m].at) <= PowerAfter(list, m, first)
    BY <1>0, <1>9, LastOfInstant
  <2>3. list[m].at \in Nat
    BY <1>1, <1>9
  <2>4. PowerAt(list, first, list[m].at) = Air(q, list[m].at)
    BY <1>0, <2>3
  <2>5. ~(Air(q, list[m].at) >= Threshold)
    BY <1>0, <1>9, <2>2, <2>4
  <2>6. ~(list[m].at < t0)
    BY <1>a, <2>3, <2>5
  <2> QED BY <2>1, <2>3, <2>6
<1>11. list # <<>>
  BY <1>1, <1>4
<1> QED BY <1>8, <1>10, <1>11 DEF EndsAt

ExactDuration(q, pow, e) ==
    /\ e \in Nat
    /\ pow <= Threshold => e = 0
    /\ pow > Threshold => QuietFrom(q, e) /\ \E i \in DOMAIN q : q[i].at = e

\* GetEnergyDuration tells when the power on the air is below the threshold again.
LEMMA Exact ==
    ASSUME NEW q, NEW pow, NEW list, NEW first, Tracks(q, pow, list, first),
           RisesArePast(list, FALSE), NEW e, e = EnergyDuration(pow, list, first)
    PROVE  ExactDuration(q, pow, e)
<1>0. /\ q \in Seq(Events) /\ pow = Air(q, -1) /\ Listed(q, list) /\ Threshold \in Int
      /\ pow \in Int
  BY SpectrumAssumption, PoweredType DEF Tracks
<1>1. CASE pow <= Threshold
  BY <1>0, <1>1 DEF EnergyDuration, ExactDuration
<1>2. CASE pow > Threshold
  <2>1. PICK t0 \in Nat : /\ QuietFrom(q, t0)
                          /\ \E i \in DOMAIN q : q[i].at = t0
                          /\ \E j \in DOMAIN list : list[j].at = t0
    BY <1>0, <1>2, FirstQuiet
  <2>2. EndsAt(list, first, t0)
    BY <2>1, LoopEndsAt
  <2>3. e = t0
    BY <1>2, <2>1, <2>2 DEF EnergyDuration, EndsAt
  <2> QED BY <1>0, <1>2, <2>1, <2>3 DEF ExactDuration
<1> QED BY <1>0, <1>1, <1>2

-----------------------------------------------------------------------------
(* What is scheduled, and the state.                                       *)

IsEnd(x) == x.kind \in {"EndTx", "EndRxData", "EndRxCtrl", "EndRxSrs"}

EndMatches(kind, s) ==
    \/ kind = "EndTx" /\ s = "TX"
    \/ kind = "EndRxData" /\ s = "RX_DATA"
    \/ kind = "EndRxCtrl" /\ s \in {"RX_DL_CTRL", "RX_UL_CTRL"}
    \/ kind = "EndRxSrs" /\ s = "RX_UL_SRS"

HasEnd(q) == \E i \in DOMAIN q : IsEnd(q[i])
HasCheck(q) == \E i \in DOMAIN q : IsCheck(q[i])

\* A reception or transmission ends as the state says, and not before the access manager
\* has been told; the check comes when the busy time ends.
Fits(x, s, busy, idle, starts) ==
    /\ IsEnd(x) => /\ x.power = 0 /\ EndMatches(x.kind, s)
                   /\ s # "RX_UL_SRS" => idle <= -x.at
                   /\ starts => x.at > 0
    /\ IsCheck(x) => x.power = 0 /\ x.at = busy

AllFit(q, s, busy, idle, starts) ==
    \A i \in DOMAIN q : Fits(q[i], s, busy, idle, starts)

\* There is one end and one check, and when both are due the check comes first.
Single(q) ==
    /\ \A i, j \in DOMAIN q : IsEnd(q[i]) /\ IsEnd(q[j]) => i = j
    /\ \A i, j \in DOMAIN q : IsCheck(q[i]) /\ IsCheck(q[j]) => i = j
    /\ \A i, j \in DOMAIN q : IsCheck(q[i]) /\ IsEnd(q[j]) /\ q[i].at = q[j].at => i < j

\* The channel is as busy as has been found.
LoudUntil(q, busy) == \A t \in Nat : t < busy => Air(q, t) >= Threshold

States == {"IDLE", "CCA_BUSY", "TX", "RX_DATA", "RX_DL_CTRL", "RX_UL_CTRL", "RX_UL_SRS"}

Types ==
    /\ isEnb \in BOOLEAN /\ state \in States /\ receiving \in BOOLEAN /\ rxStarts \in BOOLEAN
    /\ busyEnds \in Nat /\ idleFor \in Int

Waits(q, s, busy, idle) ==
    /\ s \notin {"IDLE", "CCA_BUSY"} => HasEnd(q)
    /\ busy > 0 \/ s = "CCA_BUSY" => HasCheck(q)
    /\ s = "IDLE" => ~HasCheck(q) /\ Air(q, 0) <= Threshold
    /\ s = "CCA_BUSY" => idle <= -busy

Inv ==
    /\ Types
    /\ Tracks(events, power, changes, firstPower)
    /\ RisesArePast(changes, receiving /\ ~DataEnds)
    /\ receiving <=> state = "RX_DATA"
    /\ AllFit(events, state, busyEnds, idleFor, rxStarts)
    /\ Single(events)
    /\ LoudUntil(events, busyEnds)
    /\ Waits(events, state, busyEnds, idleFor)
\* r is q with one element more, the k-th.
Spread(q, r, k) ==
    /\ k \in 1 .. Len(r) /\ Len(r) = Len(q) + 1
    /\ \A i \in 1 .. Len(q) : i < k => r[i] = q[i]
    /\ \A i \in 1 .. Len(q) : i >= k => r[i + 1] = q[i]

LEMMA KindFacts ==
    /\ \A x \in Events : /\ ~(IsEnd(x) /\ IsCheck(x)) /\ x.at \in Nat
                         /\ x.kind = "DoSubtractSignal" => ~IsEnd(x) /\ ~IsCheck(x)
                         /\ x.kind \in {"EndTx", "EndRxData", "EndRxCtrl", "EndRxSrs"} => IsEnd(x)
                         /\ x.kind = "CheckIfStillBusy" => IsCheck(x)
    /\ \A kind \in Kinds, d \in Nat :
         /\ Event(kind, d) \in Events /\ Event(kind, d).at = d /\ Event(kind, d).power = 0
         /\ Event(kind, d).kind = kind
BY DEF Events, Kinds, IsEnd, IsCheck, Event

LEMMA Spreads ==
    ASSUME NEW q \in Seq(Events), NEW r \in Seq(Events), NEW k \in Nat, Spread(q, r, k)
    PROVE  /\ DOMAIN q = 1 .. Len(q) /\ DOMAIN r = 1 .. Len(r) /\ Len(q) \in Nat
           /\ k \in DOMAIN r /\ Len(r) = Len(q) + 1
           /\ \A i \in DOMAIN r : i < k => i \in DOMAIN q /\ r[i] = q[i]
           /\ \A i \in DOMAIN r : i > k => i - 1 \in DOMAIN q /\ r[i] = q[i - 1]
           /\ \A i \in DOMAIN r : i < k \/ i = k \/ i > k
           /\ \A i \in DOMAIN q : i < k => i \in DOMAIN r /\ r[i] = q[i]
           /\ \A i \in DOMAIN q : i >= k => i + 1 \in DOMAIN r /\ i + 1 > k /\ r[i + 1] = q[i]
<1>1. /\ DOMAIN q = 1 .. Len(q) /\ DOMAIN r = 1 .. Len(r) /\ Len(q) \in Nat
      /\ k \in 1 .. Len(r) /\ Len(r) = Len(q) + 1
  BY DEF Spread
<1>2. \A i \in 1 .. Len(q) : i < k => r[i] = q[i]
  BY DEF Spread
<1>3. \A i \in 1 .. Len(q) : i >= k => r[i + 1] = q[i]
  BY DEF Spread
<1>4. ASSUME NEW i \in 1 .. Len(r), i < k PROVE i \in 1 .. Len(q) /\ r[i] = q[i]
  <2>1. i \in 1 .. Len(q)
    BY <1>1, <1>4
  <2> QED BY <1>2, <1>4, <2>1
<1>5. ASSUME NEW i \in 1 .. Len(r), i > k PROVE i - 1 \in 1 .. Len(q) /\ r[i] = q[i - 1]
  <2>1. i - 1 \in 1 .. Len(q) /\ i - 1 >= k /\ (i - 1) + 1 = i
    BY <1>1, <1>5
  <2>2. r[(i - 1) + 1] = q[i - 1]
    BY <1>3, <2>1
  <2> QED BY <2>1, <2>2
<1>6. \A i \in 1 .. Len(r) : i < k \/ i = k \/ i > k
  BY <1>1
<1>7. \A i \in 1 .. Len(q) : i < k => i \in 1 .. Len(r)
  BY <1>1
<1>8. \A i \in 1 .. Len(q) : i >= k => i + 1 \in 1 .. Len(r) /\ i + 1 > k
  BY <1>1
<1> QED BY <1>1, <1>2, <1>3, <1>4, <1>5, <1>6, <1>7, <1>8

\* Where an element of one is found in the other.
Embeds(q, r, k, f) ==
    /\ f \in [DOMAIN q -> DOMAIN r]
    /\ \A i \in DOMAIN q : r[f[i]] = q[i] /\ f[i] # k
    /\ \A i, j \in DOMAIN q : i < j <=> f[i] < f[j]
    /\ \A i, j \in DOMAIN q : f[i] = f[j] => i = j
    /\ \A j \in DOMAIN r : j # k => \E i \in DOMAIN q : f[i] = j

LEMMA SpreadUp ==
    ASSUME NEW q \in Seq(Events), NEW r \in Seq(Events), NEW k \in Nat, Spread(q, r, k)
    PROVE  \E f : Embeds(q, r, k, f)
<1> DEFINE f == [i \in DOMAIN q |-> IF i < k THEN i ELSE i + 1]
<1>1. /\ DOMAIN q = 1 .. Len(q) /\ DOMAIN r = 1 .. Len(r) /\ Len(q) \in Nat
      /\ k \in DOMAIN r /\ Len(r) = Len(q) + 1
  BY Spreads
<1>2. /\ \A i \in DOMAIN q : i < k => r[i] = q[i]
      /\ \A i \in DOMAIN q : i >= k => r[i + 1] = q[i]
  BY Spreads
<1>3. \A i \in DOMAIN q : f[i] = (IF i < k THEN i ELSE i + 1) /\ i \in Int
  BY <1>1
<1>4. f \in [DOMAIN q -> DOMAIN r]
  BY <1>1
<1> HIDE DEF f
<1>5. ASSUME NEW i \in DOMAIN q PROVE r[f[i]] = q[i] /\ f[i] # k
  BY <1>1, <1>2, <1>3
<1>6. ASSUME NEW i \in DOMAIN q, NEW j \in DOMAIN q
      PROVE  (i < j <=> f[i] < f[j]) /\ (f[i] = f[j] => i = j)
  BY <1>1, <1>3
<1>7. ASSUME NEW j \in DOMAIN r, j # k PROVE \E i \in DOMAIN q : f[i] = j
  <2>1. CASE j < k
    <3>1. j \in DOMAIN q
      BY <1>1, <2>1
    <3> QED BY <1>3, <2>1, <3>1
  <2>2. CASE j > k
    <3>1. j - 1 \in DOMAIN q /\ ~(j - 1 < k) /\ (j - 1) + 1 = j
      BY <1>1, <2>2
    <3>2. f[j - 1] = j
      BY <1>3, <3>1
    <3> QED BY <3>1, <3>2
  <2>3. j < k \/ j > k
    BY <1>1, <1>7
  <2> QED BY <2>1, <2>2, <2>3
<1> QED BY <1>4, <1>5, <1>6, <1>7 DEF Embeds

\* An element taken out leaves the rest as it is.
LEMMA SpreadDown ==
    ASSUME NEW q \in Seq(Events), NEW r \in Seq(Events), NEW k \in Nat, Spread(q, r, k)
    PROVE  /\ Single(r) => Single(q)
           /\ \A s, busy, idle, starts :
                AllFit(r, s, busy, idle, starts) => AllFit(q, s, busy, idle, starts)
           /\ Single(r) /\ IsEnd(r[k]) => ~HasEnd(q)
           /\ Single(r) /\ IsCheck(r[k]) => ~HasCheck(q)
           /\ ~IsEnd(r[k]) => (HasEnd(q) <=> HasEnd(r))
           /\ ~IsCheck(r[k]) => (HasCheck(q) <=> HasCheck(r))
<1>0. PICK f : Embeds(q, r, k, f)
  BY SpreadUp
<1>1. /\ f \in [DOMAIN q -> DOMAIN r]
      /\ \A i \in DOMAIN q : r[f[i]] = q[i] /\ f[i] # k
      /\ \A i, j \in DOMAIN q : i < j <=> f[i] < f[j]
      /\ \A i, j \in DOMAIN q : f[i] = f[j] => i = j
      /\ \A j \in DOMAIN r : j # k => \E i \in DOMAIN q : f[i] = j
  BY <1>0 DEF Embeds
<1>2. \A i \in DOMAIN q : f[i] \in DOMAIN r /\ r[f[i]] = q[i] /\ f[i] # k
  BY <1>1
<1>k. k \in DOMAIN r
  BY Spreads
<1>3. ASSUME Single(r) PROVE Single(q)
  <2>1. ASSUME NEW i \in DOMAIN q, NEW j \in DOMAIN q, IsEnd(q[i]), IsEnd(q[j]) PROVE i = j
    <3>1. f[i] = f[j]
      BY <1>2, <1>3, <2>1 DEF Single
    <3> QED BY <1>1, <3>1
  <2>2. ASSUME NEW i \in DOMAIN q, NEW j \in DOMAIN q, IsCheck(q[i]), IsCheck(q[j]) PROVE i = j
    <3>1. f[i] = f[j]
      BY <1>2, <1>3, <2>2 DEF Single
    <3> QED BY <1>1, <3>1
  <2>3. ASSUME NEW i \in DOMAIN q, NEW j \in DOMAIN q, IsCheck(q[i]), IsEnd(q[j]),
               q[i].at = q[j].at
        PROVE  i < j
    <3>1. f[i] < f[j]
      BY <1>2, <1>3, <2>3 DEF Single
    <3> QED BY <1>1, <3>1
  <2> QED BY <2>1, <2>2, <2>3 DEF Single
<1>4. ASSUME NEW s, NEW busy, NEW idle, NEW starts, AllFit(r, s, busy, idle, starts)
      PROVE  AllFit(q, s, busy, idle, starts)
  <2> SUFFICES ASSUME NEW i \in DOMAIN q PROVE Fits(q[i], s, busy, idle, starts)
    BY DEF AllFit
  <2>1. Fits(r[f[i]], s, busy, idle, starts)
    BY <1>2, <1>4 DEF AllFit
  <2> QED BY <1>2, <2>1
<1>5. ASSUME Single(r), IsEnd(r[k]) PROVE ~HasEnd(q)
  <2> SUFFICES ASSUME NEW i \in DOMAIN q, IsEnd(q[i]) PROVE FALSE
    BY DEF HasEnd
  <2>1. f[i] = k
    BY <1>2, <1>5, <1>k DEF Single
  <2> QED BY <1>2, <2>1
<1>6. ASSUME Single(r), IsCheck(r[k]) PROVE ~HasCheck(q)
  <2> SUFFICES ASSUME NEW i \in DOMAIN q, IsCheck(q[i]) PROVE FALSE
    BY DEF HasCheck
  <2>1. f[i] = k
    BY <1>2, <1>6, <1>k DEF Single
  <2> QED BY <1>2, <2>1
<1>7. /\ HasEnd(q) => HasEnd(r)
      /\ HasCheck(q) => HasCheck(r)
  BY <1>2 DEF HasEnd, HasCheck
<1>8. ASSUME ~IsEnd(r[k]), HasEnd(r) PROVE HasEnd(q)
  <2>1. PICK j \in DOMAIN r : IsEnd(r[j])
    BY <1>8 DEF HasEnd
  <2>2. PICK i \in DOMAIN q : f[i] = j
    BY <1>1, <1>8, <2>1
  <2>3. IsEnd(q[i])
    BY <1>2, <2>1, <2>2
  <2> QED BY <2>3 DEF HasEnd
<1>9. ASSUME ~IsCheck(r[k]), HasCheck(r) PROVE HasCheck(q)
  <2>1. PICK j \in DOMAIN r : IsCheck(r[j])
    BY <1>9 DEF HasCheck
  <2>2. PICK i \in DOMAIN q : f[i] = j
    BY <1>1, <1>9, <2>1
  <2>3. IsCheck(q[i])
    BY <1>2, <2>1, <2>2
  <2> QED BY <2>3 DEF HasCheck
<1> QED BY <1>3, <1>4, <1>5, <1>6, <1>7, <1>8, <1>9

\* An element put in.
LEMMA SpreadIn ==
    ASSUME NEW q \in Seq(Events), NEW r \in Seq(Events), NEW k \in Nat, Spread(q, r, k),
           NEW x, x = r[k]
    PROVE  /\ \A s, busy, idle, starts :
                AllFit(q, s, busy, idle, starts) /\ Fits(x, s, busy, idle, starts) =>
                  AllFit(r, s, busy, idle, starts)
           /\ IsEnd(x) => HasEnd(r)
           /\ IsCheck(x) => HasCheck(r)
           /\ /\ Single(q) /\ ~(IsEnd(x) /\ IsCheck(x))
              /\ IsEnd(x) => ~HasEnd(q) /\ \A i \in DOMAIN r : i > k => r[i].at # x.at
              /\ IsCheck(x) => ~HasCheck(q) /\ ~HasEnd(q)
              => Single(r)
<1>0. PICK f : Embeds(q, r, k, f)
  BY SpreadUp
<1>1. /\ f \in [DOMAIN q -> DOMAIN r]
      /\ \A i \in DOMAIN q : r[f[i]] = q[i] /\ f[i] # k
      /\ \A i, j \in DOMAIN q : i < j <=> f[i] < f[j]
      /\ \A i, j \in DOMAIN q : f[i] = f[j] => i = j
      /\ \A j \in DOMAIN r : j # k => \E i \in DOMAIN q : f[i] = j
  BY <1>0 DEF Embeds
<1>2. \A i \in DOMAIN r : i # k => \E m \in DOMAIN q : f[m] = i /\ q[m] = r[i]
  BY <1>1
<1>k. k \in DOMAIN r /\ \A i \in DOMAIN r : i < k \/ i = k \/ i > k
  BY Spreads
<1>3. ASSUME NEW s, NEW busy, NEW idle, NEW starts, AllFit(q, s, busy, idle, starts),
             Fits(x, s, busy, idle, starts)
      PROVE  AllFit(r, s, busy, idle, starts)
  <2> SUFFICES ASSUME NEW i \in DOMAIN r PROVE Fits(r[i], s, busy, idle, starts)
    BY DEF AllFit
  <2>1. CASE i = k
    BY <1>3, <2>1
  <2>2. CASE i # k
    <3>1. PICK m \in DOMAIN q : q[m] = r[i]
      BY <1>2, <2>2
    <3>2. Fits(q[m], s, busy, idle, starts)
      BY <1>3 DEF AllFit
    <3> QED BY <3>1, <3>2
  <2> QED BY <2>1, <2>2
<1>4. (IsEnd(x) => HasEnd(r)) /\ (IsCheck(x) => HasCheck(r))
  BY <1>k DEF HasEnd, HasCheck
<1>5. ASSUME Single(q), ~(IsEnd(x) /\ IsCheck(x)),
             IsEnd(x) => ~HasEnd(q) /\ \A i \in DOMAIN r : i > k => r[i].at # x.at,
             IsCheck(x) => ~HasCheck(q) /\ ~HasEnd(q)
      PROVE  Single(r)
  <2>1. ASSUME NEW i \in DOMAIN r, NEW j \in DOMAIN r, IsEnd(r[i]), IsEnd(r[j]) PROVE i = j
    <3>1. CASE IsEnd(x)
      <4>1. \A n \in DOMAIN r : IsEnd(r[n]) => n = k
        BY <1>2, <1>5, <3>1 DEF HasEnd
      <4> QED BY <2>1, <4>1
    <3>2. CASE ~IsEnd(x)
      <4>1. PICK m \in DOMAIN q : f[m] = i /\ q[m] = r[i]
        BY <1>2, <2>1, <3>2
      <4>2. PICK n \in DOMAIN q : f[n] = j /\ q[n] = r[j]
        BY <1>2, <2>1, <3>2
      <4>3. m = n
        BY <1>5, <2>1, <4>1, <4>2 DEF Single
      <4> QED BY <4>1, <4>2, <4>3
    <3> QED BY <3>1, <3>2
  <2>2. ASSUME NEW i \in DOMAIN r, NEW j \in DOMAIN r, IsCheck(r[i]), IsCheck(r[j]) PROVE i = j
    <3>1. CASE IsCheck(x)
      <4>1. \A n \in DOMAIN r : IsCheck(r[n]) => n = k
        BY <1>2, <1>5, <3>1 DEF HasCheck
      <4> QED BY <2>2, <4>1
    <3>2. CASE ~IsCheck(x)
      <4>1. PICK m \in DOMAIN q : f[m] = i /\ q[m] = r[i]
        BY <1>2, <2>2, <3>2
      <4>2. PICK n \in DOMAIN q : f[n] = j /\ q[n] = r[j]
        BY <1>2, <2>2, <3>2
      <4>3. m = n
        BY <1>5, <2>2, <4>1, <4>2 DEF Single
      <4> QED BY <4>1, <4>2, <4>3
    <3> QED BY <3>1, <3>2
  <2>3. ASSUME NEW i \in DOMAIN r, NEW j \in DOMAIN r, IsCheck(r[i]), IsEnd(r[j]),
               r[i].at = r[j].at
        PROVE  i < j
    <3>1. CASE j = k
      <4>1. i # k /\ ~(i > k)
        BY <1>5, <2>3, <3>1
      <4> QED BY <1>k, <3>1, <4>1
    <3>2. CASE i = k
      <4>1. PICK n \in DOMAIN q : f[n] = j /\ q[n] = r[j]
        BY <1>2, <1>5, <2>3, <3>2
      <4> QED BY <1>5, <2>3, <3>2, <4>1 DEF HasEnd
    <3>3. CASE i # k /\ j # k
      <4>1. PICK m \in DOMAIN q : f[m] = i /\ q[m] = r[i]
        BY <1>2, <3>3
      <4>2. PICK n \in DOMAIN q : f[n] = j /\ q[n] = r[j]
        BY <1>2, <3>3
      <4>3. m < n
        BY <1>5, <2>3, <4>1, <4>2 DEF Single
      <4> QED BY <1>1, <4>1, <4>2, <4>3
    <3> QED BY <3>1, <3>2, <3>3
  <2> QED BY <2>1, <2>2, <2>3 DEF Single
<1> QED BY <1>3, <1>4, <1>5

\* It is x, and what comes later is due later.
PutIn(q, r, k, x) ==
    Spread(q, r, k) /\ r[k] = x /\ \A i \in DOMAIN r : i > k => r[i].at # x.at

LEMMA InsertSpreads ==
    ASSUME NEW q \in Seq(Events), InOrder(q), NEW x \in Events
    PROVE  /\ Insert(q, x) \in Seq(Events)
           /\ \E k \in Nat : PutIn(q, Insert(q, x), k, x)
<1> DEFINE r == Insert(q, x)
           k == DueBy(q, x.at) + 1
<1>1. /\ r \in Seq(Events) /\ Len(r) = Len(q) + 1 /\ k \in 1 .. Len(q) + 1
      /\ \A i \in 1 .. Len(r) : /\ r[i] = IF i < k THEN q[i] ELSE IF i = k THEN x ELSE q[i - 1]
                                /\ i > k => r[i].at > x.at
  BY InsertedEvent
<1>2. x.at \in Int /\ Len(q) \in Nat
  BY EventTypes
<1> HIDE DEF r, k
<1>3. \A i \in 1 .. Len(r) : r[i].at \in Int
  BY <1>1, EventTypes
<1>4. k \in Nat /\ k \in 1 .. Len(r) /\ r[k] = x
  BY <1>1, <1>2
<1>5. \A i \in 1 .. Len(q) : i < k => r[i] = q[i]
  BY <1>1, <1>2
<1>6. ASSUME NEW i \in 1 .. Len(q), i >= k PROVE r[i + 1] = q[i]
  <2>1. i + 1 \in 1 .. Len(r) /\ ~(i + 1 < k) /\ i + 1 # k /\ (i + 1) - 1 = i
    BY <1>1, <1>2, <1>4, <1>6
  <2> QED BY <1>1, <2>1
<1>7. Spread(q, r, k)
  BY <1>1, <1>4, <1>5, <1>6 DEF Spread
<1>8. \A i \in DOMAIN r : i > k => r[i].at # x.at
  BY <1>1, <1>2, <1>3
<1> QED BY <1>1, <1>4, <1>7, <1>8 DEF r, PutIn

LEMMA RemoveSpreads ==
    ASSUME NEW q \in Seq(Events), NEW k \in 1 .. Len(q), NEW r,
           r = RemoveAt(q, k) \/ (k = 1 /\ r = Tail(q))
    PROVE  r \in Seq(Events) /\ Spread(r, q, k)
<1>1. /\ r \in Seq(Events) /\ Len(r) = Len(q) - 1
      /\ \A i \in 1 .. Len(r) : r[i] = IF i < k THEN q[i] ELSE q[i + 1]
  BY Removed
<1>2. Len(q) = Len(r) + 1 /\ k \in 1 .. Len(q)
  BY <1>1
<1>3. \A i \in 1 .. Len(r) : i < k => q[i] = r[i]
  BY <1>1
<1>4. \A i \in 1 .. Len(r) : i >= k => q[i + 1] = r[i]
  BY <1>1, <1>2
<1> QED BY <1>1, <1>2, <1>3, <1>4 DEF Spread

\* The check that was scheduled is taken off.
LEMMA CheckTakenOff ==
    ASSUME NEW q, NEW pow, NEW list, NEW first, Tracks(q, pow, list, first), Single(q),
           \A i \in DOMAIN q : IsCheck(q[i]) => q[i].power = 0,
           ~HasEnd(q), NEW r, r = WithoutCheck(q)
    PROVE  /\ Tracks(r, pow, list, first) /\ Single(r) /\ ~HasEnd(r) /\ ~HasCheck(r)
           /\ \A t \in Nat : Air(r, t) = Air(q, t)
<1>0. q \in Seq(Events) /\ pow = Air(q, -1) /\ pow \in Int
  BY PoweredType DEF Tracks
<1> DEFINE checks == {i \in DOMAIN q : IsCheck(q[i])}
<1>1. r = IF checks = {} THEN q ELSE RemoveAt(q, CHOOSE i \in checks : TRUE)
  BY DEF WithoutCheck
<1>2. CASE checks = {}
  BY <1>1, <1>2 DEF HasCheck
<1>3. CASE checks # {}
  <2>1. PICK k \in checks : r = RemoveAt(q, k)
    BY <1>1, <1>3
  <2>2. k \in 1 .. Len(q) /\ IsCheck(q[k]) /\ q[k].power = 0 /\ k \in Nat
    BY <1>0, <2>1
  <2>3. r \in Seq(Events) /\ Spread(r, q, k)
    BY <1>0, <2>1, <2>2, RemoveSpreads
  <2>7. TakenOff(q, k, r)
    BY <2>1 DEF TakenOff
  <2>4. Tracks(r, pow - q[k].power, list, first) /\ \A t \in Nat : Air(r, t) = Air(q, t)
    BY <2>2, <2>7, TracksRemoved
  <2>5. pow - q[k].power = pow
    BY <1>0, <2>2
  <2>6. ~IsEnd(q[k])
    BY <1>0, <2>2, KindFacts
  <2> QED BY <1>0, <2>2, <2>3, <2>4, <2>5, <2>6, SpreadDown
<1> QED BY <1>2, <1>3

\* The check is scheduled anew.
LEMMA CheckScheduled ==
    ASSUME NEW q, NEW pow, NEW list, NEW first, Tracks(q, pow, list, first), Single(q),
           \A i \in DOMAIN q : IsCheck(q[i]) => q[i].power = 0,
           ~HasEnd(q), NEW d \in Nat, NEW r, r = Rescheduled(q, d)
    PROVE  /\ Tracks(r, pow, list, first) /\ Single(r) /\ ~HasEnd(r) /\ HasCheck(r)
           /\ \A i \in DOMAIN r : IsCheck(r[i]) => r[i].power = 0 /\ r[i].at = d
           /\ \A t \in Nat : Air(r, t) = Air(q, t)
<1>1. PICK b : b = WithoutCheck(q)
  OBVIOUS
<1>2. /\ Tracks(b, pow, list, first) /\ Single(b) /\ ~HasEnd(b) /\ ~HasCheck(b)
      /\ \A t \in Nat : Air(b, t) = Air(q, t)
  BY <1>1, CheckTakenOff
<1>3. PICK x \in Events : /\ x = Event("CheckIfStillBusy", d) /\ x.at = d /\ x.power = 0
                          /\ IsCheck(x) /\ ~IsEnd(x)
  BY KindFacts DEF Kinds
<1>4. r = Insert(b, x)
  BY <1>1, <1>3 DEF Rescheduled
<1>5. b \in Seq(Events) /\ InOrder(b)
  BY <1>2 DEF Tracks
<1>6. r \in Seq(Events) /\ \E k \in Nat : PutIn(b, r, k, x)
  BY <1>4, <1>5, InsertSpreads
<1>7. PICK k \in Nat : Spread(b, r, k) /\ r[k] = x
  BY <1>6 DEF PutIn
<1>8. Single(r) /\ HasCheck(r)
  BY <1>2, <1>3, <1>5, <1>6, <1>7, SpreadIn
<1>9. ~HasEnd(r)
  BY <1>2, <1>3, <1>5, <1>6, <1>7, SpreadDown
<1>10. Tracks(r, pow, list, first) /\ \A t \in Int : Air(r, t) = Air(b, t)
  BY <1>2, <1>3, <1>4, TracksInserted
<1>11. \A t \in Nat : Air(r, t) = Air(q, t)
  BY <1>2, <1>10
<1>12. k \in DOMAIN r
  BY <1>5, <1>6, <1>7, Spreads
<1>13. \A i \in DOMAIN r : IsCheck(r[i]) => r[i] = x
  BY <1>3, <1>7, <1>8, <1>12 DEF Single
<1> QED BY <1>3, <1>8, <1>9, <1>10, <1>11, <1>13

\* What the queue is when MaybeCcaBusy is called: no reception or transmission is in it,
\* and the check is there if and only if the busy time is not over.
Ready(q, busy) ==
    /\ Single(q) /\ ~HasEnd(q)
    /\ \A i \in DOMAIN q : IsCheck(q[i]) => q[i].power = 0 /\ q[i].at = busy
    /\ HasCheck(q) <=> busy > 0
    /\ LoudUntil(q, busy)

\* What it is afterwards.
Settles(q, s, busy, idle) ==
    /\ s \in {"IDLE", "CCA_BUSY"} /\ busy \in Nat /\ idle \in Int
    /\ Single(q) /\ ~HasEnd(q)
    /\ \A i \in DOMAIN q : IsCheck(q[i]) => q[i].power = 0 /\ q[i].at = busy
    /\ LoudUntil(q, busy)
    /\ Waits(q, s, busy, idle)

LEMMA BusyAgain ==
    ASSUME NEW q, NEW pow, NEW list, NEW first, Tracks(q, pow, list, first),
           NEW d \in Nat, d > 0, QuietFrom(q, d), busyEnds \in Nat, idleFor \in Int,
           Ready(q, busyEnds),
           state' = "CCA_BUSY", idleFor' = Occupied(d),
           busyEnds' = IF busyEnds < d THEN d ELSE busyEnds,
           events' = IF busyEnds < d THEN Rescheduled(q, d) ELSE q
    PROVE  Tracks(events', pow, list, first) /\ Settles(events', state', busyEnds', idleFor')
<1>1. idleFor' \in Int /\ idleFor' <= -d
  BY DEF Occupied
<1>2. /\ Threshold \in Int /\ \A t \in Nat : Air(q, t) \in Int
  BY SpectrumAssumption, PoweredType DEF Tracks
<1>3. Air(q, d) < Threshold /\ \A t \in Nat : t < d => Air(q, t) >= Threshold
  BY DEF QuietFrom
<1>4. ~(d < busyEnds)
  <2>1. d < busyEnds => Air(q, d) >= Threshold
    BY DEF Ready, LoudUntil
  <2> QED BY <1>2, <1>3, <2>1
<1>5. busyEnds' = d
  BY <1>4
<1>6. CASE busyEnds < d
  <2>1. events' = Rescheduled(q, d)
    BY <1>6
  <2>2. /\ Single(q) /\ ~HasEnd(q) /\ \A i \in DOMAIN q : IsCheck(q[i]) => q[i].power = 0
    BY DEF Ready
  <2>3. /\ Tracks(events', pow, list, first) /\ Single(events') /\ ~HasEnd(events')
        /\ HasCheck(events')
        /\ \A i \in DOMAIN events' :
              IsCheck(events'[i]) => events'[i].power = 0 /\ events'[i].at = d
        /\ \A t \in Nat : Air(events', t) = Air(q, t)
    BY <2>1, <2>2, CheckScheduled
  <2>4. LoudUntil(events', d)
    BY <1>3, <2>3 DEF LoudUntil
  <2>5. Waits(events', state', d, idleFor')
    BY <1>1, <2>3 DEF Waits
  <2> QED BY <1>1, <1>5, <2>3, <2>4, <2>5 DEF Settles
<1>7. CASE ~(busyEnds < d)
  <2>1. events' = q /\ busyEnds = d
    BY <1>4, <1>7
  <2>2. /\ Single(q) /\ ~HasEnd(q) /\ HasCheck(q) /\ LoudUntil(q, d)
        /\ \A i \in DOMAIN q : IsCheck(q[i]) => q[i].power = 0 /\ q[i].at = d
    BY <2>1 DEF Ready
  <2>3. Waits(q, state', d, idleFor')
    BY <1>1, <2>2 DEF Waits
  <2> QED BY <1>1, <1>5, <2>1, <2>2, <2>3 DEF Settles
<1> QED BY <1>6, <1>7

\* MaybeCcaBusy does not return to IDLE with a check scheduled, if the power is not just the
\* threshold: the busy time that was found before is not over when the energy is.
LEMMA MaybeSettles ==
    ASSUME NEW q, NEW pow, NEW list, NEW first, Tracks(q, pow, list, first),
           RisesArePast(list, FALSE), pow # Threshold, busyEnds \in Nat, idleFor \in Int,
           Ready(q, busyEnds), NEW d, d = EnergyDuration(pow, list, first), MaybeCcaBusy(q, d)
    PROVE  Tracks(events', pow, list, first) /\ Settles(events', state', busyEnds', idleFor')
<1>2. /\ d \in Nat
      /\ pow <= Threshold => d = 0
      /\ pow > Threshold => QuietFrom(q, d)
  <2>1. ExactDuration(q, pow, d)
    BY Exact
  <2> QED BY <2>1 DEF ExactDuration
<1>3. /\ q \in Seq(Events) /\ pow = Air(q, -1) /\ Threshold \in Int /\ pow \in Int
      /\ \A t \in Nat : Air(q, t) \in Int
  BY SpectrumAssumption, PoweredType DEF Tracks
<1>5. CASE d > 0
  <2>1. QuietFrom(q, d)
    BY <1>2, <1>3, <1>5
  <2>2. /\ state' = "CCA_BUSY" /\ idleFor' = Occupied(d)
        /\ busyEnds' = IF busyEnds < d THEN d ELSE busyEnds
        /\ events' = IF busyEnds < d THEN Rescheduled(q, d) ELSE q
    BY <1>5 DEF MaybeCcaBusy
  <2> QED BY <1>2, <1>5, <2>1, <2>2, BusyAgain
<1>6. CASE d = 0
  <2>1. state' = "IDLE" /\ events' = q /\ idleFor' = idleFor /\ busyEnds' = busyEnds
    BY <1>6 DEF MaybeCcaBusy
  <2>2. Air(q, 0) <= pow
    <3>1. -1 \in Int /\ 0 \in Int /\ -1 <= 0
      OBVIOUS
    <3> QED BY <1>3, <3>1, AirFalls
  <2>3. Air(q, 0) <= Threshold
    <3>1. CASE pow <= Threshold
      BY <1>3, <2>2, <3>1
    <3>2. CASE pow > Threshold
      BY <1>2, <1>3, <1>6, <3>2 DEF QuietFrom
    <3> QED BY <1>3, <3>1, <3>2
  <2>4. busyEnds = 0
    <3> SUFFICES ASSUME busyEnds > 0 PROVE FALSE
      OBVIOUS
    <3>1. Air(q, 0) >= Threshold
      BY DEF Ready, LoudUntil
    <3>2. pow > Threshold
      BY <1>3, <2>2, <3>1
    <3>3. Air(q, 0) < Threshold
      BY <1>2, <1>6, <3>2 DEF QuietFrom
    <3> QED BY <1>3, <3>1, <3>3
  <2>5. /\ Single(q) /\ ~HasEnd(q) /\ ~HasCheck(q) /\ LoudUntil(q, busyEnds)
        /\ \A i \in DOMAIN q : IsCheck(q[i]) => q[i].power = 0 /\ q[i].at = busyEnds
    BY <2>4 DEF Ready
  <2>6. Waits(q, "IDLE", busyEnds, idleFor)
    BY <2>3, <2>4, <2>5 DEF Waits
  <2> QED BY <2>1, <2>5, <2>6 DEF Settles
<1> QED BY <1>2, <1>5, <1>6

-----------------------------------------------------------------------------
(* The steps.                                                              *)

\* No sum of powers is equal to the threshold.
NoTie == \A s \in Seq(Powers \union {0}) : Sum(s) # Threshold

LEMMA NotThreshold ==
    ASSUME NoTie, NEW q, NEW pow, NEW list, NEW first, Tracks(q, pow, list, first)
    PROVE  pow # Threshold
<1>1. q \in Seq(Events) /\ pow = Sum(Powered(q, -1))
  BY DEF Tracks, Air
<1>2. Powered(q, -1) \in Seq(Powers \union {0})
  BY <1>1, PoweredType
<1> QED BY <1>1, <1>2 DEF NoTie

LEMMA RisesWeaker ==
    ASSUME NEW list, NEW u \in BOOLEAN, NEW v \in BOOLEAN, u => v, RisesArePast(list, u)
    PROVE  RisesArePast(list, v)
BY DEF RisesArePast

\* Data ends now.
EndsData(q) == \E i \in DOMAIN q : q[i].at = 0 /\ q[i].kind = "EndRxData"

LEMMA DataEndsNow == DataEnds = EndsData(events) /\ DataEnds' = EndsData(events')
BY DEF DataEnds, EndsData

\* A signal's event does not matter to the state.
LEMMA PlainIn ==
    ASSUME NEW q \in Seq(Events), InOrder(q), Single(q), NEW x \in Events,
           ~IsEnd(x), ~IsCheck(x), x.at > 0, NEW r, r = Insert(q, x)
    PROVE  /\ Single(r) /\ r \in Seq(Events) /\ InOrder(r)
           /\ \A s, busy, idle, starts :
                AllFit(q, s, busy, idle, starts) => AllFit(r, s, busy, idle, starts)
           /\ HasEnd(r) <=> HasEnd(q)
           /\ HasCheck(r) <=> HasCheck(q)
           /\ EndsData(r) => EndsData(q)
<1>1. r \in Seq(Events) /\ \E k \in Nat : PutIn(q, r, k, x)
  BY InsertSpreads
<1>2. PICK k \in Nat : Spread(q, r, k) /\ r[k] = x
  BY <1>1 DEF PutIn
<1>3. Single(r)
  BY <1>1, <1>2, SpreadIn
<1>4. ASSUME NEW s, NEW busy, NEW idle, NEW starts, AllFit(q, s, busy, idle, starts)
      PROVE  AllFit(r, s, busy, idle, starts)
  <2>1. Fits(x, s, busy, idle, starts)
    BY DEF Fits
  <2> QED BY <1>1, <1>2, <1>4, <2>1, SpreadIn
<1>5. (HasEnd(r) <=> HasEnd(q)) /\ (HasCheck(r) <=> HasCheck(q))
  BY <1>1, <1>2, SpreadDown
<1>6. ASSUME EndsData(r) PROVE EndsData(q)
  <2>1. PICK i \in DOMAIN r : r[i].at = 0 /\ r[i].kind = "EndRxData"
    BY <1>6 DEF EndsData
  <2>2. i # k
    BY <1>2, <2>1
  <2>3. \E m \in DOMAIN q : q[m] = r[i]
    <3>1. CASE i < k
      BY <1>1, <1>2, <3>1, Spreads
    <3>2. CASE i > k
      <4>1. i - 1 \in DOMAIN q /\ r[i] = q[i - 1]
        BY <1>1, <1>2, <3>2, Spreads
      <4> QED BY <4>1
    <3>3. i < k \/ i > k
      BY <1>1, <1>2, <2>2, Spreads
    <3> QED BY <3>1, <3>2, <3>3
  <2> QED BY <2>1, <2>3 DEF EndsData
<1>7. InOrder(r)
  BY InsertedEvent
<1> QED BY <1>1, <1>3, <1>4, <1>5, <1>6, <1>7

\* What was due is taken off.
LEMMA HeadOff ==
    ASSUME NEW q, NEW pow, NEW list, NEW first, Tracks(q, pow, list, first), Single(q),
           q # <<>>, Head(q).at = 0, NEW r, r = Tail(q)
    PROVE  /\ Head(q) = q[1] /\ 1 \in DOMAIN q /\ q[1] \in Events
           /\ Spread(r, q, 1) /\ r \in Seq(Events) /\ q \in Seq(Events)
           /\ Tracks(r, pow - q[1].power, list, first)
           /\ \A t \in Nat : Air(r, t) = Air(q, t)
           /\ \A busy : LoudUntil(q, busy) => LoudUntil(r, busy)
           /\ EndsData(r) => EndsData(q)
<1>0. q \in Seq(Events)
  BY DEF Tracks
<1>1. Head(q) = q[1] /\ 1 \in 1 .. Len(q) /\ 1 \in DOMAIN q /\ q[1] \in Events /\ 1 \in Nat
  BY <1>0
<1>2. r \in Seq(Events) /\ Spread(r, q, 1)
  BY <1>0, <1>1, RemoveSpreads
<1>3. /\ Tracks(r, pow - q[1].power, list, first)
      /\ \A t \in Nat : Air(r, t) = Air(q, t)
  <2>1. PICK k \in 1 .. Len(q) : k = 1
    BY <1>1
  <2>2. q[k].at = 0 /\ TakenOff(q, k, r)
    BY <1>1, <2>1 DEF TakenOff
  <2>3. /\ Tracks(r, pow - q[k].power, list, first)
        /\ \A t \in Nat : Air(r, t) = Air(q, t)
    BY <2>2, TracksRemoved
  <2> QED BY <2>1, <2>3
<1>4. \A busy : LoudUntil(q, busy) => LoudUntil(r, busy)
  BY <1>3 DEF LoudUntil
<1>5. \A i \in DOMAIN r : i + 1 \in DOMAIN q /\ r[i] = q[i + 1]
  <2>1. \A i \in DOMAIN r : i >= 1 => i + 1 \in DOMAIN q /\ q[i + 1] = r[i]
    BY <1>0, <1>1, <1>2, Spreads
  <2>2. \A i \in DOMAIN r : i >= 1
    BY <1>2
  <2> QED BY <2>1, <2>2
<1>6. EndsData(r) => EndsData(q)
  BY <1>5 DEF EndsData
<1> QED BY <1>0, <1>1, <1>2, <1>3, <1>4, <1>6

\* After MaybeCcaBusy the radio is free.
LEMMA SettledInv ==
    ASSUME isEnb' \in BOOLEAN, rxStarts' \in BOOLEAN, receiving' = FALSE,
           RisesArePast(changes', FALSE),
           Tracks(events', power', changes', firstPower'),
           Settles(events', state', busyEnds', idleFor')
    PROVE  Inv'
<1>1. /\ state' \in {"IDLE", "CCA_BUSY"} /\ busyEnds' \in Nat /\ idleFor' \in Int
      /\ Single(events') /\ ~HasEnd(events')
      /\ \A i \in DOMAIN events' :
           IsCheck(events'[i]) => events'[i].power = 0 /\ events'[i].at = busyEnds'
      /\ LoudUntil(events', busyEnds')
      /\ Waits(events', state', busyEnds', idleFor')
  BY DEF Settles
<1>2. AllFit(events', state', busyEnds', idleFor', rxStarts')
  BY <1>1 DEF AllFit, Fits, HasEnd
<1>3. Types'
  BY <1>1 DEF Types, States
<1>4. RisesArePast(changes', (receiving /\ ~DataEnds)')
  <2>1. (receiving /\ ~DataEnds)' \in BOOLEAN /\ FALSE \in BOOLEAN
    OBVIOUS
  <2> QED BY <2>1, RisesWeaker
<1>5. (receiving <=> state = "RX_DATA")'
  BY <1>1
<1> QED BY <1>1, <1>2, <1>3, <1>4, <1>5 DEF Inv
\* What the invariant says of the state before a step.
LEMMA InvFacts ==
    ASSUME Inv
    PROVE  /\ isEnb \in BOOLEAN /\ state \in States /\ receiving \in BOOLEAN
           /\ rxStarts \in BOOLEAN /\ busyEnds \in Nat /\ idleFor \in Int
           /\ events \in Seq(Events) /\ InOrder(events)
           /\ Tracks(events, power, changes, firstPower)
           /\ RisesArePast(changes, TRUE)
           /\ RisesArePast(changes, receiving /\ ~DataEnds)
           /\ receiving <=> state = "RX_DATA"
           /\ AllFit(events, state, busyEnds, idleFor, rxStarts)
           /\ Single(events) /\ LoudUntil(events, busyEnds)
           /\ Waits(events, state, busyEnds, idleFor)
           /\ Free => ~HasEnd(events) /\ ~receiving
           /\ HasCheck(events) => busyEnds \in Nat
<1>1. /\ isEnb \in BOOLEAN /\ state \in States /\ receiving \in BOOLEAN
      /\ rxStarts \in BOOLEAN /\ busyEnds \in Nat /\ idleFor \in Int
      /\ Tracks(events, power, changes, firstPower)
      /\ RisesArePast(changes, receiving /\ ~DataEnds)
      /\ receiving <=> state = "RX_DATA"
      /\ AllFit(events, state, busyEnds, idleFor, rxStarts)
      /\ Single(events) /\ LoudUntil(events, busyEnds)
      /\ Waits(events, state, busyEnds, idleFor)
  BY DEF Inv, Types
<1>2. events \in Seq(Events) /\ InOrder(events)
  BY <1>1 DEF Tracks
<1>3. RisesArePast(changes, TRUE)
  <2>1. (receiving /\ ~DataEnds) \in BOOLEAN /\ TRUE \in BOOLEAN
    OBVIOUS
  <2> QED BY <1>1, <2>1, RisesWeaker
<1>4. ASSUME Free PROVE ~HasEnd(events) /\ ~receiving
  <2>1. state \in {"IDLE", "CCA_BUSY"}
    BY <1>4 DEF Free
  <2>2. ASSUME NEW i \in DOMAIN events, IsEnd(events[i]) PROVE FALSE
    <3>1. EndMatches(events[i].kind, state)
      BY <1>1, <2>2 DEF AllFit, Fits
    <3> QED BY <2>1, <3>1 DEF EndMatches
  <2> QED BY <1>1, <2>1, <2>2 DEF HasEnd
<1> QED BY <1>1, <1>2, <1>3, <1>4

\* When a signal has come.
Heard(q, p, d) ==
    /\ Tracks(q, power', changes', firstPower') /\ RisesArePast(changes', receiving)
    /\ Single(q)
    /\ \A s, busy, idle, starts :
         AllFit(events, s, busy, idle, starts) => AllFit(q, s, busy, idle, starts)
    /\ HasEnd(q) <=> HasEnd(events)
    /\ HasCheck(q) <=> HasCheck(events)
    /\ EndsData(q) => EndsData(events)
    /\ \A busy : LoudUntil(events, busy) => LoudUntil(q, busy)

LEMMA SignalHeard ==
    ASSUME Inv, NEW p \in Powers, NEW d \in Nat, d > 0, AddSignal(p, d),
           NEW q, q = WithEndOf(p, d)
    PROVE  Heard(q, p, d)
<1>0. /\ receiving \in BOOLEAN /\ events \in Seq(Events) /\ InOrder(events) /\ Single(events)
      /\ Tracks(events, power, changes, firstPower) /\ RisesArePast(changes, TRUE)
  BY InvFacts
<1>1. AppendEvent(p, d) /\ power' = power + p
  BY DEF AddSignal
<1>2. /\ Tracks(q, power + p, changes', firstPower')
      /\ RisesArePast(changes', receiving)
      /\ \A t \in Int : Air(q, t) >= Air(events, t)
  BY <1>0, <1>1, Appended
<1>3. PICK x \in Events : /\ x = [at |-> d, kind |-> "DoSubtractSignal", power |-> p]
                          /\ x.at = d /\ x.power = p /\ x.kind = "DoSubtractSignal"
  BY NewRecords
<1>4. q = Insert(events, x) /\ ~IsEnd(x) /\ ~IsCheck(x) /\ x.at > 0
  BY <1>3, KindFacts DEF WithEndOf
<1>5. /\ Single(q)
      /\ \A s, busy, idle, starts :
           AllFit(events, s, busy, idle, starts) => AllFit(q, s, busy, idle, starts)
      /\ HasEnd(q) <=> HasEnd(events)
      /\ HasCheck(q) <=> HasCheck(events)
      /\ EndsData(q) => EndsData(events)
  BY <1>0, <1>4, PlainIn
<1>6. ASSUME NEW busy, LoudUntil(events, busy) PROVE LoudUntil(q, busy)
  <2>1. /\ Threshold \in Int /\ \A t \in Nat : t \in Int
    BY SpectrumAssumption
  <2>2. \A t \in Nat : Air(q, t) >= Air(events, t) /\ Air(q, t) \in Int /\ Air(events, t) \in Int
    BY <1>0, <1>2, <2>1, PoweredType DEF Tracks
  <2> QED BY <1>6, <2>1, <2>2 DEF LoudUntil
<1>7. Tracks(q, power', changes', firstPower')
  BY <1>1, <1>2
<1> QED BY <1>2, <1>5, <1>6, <1>7 DEF Heard

\* When the queue has changed and the state has not.
LEMMA SameState ==
    ASSUME Inv, NEW starts \in BOOLEAN, rxStarts' = starts, isEnb' = isEnb, state' = state,
           receiving' = receiving, busyEnds' = busyEnds, idleFor' \in Int,
           Tracks(events', power', changes', firstPower'),
           RisesArePast(changes', receiving /\ ~DataEnds),
           Single(events'), AllFit(events', state, busyEnds, idleFor', starts),
           LoudUntil(events', busyEnds),
           HasEnd(events') <=> HasEnd(events), HasCheck(events') <=> HasCheck(events),
           state = "IDLE" => Air(events', 0) <= Threshold,
           state = "CCA_BUSY" => idleFor' <= -busyEnds,
           EndsData(events') => EndsData(events)
    PROVE  Inv'
<1>0. /\ isEnb \in BOOLEAN /\ state \in States /\ receiving \in BOOLEAN
      /\ rxStarts \in BOOLEAN /\ busyEnds \in Nat
      /\ receiving <=> state = "RX_DATA"
      /\ Waits(events, state, busyEnds, idleFor)
  BY InvFacts
<1>1. Types'
  BY <1>0 DEF Types
<1>2. RisesArePast(changes', (receiving /\ ~DataEnds)')
  <2>1. DataEnds' => DataEnds
    BY DataEndsNow
  <2>2. PICK v \in BOOLEAN : v = (receiving /\ ~DataEnds)'
    OBVIOUS
  <2>3. PICK u \in BOOLEAN : u = (receiving /\ ~DataEnds)
    OBVIOUS
  <2> QED BY <2>1, <2>2, <2>3, RisesWeaker
<1>3. Waits(events', state, busyEnds, idleFor')
  BY <1>0 DEF Waits
<1> QED BY <1>0, <1>1, <1>2, <1>3 DEF Inv

LEMMA LoudAtZero ==
    ASSUME Inv, state = "IDLE"
    PROVE  ~receiving /\ ~HasEnd(events) /\ ~HasCheck(events) /\ busyEnds = 0
<1>1. /\ ~receiving /\ ~HasEnd(events) /\ busyEnds \in Nat
      /\ Waits(events, state, busyEnds, idleFor)
  BY InvFacts DEF Free
<1> QED BY <1>1 DEF Waits

LEMMA StartRxInv == ASSUME Inv, NoTie, StartRx PROVE Inv'
<1>0. /\ isEnb \in BOOLEAN /\ rxStarts \in BOOLEAN /\ receiving \in BOOLEAN
      /\ busyEnds \in Nat /\ idleFor \in Int
      /\ AllFit(events, state, busyEnds, idleFor, rxStarts)
      /\ LoudUntil(events, busyEnds) /\ Waits(events, state, busyEnds, idleFor)
  BY InvFacts
<1>1. PICK p \in Powers, d \in Durations :
         /\ AddSignal(p, d)
         /\ \/ /\ state = "IDLE"
               /\ MaybeCcaBusy(WithEndOf(p, d), EnergyDuration(power', changes', firstPower'))
            \/ /\ state # "IDLE"
               /\ events' = WithEndOf(p, d)
               /\ UNCHANGED <<state, idleFor, busyEnds>>
  BY DEF StartRx
<1>2. /\ ~DataEnds /\ receiving' = receiving /\ rxStarts' = rxStarts /\ isEnb' = isEnb
  BY <1>1 DEF StartRx, AddSignal
<1>3. PICK q : q = WithEndOf(p, d)
  OBVIOUS
<1>4. d \in Nat /\ d > 0
  BY SpectrumAssumption
<1>5. Heard(q, p, d)
  BY <1>1, <1>3, <1>4, SignalHeard
<1>6. CASE state # "IDLE"
  <2>1. events' = q /\ state' = state /\ idleFor' = idleFor /\ busyEnds' = busyEnds
    BY <1>1, <1>3, <1>6
  <2>2. RisesArePast(changes', receiving /\ ~DataEnds)
    <3>1. (receiving /\ ~DataEnds) = receiving
      BY <1>0, <1>2
    <3> QED BY <1>5, <3>1 DEF Heard
  <2>3. /\ Tracks(events', power', changes', firstPower') /\ Single(events')
        /\ AllFit(events', state, busyEnds, idleFor', rxStarts)
        /\ LoudUntil(events', busyEnds)
        /\ HasEnd(events') <=> HasEnd(events)
        /\ HasCheck(events') <=> HasCheck(events)
        /\ EndsData(events') => EndsData(events)
    BY <1>0, <1>5, <2>1 DEF Heard
  <2>4. state = "CCA_BUSY" => idleFor' <= -busyEnds
    BY <1>0, <2>1 DEF Waits
  <2>5. idleFor' \in Int
    BY <1>0, <2>1
  <2> QED BY <1>0, <1>2, <1>6, <2>1, <2>2, <2>3, <2>4, <2>5, SameState
<1>7. CASE state = "IDLE"
  <2>0. ~receiving /\ ~HasEnd(events) /\ ~HasCheck(events) /\ busyEnds = 0
    BY <1>7, LoudAtZero
  <2>1. PICK dd : dd = EnergyDuration(power', changes', firstPower')
    OBVIOUS
  <2>2. MaybeCcaBusy(q, dd)
    BY <1>1, <1>3, <1>7, <2>1
  <2>3. /\ Tracks(q, power', changes', firstPower') /\ Single(q)
        /\ RisesArePast(changes', receiving)
        /\ ~HasEnd(q) /\ ~HasCheck(q) /\ LoudUntil(q, busyEnds)
    BY <1>0, <1>5, <2>0 DEF Heard
  <2>4. RisesArePast(changes', FALSE)
    <3>1. receiving = FALSE
      BY <1>0, <2>0
    <3> QED BY <2>3, <3>1
  <2>5. Ready(q, busyEnds)
    BY <2>0, <2>3 DEF Ready, HasCheck
  <2>6. power' # Threshold
    BY <2>3, NotThreshold
  <2>7. /\ Tracks(events', power', changes', firstPower')
        /\ Settles(events', state', busyEnds', idleFor')
    BY <1>0, <2>1, <2>2, <2>3, <2>4, <2>5, <2>6, MaybeSettles
  <2> QED BY <1>0, <1>2, <2>0, <2>4, <2>7, SettledInv
<1> QED BY <1>6, <1>7

\* A reception or a transmission begins: q is what is scheduled but its end.
LEMMA Begins ==
    ASSUME Inv, Free, NEW q \in Seq(Events), InOrder(q),
           Tracks(q, power', changes', firstPower'),
           RisesArePast(changes', FALSE), Single(q), ~HasEnd(q),
           HasCheck(q) <=> HasCheck(events),
           AllFit(q, state, busyEnds, idleFor, rxStarts), LoudUntil(q, busyEnds),
           NEW new \in States, NEW end \in Kinds, EndMatches(end, new),
           NEW d \in Nat, d > 0,
           state' = new, idleFor' = IF new = "RX_UL_SRS" THEN idleFor ELSE Occupied(d),
           events' = Insert(q, Event(end, d)), busyEnds' = busyEnds, isEnb' = isEnb,
           receiving' = (new = "RX_DATA"), rxStarts' \in BOOLEAN
    PROVE  Inv'
<1>0. /\ isEnb \in BOOLEAN /\ busyEnds \in Nat /\ idleFor \in Int /\ ~HasEnd(events)
      /\ Waits(events, state, busyEnds, idleFor)
  BY InvFacts
<1>1. PICK x \in Events : /\ x = Event(end, d) /\ x.at = d /\ x.power = 0 /\ x.kind = end
                          /\ IsEnd(x) /\ ~IsCheck(x)
  BY KindFacts DEF EndMatches
<1>2. idleFor' \in Int /\ (new # "RX_UL_SRS" => idleFor' <= -d)
  BY <1>0 DEF Occupied
<1>3. events' = Insert(q, x)
  BY <1>1
<1>4. /\ Tracks(events', power', changes', firstPower')
      /\ \A t \in Int : Air(events', t) = Air(q, t)
  BY <1>1, <1>3, TracksInserted
<1>5. events' \in Seq(Events) /\ \E k \in Nat : PutIn(q, events', k, x)
  <2>1. Insert(q, x) \in Seq(Events) /\ \E k \in Nat : PutIn(q, Insert(q, x), k, x)
    BY InsertSpreads
  <2> QED BY <1>3, <2>1
<1>6. PICK k \in Nat : /\ Spread(q, events', k) /\ events'[k] = x
                       /\ \A i \in DOMAIN events' : i > k => events'[i].at # x.at
  BY <1>5 DEF PutIn
<1>7. Single(events') /\ HasEnd(events')
  BY <1>1, <1>5, <1>6, SpreadIn
<1>8. HasCheck(events') <=> HasCheck(events)
  BY <1>1, <1>5, <1>6, SpreadDown
<1>9. AllFit(events', new, busyEnds, idleFor', rxStarts')
  <2>1. Fits(x, new, busyEnds, idleFor', rxStarts')
    BY <1>1, <1>2 DEF Fits
  <2>2. AllFit(q, new, busyEnds, idleFor', rxStarts')
    BY DEF AllFit, Fits, HasEnd
  <2> QED BY <1>5, <1>6, <2>1, <2>2, SpreadIn
<1>10. LoudUntil(events', busyEnds)
  BY <1>4 DEF LoudUntil
<1>11. new \notin {"IDLE", "CCA_BUSY"}
  BY DEF EndMatches
<1>12. Waits(events', new, busyEnds, idleFor')
  BY <1>0, <1>7, <1>8, <1>11 DEF Waits
<1>13. Types'
  BY <1>0, <1>2 DEF Types
<1>14. RisesArePast(changes', (receiving /\ ~DataEnds)')
  <2>1. PICK v \in BOOLEAN : v = (receiving /\ ~DataEnds)'
    OBVIOUS
  <2> QED BY <2>1, RisesWeaker
<1> QED BY <1>4, <1>7, <1>9, <1>10, <1>12, <1>13, <1>14 DEF Inv

LEMMA ReceiveInv ==
    ASSUME Inv, NEW new \in States, NEW end \in Kinds, EndMatches(end, new), Receive(new, end),
           receiving' = (new = "RX_DATA")
    PROVE  Inv'
<1>0. /\ isEnb \in BOOLEAN /\ rxStarts \in BOOLEAN /\ receiving \in BOOLEAN
      /\ busyEnds \in Nat /\ idleFor \in Int
      /\ AllFit(events, state, busyEnds, idleFor, rxStarts)
      /\ LoudUntil(events, busyEnds)
  BY InvFacts
<1>1. PICK p \in Powers, d \in Durations :
         AddSignal(p, d) /\ Occupy(WithEndOf(p, d), new, end, d)
  BY DEF Receive
<1>2. Free /\ rxStarts' = TRUE /\ isEnb' = isEnb
  BY <1>1 DEF Receive, AddSignal
<1>3. PICK q : q = WithEndOf(p, d)
  OBVIOUS
<1>4. d \in Nat /\ d > 0
  BY SpectrumAssumption
<1>5. Heard(q, p, d)
  BY <1>1, <1>3, <1>4, SignalHeard
<1>6. ~receiving /\ ~HasEnd(events)
  BY <1>2, InvFacts
<1>7. /\ Tracks(q, power', changes', firstPower') /\ Single(q)
      /\ RisesArePast(changes', receiving)
      /\ ~HasEnd(q) /\ (HasCheck(q) <=> HasCheck(events))
      /\ AllFit(q, state, busyEnds, idleFor, rxStarts) /\ LoudUntil(q, busyEnds)
  BY <1>0, <1>5, <1>6 DEF Heard
<1>8. RisesArePast(changes', FALSE)
  <2>1. receiving = FALSE
    BY <1>0, <1>6
  <2> QED BY <1>7, <2>1
<1>9. q \in Seq(Events) /\ InOrder(q)
  BY <1>7 DEF Tracks
<1>10. /\ state' = new /\ idleFor' = IF new = "RX_UL_SRS" THEN idleFor ELSE Occupied(d)
       /\ events' = Insert(q, Event(end, d)) /\ busyEnds' = busyEnds
  BY <1>1, <1>3 DEF Occupy
<1> QED BY <1>2, <1>4, <1>7, <1>8, <1>9, <1>10, Begins

LEMMA ReceptionsInv ==
    ASSUME Inv, StartRxData \/ StartRxDlCtrl \/ StartRxUlCtrl \/ StartRxSrs
    PROVE  Inv'
<1>0. Free => receiving = FALSE
  BY InvFacts
<1>1. CASE StartRxData
  <2>1. Receive("RX_DATA", "EndRxData") /\ receiving' = TRUE
    BY <1>1 DEF StartRxData
  <2>2. EndMatches("EndRxData", "RX_DATA") /\ "RX_DATA" \in States /\ "EndRxData" \in Kinds
    BY DEF EndMatches, States, Kinds
  <2> QED BY <2>1, <2>2, ReceiveInv
<1>2. CASE StartRxDlCtrl
  <2>1. Receive("RX_DL_CTRL", "EndRxCtrl") /\ receiving' = FALSE
    BY <1>0, <1>2 DEF StartRxDlCtrl, Receive
  <2>2. EndMatches("EndRxCtrl", "RX_DL_CTRL") /\ "RX_DL_CTRL" \in States /\ "EndRxCtrl" \in Kinds
    BY DEF EndMatches, States, Kinds
  <2> QED BY <2>1, <2>2, ReceiveInv
<1>3. CASE StartRxUlCtrl
  <2>1. Receive("RX_UL_CTRL", "EndRxCtrl") /\ receiving' = FALSE
    BY <1>0, <1>3 DEF StartRxUlCtrl, Receive
  <2>2. EndMatches("EndRxCtrl", "RX_UL_CTRL") /\ "RX_UL_CTRL" \in States /\ "EndRxCtrl" \in Kinds
    BY DEF EndMatches, States, Kinds
  <2> QED BY <2>1, <2>2, ReceiveInv
<1>4. CASE StartRxSrs
  <2>1. Receive("RX_UL_SRS", "EndRxSrs") /\ receiving' = FALSE
    BY <1>0, <1>4 DEF StartRxSrs, Receive
  <2>2. EndMatches("EndRxSrs", "RX_UL_SRS") /\ "RX_UL_SRS" \in States /\ "EndRxSrs" \in Kinds
    BY DEF EndMatches, States, Kinds
  <2> QED BY <2>1, <2>2, ReceiveInv
<1> QED BY <1>1, <1>2, <1>3, <1>4

LEMMA StartTxInv == ASSUME Inv, StartTx PROVE Inv'
<1>0. /\ isEnb \in BOOLEAN /\ rxStarts \in BOOLEAN /\ receiving \in BOOLEAN
      /\ busyEnds \in Nat /\ idleFor \in Int
      /\ events \in Seq(Events) /\ InOrder(events) /\ Single(events)
      /\ Tracks(events, power, changes, firstPower)
      /\ RisesArePast(changes, receiving /\ ~DataEnds)
      /\ AllFit(events, state, busyEnds, idleFor, rxStarts)
      /\ LoudUntil(events, busyEnds)
  BY InvFacts
<1>1. PICK d \in Durations : Occupy(events, "TX", "EndTx", d)
  BY DEF StartTx
<1>2. /\ Free /\ isEnb' = isEnb /\ rxStarts' = rxStarts /\ receiving' = receiving
      /\ power' = power /\ changes' = changes /\ firstPower' = firstPower
  BY DEF StartTx, interference
<1>3. d \in Nat /\ d > 0
  BY SpectrumAssumption
<1>4. receiving = FALSE /\ ~HasEnd(events)
  BY <1>2, InvFacts
<1>5. RisesArePast(changes', FALSE)
  <2>1. (receiving /\ ~DataEnds) = FALSE
    BY <1>4
  <2> QED BY <1>0, <1>2, <2>1
<1>6. EndMatches("EndTx", "TX") /\ "TX" \in States /\ "EndTx" \in Kinds
  BY DEF EndMatches, States, Kinds
<1>7. /\ state' = "TX"
      /\ idleFor' = IF "TX" = "RX_UL_SRS" THEN idleFor ELSE Occupied(d)
      /\ events' = Insert(events, Event("EndTx", d)) /\ busyEnds' = busyEnds
  BY <1>1 DEF Occupy
<1>8. receiving' = ("TX" = "RX_DATA")
  BY <1>2, <1>4
<1>9. Tracks(events, power', changes', firstPower')
  BY <1>0, <1>2
<1> QED BY <1>0, <1>2, <1>3, <1>4, <1>5, <1>6, <1>7, <1>8, <1>9, Begins

LEMMA StartRxAnotherInv == ASSUME Inv, StartRxAnother PROVE Inv'
<1>0. /\ isEnb \in BOOLEAN /\ rxStarts \in BOOLEAN /\ receiving \in BOOLEAN
      /\ busyEnds \in Nat /\ idleFor \in Int /\ events \in Seq(Events)
      /\ AllFit(events, state, busyEnds, idleFor, rxStarts)
      /\ LoudUntil(events, busyEnds) /\ Waits(events, state, busyEnds, idleFor)
      /\ Single(events)
  BY InvFacts
<1>1. PICK i \in DOMAIN events, p \in Powers :
         /\ events[i].kind \in {"EndRxData", "EndRxCtrl"}
         /\ AddSignal(p, events[i].at)
         /\ events' = WithEndOf(p, events[i].at)
         /\ idleFor' = IF state = "RX_DATA" THEN Occupied(events[i].at) ELSE idleFor
  BY DEF StartRxAnother
<1>2. /\ rxStarts = TRUE /\ state \in {"RX_DATA", "RX_UL_CTRL"} /\ isEnb' = isEnb
      /\ state' = state /\ receiving' = receiving /\ rxStarts' = rxStarts
      /\ busyEnds' = busyEnds
  BY <1>0, <1>1 DEF StartRxAnother, AddSignal
<1>3. PICK d \in Nat : d = events[i].at
  BY <1>0, KindFacts
<1>4. IsEnd(events[i]) /\ Fits(events[i], state, busyEnds, idleFor, TRUE)
  BY <1>0, <1>1, <1>2 DEF AllFit, IsEnd
<1>5. d > 0
  BY <1>3, <1>4 DEF Fits
<1>6. PICK q : q = WithEndOf(p, d)
  OBVIOUS
<1>7. Heard(q, p, d)
  <2>1. AddSignal(p, d)
    BY <1>1, <1>3
  <2> QED BY <1>5, <1>6, <2>1, SignalHeard
<1>8. events' = q
  BY <1>1, <1>3, <1>6
<1>9. idleFor' \in Int /\ idleFor' <= idleFor /\ idleFor' \in {idleFor, Occupied(d)}
  BY <1>0, <1>1, <1>3 DEF Occupied
<1>10. ~DataEnds
  <2>1. ASSUME NEW j \in DOMAIN events, events[j].at = 0, events[j].kind = "EndRxData" PROVE FALSE
    <3>1. Fits(events[j], state, busyEnds, idleFor, TRUE) /\ IsEnd(events[j])
      BY <1>0, <1>2, <2>1 DEF AllFit, IsEnd
    <3> QED BY <2>1, <3>1 DEF Fits
  <2> QED BY <2>1 DEF DataEnds
<1>11. RisesArePast(changes', receiving /\ ~DataEnds)
  <2>1. (receiving /\ ~DataEnds) = receiving
    BY <1>0, <1>10
  <2> QED BY <1>7, <2>1 DEF Heard
<1>12. AllFit(events, state, busyEnds, idleFor', rxStarts)
  <2> SUFFICES ASSUME NEW j \in DOMAIN events
               PROVE  Fits(events[j], state, busyEnds, idleFor', rxStarts)
    BY DEF AllFit
  <2>1. Fits(events[j], state, busyEnds, idleFor, rxStarts) /\ events[j].at \in Int
    BY <1>0, EventTypes DEF AllFit
  <2> QED BY <1>0, <1>9, <2>1 DEF Fits
<1>13. /\ Tracks(events', power', changes', firstPower') /\ Single(events')
       /\ AllFit(events', state, busyEnds, idleFor', rxStarts)
       /\ LoudUntil(events', busyEnds)
       /\ HasEnd(events') <=> HasEnd(events)
       /\ HasCheck(events') <=> HasCheck(events)
       /\ EndsData(events') => EndsData(events)
  BY <1>0, <1>7, <1>8, <1>12 DEF Heard
<1> QED BY <1>0, <1>2, <1>9, <1>11, <1>13, SameState

\* A signal ends.
LEMMA DoSubtractSignalInv == ASSUME Inv, DoSubtractSignal PROVE Inv'
<1>0. /\ rxStarts \in BOOLEAN /\ receiving \in BOOLEAN /\ idleFor \in Int
      /\ busyEnds \in Nat /\ state \in States /\ isEnb \in BOOLEAN
      /\ events \in Seq(Events)
      /\ Tracks(events, power, changes, firstPower)
      /\ RisesArePast(changes, receiving /\ ~DataEnds)
      /\ AllFit(events, state, busyEnds, idleFor, rxStarts)
      /\ Single(events) /\ LoudUntil(events, busyEnds)
      /\ Waits(events, state, busyEnds, idleFor)
  BY InvFacts
<1>1. /\ events # <<>> /\ Head(events).at = 0 /\ Head(events).kind = "DoSubtractSignal"
      /\ power' = power - Head(events).power /\ events' = Tail(events)
      /\ isEnb' = isEnb /\ state' = state /\ firstPower' = firstPower /\ changes' = changes
      /\ receiving' = receiving /\ rxStarts' = rxStarts /\ busyEnds' = busyEnds
      /\ idleFor' = idleFor
  BY DEF DoSubtractSignal, Due, fixed
<1>2. PICK r : r = Tail(events)
  OBVIOUS
<1>3. /\ Head(events) = events[1] /\ 1 \in DOMAIN events /\ events[1] \in Events
      /\ Spread(r, events, 1) /\ r \in Seq(Events)
      /\ Tracks(r, power - events[1].power, changes, firstPower)
      /\ \A t \in Nat : Air(r, t) = Air(events, t)
      /\ LoudUntil(events, busyEnds) => LoudUntil(r, busyEnds)
      /\ EndsData(r) => EndsData(events)
  BY <1>0, <1>1, <1>2, HeadOff
<1>4. ~IsEnd(events[1]) /\ ~IsCheck(events[1])
  BY <1>1, <1>3, KindFacts
<1>5. 1 \in Nat
  OBVIOUS
<1>6. /\ Single(r)
      /\ AllFit(r, state, busyEnds, idleFor, rxStarts)
      /\ HasEnd(r) <=> HasEnd(events)
      /\ HasCheck(r) <=> HasCheck(events)
  BY <1>0, <1>3, <1>4, <1>5, SpreadDown
<1>7. Tracks(events', power', changes', firstPower')
  BY <1>1, <1>2, <1>3
<1>8. state = "IDLE" => Air(events', 0) <= Threshold
  BY <1>0, <1>1, <1>2, <1>3 DEF Waits
<1>9. state = "CCA_BUSY" => idleFor' <= -busyEnds
  BY <1>0, <1>1 DEF Waits
<1>10. /\ Single(events') /\ AllFit(events', state, busyEnds, idleFor', rxStarts)
       /\ LoudUntil(events', busyEnds)
       /\ HasEnd(events') <=> HasEnd(events)
       /\ HasCheck(events') <=> HasCheck(events)
       /\ EndsData(events') => EndsData(events)
       /\ RisesArePast(changes', receiving /\ ~DataEnds)
       /\ idleFor' \in Int
  BY <1>0, <1>1, <1>2, <1>3, <1>6
<1> QED BY <1>0, <1>1, <1>7, <1>8, <1>9, <1>10, SameState

\* A reception or a transmission ends: the check has come before it, if both are due.
LEMMA EndsInv ==
    ASSUME Inv, NoTie, events # <<>>, Head(events).at = 0, IsEnd(Head(events)),
           MaybeCcaBusy(Tail(events), EnergyNow),
           isEnb' = isEnb, rxStarts' = rxStarts,
           power' = power, changes' = changes, firstPower' = firstPower,
           receiving' = FALSE, ~(receiving /\ ~DataEnds)
    PROVE  Inv'
<1>0. /\ rxStarts \in BOOLEAN /\ idleFor \in Int /\ receiving \in BOOLEAN
      /\ busyEnds \in Nat /\ isEnb \in BOOLEAN
      /\ events \in Seq(Events) /\ InOrder(events)
      /\ Tracks(events, power, changes, firstPower)
      /\ RisesArePast(changes, receiving /\ ~DataEnds)
      /\ AllFit(events, state, busyEnds, idleFor, rxStarts)
      /\ Single(events) /\ LoudUntil(events, busyEnds)
      /\ Waits(events, state, busyEnds, idleFor)
  BY InvFacts
<1>2. PICK r : r = Tail(events)
  OBVIOUS
<1>3. /\ Head(events) = events[1] /\ 1 \in DOMAIN events /\ events[1] \in Events
      /\ Spread(r, events, 1) /\ r \in Seq(Events)
      /\ Tracks(r, power - events[1].power, changes, firstPower)
      /\ LoudUntil(events, busyEnds) => LoudUntil(r, busyEnds)
  BY <1>0, <1>2, HeadOff
<1>4. events[1].at = 0 /\ IsEnd(events[1]) /\ ~IsCheck(events[1]) /\ events[1].power = 0
  BY <1>0, <1>3, KindFacts DEF AllFit, Fits
<1>5. 1 \in Nat
  OBVIOUS
<1>6. /\ Single(r) /\ ~HasEnd(r) /\ AllFit(r, state, busyEnds, idleFor, rxStarts)
      /\ HasCheck(r) <=> HasCheck(events)
  BY <1>0, <1>3, <1>4, <1>5, SpreadDown
<1>7. \A i \in DOMAIN r : IsCheck(r[i]) => r[i].power = 0 /\ r[i].at = busyEnds
  BY <1>6 DEF AllFit, Fits
<1>8. busyEnds = 0 => ~HasCheck(events)
  <2> SUFFICES ASSUME busyEnds = 0, NEW i \in DOMAIN events, IsCheck(events[i]) PROVE FALSE
    BY DEF HasCheck
  <2>1. events[i].at = 0
    BY <1>0 DEF AllFit, Fits
  <2>2. i < 1
    BY <1>0, <1>3, <1>4, <2>1 DEF Single
  <2>3. i \in 1 .. Len(events)
    BY <1>0
  <2> QED BY <2>2, <2>3
<1>9. Ready(r, busyEnds)
  <2>1. busyEnds > 0 => HasCheck(r)
    BY <1>0, <1>6 DEF Waits
  <2>2. HasCheck(r) => busyEnds > 0
    BY <1>0, <1>6, <1>8
  <2> QED BY <1>0, <1>3, <1>6, <1>7, <2>1, <2>2 DEF Ready
<1>10. Tracks(r, power, changes, firstPower)
  <2>1. power - events[1].power = power
    <3>1. power \in Int
      BY <1>0, PoweredType DEF Tracks
    <3> QED BY <1>4, <3>1
  <2> QED BY <1>3, <2>1
<1>11. RisesArePast(changes, FALSE)
  <2>1. (receiving /\ ~DataEnds) = FALSE
    OBVIOUS
  <2> QED BY <1>0, <2>1
<1>12. power # Threshold
  BY <1>0, NotThreshold
<1>13. PICK d : d = EnergyDuration(power, changes, firstPower)
  OBVIOUS
<1>14. MaybeCcaBusy(r, d)
  BY <1>2, <1>13 DEF EnergyNow
<1>15. /\ Tracks(events', power, changes, firstPower)
       /\ Settles(events', state', busyEnds', idleFor')
  BY <1>0, <1>9, <1>10, <1>11, <1>12, <1>13, <1>14, MaybeSettles
<1>16. /\ Tracks(events', power', changes', firstPower') /\ RisesArePast(changes', FALSE)
       /\ isEnb' \in BOOLEAN /\ rxStarts' \in BOOLEAN
  BY <1>0, <1>11, <1>15
<1> QED BY <1>15, <1>16, SettledInv

LEMMA AllEndsInv ==
    ASSUME Inv, NoTie, EndTx \/ EndRxData \/ EndRxCtrl \/ EndRxSrs
    PROVE  Inv'
<1>0. /\ receiving \in BOOLEAN /\ (receiving <=> state = "RX_DATA")
      /\ events \in Seq(Events)
      /\ AllFit(events, state, busyEnds, idleFor, rxStarts)
  BY InvFacts
<1>1. ASSUME events # <<>> PROVE Head(events) = events[1] /\ 1 \in DOMAIN events
  BY <1>0, <1>1
<1>2. ASSUME events # <<>>, IsEnd(Head(events)) PROVE EndMatches(Head(events).kind, state)
  BY <1>0, <1>1, <1>2 DEF AllFit, Fits
<1>3. CASE EndRxData
  <2>1. /\ events # <<>> /\ Head(events).at = 0 /\ Head(events).kind = "EndRxData"
        /\ MaybeCcaBusy(Tail(events), EnergyNow) /\ receiving' = FALSE
        /\ isEnb' = isEnb /\ rxStarts' = rxStarts
        /\ power' = power /\ changes' = changes /\ firstPower' = firstPower
    BY <1>3 DEF EndRxData, Due, fixed, interference
  <2>2. IsEnd(Head(events))
    BY <2>1 DEF IsEnd
  <2>3. DataEnds
    BY <1>1, <2>1 DEF DataEnds
  <2> QED BY <2>1, <2>2, <2>3, EndsInv
<1>4. CASE EndTx \/ EndRxCtrl \/ EndRxSrs
  <2>1. /\ events # <<>> /\ Head(events).at = 0
        /\ Head(events).kind \in {"EndTx", "EndRxCtrl", "EndRxSrs"}
        /\ MaybeCcaBusy(Tail(events), EnergyNow) /\ receiving' = receiving
        /\ isEnb' = isEnb /\ rxStarts' = rxStarts
        /\ power' = power /\ changes' = changes /\ firstPower' = firstPower
    BY <1>4 DEF EndTx, EndRxCtrl, EndRxSrs, Due, fixed, interference
  <2>2. IsEnd(Head(events))
    BY <2>1 DEF IsEnd
  <2>3. EndMatches(Head(events).kind, state)
    BY <1>2, <2>1, <2>2
  <2>4. state # "RX_DATA"
    BY <2>1, <2>3 DEF EndMatches
  <2>5. receiving = FALSE
    BY <1>0, <2>4
  <2> QED BY <2>1, <2>2, <2>5, EndsInv
<1> QED BY <1>3, <1>4

\* The check: when it is due the busy time is over.
LEMMA CheckInv == ASSUME Inv, NoTie, CheckIfStillBusy PROVE Inv'
<1>0. /\ isEnb \in BOOLEAN /\ rxStarts \in BOOLEAN /\ receiving \in BOOLEAN
      /\ idleFor \in Int /\ busyEnds \in Nat /\ state \in States
      /\ events \in Seq(Events) /\ (receiving <=> state = "RX_DATA")
      /\ Tracks(events, power, changes, firstPower)
      /\ RisesArePast(changes, receiving /\ ~DataEnds)
      /\ AllFit(events, state, busyEnds, idleFor, rxStarts)
      /\ Single(events) /\ LoudUntil(events, busyEnds)
      /\ Waits(events, state, busyEnds, idleFor)
      /\ Free => ~HasEnd(events) /\ ~receiving
  BY InvFacts
<1>1. /\ events # <<>> /\ Head(events).at = 0 /\ Head(events).kind = "CheckIfStillBusy"
      /\ isEnb' = isEnb /\ receiving' = receiving /\ rxStarts' = rxStarts
      /\ power' = power /\ firstPower' = firstPower /\ changes' = changes
  BY DEF CheckIfStillBusy, Due, fixed, interference
<1>2. PICK r : r = Tail(events)
  OBVIOUS
<1>3. /\ Head(events) = events[1] /\ 1 \in DOMAIN events /\ events[1] \in Events
      /\ Spread(r, events, 1) /\ r \in Seq(Events)
      /\ Tracks(r, power - events[1].power, changes, firstPower)
      /\ LoudUntil(events, busyEnds) => LoudUntil(r, busyEnds)
      /\ EndsData(r) => EndsData(events)
  BY <1>0, <1>1, <1>2, HeadOff
<1>4. IsCheck(events[1]) /\ ~IsEnd(events[1])
  BY <1>1, <1>3, KindFacts
<1>5. events[1].power = 0 /\ busyEnds = 0
  BY <1>0, <1>1, <1>3, <1>4 DEF AllFit, Fits
<1>6. 1 \in Nat
  OBVIOUS
<1>7. /\ Single(r) /\ AllFit(r, state, busyEnds, idleFor, rxStarts) /\ ~HasCheck(r)
      /\ HasEnd(r) <=> HasEnd(events)
  BY <1>0, <1>3, <1>4, <1>6, SpreadDown
<1>8. Tracks(r, power, changes, firstPower)
  <2>1. power - events[1].power = power
    <3>1. power \in Int
      BY <1>0, PoweredType DEF Tracks
    <3> QED BY <1>5, <3>1
  <2> QED BY <1>3, <2>1
<1>9. CASE state = "CCA_BUSY"
  <2>1. PICK d : d = EnergyDuration(power, changes, firstPower)
    OBVIOUS
  <2>2. MaybeCcaBusy(r, d)
    BY <1>2, <1>9, <2>1 DEF CheckIfStillBusy, EnergyNow
  <2>3. receiving = FALSE /\ ~HasEnd(events)
    BY <1>0, <1>9 DEF Free
  <2>4. RisesArePast(changes, FALSE)
    <3>1. (receiving /\ ~DataEnds) = FALSE
      BY <2>3
    <3> QED BY <1>0, <3>1
  <2>5. Ready(r, busyEnds)
    BY <1>0, <1>3, <1>5, <1>7, <2>3 DEF Ready, HasCheck
  <2>6. power # Threshold
    BY <1>0, NotThreshold
  <2>7. /\ Tracks(events', power, changes, firstPower)
        /\ Settles(events', state', busyEnds', idleFor')
    BY <1>0, <1>8, <2>1, <2>2, <2>4, <2>5, <2>6, MaybeSettles
  <2>8. /\ Tracks(events', power', changes', firstPower') /\ RisesArePast(changes', FALSE)
        /\ isEnb' \in BOOLEAN /\ rxStarts' \in BOOLEAN /\ receiving' = FALSE
    BY <1>0, <1>1, <2>3, <2>4, <2>7
  <2> QED BY <2>7, <2>8, SettledInv
<1>10. CASE state # "CCA_BUSY"
  <2>1. /\ events' = r /\ state' = state /\ busyEnds' = busyEnds /\ idleFor' = idleFor
    BY <1>2, <1>10 DEF CheckIfStillBusy
  <2>2. state # "IDLE"
    BY <1>0, <1>3, <1>4 DEF Waits, HasCheck
  <2>3. Waits(r, state, busyEnds, idleFor)
    BY <1>0, <1>5, <1>7, <1>10, <2>2 DEF Waits
  <2>4. RisesArePast(changes', (receiving /\ ~DataEnds)')
    <3>1. DataEnds' => DataEnds
      BY <1>3, <2>1, DataEndsNow
    <3>2. PICK v \in BOOLEAN : v = (receiving /\ ~DataEnds)'
      OBVIOUS
    <3>3. PICK u \in BOOLEAN : u = (receiving /\ ~DataEnds)
      OBVIOUS
    <3>4. u => v
      BY <1>1, <3>1, <3>2, <3>3
    <3> QED BY <1>0, <1>1, <3>2, <3>3, <3>4, RisesWeaker
  <2>5. Types'
    BY <1>0, <1>1, <2>1 DEF Types
  <2>6. /\ Tracks(events', power', changes', firstPower')
        /\ (receiving <=> state = "RX_DATA")'
        /\ AllFit(events', state', busyEnds', idleFor', rxStarts')
        /\ Single(events') /\ LoudUntil(events', busyEnds')
        /\ Waits(events', state', busyEnds', idleFor')
    BY <1>0, <1>1, <1>3, <1>7, <1>8, <2>1, <2>3
  <2> QED BY <2>4, <2>5, <2>6 DEF Inv
<1> QED BY <1>9, <1>10

\* The access manager senses only when the radio is IDLE.
LEMMA SensedWhenIdle ==
    ASSUME Inv, idleFor >= Defer, state # "RX_UL_SRS"
    PROVE  state = "IDLE"
<1>0. /\ idleFor \in Int /\ busyEnds \in Nat /\ state \in States /\ events \in Seq(Events)
      /\ AllFit(events, state, busyEnds, idleFor, rxStarts)
      /\ Waits(events, state, busyEnds, idleFor)
  BY InvFacts
<1>1. idleFor > 0
  BY <1>0, SpectrumAssumption
<1>2. state # "CCA_BUSY"
  BY <1>0, <1>1 DEF Waits
<1>3. ~HasEnd(events)
  <2> SUFFICES ASSUME NEW i \in DOMAIN events, IsEnd(events[i]) PROVE FALSE
    BY DEF HasEnd
  <2>1. idleFor <= -events[i].at /\ events[i].at \in Nat
    BY <1>0, KindFacts DEF AllFit, Fits
  <2> QED BY <1>0, <1>1, <2>1
<1> QED BY <1>0, <1>2, <1>3 DEF Waits

LEMMA ForceSensingInv == ASSUME Inv, NoTie, ~SrsWhileSensing, ForceSensing PROVE Inv'
<1>0. /\ isEnb \in BOOLEAN /\ rxStarts \in BOOLEAN /\ idleFor \in Int /\ busyEnds \in Nat
      /\ events \in Seq(Events)
      /\ Tracks(events, power, changes, firstPower)
      /\ RisesArePast(changes, receiving /\ ~DataEnds)
      /\ Single(events) /\ LoudUntil(events, busyEnds)
  BY InvFacts
<1>1. /\ idleFor >= Defer /\ state # "RX_UL_SRS" /\ MaybeCcaBusy(events, EnergyNow)
      /\ isEnb' = isEnb /\ receiving' = receiving /\ rxStarts' = rxStarts
      /\ power' = power /\ firstPower' = firstPower /\ changes' = changes
  BY DEF ForceSensing, fixed, interference
<1>2. state = "IDLE"
  BY <1>1, SensedWhenIdle
<1>3. ~receiving /\ ~HasEnd(events) /\ ~HasCheck(events) /\ busyEnds = 0
  BY <1>2, LoudAtZero
<1>4. receiving = FALSE
  BY <1>3, InvFacts
<1>5. RisesArePast(changes, FALSE)
  <2>1. (receiving /\ ~DataEnds) = FALSE
    BY <1>4
  <2> QED BY <1>0, <2>1
<1>6. Ready(events, busyEnds)
  BY <1>0, <1>3 DEF Ready, HasCheck
<1>7. PICK d : d = EnergyDuration(power, changes, firstPower)
  OBVIOUS
<1>8. MaybeCcaBusy(events, d)
  BY <1>1, <1>7 DEF EnergyNow
<1>9. power # Threshold
  BY <1>0, NotThreshold
<1>10. /\ Tracks(events', power, changes, firstPower)
       /\ Settles(events', state', busyEnds', idleFor')
  BY <1>0, <1>5, <1>6, <1>7, <1>8, <1>9, MaybeSettles
<1>11. /\ Tracks(events', power', changes', firstPower') /\ RisesArePast(changes', FALSE)
       /\ isEnb' \in BOOLEAN /\ rxStarts' \in BOOLEAN /\ receiving' = FALSE
  BY <1>0, <1>1, <1>4, <1>5, <1>10
<1> QED BY <1>10, <1>11, SettledInv

\* A queue an instant later.
Earlier(q, r) ==
    /\ DOMAIN r = DOMAIN q
    /\ \A i \in DOMAIN q : /\ q[i].at \in Nat /\ q[i].at > 0 /\ r[i].at = q[i].at - 1
                           /\ r[i].power = q[i].power /\ r[i].kind = q[i].kind

LEMMA TickInv == ASSUME Inv, Tick PROVE Inv'
<1>0. /\ isEnb \in BOOLEAN /\ receiving \in BOOLEAN
      /\ idleFor \in Int /\ busyEnds \in Nat /\ state \in States
      /\ events \in Seq(Events) /\ (receiving <=> state = "RX_DATA")
      /\ Tracks(events, power, changes, firstPower)
      /\ RisesArePast(changes, TRUE)
      /\ AllFit(events, state, busyEnds, idleFor, rxStarts)
      /\ Single(events) /\ LoudUntil(events, busyEnds)
      /\ Waits(events, state, busyEnds, idleFor)
  BY InvFacts
<1>1. /\ \A i \in DOMAIN events : events[i].at > 0
      /\ events' = [i \in DOMAIN events |-> [events[i] EXCEPT !.at = @ - 1]]
      /\ changes' = [i \in DOMAIN changes |->
                        [changes[i] EXCEPT !.at = IF @ < 0 THEN @ ELSE @ - 1]]
      /\ busyEnds' = IF busyEnds = 0 THEN 0 ELSE busyEnds - 1
      /\ idleFor' = IF idleFor < Defer THEN idleFor + 1 ELSE idleFor
      /\ rxStarts' = FALSE
      /\ isEnb' = isEnb /\ state' = state /\ power' = power /\ firstPower' = firstPower
      /\ receiving' = receiving
  BY DEF Tick, fixed
<1>2. /\ Len(events') = Len(events) /\ DOMAIN events = 1 .. Len(events)
      /\ events' \in Seq(Events)
      /\ \A i \in 1 .. Len(events) :
           /\ events'[i].at = events[i].at - 1 /\ events'[i].power = events[i].power
           /\ events[i].at \in Int /\ events[i].at > 0
  BY <1>0, <1>1, TickedEvents
<1>c. changes \in Seq(Changes)
  BY <1>0 DEF Tracks
<1>3. /\ Len(changes') = Len(changes) /\ changes' \in Seq(Changes)
      /\ \A i \in 1 .. Len(changes) :
            /\ changes'[i].at = IF changes[i].at < 0 THEN changes[i].at ELSE changes[i].at - 1
            /\ changes'[i].delta = changes[i].delta /\ changes[i].at \in Int
  BY <1>1, <1>c, TickedChanges
<1>4. /\ Tracks(events', power, changes', firstPower)
      /\ \A t \in Int : Air(events', t) = Air(events, t + 1)
      /\ \A unless : RisesArePast(changes, unless) => RisesArePast(changes', FALSE)
  BY <1>0, <1>2, <1>3, TracksTicked
<1>5. Earlier(events, events')
  <2>1. DOMAIN events' = DOMAIN events
    BY <1>1
  <2>2. ASSUME NEW i \in DOMAIN events PROVE events'[i].kind = events[i].kind
    <3>1. events[i] \in Events /\ events[i].at > 0
      BY <1>0, <1>1
    <3>2. events'[i] = [events[i] EXCEPT !.at = @ - 1]
      BY <1>1
    <3> QED BY <3>1, <3>2, TickedTypes
  <2>3. ASSUME NEW i \in DOMAIN events PROVE events[i].at \in Nat
    BY <1>0, KindFacts
  <2> QED BY <1>2, <2>1, <2>2, <2>3 DEF Earlier
<1>6. /\ busyEnds' \in Nat /\ (busyEnds' > 0 => busyEnds > 0)
      /\ (busyEnds > 0 => busyEnds' = busyEnds - 1)
      /\ idleFor' \in Int /\ idleFor' <= idleFor + 1
  <2>1. Defer \in Int
    BY SpectrumAssumption
  <2> QED BY <1>0, <1>1, <2>1
<1>7. RisesArePast(changes', (receiving /\ ~DataEnds)')
  <2>1. PICK v \in BOOLEAN : v = (receiving /\ ~DataEnds)'
    OBVIOUS
  <2>2. RisesArePast(changes', FALSE)
    BY <1>0, <1>4
  <2> QED BY <2>1, <2>2, RisesWeaker
<1>8. AllFit(events', state, busyEnds', idleFor', FALSE)
  <2> SUFFICES ASSUME NEW i \in DOMAIN events
               PROVE  Fits(events'[i], state, busyEnds', idleFor', FALSE)
    BY <1>5 DEF AllFit, Earlier
  <2>1. /\ Fits(events[i], state, busyEnds, idleFor, rxStarts)
        /\ events[i].at \in Nat /\ events[i].at > 0 /\ events'[i].at = events[i].at - 1
        /\ events'[i].power = events[i].power /\ events'[i].kind = events[i].kind
    BY <1>0, <1>5 DEF AllFit, Earlier
  <2>2. IsEnd(events'[i]) <=> IsEnd(events[i])
    BY <2>1 DEF IsEnd
  <2>3. IsCheck(events'[i]) <=> IsCheck(events[i])
    BY <2>1 DEF IsCheck
  <2>4. ASSUME IsEnd(events[i]), state # "RX_UL_SRS" PROVE idleFor' <= -(events'[i].at)
    <3>1. idleFor <= -(events[i].at)
      BY <2>1, <2>4 DEF Fits
    <3> QED BY <1>0, <1>6, <2>1, <3>1
  <2>5. ASSUME IsCheck(events[i]) PROVE events[i].power = 0 /\ events'[i].at = busyEnds'
    <3>1. events[i].power = 0 /\ events[i].at = busyEnds
      BY <2>1, <2>5 DEF Fits
    <3> QED BY <1>6, <2>1, <3>1
  <2>6. IsEnd(events[i]) => events[i].power = 0 /\ EndMatches(events[i].kind, state)
    BY <2>1 DEF Fits
  <2> QED BY <2>1, <2>2, <2>3, <2>4, <2>5, <2>6 DEF Fits
<1>9. \A i \in DOMAIN events : /\ IsEnd(events'[i]) <=> IsEnd(events[i])
                               /\ IsCheck(events'[i]) <=> IsCheck(events[i])
  BY <1>5 DEF Earlier, IsEnd, IsCheck
<1>10. HasEnd(events') <=> HasEnd(events)
  BY <1>5, <1>9 DEF HasEnd, Earlier
<1>11. HasCheck(events') <=> HasCheck(events)
  BY <1>5, <1>9 DEF HasCheck, Earlier
<1>12. Single(events')
  <2>1. DOMAIN events' = DOMAIN events
    BY <1>5 DEF Earlier
  <2>2. \A i, j \in DOMAIN events : events'[i].at = events'[j].at => events[i].at = events[j].at
    BY <1>5 DEF Earlier
  <2> QED BY <1>0, <1>9, <2>1, <2>2 DEF Single
<1>13. LoudUntil(events', busyEnds')
  <2> SUFFICES ASSUME NEW t \in Nat, t < busyEnds' PROVE Air(events', t) >= Threshold
    BY DEF LoudUntil
  <2>1. t + 1 \in Nat /\ t + 1 < busyEnds /\ t \in Int
    BY <1>0, <1>6
  <2>2. Air(events, t + 1) >= Threshold
    BY <1>0, <2>1 DEF LoudUntil
  <2> QED BY <1>4, <2>1, <2>2
<1>14. state = "IDLE" => Air(events', 0) <= Threshold
  <2> SUFFICES ASSUME state = "IDLE" PROVE Air(events', 0) <= Threshold
    OBVIOUS
  <2>1. 0 \in Int /\ 1 \in Int /\ 0 <= 1 /\ 0 + 1 = 1
    OBVIOUS
  <2>2. Air(events', 0) = Air(events, 1)
    BY <1>4, <2>1
  <2>3. Air(events, 1) <= Air(events, 0) /\ Air(events, 0) \in Int /\ Air(events, 1) \in Int
    BY <1>0, <2>1, AirFalls, PoweredType
  <2>4. Air(events, 0) <= Threshold /\ Threshold \in Int
    BY <1>0, SpectrumAssumption DEF Waits
  <2> QED BY <2>2, <2>3, <2>4
<1>15. state = "CCA_BUSY" => idleFor' <= -busyEnds'
  <2> SUFFICES ASSUME state = "CCA_BUSY" PROVE idleFor' <= -busyEnds'
    OBVIOUS
  <2>1. HasCheck(events) /\ idleFor <= -busyEnds
    BY <1>0 DEF Waits
  <2>2. PICK i \in DOMAIN events : IsCheck(events[i])
    BY <2>1 DEF HasCheck
  <2>3. busyEnds > 0
    BY <1>0, <1>1, <2>2 DEF AllFit, Fits
  <2> QED BY <1>0, <1>6, <2>1, <2>3
<1>16. Waits(events', state, busyEnds', idleFor')
  BY <1>0, <1>6, <1>10, <1>11, <1>14, <1>15 DEF Waits
<1>17. Types'
  BY <1>0, <1>1, <1>6 DEF Types
<1>18. /\ Tracks(events', power', changes', firstPower')
       /\ (receiving <=> state = "RX_DATA")'
       /\ AllFit(events', state', busyEnds', idleFor', rxStarts')
       /\ Waits(events', state', busyEnds', idleFor')
  BY <1>0, <1>1, <1>4, <1>8, <1>16
<1> QED BY <1>7, <1>12, <1>13, <1>17, <1>18 DEF Inv

LEMMA TracksNothing == Tracks(<<>>, 0, <<>>, 0) /\ \A t \in Int : Air(<<>>, t) = 0
<1>1. <<>> \in Seq(Events) /\ <<>> \in Seq(Changes) /\ <<>> \in Seq(Int) /\ Len(<<>>) = 0
  OBVIOUS
<1>2. DOMAIN <<>> = {}
  OBVIOUS
<1>4. ASSUME NEW t \in Int PROVE Air(<<>>, t) = 0
  <2>1. Powered(<<>>, t) \in Seq(Int) /\ Len(Powered(<<>>, t)) = 0
    BY <1>1, PoweredType
  <2>2. \A i \in 1 .. Len(Powered(<<>>, t)) : Powered(<<>>, t)[i] = 0
    BY <2>1
  <2> QED BY <2>1, <2>2, SumOfZeros DEF Air
<1>5. ASSUME NEW t \in Nat PROVE PowerAt(<<>>, 0, t) = 0
  <2>1. t \in Int
    OBVIOUS
  <2>2. Changed(<<>>, t) \in Seq(Int) /\ Len(Changed(<<>>, t)) = 0
    BY <1>1, <2>1, ChangedType
  <2>3. \A i \in 1 .. Len(Changed(<<>>, t)) : Changed(<<>>, t)[i] = 0
    BY <2>2
  <2>4. Sum(Changed(<<>>, t)) = 0
    BY <2>2, <2>3, SumOfZeros
  <2> QED BY <2>4 DEF PowerAt
<1>6. InOrder(<<>>) /\ Listed(<<>>, <<>>)
  BY <1>2 DEF InOrder, Listed
<1>7. -1 \in Int /\ 0 \in Int /\ \A t \in Nat : t \in Int
  OBVIOUS
<1> QED BY <1>1, <1>4, <1>5, <1>6, <1>7 DEF Tracks

LEMMA InitInv == ASSUME Init PROVE Inv
<1>1. /\ isEnb \in BOOLEAN /\ state = "IDLE" /\ power = 0 /\ firstPower = 0 /\ changes = <<>>
      /\ receiving = FALSE /\ rxStarts = FALSE /\ busyEnds = 0 /\ events = <<>> /\ idleFor = 0
  BY DEF Init
<1>2. DOMAIN events = {} /\ DOMAIN changes = {}
  BY <1>1
<1>3. Types
  <2>1. receiving \in BOOLEAN /\ rxStarts \in BOOLEAN
    BY <1>1
  <2>2. state \in States /\ busyEnds \in Nat /\ idleFor \in Int
    BY <1>1 DEF States
  <2> QED BY <1>1, <2>1, <2>2 DEF Types
<1>4. Tracks(events, power, changes, firstPower) /\ Air(events, 0) = 0
  BY <1>1, TracksNothing
<1>5. RisesArePast(changes, receiving /\ ~DataEnds)
  BY <1>2 DEF RisesArePast
<1>6. AllFit(events, state, busyEnds, idleFor, rxStarts) /\ Single(events)
  BY <1>2 DEF AllFit, Single
<1>7. LoudUntil(events, busyEnds)
  BY <1>1 DEF LoudUntil
<1>8. Waits(events, state, busyEnds, idleFor)
  <2>1. 0 <= Threshold
    BY SpectrumAssumption
  <2>2. ~HasCheck(events)
    BY <1>2 DEF HasCheck
  <2> QED BY <1>1, <1>4, <2>1, <2>2 DEF Waits
<1> QED BY <1>1, <1>3, <1>4, <1>5, <1>6, <1>7, <1>8 DEF Inv

LEMMA SameInv == ASSUME Inv, UNCHANGED vars PROVE Inv'
BY DEF Inv, Types, vars, Tracks, Listed, RisesArePast, DataEnds, AllFit, Fits, Single, LoudUntil,
       Waits, HasEnd, HasCheck, IsEnd, IsCheck

\* The radio, its queue and the list of its power changes agree.
THEOREM SpectrumInvariant ==
    ASSUME ~SrsWhileSensing, NoTie
    PROVE  Spec => []Inv
<1>1. Init => Inv
  BY InitInv
<1>2. Inv /\ [Next]_vars => Inv'
  <2> SUFFICES ASSUME Inv, [Next]_vars PROVE Inv'
    OBVIOUS
  <2>1. CASE StartRx
    BY <2>1, StartRxInv
  <2>2. CASE StartRxData \/ StartRxDlCtrl \/ StartRxUlCtrl \/ StartRxSrs
    BY <2>2, ReceptionsInv
  <2>3. CASE StartRxAnother
    BY <2>3, StartRxAnotherInv
  <2>4. CASE StartTx
    BY <2>4, StartTxInv
  <2>5. CASE DoSubtractSignal
    BY <2>5, DoSubtractSignalInv
  <2>6. CASE EndTx \/ EndRxData \/ EndRxCtrl \/ EndRxSrs
    BY <2>6, AllEndsInv
  <2>7. CASE CheckIfStillBusy
    BY <2>7, CheckInv
  <2>8. CASE ForceSensing
    BY <2>8, ForceSensingInv
  <2>9. CASE Tick
    BY <2>9, TickInv
  <2>10. CASE UNCHANGED vars
    BY <2>10, SameInv
  <2> QED BY <2>1, <2>2, <2>3, <2>4, <2>5, <2>6, <2>7, <2>8, <2>9, <2>10 DEF Next, Scheduled
<1> QED BY <1>1, <1>2, PTL DEF Spec

LEMMA InvNoFatal == ASSUME Inv PROVE NoFatal
<1>0. /\ events \in Seq(Events) /\ AllFit(events, state, busyEnds, idleFor, rxStarts)
      /\ Waits(events, state, busyEnds, idleFor)
  BY InvFacts
<1>1. ASSUME events # <<>>, IsEnd(Head(events)) PROVE EndMatches(Head(events).kind, state)
  <2>1. Head(events) = events[1] /\ 1 \in DOMAIN events
    BY <1>0, <1>1
  <2> QED BY <1>0, <1>1, <2>1 DEF AllFit, Fits
<1>2. Due("EndTx") => state = "TX"
  BY <1>1 DEF Due, IsEnd, EndMatches
<1>3. Due("EndRxCtrl") => state \in {"RX_DL_CTRL", "RX_UL_CTRL"}
  BY <1>1 DEF Due, IsEnd, EndMatches
<1>4. Due("EndRxSrs") => state = "RX_UL_SRS"
  BY <1>1 DEF Due, IsEnd, EndMatches
<1>5. state = "IDLE" => \A i \in DOMAIN events : ~IsCheck(events[i])
  BY <1>0 DEF Waits, HasCheck
<1> QED BY <1>2, <1>3, <1>4, <1>5 DEF NoFatal

\* No handler finds the radio in a state it does not expect.
THEOREM RadioNeverAborts ==
    ASSUME ~SrsWhileSensing, NoTie
    PROVE  Spec => []NoFatal
<1>1. Inv => NoFatal
  BY InvNoFatal
<1> QED BY <1>1, SpectrumInvariant, PTL

LEMMA InvExact == ASSUME Inv, NoTie PROVE EnergyDurationExact
<1> DEFINE ends == {0} \union {events[i].at : i \in DOMAIN events}
           quiet == {t \in ends : OnAirBeyond(t) < Threshold}
<1> SUFFICES ASSUME ~receiving
             PROVE  EnergyNow = CHOOSE t \in quiet : \A u \in quiet : t <= u
  BY DEF EnergyDurationExact
<1>0. /\ events \in Seq(Events) /\ Tracks(events, power, changes, firstPower)
      /\ RisesArePast(changes, receiving /\ ~DataEnds)
  BY InvFacts
<1>1. RisesArePast(changes, FALSE)
  <2>1. (receiving /\ ~DataEnds) = FALSE
    OBVIOUS
  <2> QED BY <1>0, <2>1
<1>2. PICK e : e = EnergyDuration(power, changes, firstPower)
  OBVIOUS
<1>3. ExactDuration(events, power, e)
  BY <1>0, <1>1, <1>2, Exact
<1>4. \A t : OnAirBeyond(t) = Air(events, t)
  BY DEF OnAirBeyond, Air, Powered
<1>5. power = Air(events, -1) /\ power \in Int /\ Threshold \in Int /\ power # Threshold
  <2>1. power # Threshold
    BY <1>0, NotThreshold
  <2> QED BY <1>0, <2>1, PoweredType, SpectrumAssumption DEF Tracks
<1>6. ends \subseteq Nat
  <2>1. \A i \in DOMAIN events : events[i].at \in Nat
    BY <1>0, KindFacts
  <2> QED BY <2>1
<1>7. e \in quiet /\ \A u \in quiet : e <= u
  <2>1. CASE power > Threshold
    <3>1. QuietFrom(events, e) /\ e \in Nat /\ \E i \in DOMAIN events : events[i].at = e
      BY <1>3, <2>1 DEF ExactDuration
    <3>2. e \in ends
      BY <3>1
    <3>3. Air(events, e) < Threshold /\ \A t \in Nat : t < e => Air(events, t) >= Threshold
      BY <3>1 DEF QuietFrom
    <3>4. e \in quiet
      BY <1>4, <3>2, <3>3
    <3>5. ASSUME NEW u \in quiet PROVE e <= u
      <4>1. u \in Nat /\ Air(events, u) < Threshold
        BY <1>4, <1>6
      <4>2. Air(events, u) \in Int
        BY <1>0, <4>1, PoweredType
      <4>3. ~(u < e)
        BY <1>5, <3>3, <4>1, <4>2
      <4> QED BY <3>1, <4>1, <4>3
    <3> QED BY <3>4, <3>5
  <2>2. CASE ~(power > Threshold)
    <3>1. e = 0 /\ power < Threshold
      BY <1>3, <1>5, <2>2 DEF ExactDuration
    <3>2. -1 \in Int /\ 0 \in Int /\ -1 <= 0
      OBVIOUS
    <3>3. Air(events, 0) <= power /\ Air(events, 0) \in Int
      BY <1>0, <1>5, <3>2, AirFalls, PoweredType
    <3>4. 0 \in quiet
      BY <1>4, <1>5, <3>1, <3>3
    <3> QED BY <1>6, <3>1, <3>4
  <2> QED BY <2>1, <2>2
<1> HIDE DEF quiet, ends
<1>8. quiet \subseteq Nat
  BY <1>6 DEF quiet
<1>9. ASSUME NEW t \in quiet, \A u \in quiet : t <= u PROVE t = e
  <2>1. t <= e /\ e <= t /\ t \in Nat /\ e \in Nat
    BY <1>7, <1>8, <1>9
  <2> QED BY <2>1
<1>10. e = CHOOSE t \in quiet : \A u \in quiet : t <= u
  BY <1>7, <1>9
<1> QED BY <1>2, <1>10 DEF EnergyNow

\* GetEnergyDuration is exact.
THEOREM EnergyDurationIsExact ==
    ASSUME ~SrsWhileSensing, NoTie
    PROVE  Spec => []EnergyDurationExact
<1>1. Inv => EnergyDurationExact
  BY InvExact
<1> QED BY <1>1, SpectrumInvariant, PTL

LEMMA InvHeard == ASSUME Inv PROVE HeardByManager
<1> SUFFICES ASSUME Settled, idleFor >= 0, state # "RX_UL_SRS"
             PROVE  power <= Threshold /\ (idleFor >= Defer => state = "IDLE" /\ EnergyNow = 0)
  BY DEF HeardByManager
<1>0. /\ idleFor \in Int /\ busyEnds \in Nat /\ state \in States /\ events \in Seq(Events)
      /\ Tracks(events, power, changes, firstPower)
      /\ AllFit(events, state, busyEnds, idleFor, rxStarts)
      /\ Waits(events, state, busyEnds, idleFor)
  BY InvFacts
<1>1. \A i \in DOMAIN events : events[i].at > 0 /\ events[i].at \in Nat
  BY <1>0, KindFacts DEF Settled
<1>2. state # "CCA_BUSY"
  <2> SUFFICES ASSUME state = "CCA_BUSY" PROVE FALSE
    OBVIOUS
  <2>1. PICK i \in DOMAIN events : IsCheck(events[i])
    BY <1>0 DEF Waits, HasCheck
  <2>2. busyEnds > 0
    BY <1>0, <1>1, <2>1 DEF AllFit, Fits
  <2>3. idleFor <= -busyEnds
    BY <1>0 DEF Waits
  <2> QED BY <1>0, <2>2, <2>3
<1>3. ~HasEnd(events)
  <2> SUFFICES ASSUME NEW i \in DOMAIN events, IsEnd(events[i]) PROVE FALSE
    BY DEF HasEnd
  <2>1. idleFor <= -events[i].at
    BY <1>0 DEF AllFit, Fits
  <2> QED BY <1>0, <1>1, <2>1
<1>4. state = "IDLE"
  BY <1>0, <1>2, <1>3 DEF Waits
<1>5. Air(events, 0) = Air(events, -1)
  <2>1. \A i \in DOMAIN events : events[i].at \in Int /\ events[i].at > 0
    BY <1>1
  <2>2. -1 \in Int /\ 0 \in Int /\ -1 <= 0
    OBVIOUS
  <2> QED BY <1>0, <2>1, <2>2, AirFalls
<1>6. power <= Threshold
  BY <1>0, <1>4, <1>5 DEF Waits, Tracks
<1>7. EnergyNow = 0
  <2>1. power \in Int /\ Threshold \in Int
    BY <1>0, PoweredType, SpectrumAssumption DEF Tracks
  <2>2. ~(power > Threshold)
    BY <1>6, <2>1
  <2> QED BY <2>2 DEF EnergyNow, EnergyDuration
<1> QED BY <1>4, <1>6, <1>7

\* What is on the air has been reported to the access manager.
THEOREM EnergyIsHeard ==
    ASSUME ~SrsWhileSensing, NoTie
    PROVE  Spec => []HeardByManager
<1>1. Inv => HeardByManager
  BY InvHeard
<1> QED BY <1>1, SpectrumInvariant, PTL

LEMMA InvWaitsEnd == ASSUME Inv PROVE WaitsEnd
<1> DEFINE checks == {i \in DOMAIN events : IsCheck(events[i])}
           ends == {i \in DOMAIN events : IsEnd(events[i])}
<1>1. /\ AllFit(events, state, busyEnds, idleFor, rxStarts)
      /\ Single(events)
      /\ Waits(events, state, busyEnds, idleFor)
  BY DEF Inv
<1>2. /\ \A i \in checks : events[i].at = busyEnds
      /\ \A i \in ends : EndMatches(events[i].kind, state)
  BY <1>1 DEF AllFit, Fits
<1>3. ends # {} => state \notin {"IDLE", "CCA_BUSY"}
  BY <1>2 DEF EndMatches
<1>4. /\ state = "CCA_BUSY" => checks # {}
      /\ state \notin {"IDLE", "CCA_BUSY"} => ends # {}
  BY <1>1 DEF Waits, HasCheck, HasEnd
<1>5. /\ \A i, j \in checks : i = j
      /\ \A i, j \in ends : i = j
  BY <1>1 DEF Single
<1>6. ends = {i \in DOMAIN events :
                 events[i].kind \in {"EndTx", "EndRxData", "EndRxCtrl", "EndRxSrs"}}
  BY DEF IsEnd
<1> HIDE DEF ends
<1> QED
  BY <1>2, <1>3, <1>4, <1>5, <1>6 DEF WaitsEnd

\* The safety half of "the radio returns to IDLE": NrSpectrumPhy never waits for an event
\* that is not scheduled, and never for two.
THEOREM RadioWaitsForOneEvent ==
    ASSUME ~SrsWhileSensing, NoTie
    PROVE  Spec => []WaitsEnd
<1> QED
  BY SpectrumInvariant, InvWaitsEnd, PTL

=============================================================================

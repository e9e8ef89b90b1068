------------------------- MODULE FeeAllocationsProofs -------------------------
(***************************************************************************)
(* Facts about the sums, plans and steps of FeeAllocations that the proofs *)
(* about FinanceCorrections and OnlinePayments rest on.  A sum is defined  *)
(* by recursion over a sequence of rows; what it computes is shown with    *)
(* the least number at which a claim about it would fail.                  *)
(***************************************************************************)
EXTENDS FeeAllocations, FiniteSetTheorems, SequenceTheorems, TLAPS

\* A set of naturals has a least element: the ranges 0..n are well-founded.
LEMMA LeastNatural ==
  ASSUME NEW T, T \subseteq Nat, T # {}
  PROVE  \E m \in T : \A k \in T : m <= k
<1> DEFINE U == {0..n : n \in T}
<1>1. U \subseteq FiniteSubsetsOf(Nat) /\ U # {}
  <2>1. \A n \in T : 0..n \subseteq Nat /\ IsFiniteSet(0..n)
    BY FS_Interval
  <2> QED
    BY <2>1 DEF FiniteSubsetsOf
<1>2. PICK x \in U : \A y \in U : <<y, x>> \notin StrictSubsetOrdering(Nat)
  <2> HIDE DEF U
  <2> QED
    BY <1>1, FS_StrictSubsetOrderingWellFounded, WFMin
<1>3. PICK m \in T : x = 0..m
  OBVIOUS
<1>4. ASSUME NEW k \in T, k < m PROVE FALSE
  <2>1. 0..k \in SUBSET Nat /\ 0..m \in SUBSET Nat
    OBVIOUS
  <2>2. 0..k \subseteq 0..m /\ m \in 0..m /\ m \notin 0..k
    BY <1>4
  <2>3. <<0..k, 0..m>> \in StrictSubsetOrdering(Nat)
    BY <2>1, <2>2 DEF StrictSubsetOrdering
  <2> QED
    BY <1>2, <1>3, <1>4, <2>3
<1> QED
  BY <1>4

-----------------------------------------------------------------------------
(***************************************************************************)
(* Sums over rows                                                          *)
(***************************************************************************)
IsSum(S, rows) ==
  /\ S \in [0..Len(rows) -> Int]
  /\ S[0] = 0
  /\ \A n \in 1..Len(rows) : S[n] = S[n - 1] + rows[n].amount

LEMMA SumExists ==
  ASSUME NEW rows, Len(rows) \in Nat, \A n \in 1..Len(rows) : rows[n].amount \in Int
  PROVE  \E S : IsSum(S, rows)
<1> DEFINE N == Len(rows)
           Sums(k, S) == /\ S \in [0..k -> Int]
                         /\ S[0] = 0
                         /\ \A n \in 1..k : S[n] = S[n - 1] + rows[n].amount
           Bad == {k \in 0..N : \A S : ~Sums(k, S)}
<1>1. ASSUME Bad # {} PROVE FALSE
  <2>1. PICK k \in Bad : \A j \in Bad : k <= j
    <3>1. Bad \subseteq Nat
      OBVIOUS
    <3> HIDE DEF Bad
    <3> QED
      BY <1>1, <3>1, LeastNatural
  <2>2. CASE k = 0
    <3> DEFINE Z == [n \in 0..0 |-> 0]
    <3>1. Z \in [0..0 -> Int] /\ Z[0] = 0 /\ \A n \in 1..0 : FALSE
      OBVIOUS
    <3>2. Sums(0, Z)
      BY <3>1
    <3> QED
      BY <2>1, <2>2, <3>2
  <2>3. CASE k # 0
    <3>1. k - 1 \in 0..N /\ k - 1 \notin Bad
      <4>1. k \in 0..N
        BY <2>1
      <4> HIDE DEF Bad
      <4> QED
        BY <2>1, <2>3, <4>1
    <3>2. PICK S : Sums(k - 1, S)
      BY <3>1
    <3> DEFINE T == [n \in 0..k |-> IF n = k THEN S[k - 1] + rows[k].amount ELSE S[n]]
    <3>3. T \in [0..k -> Int]
      BY <3>2, <2>3
    <3>4. T[0] = 0
      BY <3>2, <2>3
    <3>5. ASSUME NEW n \in 1..k PROVE T[n] = T[n - 1] + rows[n].amount
      <4>1. CASE n = k
        BY <4>1, <2>3
      <4>2. CASE n # k
        <5>1. n \in 1..(k - 1) /\ n - 1 # k /\ n - 1 \in 0..k
          BY <4>2
        <5>2. S[n] = S[n - 1] + rows[n].amount
          BY <3>2, <5>1
        <5> QED
          BY <5>1, <5>2, <4>2
      <4> QED
        BY <4>1, <4>2
    <3>6. Sums(k, T)
      BY <3>3, <3>4, <3>5
    <3> QED
      BY <3>6
  <2> QED
    BY <2>2, <2>3
<1>2. N \notin Bad
  BY <1>1
<1> QED
  BY <1>2 DEF IsSum

\* Sums agree as far as the amounts do.
LEMMA SumsAgree ==
  ASSUME NEW rows, NEW S, IsSum(S, rows), NEW other, NEW T, IsSum(T, other),
         NEW k \in Nat, k <= Len(rows), k <= Len(other),
         Len(rows) \in Nat, Len(other) \in Nat,
         \A n \in 1..k : rows[n].amount = other[n].amount
  PROVE  S[k] = T[k]
<1> DEFINE Bad == {j \in 0..k : S[j] # T[j]}
<1>1. ASSUME Bad # {} PROVE FALSE
  <2>1. PICK j \in Bad : \A i \in Bad : j <= i
    BY <1>1, LeastNatural, Bad \subseteq Nat
  <2>2. j # 0
    BY <2>1 DEF IsSum
  <2>3. j \in 1..k /\ j \in 1..Len(rows) /\ j \in 1..Len(other) /\ j - 1 \in 0..k
    BY <2>1, <2>2
  <2>4. S[j - 1] = T[j - 1]
    BY <2>1, <2>3
  <2>5. S[j] = T[j]
    BY <2>3, <2>4 DEF IsSum
  <2> QED
    BY <2>1, <2>5
<1> QED
  BY <1>1

LEMMA SumOfIs ==
  ASSUME NEW rows, Len(rows) \in Nat, \A n \in 1..Len(rows) : rows[n].amount \in Int
  PROVE  /\ SumOf(rows) \in Int
         /\ \A S : IsSum(S, rows) => SumOf(rows) = S[Len(rows)]
<1> DEFINE Defines(S) == S = [n \in 0..Len(rows) |-> IF n = 0 THEN 0 ELSE S[n - 1] + rows[n].amount]
<1>1. \A S : IsSum(S, rows) => Defines(S)
  <2> SUFFICES ASSUME NEW S, IsSum(S, rows) PROVE Defines(S)
    OBVIOUS
  <2>1. \A n \in 0..Len(rows) : n # 0 => n \in 1..Len(rows)
    OBVIOUS
  <2> QED
    BY <2>1 DEF IsSum
<1>2. PICK S : IsSum(S, rows)
  BY SumExists
<1> DEFINE C == CHOOSE T : Defines(T)
<1>3. Defines(C)
  BY <1>1, <1>2
<1>4. SumOf(rows) = C[Len(rows)]
  BY DEF SumOf
<1>5. ASSUME NEW T, IsSum(T, rows) PROVE C[Len(rows)] = T[Len(rows)]
  <2> DEFINE Bad == {j \in 0..Len(rows) : C[j] # T[j]}
  <2>1. ASSUME Bad # {} PROVE FALSE
    <3>1. PICK j \in Bad : \A i \in Bad : j <= i
      <4> HIDE DEF C
      <4> QED
        BY <2>1, LeastNatural, Bad \subseteq Nat
    <3> HIDE DEF C
    <3>2. C[0] = 0
      BY <1>3
    <3>3. j # 0
      BY <3>1, <3>2, <1>5 DEF IsSum
    <3>4. j \in 1..Len(rows) /\ j - 1 \in 0..Len(rows)
      BY <3>1, <3>3
    <3>5. C[j - 1] = T[j - 1]
      BY <3>1, <3>4
    <3>6. C[j] = C[j - 1] + rows[j].amount
      BY <1>3, <3>4
    <3>7. T[j] = T[j - 1] + rows[j].amount
      BY <3>4, <1>5 DEF IsSum
    <3> QED
      BY <3>1, <3>5, <3>6, <3>7
  <2> HIDE DEF C
  <2> QED
    BY <2>1
<1>6. C[Len(rows)] = S[Len(rows)]
  BY <1>2, <1>5
<1> HIDE DEF C
<1> QED
  BY <1>2, <1>4, <1>5, <1>6, SMTT(30) DEF IsSum

\* A sequence of rows with amounts.
Amounted(rows) ==
  /\ Len(rows) \in Nat /\ DOMAIN rows = 1..Len(rows)
  /\ \A n \in 1..Len(rows) : rows[n].amount \in Int

LEMMA SeqAmounted ==
  ASSUME NEW R, \A r \in R : r.amount \in Int, NEW rows \in Seq(R)
  PROVE  Amounted(rows)
  BY DEF Amounted

LEMMA SumOfInt == ASSUME NEW rows, Amounted(rows) PROVE SumOf(rows) \in Int
  BY SumOfIs DEF Amounted

LEMMA SumOfEmpty == SumOf(<<>>) = 0
<1> DEFINE none == <<>>
<1>1. Len(none) = 0 /\ Len(none) \in Nat /\ \A n \in 1..Len(none) : none[n].amount \in Int
  OBVIOUS
<1> HIDE DEF none
<1>2. PICK S : IsSum(S, none)
  BY <1>1, SumExists
<1>3. SumOf(none) = S[Len(none)]
  BY <1>1, <1>2, SumOfIs
<1>4. SumOf(none) = 0
  BY <1>1, <1>2, <1>3 DEF IsSum
<1> QED
  BY <1>4 DEF none

\* A sum depends on the amounts only.
LEMMA SumOfSame ==
  ASSUME NEW rows, Amounted(rows), NEW other, Amounted(other), Len(rows) = Len(other),
         \A n \in 1..Len(rows) : rows[n].amount = other[n].amount
  PROVE  SumOf(rows) = SumOf(other)
<1>1. PICK S : IsSum(S, rows)
  BY SumExists DEF Amounted
<1>2. PICK T : IsSum(T, other)
  BY SumExists DEF Amounted
<1>3. S[Len(rows)] = T[Len(rows)]
  BY <1>1, <1>2, SumsAgree DEF Amounted
<1> QED
  BY <1>1, <1>2, <1>3, SumOfIs DEF Amounted

\* What holds of the partial sums of two sequences holds step by step.
LEMMA SumOfStep ==
  ASSUME NEW rows, NEW k \in Nat, Amounted(rows), k < Len(rows),
         NEW S, IsSum(S, rows)
  PROVE  S[k + 1] = S[k] + rows[k + 1].amount /\ S[k] \in Int /\ S[k + 1] \in Int
<1>1. k + 1 \in 1..Len(rows) /\ k \in 0..Len(rows) /\ k + 1 \in 0..Len(rows) /\ (k + 1) - 1 = k
  BY DEF Amounted
<1> QED
  BY <1>1 DEF IsSum

LEMMA SumOfConcat ==
  ASSUME NEW rows, Amounted(rows), NEW more, Amounted(more), NEW all, Amounted(all),
         Len(all) = Len(rows) + Len(more),
         \A n \in 1..Len(rows) : all[n].amount = rows[n].amount,
         \A n \in 1..Len(more) : all[Len(rows) + n].amount = more[n].amount
  PROVE  SumOf(all) = SumOf(rows) + SumOf(more)
<1> DEFINE L == Len(rows)  M == Len(more)
<1> L \in Nat /\ M \in Nat
  BY DEF Amounted
<1>1. PICK A : IsSum(A, all)
  BY SumExists DEF Amounted
<1>2. PICK S : IsSum(S, rows)
  BY SumExists DEF Amounted
<1>3. PICK T : IsSum(T, more)
  BY SumExists DEF Amounted
<1>4. A[L] = S[L]
  <2>1. L <= Len(all) /\ Len(all) \in Nat
    OBVIOUS
  <2>2. \A n \in 1..L : all[n].amount = rows[n].amount
    OBVIOUS
  <2> QED
    BY <1>1, <1>2, <2>1, <2>2, SumsAgree, SMTT(30)
<1> DEFINE Bad == {k \in 0..M : A[L + k] # S[L] + T[k]}
<1>5. ASSUME Bad # {} PROVE FALSE
  <2>1. PICK k \in Bad : \A j \in Bad : k <= j
    BY <1>5, LeastNatural, Bad \subseteq Nat
  <2>2. k # 0
    <3>1. T[0] = 0 /\ S[L] \in Int
      BY <1>2, <1>3 DEF IsSum
    <3> QED
      BY <2>1, <1>4, <3>1
  <2>3. k - 1 \in Nat /\ k - 1 < M /\ L + (k - 1) \in Nat /\ L + (k - 1) < Len(all)
    BY <2>1, <2>2
  <2>4. A[L + (k - 1)] = S[L] + T[k - 1]
    BY <2>1, <2>2
  <2>5. T[k] = T[k - 1] + more[k].amount /\ T[k - 1] \in Int
    BY <2>3, <1>3, SumOfStep, (k - 1) + 1 = k
  <2>6. A[L + k] = A[L + (k - 1)] + all[L + k].amount
    BY <2>3, <1>1, SumOfStep, (L + (k - 1)) + 1 = L + k
  <2>7. all[L + k].amount = more[k].amount /\ more[k].amount \in Int /\ S[L] \in Int
    BY <2>1, <2>2, <1>2 DEF Amounted, IsSum
  <2> QED
    BY <2>1, <2>4, <2>5, <2>6, <2>7
<1>6. A[L + M] = S[L] + T[M]
  BY <1>5
<1> QED
  BY <1>1, <1>2, <1>3, <1>6, SumOfIs DEF Amounted

LEMMA SumOfSingle == ASSUME NEW row, row.amount \in Int PROVE SumOf(<<row>>) = row.amount
<1> DEFINE rows == <<row>>
<1>1. Len(rows) = 1 /\ rows[1] = row /\ \A n \in 1..1 : n = 1
  OBVIOUS
<1> HIDE DEF rows
<1>2. Len(rows) \in Nat /\ \A n \in 1..Len(rows) : rows[n].amount \in Int
  BY <1>1
<1>3. PICK S : IsSum(S, rows)
  BY <1>2, SumExists
<1>4. S[1] = S[0] + row.amount /\ S[0] = 0
  <2>1. 1 \in 1..Len(rows) /\ 1 - 1 = 0
    BY <1>1
  <2> QED
    BY <1>1, <1>3, <2>1 DEF IsSum
<1>5. SumOf(rows) = S[Len(rows)]
  BY <1>2, <1>3, SumOfIs
<1>6. SumOf(rows) = row.amount
  BY <1>1, <1>4, <1>5
<1> QED
  BY <1>6 DEF rows

LEMMA AppendAmounted ==
  ASSUME NEW R, \A r \in R : r.amount \in Int, NEW rows \in Seq(R), NEW more \in Seq(R)
  PROVE  /\ rows \o more \in Seq(R)
         /\ SumOf(rows \o more) = SumOf(rows) + SumOf(more)
<1> DEFINE all == rows \o more
<1>1. all \in Seq(R)
  OBVIOUS
<1>2. /\ Len(rows \o more) = Len(rows) + Len(more)
      /\ \A n \in 1..Len(rows) : (rows \o more)[n] = rows[n]
      /\ \A n \in 1..Len(more) : (rows \o more)[Len(rows) + n] = more[n]
  OBVIOUS
<1>3. /\ Len(all) = Len(rows) + Len(more)
      /\ \A n \in 1..Len(rows) : all[n].amount = rows[n].amount
      /\ \A n \in 1..Len(more) : all[Len(rows) + n].amount = more[n].amount
  BY <1>2
<1> HIDE DEF all
<1>4. Amounted(rows) /\ Amounted(more) /\ Amounted(all)
  <2>1. Amounted(rows)
    BY SeqAmounted
  <2>2. Amounted(more)
    BY SeqAmounted
  <2>3. Amounted(all)
    BY <1>1, SeqAmounted
  <2> QED
    BY <2>1, <2>2, <2>3
<1>5. SumOf(all) = SumOf(rows) + SumOf(more)
  BY <1>3, <1>4, SumOfConcat
<1> QED
  BY <1>1, <1>5 DEF all

\* The sum of the rows with the signs turned.
LEMMA SumOfNegated ==
  ASSUME NEW rows, Amounted(rows), NEW neg, Amounted(neg), Len(neg) = Len(rows),
         \A n \in 1..Len(rows) : neg[n].amount = -rows[n].amount
  PROVE  SumOf(neg) = -SumOf(rows)
<1>1. PICK S : IsSum(S, rows)
  BY SumExists DEF Amounted
<1> DEFINE T == [n \in 0..Len(neg) |-> -S[n]]
<1>2. IsSum(T, neg)
  <2>1. T \in [0..Len(neg) -> Int] /\ T[0] = 0
    BY <1>1 DEF IsSum, Amounted
  <2>2. ASSUME NEW n \in 1..Len(neg) PROVE T[n] = T[n - 1] + neg[n].amount
    <3>1. n \in 0..Len(neg) /\ n - 1 \in 0..Len(neg) /\ n \in 1..Len(rows)
      BY DEF Amounted
    <3>2. S[n] = S[n - 1] + rows[n].amount /\ S[n - 1] \in Int /\ rows[n].amount \in Int
      BY <3>1, <1>1 DEF IsSum, Amounted
    <3>3. T[n] = -S[n] /\ T[n - 1] = -S[n - 1]
      BY <3>1
    <3> QED
      BY <3>1, <3>2, <3>3
  <2> QED
    BY <2>1, <2>2 DEF IsSum
<1>3. T[Len(neg)] = -S[Len(rows)]
  BY DEF Amounted
<1> HIDE DEF T
<1> QED
  BY <1>1, <1>2, <1>3, SumOfIs DEF Amounted

\* Amounts that are not negative have such a sum; one that is positive shows.
LEMMA SumOfPositive ==
  ASSUME NEW rows, Amounted(rows), \A n \in 1..Len(rows) : rows[n].amount > 0, Len(rows) > 0
  PROVE  SumOf(rows) > 0
<1>1. PICK S : IsSum(S, rows)
  BY SumExists DEF Amounted
<1> DEFINE Bad == {k \in 1..Len(rows) : ~(S[k] > 0)}
<1>2. ASSUME Bad # {} PROVE FALSE
  <2>1. PICK k \in Bad : \A j \in Bad : k <= j
    BY <1>2, LeastNatural, Bad \subseteq Nat
  <2>2. k - 1 \in Nat /\ k - 1 < Len(rows) /\ (k - 1) + 1 = k /\ k \in 1..Len(rows)
    BY <2>1 DEF Amounted
  <2>3. S[k] = S[k - 1] + rows[k].amount /\ S[k - 1] \in Int
    BY <1>1, <2>2, SumOfStep
  <2>4. S[k - 1] >= 0
    <3>1. CASE k - 1 = 0
      BY <1>1, <3>1 DEF IsSum
    <3>2. CASE k - 1 # 0
      <4>1. k - 1 \in 1..Len(rows)
        BY <2>2, <3>2 DEF Amounted
      <4>2. k - 1 \notin Bad
        BY <2>1, <2>2
      <4> QED
        BY <4>1, <4>2, <2>3
    <3> QED
      BY <3>1, <3>2
  <2>5. rows[k].amount \in Int /\ rows[k].amount > 0
    BY <2>2 DEF Amounted
  <2> QED
    BY <2>1, <2>3, <2>4, <2>5
<1>3. Len(rows) \in 1..Len(rows)
  BY DEF Amounted
<1> QED
  BY <1>1, <1>2, <1>3, SumOfIs DEF Amounted

-----------------------------------------------------------------------------
(***************************************************************************)
(* Sums over the rows to one target                                        *)
(***************************************************************************)
Only(rows, t) ==
  [n \in DOMAIN rows |-> Row(t, IF rows[n].to = t THEN rows[n].amount ELSE 0, rows[n].group)]

LEMMA OnlyIs ==
  ASSUME NEW rows, Amounted(rows), NEW t
  PROVE  /\ SumTo(rows, t) = SumOf(Only(rows, t))
         /\ Amounted(Only(rows, t)) /\ Len(Only(rows, t)) = Len(rows)
         /\ \A n \in 1..Len(rows) :
              Only(rows, t)[n].amount = IF rows[n].to = t THEN rows[n].amount ELSE 0
<1>1. Only(rows, t) = [n \in 1..Len(rows) |-> Row(t, IF rows[n].to = t THEN rows[n].amount ELSE 0, rows[n].group)]
  BY DEF Only, Amounted
<1>2. Len(Only(rows, t)) = Len(rows)
  BY <1>1 DEF Amounted
<1>3. \A n \in 1..Len(rows) :
        Only(rows, t)[n].amount = IF rows[n].to = t THEN rows[n].amount ELSE 0
  BY <1>1 DEF Row
<1> QED
  BY <1>1, <1>2, <1>3 DEF SumTo, Only, Amounted

LEMMA SumToInt == ASSUME NEW rows, Amounted(rows), NEW t PROVE SumTo(rows, t) \in Int
  BY OnlyIs, SumOfInt

LEMMA SumToConcat ==
  ASSUME NEW R, \A r \in R : r.amount \in Int, NEW rows \in Seq(R), NEW more \in Seq(R), NEW t
  PROVE  SumTo(rows \o more, t) = SumTo(rows, t) + SumTo(more, t)
<1> DEFINE all == rows \o more
<1>1. all \in Seq(R)
  OBVIOUS
<1>2. /\ Len(all) = Len(rows) + Len(more)
      /\ \A n \in 1..Len(rows) : all[n] = rows[n] /\ n \in 1..Len(all)
      /\ \A n \in 1..Len(more) : all[Len(rows) + n] = more[n] /\ Len(rows) + n \in 1..Len(all)
  OBVIOUS
<1> HIDE DEF all
<1>3. Amounted(rows)
  BY SeqAmounted
<1>4. Amounted(more)
  BY SeqAmounted
<1>5. Amounted(all)
  BY <1>1, SeqAmounted
<1> DEFINE A == Only(all, t)  S == Only(rows, t)  T == Only(more, t)
<1>6. /\ SumTo(rows, t) = SumOf(S) /\ Amounted(S) /\ Len(S) = Len(rows)
      /\ \A n \in 1..Len(rows) : S[n].amount = IF rows[n].to = t THEN rows[n].amount ELSE 0
  BY <1>3, OnlyIs
<1>7. /\ SumTo(more, t) = SumOf(T) /\ Amounted(T) /\ Len(T) = Len(more)
      /\ \A n \in 1..Len(more) : T[n].amount = IF more[n].to = t THEN more[n].amount ELSE 0
  BY <1>4, OnlyIs
<1>8. /\ SumTo(all, t) = SumOf(A) /\ Amounted(A) /\ Len(A) = Len(all)
      /\ \A n \in 1..Len(all) : A[n].amount = IF all[n].to = t THEN all[n].amount ELSE 0
  BY <1>5, OnlyIs
<1> HIDE DEF A, S, T
<1>9. Len(A) = Len(S) + Len(T)
  BY <1>2, <1>6, <1>7, <1>8
<1>10. \A n \in 1..Len(S) : A[n].amount = S[n].amount
  BY <1>2, <1>6, <1>8
<1>11. \A n \in 1..Len(T) : A[Len(S) + n].amount = T[n].amount
  BY <1>2, <1>6, <1>7, <1>8
<1>12. SumOf(A) = SumOf(S) + SumOf(T)
  BY <1>6, <1>7, <1>8, <1>9, <1>10, <1>11, SumOfConcat
<1>13. SumTo(all, t) = SumTo(rows, t) + SumTo(more, t)
  BY <1>6, <1>7, <1>8, <1>12
<1> QED
  BY <1>13 DEF all

\* A target that no row names, and one that a single row names.
LEMMA SumToNone ==
  ASSUME NEW rows, Amounted(rows), NEW t, \A n \in 1..Len(rows) : rows[n].to # t
  PROVE  SumTo(rows, t) = 0
<1> DEFINE T == [n \in 0..Len(rows) |-> 0]
<1>1. IsSum(T, Only(rows, t))
  <2>1. T \in [0..Len(rows) -> Int] /\ T[0] = 0
    BY DEF Amounted
  <2>2. ASSUME NEW n \in 1..Len(rows) PROVE T[n] = T[n - 1] + Only(rows, t)[n].amount
    <3>1. n \in 0..Len(rows) /\ n - 1 \in 0..Len(rows)
      BY DEF Amounted
    <3>2. Only(rows, t)[n].amount = 0
      BY OnlyIs
    <3> QED
      BY <3>1, <3>2
  <2> QED
    BY <2>1, <2>2, OnlyIs DEF IsSum
<1>2. T[Len(rows)] = 0
  BY DEF Amounted
<1> HIDE DEF T
<1> QED
  BY <1>1, <1>2, OnlyIs, SumOfIs DEF Amounted

LEMMA SumToOnce ==
  ASSUME NEW rows, Amounted(rows), NEW k \in 1..Len(rows), NEW t, rows[k].to = t,
         \A n \in 1..Len(rows) : rows[n].to = t => n = k
  PROVE  SumTo(rows, t) = rows[k].amount
<1> DEFINE T == [n \in 0..Len(rows) |-> IF n < k THEN 0 ELSE rows[k].amount]
<1>1. IsSum(T, Only(rows, t))
  <2>1. T \in [0..Len(rows) -> Int] /\ T[0] = 0
    BY DEF Amounted
  <2>2. ASSUME NEW n \in 1..Len(rows) PROVE T[n] = T[n - 1] + Only(rows, t)[n].amount
    <3>1. n \in 0..Len(rows) /\ n - 1 \in 0..Len(rows) /\ n \in Int /\ k \in Int
      BY DEF Amounted
    <3>2. Only(rows, t)[n].amount = IF n = k THEN rows[k].amount ELSE 0
      BY OnlyIs
    <3>3. rows[k].amount \in Int
      BY DEF Amounted
    <3>4. CASE n = k
      BY <3>1, <3>2, <3>3, <3>4
    <3>5. CASE n # k
      BY <3>1, <3>2, <3>3, <3>5
    <3> QED
      BY <3>4, <3>5
  <2> QED
    BY <2>1, <2>2, OnlyIs DEF IsSum
<1>2. T[Len(rows)] = rows[k].amount
  BY DEF Amounted
<1> HIDE DEF T
<1> QED
  BY <1>1, <1>2, OnlyIs, SumOfIs, SMTT(30) DEF Amounted

-----------------------------------------------------------------------------
(***************************************************************************)
(* Plans                                                                   *)
(***************************************************************************)
IsOrder(s, I) ==
  /\ s \in [1..Cardinality(I) -> I]
  /\ \A m, n \in DOMAIN s : m < n => s[m] < s[n]

\* Every finite set of naturals can be put in order: least element first.
LEMMA OrderExists ==
  ASSUME NEW N \in Nat
  PROVE  \A I : I \subseteq Nat /\ IsFiniteSet(I) /\ Cardinality(I) = N => \E s : IsOrder(s, I)
<1> DEFINE Ordered(c) == \A I : I \subseteq Nat /\ IsFiniteSet(I) /\ Cardinality(I) = c
                                  => \E s : IsOrder(s, I)
           Bad == {c \in Nat : ~Ordered(c)}
<1>1. ASSUME Bad # {} PROVE FALSE
  <2>1. PICK c \in Bad : \A d \in Bad : c <= d
    <3>1. Bad \subseteq Nat
      OBVIOUS
    <3> HIDE DEF Bad
    <3> QED
      BY <1>1, <3>1, LeastNatural
  <2>2. c \in Nat /\ ~Ordered(c)
    BY <2>1
  <2>3. PICK I : I \subseteq Nat /\ IsFiniteSet(I) /\ Cardinality(I) = c /\ \A s : ~IsOrder(s, I)
    BY <2>2
  <2>4. CASE I = {}
    <3>1. c = 0
      BY <2>3, <2>4, FS_EmptySet
    <3> DEFINE z == [n \in 1..0 |-> n]
    <3>2. z \in [1..0 -> I] /\ DOMAIN z = 1..0 /\ 1..0 = {}
      OBVIOUS
    <3>3. IsOrder(z, I)
      BY <2>3, <3>1, <3>2 DEF IsOrder
    <3> QED
      BY <2>3, <3>3
  <2>5. CASE I # {}
    <3>1. PICK i \in I : \A j \in I : i <= j
      BY <2>3, <2>5, LeastNatural
    <3>2. IsFiniteSet(I \ {i}) /\ Cardinality(I \ {i}) = c - 1
      BY <2>3, <3>1, FS_RemoveElement
    <3>3. c - 1 \in Nat
      BY <3>2, FS_CardinalityType
    <3>4. c - 1 \notin Bad
      <4> HIDE DEF Bad
      <4> QED
        BY <2>1, <2>2, <3>3
    <3>5. PICK s : IsOrder(s, I \ {i})
      <4>1. Ordered(c - 1)
        BY <3>3, <3>4
      <4>2. I \ {i} \subseteq Nat
        BY <2>3
      <4> QED
        BY <3>2, <4>1, <4>2
    <3> DEFINE t == [n \in 1..c |-> IF n = 1 THEN i ELSE s[n - 1]]
    <3>6. s \in [1..(c - 1) -> I \ {i}] /\ \A m, n \in 1..(c - 1) : m < n => s[m] < s[n]
      BY <3>2, <3>5 DEF IsOrder
    <3>7. t \in [1..c -> I]
      <4>1. ASSUME NEW n \in 1..c PROVE t[n] \in I
        <5>1. CASE n = 1
          BY <5>1
        <5>2. CASE n # 1
          <6>1. n - 1 \in 1..(c - 1)
            BY <2>2, <5>2
          <6> QED
            BY <3>6, <5>2, <6>1
        <5> QED
          BY <5>1, <5>2
      <4> QED
        BY <4>1
    <3>8. ASSUME NEW m \in 1..c, NEW n \in 1..c, m < n PROVE t[m] < t[n]
      <4>1. n # 1 /\ n - 1 \in 1..(c - 1) /\ t[n] = s[n - 1] /\ s[n - 1] \in I \ {i}
        BY <2>2, <3>6, <3>8
      <4>2. CASE m = 1
        <5>1. t[m] = i
          BY <4>2
        <5>2. s[n - 1] \in I /\ s[n - 1] # i /\ i \in Nat /\ s[n - 1] \in Nat
          BY <2>3, <3>1, <4>1
        <5>3. i <= s[n - 1]
          BY <3>1, <5>2
        <5> HIDE DEF t
        <5> QED
          BY <4>1, <5>1, <5>2, <5>3
      <4>3. CASE m # 1
        <5>1. m - 1 \in 1..(c - 1) /\ m - 1 < n - 1 /\ t[m] = s[m - 1]
          BY <2>2, <3>8, <4>3
        <5> QED
          BY <3>6, <4>1, <5>1
      <4> QED
        BY <4>2, <4>3
    <3>9. IsOrder(t, I)
      <4> HIDE DEF t
      <4> QED
        BY <2>3, <3>7, <3>8 DEF IsOrder
    <3> QED
      BY <2>3, <3>9
  <2> QED
    BY <2>4, <2>5
<1>2. Ordered(N)
  BY <1>1
<1> QED
  BY <1>2

LEMMA InOrderIs ==
  ASSUME NEW I, I \subseteq Nat, IsFiniteSet(I)
  PROVE  /\ InOrder(I) \in [1..Cardinality(I) -> I] /\ Cardinality(I) \in Nat
         /\ \A m, n \in 1..Cardinality(I) : InOrder(I)[m] = InOrder(I)[n] => m = n
         /\ \A i \in I : \E n \in 1..Cardinality(I) : InOrder(I)[n] = i
<1> DEFINE c == Cardinality(I)  s == InOrder(I)
<1>1. c \in Nat
  BY FS_CardinalityType
<1>2. \E o : IsOrder(o, I)
  BY <1>1, OrderExists
<1>3. IsOrder(s, I)
  BY <1>2 DEF InOrder, IsOrder
<1> HIDE DEF s
<1>4. s \in [1..c -> I]
  BY <1>3 DEF IsOrder
<1>5. ASSUME NEW m \in 1..c, NEW n \in 1..c, s[m] = s[n] PROVE m = n
  <2>1. m < n \/ n < m \/ m = n
    BY <1>1
  <2>2. s[m] \in Nat /\ s[n] \in Nat
    BY <1>4
  <2>3. (m < n => s[m] < s[n]) /\ (n < m => s[n] < s[m])
    BY <1>3, <1>4 DEF IsOrder
  <2> QED
    BY <1>5, <2>1, <2>2, <2>3
<1>6. s \in Injection(1..c, I)
  BY <1>4, <1>5 DEF Injection, IsInjective
<1>7. Cardinality(1..c) = c
  BY <1>1, FS_Interval
<1>8. s \in Surjection(1..c, I)
  BY <1>6, <1>7, FS_Injection
<1>9. \A i \in I : \E n \in 1..c : s[n] = i
  BY <1>8 DEF Surjection
<1> QED
  BY <1>1, <1>4, <1>5, <1>9 DEF s

IsPlan(plan) == \E I \in SUBSET Invoices : plan \in [I -> Nat \ {0}]

LEMMA PlanDomain ==
  ASSUME NEW plan, IsPlan(plan)
  PROVE  /\ DOMAIN plan \subseteq Invoices /\ DOMAIN plan \subseteq Nat
         /\ IsFiniteSet(DOMAIN plan)
         /\ \A i \in DOMAIN plan : plan[i] \in Nat \ {0}
  BY FeeAssumption, FS_Subset DEF IsPlan

\* The rows of a plan: one for each of its invoices.
Carries(rows, plan) ==
  /\ Amounted(rows)
  /\ Len(rows) = Cardinality(DOMAIN plan)
  /\ \A n \in 1..Len(rows) : rows[n].to \in DOMAIN plan /\ rows[n].amount = plan[rows[n].to]
  /\ \A m, n \in 1..Len(rows) : rows[m].to = rows[n].to => m = n
  /\ \A i \in DOMAIN plan : \E n \in 1..Len(rows) : rows[n].to = i

LEMMA PlanRowsAre ==
  ASSUME NEW plan, IsPlan(plan), NEW group
  PROVE  /\ PlanRows(plan, group) \in Seq([to : Invoices, amount : Nat \ {0}, group : {group}])
         /\ Carries(PlanRows(plan, group), plan)
<1> DEFINE I == DOMAIN plan  c == Cardinality(I)  s == InOrder(I)  rows == PlanRows(plan, group)
<1>1. /\ s \in [1..c -> I] /\ c \in Nat
      /\ \A m, n \in 1..c : s[m] = s[n] => m = n
      /\ \A i \in I : \E n \in 1..c : s[n] = i
  BY PlanDomain, InOrderIs
<1>2. rows = [n \in 1..c |-> Row(s[n], plan[s[n]], group)]
  BY <1>1 DEF PlanRows
<1> HIDE DEF s, c, rows
<1>3. Len(rows) = c /\ DOMAIN rows = 1..c
  BY <1>1, <1>2
<1>4. \A n \in 1..c : /\ rows[n] \in [to : Invoices, amount : Nat \ {0}, group : {group}]
                      /\ rows[n].to = s[n] /\ rows[n].amount = plan[s[n]]
  BY <1>1, <1>2, PlanDomain DEF Row
<1>5. rows \in Seq([to : Invoices, amount : Nat \ {0}, group : {group}])
  BY <1>1, <1>2, <1>3, <1>4
<1>6. Amounted(rows)
  BY <1>1, <1>3, <1>4 DEF Amounted
<1>7. \A n \in 1..c : rows[n].to \in I /\ rows[n].amount = plan[rows[n].to]
  BY <1>1, <1>4
<1>8. \A m, n \in 1..c : rows[m].to = rows[n].to => m = n
  BY <1>1, <1>4
<1>9. \A i \in I : \E n \in 1..c : rows[n].to = i
  BY <1>1, <1>4
<1> QED
  BY <1>3, <1>5, <1>6, <1>7, <1>8, <1>9 DEF c, rows, Carries

LEMMA PlanSums ==
  ASSUME NEW plan, IsPlan(plan), NEW group
  PROVE  /\ SumOf(PlanRows(plan, group)) = PlanTotal(plan)
         /\ PlanTotal(plan) \in Int
         /\ DOMAIN plan # {} => PlanTotal(plan) > 0
         /\ \A t : SumTo(PlanRows(plan, group), t) = IF t \in DOMAIN plan THEN plan[t] ELSE 0
<1> DEFINE rows == PlanRows(plan, group)  paid == PlanRows(plan, "collect")
<1>1. Carries(rows, plan)
  BY PlanRowsAre
<1>2. Carries(paid, plan)
  BY PlanRowsAre
<1>3. \A n \in 1..Len(rows) : rows[n].amount = paid[n].amount
  BY <1>1, PlanDomain, InOrderIs DEF PlanRows, Row, Carries
<1> HIDE DEF rows, paid
<1>4. SumOf(rows) = SumOf(paid)
  BY <1>1, <1>2, <1>3, SumOfSame DEF Carries
<1>5. SumOf(paid) \in Int
  BY <1>2, SumOfInt DEF Carries
<1>6. DOMAIN plan # {} => SumOf(paid) > 0
  <2> SUFFICES ASSUME DOMAIN plan # {} PROVE SumOf(paid) > 0
    OBVIOUS
  <2>1. Len(paid) > 0
    BY <1>2, PlanDomain, FS_EmptySet DEF Amounted, Carries
  <2>2. \A n \in 1..Len(paid) : paid[n].amount > 0
    <3>1. \A i \in DOMAIN plan : plan[i] > 0
      BY PlanDomain
    <3> QED
      BY <1>2, <3>1 DEF Carries
  <2> QED
    BY <1>2, <2>1, <2>2, SumOfPositive DEF Carries
<1>7. ASSUME NEW t PROVE SumTo(rows, t) = IF t \in DOMAIN plan THEN plan[t] ELSE 0
  <2>1. CASE t \in DOMAIN plan
    <3>1. PICK n \in 1..Len(rows) : rows[n].to = t
      BY <1>1, <2>1 DEF Carries
    <3> QED
      BY <1>1, <2>1, <3>1, SumToOnce, SMTT(30) DEF Carries
  <2>2. CASE t \notin DOMAIN plan
    BY <1>1, <2>2, SumToNone DEF Carries
  <2> QED
    BY <2>1, <2>2
<1> QED
  BY <1>4, <1>5, <1>6, <1>7 DEF PlanTotal, rows, paid

-----------------------------------------------------------------------------
(***************************************************************************)
(* The credit of an invoice, a sum over all payments                       *)
(***************************************************************************)
First(t) == CHOOSE x \in t : TRUE

IsFold(F, h, S) ==
  /\ F \in [SUBSET S -> Int]
  /\ F[{}] = 0
  /\ \A t \in SUBSET S : t # {} => F[t] = h[First(t)] + F[t \ {First(t)}]

LEMMA FirstIs ==
  ASSUME NEW S, IsFiniteSet(S), NEW t \in SUBSET S, t # {}
  PROVE  /\ First(t) \in t /\ t \ {First(t)} \in SUBSET S
         /\ IsFiniteSet(t) /\ Cardinality(t) \in Nat \ {0}
         /\ Cardinality(t \ {First(t)}) = Cardinality(t) - 1
<1>1. First(t) \in t
  BY DEF First
<1>2. IsFiniteSet(t)
  BY FS_Subset
<1>3. Cardinality(t) \in Nat \ {0}
  BY <1>2, FS_CardinalityType, FS_EmptySet
<1>4. Cardinality(t \ {First(t)}) = Cardinality(t) - 1
  BY <1>1, <1>2, FS_RemoveElement
<1> QED
  BY <1>1, <1>2, <1>3, <1>4

LEMMA FoldExists ==
  ASSUME NEW S, IsFiniteSet(S), NEW h \in [S -> Int]
  PROVE  \E F : IsFold(F, h, S)
<1> DEFINE Upto(c) == {t \in SUBSET S : Cardinality(t) <= c}
           Folds(F, c) == /\ F \in [Upto(c) -> Int]
                          /\ F[{}] = 0
                          /\ \A t \in Upto(c) : t # {} => F[t] = h[First(t)] + F[t \ {First(t)}]
           Bad == {c \in Nat : \A F : ~Folds(F, c)}
<1>e. \A t \in SUBSET S : Cardinality(t) \in Nat
  BY FS_Subset, FS_CardinalityType
<1>1. ASSUME Bad # {} PROVE FALSE
  <2>1. PICK c \in Bad : \A d \in Bad : c <= d
    <3>1. Bad \subseteq Nat
      OBVIOUS
    <3> HIDE DEF Bad
    <3> QED
      BY <1>1, <3>1, LeastNatural
  <2>2. c \in Nat /\ \A F : ~Folds(F, c)
    BY <2>1
  <2>3. CASE c = 0
    <3>1. \A t \in Upto(0) : t = {}
      <4> SUFFICES ASSUME NEW t \in Upto(0) PROVE t = {}
        OBVIOUS
      <4>1. Cardinality(t) = 0 /\ IsFiniteSet(t)
        BY <1>e, FS_Subset
      <4> QED
        BY <4>1, FS_EmptySet
    <3>2. {} \in Upto(0)
      BY FS_EmptySet
    <3> DEFINE Z == [t \in Upto(0) |-> 0]
    <3>3. Folds(Z, 0)
      BY <3>1, <3>2
    <3> HIDE DEF Folds
    <3> QED
      BY <2>2, <2>3, <3>3
  <2>4. CASE c # 0
    <3>1. c - 1 \in Nat /\ c - 1 \notin Bad
      <4> HIDE DEF Bad
      <4> QED
        BY <2>1, <2>2, <2>4
    <3>2. PICK F : Folds(F, c - 1)
      BY <3>1
    <3> DEFINE T == [t \in Upto(c) |-> IF Cardinality(t) <= c - 1 THEN F[t]
                                       ELSE h[First(t)] + F[t \ {First(t)}]]
    <3>3. ASSUME NEW t \in Upto(c), t # {}
          PROVE  /\ First(t) \in S /\ h[First(t)] \in Int
                 /\ t \ {First(t)} \in Upto(c - 1) /\ t \ {First(t)} \in Upto(c)
                 /\ Cardinality(t \ {First(t)}) <= c - 1
      <4>1. t \in SUBSET S /\ Cardinality(t) <= c
        OBVIOUS
      <4>2. /\ First(t) \in t /\ t \ {First(t)} \in SUBSET S /\ Cardinality(t) \in Nat
            /\ Cardinality(t \ {First(t)}) = Cardinality(t) - 1
        BY <3>3, <4>1, FirstIs
      <4>3. Cardinality(t \ {First(t)}) <= c - 1 /\ Cardinality(t \ {First(t)}) <= c
        BY <2>2, <4>1, <4>2
      <4> QED
        BY <4>1, <4>2, <4>3
    <3>4. {} \in Upto(c) /\ Cardinality({}) <= c - 1
      BY <3>1, <2>2, FS_EmptySet
    <3>5. \A t \in Upto(c) : Cardinality(t) <= c - 1 => t \in Upto(c - 1)
      OBVIOUS
    <3>6. T \in [Upto(c) -> Int]
      <4>1. ASSUME NEW t \in Upto(c) PROVE T[t] \in Int
        <5>1. CASE Cardinality(t) <= c - 1
          BY <3>2, <3>5, <5>1
        <5>2. CASE ~(Cardinality(t) <= c - 1)
          <6>1. t # {}
            BY <3>4, <5>2
          <6>2. F[t \ {First(t)}] \in Int
            BY <3>2, <3>3, <6>1
          <6> QED
            BY <3>3, <5>2, <6>1, <6>2
        <5> QED
          BY <5>1, <5>2
      <4> QED
        BY <4>1
    <3>7. T[{}] = 0
      BY <3>2, <3>4
    <3>8. ASSUME NEW t \in Upto(c), t # {} PROVE T[t] = h[First(t)] + T[t \ {First(t)}]
      <4>1. T[t \ {First(t)}] = F[t \ {First(t)}]
        BY <3>3, <3>8
      <4>2. CASE Cardinality(t) <= c - 1
        <5>1. F[t] = h[First(t)] + F[t \ {First(t)}]
          BY <3>2, <3>5, <3>8, <4>2
        <5> QED
          BY <4>1, <4>2, <5>1
      <4>3. CASE ~(Cardinality(t) <= c - 1)
        BY <4>1, <4>3
      <4> QED
        BY <4>2, <4>3
    <3>9. Folds(T, c)
      BY <3>6, <3>7, <3>8
    <3> HIDE DEF Folds
    <3> QED
      BY <2>2, <3>9
  <2> QED
    BY <2>3, <2>4
<1>2. Cardinality(S) \in Nat
  BY FS_CardinalityType
<1>3. PICK F : Folds(F, Cardinality(S))
  BY <1>1, <1>2
<1>4. Upto(Cardinality(S)) = SUBSET S
  BY FS_Subset
<1>5. IsFold(F, h, S)
  BY <1>3, <1>4 DEF IsFold
<1> QED
  BY <1>5

\* Two folds whose summands differ at x only differ by that much.
LEMMA FoldChange ==
  ASSUME NEW S, IsFiniteSet(S), NEW h \in [S -> Int], NEW g \in [S -> Int],
         NEW F, IsFold(F, h, S), NEW G, IsFold(G, g, S),
         NEW x \in S, \A y \in S \ {x} : g[y] = h[y]
  PROVE  G[S] = F[S] + (g[x] - h[x])
<1> DEFINE d == g[x] - h[x]
           Moved(t) == G[t] = F[t] + (IF x \in t THEN d ELSE 0)
           Bad == {c \in Nat : \E t \in SUBSET S : Cardinality(t) = c /\ ~Moved(t)}
<1>1. ASSUME Bad # {} PROVE FALSE
  <2>1. PICK c \in Bad : \A e \in Bad : c <= e
    <3>1. Bad \subseteq Nat
      OBVIOUS
    <3> HIDE DEF Bad
    <3> QED
      BY <1>1, <3>1, LeastNatural
  <2>2. c \in Nat /\ \E t \in SUBSET S : Cardinality(t) = c /\ ~Moved(t)
    BY <2>1
  <2>3. PICK t \in SUBSET S : Cardinality(t) = c /\ ~Moved(t)
    BY <2>2
  <2>4. t # {}
    <3>1. F[{}] = 0 /\ G[{}] = 0 /\ x \notin {}
      BY DEF IsFold
    <3>2. Moved({})
      BY <3>1
    <3> QED
      BY <2>3, <3>2
  <2> DEFINE a == First(t)  u == t \ {First(t)}
  <2>5. a \in t /\ u \in SUBSET S /\ Cardinality(u) = c - 1 /\ c - 1 \in Nat
    BY <2>3, <2>4, FirstIs
  <2>6. Moved(u)
    <3>1. c - 1 \notin Bad
      <4> HIDE DEF Bad
      <4> QED
        BY <2>1, <2>2, <2>5
    <3> QED
      BY <2>5, <3>1
  <2>7. F[t] = h[a] + F[u] /\ G[t] = g[a] + G[u]
    BY <2>4 DEF IsFold
  <2>8. F[u] \in Int /\ h[a] \in Int /\ g[a] \in Int /\ d \in Int /\ G[u] \in Int
    BY <2>5 DEF IsFold
  <2>9. CASE a = x
    <3>1. x \notin u /\ x \in t
      BY <2>5, <2>9
    <3>2. G[u] = F[u]
      BY <2>6, <2>8, <3>1
    <3>3. G[t] = F[t] + d
      BY <2>7, <2>8, <2>9, <3>2
    <3> QED
      BY <2>3, <3>1, <3>3
  <2>10. CASE a # x
    <3>1. g[a] = h[a] /\ (x \in u <=> x \in t)
      BY <2>5, <2>10
    <3>2. G[u] = F[u] + (IF x \in t THEN d ELSE 0)
      BY <2>6, <3>1
    <3> HIDE DEF a, u, d
    <3>3. G[t] = F[t] + (IF x \in t THEN d ELSE 0)
      BY <2>7, <2>8, <3>1, <3>2
    <3> QED
      BY <2>3, <3>3
  <2> QED
    BY <2>9, <2>10
<1>2. Moved(S)
  BY <1>1, FS_CardinalityType
<1> QED
  BY <1>2

\* The credit of an invoice when the payments have these rows.
CreditIn(rows, i) == MapThenSumSet(LAMBDA p : SumTo(rows[p], i), Payments)

LEMMA CreditIs ==
  ASSUME NEW rows, NEW i, NEW h \in [Payments -> Int],
         \A p \in Payments : h[p] = SumTo(rows[p], i),
         NEW F, IsFold(F, h, Payments)
  PROVE  CreditIn(rows, i) = F[Payments]
<1> DEFINE Defines(C) == C = [t \in SUBSET Payments |->
                                IF t = {} THEN 0 ELSE SumTo(rows[First(t)], i) + C[t \ {First(t)}]]
           C == CHOOSE D : Defines(D)
<1>1. CreditIn(rows, i) = C[Payments]
  BY DEF CreditIn, MapThenSumSet, MapThenFoldSet, First
<1>2. \A t \in SUBSET Payments : t # {} => First(t) \in Payments
  BY FeeAssumption, FirstIs
<1>3. Defines(F)
  <2>1. F = [t \in SUBSET Payments |-> IF t = {} THEN 0 ELSE h[First(t)] + F[t \ {First(t)}]]
    BY DEF IsFold
  <2> QED
    BY <1>2, <2>1
<1>4. Defines(C)
  <2> HIDE DEF Defines
  <2> QED
    BY <1>3
<1> HIDE DEF C
<1> DEFINE Bad == {c \in Nat : \E t \in SUBSET Payments : Cardinality(t) = c /\ C[t] # F[t]}
<1>5. ASSUME Bad # {} PROVE FALSE
  <2>1. PICK c \in Bad : \A e \in Bad : c <= e
    <3>1. Bad \subseteq Nat
      OBVIOUS
    <3> HIDE DEF Bad
    <3> QED
      BY <1>5, <3>1, LeastNatural
  <2>2. PICK t \in SUBSET Payments : Cardinality(t) = c /\ C[t] # F[t]
    BY <2>1
  <2>3. t # {}
    BY <1>3, <1>4, <2>2
  <2> DEFINE u == t \ {First(t)}
  <2>4. u \in SUBSET Payments /\ Cardinality(u) = c - 1 /\ c - 1 \in Nat
    BY FeeAssumption, <2>2, <2>3, FirstIs
  <2>5. C[u] = F[u]
    <3>1. c \in Nat
      BY <2>1
    <3>2. c - 1 \notin Bad
      <4> HIDE DEF Bad
      <4> QED
        BY <2>1, <2>4, <3>1
    <3> QED
      BY <2>4, <3>2
  <2>6. C[t] = SumTo(rows[First(t)], i) + C[u] /\ F[t] = SumTo(rows[First(t)], i) + F[u]
    BY <1>3, <1>4, <2>3
  <2> QED
    BY <2>2, <2>5, <2>6
<1>6. C[Payments] = F[Payments]
  BY <1>5, FeeAssumption, FS_CardinalityType
<1> QED
  BY <1>1, <1>6

\* Only payment p gets other rows.
OnlyRowsOf(p, before, after) ==
  /\ \A q \in Payments : Amounted(before[q]) /\ Amounted(after[q])
  /\ \A q \in Payments \ {p} : after[q] = before[q]

\* A step that changes the rows of one payment changes every credit by what
\* the payment has more or less on the invoice.
LEMMA CreditChange ==
  ASSUME NEW before, NEW after, NEW p \in Payments, OnlyRowsOf(p, before, after), NEW i
  PROVE  /\ CreditIn(before, i) \in Int
         /\ CreditIn(after, i) = CreditIn(before, i) + (SumTo(after[p], i) - SumTo(before[p], i))
<1> DEFINE h == [q \in Payments |-> SumTo(before[q], i)]
           g == [q \in Payments |-> SumTo(after[q], i)]
<1>1. h \in [Payments -> Int] /\ g \in [Payments -> Int]
  BY SumToInt DEF OnlyRowsOf
<1>2. /\ \A q \in Payments : h[q] = SumTo(before[q], i)
      /\ \A q \in Payments : g[q] = SumTo(after[q], i)
      /\ \A q \in Payments \ {p} : g[q] = h[q]
  BY DEF OnlyRowsOf
<1> HIDE DEF h, g
<1>3. PICK F : IsFold(F, h, Payments)
  BY <1>1, FoldExists, FeeAssumption
<1>4. PICK G : IsFold(G, g, Payments)
  BY <1>1, FoldExists, FeeAssumption
<1>5. CreditIn(before, i) = F[Payments]
  BY <1>1, <1>2, <1>3, CreditIs
<1>6. CreditIn(after, i) = G[Payments]
  BY <1>1, <1>2, <1>4, CreditIs
<1>7. G[Payments] = F[Payments] + (g[p] - h[p])
  BY <1>1, <1>2, <1>3, <1>4, FoldChange, FeeAssumption
<1>8. F[Payments] \in Int
  BY <1>3 DEF IsFold
<1> QED
  BY <1>2, <1>5, <1>6, <1>7, <1>8

LEMMA FoldPositive ==
  ASSUME NEW S, IsFiniteSet(S), NEW h \in [S -> Int], \A x \in S : h[x] >= 0,
         NEW F, IsFold(F, h, S)
  PROVE  F[S] >= 0
<1> DEFINE Bad == {c \in Nat : \E t \in SUBSET S : Cardinality(t) = c /\ ~(F[t] >= 0)}
<1>1. ASSUME Bad # {} PROVE FALSE
  <2>1. PICK c \in Bad : \A e \in Bad : c <= e
    <3>1. Bad \subseteq Nat
      OBVIOUS
    <3> HIDE DEF Bad
    <3> QED
      BY <1>1, <3>1, LeastNatural
  <2>2. PICK t \in SUBSET S : Cardinality(t) = c /\ ~(F[t] >= 0)
    BY <2>1
  <2>3. t # {}
    <3>1. F[{}] >= 0
      BY DEF IsFold
    <3> QED
      BY <2>2, <3>1
  <2> DEFINE u == t \ {First(t)}
  <2>4. First(t) \in S /\ u \in SUBSET S /\ Cardinality(u) = c - 1 /\ c - 1 \in Nat
    BY <2>2, <2>3, FirstIs
  <2>5. F[u] >= 0
    <3>1. c \in Nat
      BY <2>1
    <3>2. c - 1 \notin Bad
      <4> HIDE DEF Bad
      <4> QED
        BY <2>1, <2>4, <3>1
    <3> QED
      BY <2>4, <3>2
  <2>6. F[t] = h[First(t)] + F[u] /\ F[u] \in Int /\ h[First(t)] \in Int /\ h[First(t)] >= 0
    BY <2>3, <2>4 DEF IsFold
  <2> QED
    BY <2>2, <2>5, <2>6
<1>2. Cardinality(S) \in Nat
  BY FS_CardinalityType
<1> QED
  BY <1>1, <1>2

LEMMA CreditPositive ==
  ASSUME NEW rows, NEW i, \A p \in Payments : Amounted(rows[p]) /\ SumTo(rows[p], i) >= 0
  PROVE  CreditIn(rows, i) >= 0
<1> DEFINE h == [p \in Payments |-> SumTo(rows[p], i)]
<1>1. /\ h \in [Payments -> Int] /\ \A p \in Payments : h[p] >= 0
      /\ \A p \in Payments : h[p] = SumTo(rows[p], i)
  BY SumToInt
<1> HIDE DEF h
<1>2. PICK F : IsFold(F, h, Payments)
  BY <1>1, FoldExists, FeeAssumption
<1>3. F[Payments] >= 0
  BY <1>1, <1>2, FoldPositive, FeeAssumption
<1>4. CreditIn(rows, i) = F[Payments]
  BY <1>1, <1>2, CreditIs
<1> QED
  BY <1>3, <1>4

LEMMA SumToEmpty == \A t : SumTo(<<>>, t) = 0
<1> DEFINE none == <<>>
<1>1. Len(none) = 0 /\ DOMAIN none = 1..0
  OBVIOUS
<1> HIDE DEF none
<1>2. Amounted(none)
  BY <1>1 DEF Amounted
<1>3. \A t : SumTo(none, t) = 0
  BY <1>1, <1>2, SumToNone
<1> QED
  BY <1>3 DEF none

LEMMA CreditOfNothing ==
  ASSUME NEW rows, \A p \in Payments : rows[p] = <<>>, NEW i
  PROVE  CreditIn(rows, i) = 0
<1> DEFINE h == [p \in Payments |-> 0]  F == [t \in SUBSET Payments |-> 0]
<1>1. SumTo(<<>>, i) = 0
  BY SumToEmpty
<1>2. h \in [Payments -> Int] /\ \A p \in Payments : h[p] = SumTo(rows[p], i)
  BY <1>1
<1>3. IsFold(F, h, Payments)
  <2>1. F \in [SUBSET Payments -> Int] /\ F[{}] = 0
    OBVIOUS
  <2>2. ASSUME NEW t \in SUBSET Payments, t # {}
        PROVE  F[t] = h[First(t)] + F[t \ {First(t)}]
    <3>1. First(t) \in Payments /\ t \ {First(t)} \in SUBSET Payments
      BY <2>2, FirstIs, FeeAssumption
    <3> QED
      BY <3>1
  <2> QED
    BY <2>1, <2>2 DEF IsFold
<1>4. F[Payments] = 0
  OBVIOUS
<1> HIDE DEF F, h
<1> QED
  BY <1>2, <1>3, <1>4, CreditIs

-----------------------------------------------------------------------------
(***************************************************************************)
(* Shapes of the state.  G: the groups of rows that corrections write.     *)
(***************************************************************************)
RowsOf(G) == [to : Targets, amount : Int \ {0}, group : {"collect"} \cup Keys \cup G]

IsCollect(o) ==
  /\ o.kind = "collect"
  /\ o.p \in Payments \ Online /\ o.amount \in Nat \ {0}
  /\ IsPlan(o.plan) /\ PlanTotal(o.plan) <= o.amount

IsReallocate(o) ==
  /\ o.kind = "reallocate"
  /\ o.p \in Payments /\ o.key \in Keys
  /\ IsPlan(o.plan) /\ DOMAIN o.plan # {}
  /\ o.seen \in [DOMAIN o.plan -> Nat]

IsAdjust(o) ==
  /\ o.kind = "adjust"
  /\ o.i \in Adjustable /\ o.total \in Nat /\ o.paid \in Int

IsVoid(o) == o.kind = "void" /\ o.i \in Voidable

FeeRequest(o) == IsCollect(o) \/ IsReallocate(o) \/ IsAdjust(o) \/ IsVoid(o)
Execution(o) == o.kind = "execute" /\ {"kind", "stage", "stale"} \subseteq DOMAIN o

FeeTyped(G) ==
  /\ inv \in [Invoices -> InvoiceRows]
  /\ pay \in [Payments -> PaymentRows]
  /\ alloc \in [Payments -> Seq(RowsOf(G))]
  /\ DOMAIN op = Workers
  /\ \A w \in Workers : op[w] = Idle \/ FeeRequest(op[w]) \/ Execution(op[w])

LEMMA RowsAmounted ==
  ASSUME NEW G, NEW rows \in Seq(RowsOf(G))
  PROVE  Amounted(rows)
<1>1. \A r \in RowsOf(G) : r.amount \in Int
  BY DEF RowsOf
<1> QED
  BY <1>1, SeqAmounted

\* Appending rows adds up, in all and for each target.
LEMMA RowsAppended ==
  ASSUME NEW G, NEW rows \in Seq(RowsOf(G)), NEW more \in Seq(RowsOf(G))
  PROVE  /\ rows \o more \in Seq(RowsOf(G))
         /\ SumOf(rows \o more) = SumOf(rows) + SumOf(more)
         /\ \A t : SumTo(rows \o more, t) = SumTo(rows, t) + SumTo(more, t)
<1>1. \A r \in RowsOf(G) : r.amount \in Int
  BY DEF RowsOf
<1> QED
  BY <1>1, AppendAmounted, SumToConcat

LEMMA SingleRow ==
  ASSUME NEW G, NEW row \in RowsOf(G)
  PROVE  /\ <<row>> \in Seq(RowsOf(G))
         /\ SumOf(<<row>>) = row.amount
         /\ \A t : SumTo(<<row>>, t) = IF row.to = t THEN row.amount ELSE 0
<1> DEFINE rows == <<row>>
<1>1. rows \in Seq(RowsOf(G)) /\ Len(rows) = 1 /\ rows[1] = row /\ \A n \in 1..1 : n = 1
  OBVIOUS
<1>2. row.amount \in Int
  BY DEF RowsOf
<1>3. SumOf(rows) = row.amount
  BY <1>2, SumOfSingle
<1> HIDE DEF rows
<1>4. Amounted(rows)
  BY <1>1, RowsAmounted
<1>5. ASSUME NEW t PROVE SumTo(rows, t) = IF row.to = t THEN row.amount ELSE 0
  <2>1. CASE row.to = t
    <3>1. 1 \in 1..Len(rows) /\ rows[1].to = t /\ \A n \in 1..Len(rows) : n = 1
      BY <1>1, <2>1
    <3> QED
      BY <1>1, <1>4, <2>1, <3>1, SumToOnce
  <2>2. CASE row.to # t
    <3>1. \A n \in 1..Len(rows) : rows[n].to # t
      BY <1>1, <2>2
    <3> QED
      BY <1>4, <2>2, <3>1, SumToNone
  <2> QED
    BY <2>1, <2>2
<1> QED
  BY <1>1, <1>3, <1>5 DEF rows

LEMMA PlanRowsTyped ==
  ASSUME NEW G, NEW plan, IsPlan(plan), NEW group \in {"collect"} \cup Keys \cup G
  PROVE  PlanRows(plan, group) \in Seq(RowsOf(G))
<1>1. [to : Invoices, amount : Nat \ {0}, group : {group}] \subseteq RowsOf(G)
  BY DEF RowsOf, Targets
<1> QED
  BY <1>1, PlanRowsAre, SeqMonotonic

\* A collection writes its whole amount, each invoice its part of the plan.
LEMMA CollectRowsAre ==
  ASSUME NEW G, NEW o, IsCollect(o)
  PROVE  /\ CollectRows(o) \in Seq(RowsOf(G))
         /\ SumOf(CollectRows(o)) = o.amount
         /\ \A i \in Invoices : SumTo(CollectRows(o), i) = IF i \in DOMAIN o.plan THEN o.plan[i] ELSE 0
<1> DEFINE plan == o.plan
           left == o.amount - PlanTotal(plan)
           rows == PlanRows(plan, "collect")
           row == Row(Advance, left, "collect")
<1>1. IsPlan(plan) /\ PlanTotal(plan) \in Int /\ PlanTotal(plan) <= o.amount /\ o.amount \in Int
  BY PlanSums DEF IsCollect
<1>2. rows \in Seq(RowsOf(G))
  BY <1>1, PlanRowsTyped
<1>3. SumOf(rows) = PlanTotal(plan) /\ \A t : SumTo(rows, t) = IF t \in DOMAIN plan THEN plan[t] ELSE 0
  BY <1>1, PlanSums
<1>4. \A i \in Invoices : i # Advance
  BY FeeAssumption
<1>5. \A i \in DOMAIN plan : plan[i] \in Nat
  BY <1>1, PlanDomain
<1> HIDE DEF rows
<1>6. CASE o.amount > PlanTotal(plan)
  <2>1. row \in RowsOf(G) /\ row.to = Advance /\ row.amount = left
    BY <1>1, <1>6 DEF RowsOf, Row, Targets
  <2> HIDE DEF row
  <2>2. /\ <<row>> \in Seq(RowsOf(G)) /\ SumOf(<<row>>) = left
        /\ \A i \in Invoices : SumTo(<<row>>, i) = 0
    BY <2>1, <1>4, SingleRow
  <2>3. CollectRows(o) = rows \o <<row>>
    BY <1>6 DEF CollectRows, rows, row
  <2>4. /\ rows \o <<row>> \in Seq(RowsOf(G))
        /\ SumOf(rows \o <<row>>) = SumOf(rows) + SumOf(<<row>>)
        /\ \A t : SumTo(rows \o <<row>>, t) = SumTo(rows, t) + SumTo(<<row>>, t)
    BY <1>2, <2>2, RowsAppended
  <2> QED
    BY <1>1, <1>3, <1>5, <2>2, <2>3, <2>4
<1>7. CASE ~(o.amount > PlanTotal(plan))
  <2>1. CollectRows(o) = rows \o <<>>
    BY <1>7 DEF CollectRows, rows
  <2>2. CollectRows(o) = rows
    BY <1>2, <2>1
  <2> QED
    BY <1>1, <1>2, <1>3, <1>7, <2>2
<1> QED
  BY <1>6, <1>7

\* A reallocation moves: its rows add up to nothing.
LEMMA ReallocateRowsAre ==
  ASSUME NEW G, NEW o, IsReallocate(o)
  PROVE  /\ ReallocateRows(o) \in Seq(RowsOf(G))
         /\ SumOf(ReallocateRows(o)) = 0
         /\ \A i \in Invoices : SumTo(ReallocateRows(o), i) = IF i \in DOMAIN o.plan THEN o.plan[i] ELSE 0
<1> DEFINE plan == o.plan
           rows == PlanRows(plan, o.key)
           row == Row(Advance, -PlanTotal(plan), o.key)
<1>1. IsPlan(plan) /\ PlanTotal(plan) \in Int /\ PlanTotal(plan) > 0 /\ o.key \in Keys
  BY PlanSums DEF IsReallocate
<1>2. rows \in Seq(RowsOf(G))
  BY <1>1, PlanRowsTyped
<1>3. SumOf(rows) = PlanTotal(plan) /\ \A t : SumTo(rows, t) = IF t \in DOMAIN plan THEN plan[t] ELSE 0
  BY <1>1, PlanSums
<1>4. \A i \in Invoices : i # Advance
  BY FeeAssumption
<1>5. \A i \in DOMAIN plan : plan[i] \in Nat
  BY <1>1, PlanDomain
<1>6. row \in RowsOf(G) /\ row.to = Advance /\ row.amount = -PlanTotal(plan)
  BY <1>1 DEF RowsOf, Row, Targets
<1>7. ReallocateRows(o) = <<row>> \o rows
  BY DEF ReallocateRows
<1> HIDE DEF rows, row
<1>8. /\ <<row>> \in Seq(RowsOf(G)) /\ SumOf(<<row>>) = -PlanTotal(plan)
      /\ \A i \in Invoices : SumTo(<<row>>, i) = 0
  BY <1>4, <1>6, SingleRow
<1>9. /\ <<row>> \o rows \in Seq(RowsOf(G))
      /\ SumOf(<<row>> \o rows) = SumOf(<<row>>) + SumOf(rows)
      /\ \A t : SumTo(<<row>> \o rows, t) = SumTo(<<row>>, t) + SumTo(rows, t)
  BY <1>2, <1>8, RowsAppended
<1> QED
  BY <1>1, <1>3, <1>5, <1>7, <1>8, <1>9

-----------------------------------------------------------------------------
(***************************************************************************)
(* Steps                                                                   *)
(***************************************************************************)
LEMMA CreditIsIn == \A i : Credit(i) = CreditIn(alloc, i)
  BY DEF Credit, Net, CreditIn

LEMMA CreditIsNext == (\A i : Credit(i) = CreditIn(alloc, i))'
  BY CreditIsIn, PTL

\* A transaction that gives a payment new rows changes the credits and nets.
LEMMA RowsWritten ==
  ASSUME NEW G, alloc \in [Payments -> Seq(RowsOf(G))],
         NEW p \in Payments, NEW rows \in Seq(RowsOf(G)), alloc' = [alloc EXCEPT ![p] = rows]
  PROVE  /\ alloc' \in [Payments -> Seq(RowsOf(G))]
         /\ \A i : /\ Credit(i) \in Int
                   /\ Credit(i)' = Credit(i) + (SumTo(rows, i) - Net(p, i))
         /\ \A t : /\ Net(p, t)' = SumTo(rows, t) /\ Net(p, t) \in Int
                   /\ \A q \in Payments \ {p} : Net(q, t)' = Net(q, t)
         /\ Kept(p)' = SumOf(rows) /\ Kept(p) \in Int
         /\ \A q \in Payments \ {p} : Kept(q)' = Kept(q)
<1>1. alloc' \in [Payments -> Seq(RowsOf(G))] /\ alloc'[p] = rows
      /\ \A q \in Payments \ {p} : alloc'[q] = alloc[q]
  OBVIOUS
<1>2. \A q \in Payments : Amounted(alloc[q]) /\ Amounted(alloc'[q])
  BY <1>1, RowsAmounted
<1>3. ASSUME NEW i PROVE Credit(i) \in Int /\ Credit(i)' = Credit(i) + (SumTo(rows, i) - Net(p, i))
  <2>1. /\ CreditIn(alloc, i) \in Int
        /\ CreditIn(alloc', i) = CreditIn(alloc, i) + (SumTo(alloc'[p], i) - SumTo(alloc[p], i))
    <3>1. PICK before : before = alloc
      OBVIOUS
    <3>2. PICK after : after = alloc'
      OBVIOUS
    <3>3. OnlyRowsOf(p, before, after)
      BY <1>1, <1>2, <3>1, <3>2 DEF OnlyRowsOf
    <3>4. /\ CreditIn(before, i) \in Int
          /\ CreditIn(after, i) = CreditIn(before, i) + (SumTo(after[p], i) - SumTo(before[p], i))
      BY <3>3, CreditChange
    <3> QED
      BY <3>1, <3>2, <3>4
  <2> QED
    BY <1>1, <2>1, CreditIsIn, CreditIsNext DEF Net
<1>4. ASSUME NEW t
      PROVE  /\ Net(p, t)' = SumTo(rows, t) /\ Net(p, t) \in Int
             /\ \A q \in Payments \ {p} : Net(q, t)' = Net(q, t)
  BY <1>1, <1>2, SumToInt DEF Net
<1>5. /\ Kept(p)' = SumOf(rows) /\ Kept(p) \in Int
      /\ \A q \in Payments \ {p} : Kept(q)' = Kept(q)
  BY <1>1, <1>2, SumOfInt DEF Kept
<1> QED
  BY <1>1, <1>3, <1>4, <1>5

LEMMA CreditInt ==
  ASSUME NEW G, alloc \in [Payments -> Seq(RowsOf(G))]
  PROVE  \A i : Credit(i) \in Int
<1> SUFFICES ASSUME NEW i PROVE Credit(i) \in Int
  OBVIOUS
<1>1. PICK before : before = alloc
  OBVIOUS
<1>2. \A p \in Payments : Amounted(before[p])
  BY <1>1, RowsAmounted
<1>3. CreditIn(before, i) \in Int
  <2>1. CASE Payments = {}
    <3>1. CreditIn(before, i) = 0
      BY <2>1, CreditOfNothing
    <3> QED
      BY <3>1
  <2>2. CASE Payments # {}
    <3>1. PICK p \in Payments : TRUE
      BY <2>2
    <3>2. OnlyRowsOf(p, before, before)
      BY <1>2 DEF OnlyRowsOf
    <3> QED
      BY <3>2, CreditChange
  <2> QED
    BY <2>1, <2>2
<1> QED
  BY <1>1, <1>3, CreditIsIn

LEMMA RowsKept ==
  ASSUME UNCHANGED alloc
  PROVE  /\ \A i : Credit(i)' = Credit(i)
         /\ \A p, t : Net(p, t)' = Net(p, t)
         /\ \A p : Kept(p)' = Kept(p)
<1>1. \A i : Credit(i)' = Credit(i)
  BY CreditIsIn, CreditIsNext
<1>2. \A p, t : Net(p, t)' = Net(p, t)
  BY DEF Net
<1>3. \A p : Kept(p)' = Kept(p)
  BY DEF Kept
<1> QED
  BY <1>1, <1>2, <1>3

\* Only a transaction with a snapshot is told what another one wrote.
LEMMA ToldIs ==
  ASSUME NEW o, o = Idle \/ FeeRequest(o) \/ Execution(o), NEW rows
  PROVE  /\ o = Idle \/ FeeRequest(o) => Told(o, rows) = o
         /\ Execution(o) => Execution(Told(o, rows))
<1>1. FeeRequest(o) => o.kind # "execute"
  BY DEF FeeRequest, IsCollect, IsReallocate, IsAdjust, IsVoid
<1>2. o = Idle \/ FeeRequest(o) => Told(o, rows) = o
  BY <1>1 DEF Told, Holding
<1>3. ASSUME Execution(o) PROVE Execution(Told(o, rows))
  <2>1. CASE Holding(o)
    <3>1. Told(o, rows) = [o EXCEPT !.stale = o.stale \cup rows]
      BY <2>1 DEF Told
    <3>2. "kind" # "stale" /\ "stage" # "stale"
      OBVIOUS
    <3> QED
      BY <1>3, <3>1, <3>2 DEF Execution
  <2>2. CASE ~Holding(o)
    BY <1>3, <2>2 DEF Told
  <2> QED
    BY <2>1, <2>2
<1> QED
  BY <1>2, <1>3

\* The requests of the workers after one of them went on.
Requested(requests) ==
  /\ DOMAIN requests = Workers
  /\ \A w \in Workers : requests[w] = Idle \/ FeeRequest(requests[w]) \/ Execution(requests[w])

LEMMA Becomes ==
  ASSUME NEW G, FeeTyped(G), NEW w \in Workers, NEW o, NEW rows, Become(w, o, rows),
         o = Idle \/ FeeRequest(o) \/ Execution(o)
  PROVE  Requested(op')
<1>1. op' = [v \in Workers |-> IF v = w THEN o ELSE Told(op[v], rows)]
  BY DEF Become
<1>2. ASSUME NEW v \in Workers
      PROVE  Told(op[v], rows) = Idle \/ FeeRequest(Told(op[v], rows)) \/ Execution(Told(op[v], rows))
  BY ToldIs DEF FeeTyped
<1> QED
  BY <1>1, <1>2 DEF Requested

\* What the requests read fits their kind.
LEMMA ReadsTyped ==
  ASSUME NEW G, FeeTyped(G), NEW w \in Workers,
         ReadCollect(w) \/ ReadReallocate(w) \/ ReadAdjust(w) \/ ReadVoid(w) \/ RollBack(w)
  PROVE  /\ UNCHANGED <<inv, pay, alloc>>
         /\ Requested(op')
<1>1. CASE ReadCollect(w)
  <2>1. PICK p \in Payments \ Online, amount \in Amounts : \E plan \in Plans(amount) :
          /\ Become(w, [kind |-> "collect", p |-> p, amount |-> amount, plan |-> plan], {})
          /\ UNCHANGED <<inv, pay, alloc>>
    BY <1>1 DEF ReadCollect
  <2>2. PICK plan \in Plans(amount) :
          /\ Become(w, [kind |-> "collect", p |-> p, amount |-> amount, plan |-> plan], {})
          /\ UNCHANGED <<inv, pay, alloc>>
    BY <2>1
  <2> DEFINE o == [kind |-> "collect", p |-> p, amount |-> amount, plan |-> plan]
  <2>3. amount \in Nat \ {0}
    BY FeeAssumption
  <2>4. IsPlan(plan) /\ PlanTotal(plan) <= amount
    <3>1. 1..amount \subseteq Nat \ {0}
      BY <2>3
    <3> QED
      BY <3>1 DEF Plans, IsPlan
  <2>5. IsCollect(o)
    BY <2>3, <2>4 DEF IsCollect
  <2> HIDE DEF o
  <2> QED
    BY <2>2, <2>5, Becomes DEF FeeRequest, o
<1>2. CASE ReadReallocate(w)
  <2>1. PICK p \in Payments, k \in Keys : \E plan \in Plans(Net(p, Advance)) :
          /\ DOMAIN plan # {}
          /\ Become(w, [kind |-> "reallocate", p |-> p, key |-> k, plan |-> plan,
                        seen |-> [i \in DOMAIN plan |-> inv[i].total]], {})
          /\ UNCHANGED <<inv, pay, alloc>>
    BY <1>2 DEF ReadReallocate
  <2>2. PICK plan \in Plans(Net(p, Advance)) :
          /\ DOMAIN plan # {}
          /\ Become(w, [kind |-> "reallocate", p |-> p, key |-> k, plan |-> plan,
                        seen |-> [i \in DOMAIN plan |-> inv[i].total]], {})
          /\ UNCHANGED <<inv, pay, alloc>>
    BY <2>1
  <2> DEFINE o == [kind |-> "reallocate", p |-> p, key |-> k, plan |-> plan,
                   seen |-> [i \in DOMAIN plan |-> inv[i].total]]
  <2>3. Net(p, Advance) \in Int
    BY RowsAmounted, SumToInt DEF FeeTyped, Net
  <2>4. IsPlan(plan)
    <3>1. 1..Net(p, Advance) \subseteq Nat \ {0}
      BY <2>3
    <3> QED
      BY <3>1 DEF Plans, IsPlan
  <2>5. [i \in DOMAIN plan |-> inv[i].total] \in [DOMAIN plan -> Nat]
    BY <2>4, PlanDomain DEF FeeTyped, InvoiceRows
  <2>6. IsReallocate(o)
    BY <2>2, <2>4, <2>5 DEF IsReallocate
  <2> HIDE DEF o
  <2> QED
    BY <2>2, <2>6, Becomes DEF FeeRequest, o
<1>3. CASE ReadAdjust(w)
  <2>1. PICK i \in Adjustable, delta \in {-1, 1} :
          /\ inv[i].total + delta >= 0
          /\ Become(w, [kind |-> "adjust", i |-> i,
                        total |-> inv[i].total + delta, paid |-> Credit(i)], {})
          /\ UNCHANGED <<inv, pay, alloc>>
    BY <1>3 DEF ReadAdjust
  <2> DEFINE o == [kind |-> "adjust", i |-> i, total |-> inv[i].total + delta, paid |-> Credit(i)]
  <2>2. inv[i].total + delta \in Nat
    <3>1. i \in Invoices
      BY FeeAssumption
    <3> QED
      BY <2>1, <3>1 DEF FeeTyped, InvoiceRows
  <2>3. Credit(i) \in Int
    BY CreditInt DEF FeeTyped
  <2>4. IsAdjust(o)
    BY <2>2, <2>3 DEF IsAdjust
  <2> HIDE DEF o
  <2> QED
    BY <2>1, <2>4, Becomes DEF FeeRequest, o
<1>4. CASE ReadVoid(w)
  <2>1. PICK i \in Voidable : Become(w, [kind |-> "void", i |-> i], {}) /\ UNCHANGED <<inv, pay, alloc>>
    BY <1>4 DEF ReadVoid
  <2>2. IsVoid([kind |-> "void", i |-> i])
    BY DEF IsVoid
  <2> QED
    BY <2>1, <2>2, Becomes DEF FeeRequest
<1>5. CASE RollBack(w)
  BY <1>5, Becomes DEF RollBack
<1> QED
  BY <1>1, <1>2, <1>3, <1>4, <1>5

\* The request a transaction belongs to.
LEMMA RequestIs ==
  ASSUME NEW G, FeeTyped(G), NEW w \in Workers, op[w] # Idle
  PROVE  /\ op[w].kind = "collect" => IsCollect(op[w])
         /\ op[w].kind = "reallocate" => IsReallocate(op[w])
         /\ op[w].kind = "adjust" => IsAdjust(op[w])
         /\ op[w].kind = "void" => IsVoid(op[w])
  BY DEF FeeTyped, FeeRequest, Execution, IsCollect, IsReallocate, IsAdjust, IsVoid

\* The rows of a plan pass the trigger only where every invoice has room.
LEMMA RoomFor ==
  ASSUME NEW plan, IsPlan(plan), NEW rows, Amounted(rows), GuardInvoices(rows),
         NEW i \in DOMAIN plan,
         \E n \in 1..Len(rows) : rows[n].to = i /\ rows[n].amount = plan[i]
  PROVE  Credit(i) + plan[i] <= inv[i].total
<1>1. PICK n \in 1..Len(rows) : rows[n].to = i /\ rows[n].amount = plan[i]
  OBVIOUS
<1>2. i \in Invoices /\ plan[i] > 0
  BY PlanDomain
<1> QED
  BY <1>1, <1>2 DEF GuardInvoices

\* A status is one of those an invoice can have.
LEMMA StatusIs ==
  ASSUME NEW paid, NEW total
  PROVE  /\ ResolveInvoiceStatusAfterAdjustment(paid, total) \in InvoiceStatuses
         /\ CollectedStatus(paid, total) \in InvoiceStatuses
  BY DEF ResolveInvoiceStatusAfterAdjustment, CollectedStatus, InvoiceStatuses

\* A row of a plan is among the rows a transaction writes.
LEMMA RowAmong ==
  ASSUME NEW G, NEW some \in Seq(RowsOf(G)), NEW more \in Seq(RowsOf(G)),
         NEW plan, Carries(some, plan) \/ Carries(more, plan), NEW i \in DOMAIN plan
  PROVE  \E n \in 1..Len(some \o more) :
           (some \o more)[n].to = i /\ (some \o more)[n].amount = plan[i]
<1>1. /\ \A n \in 1..Len(some) : n \in 1..Len(some \o more) /\ (some \o more)[n] = some[n]
      /\ \A n \in 1..Len(more) : /\ Len(some) + n \in 1..Len(some \o more)
                                 /\ (some \o more)[Len(some) + n] = more[n]
  OBVIOUS
<1>2. CASE Carries(some, plan)
  BY <1>1, <1>2 DEF Carries
<1>3. CASE Carries(more, plan)
  <2>1. PICK n \in 1..Len(more) : more[n].to = i /\ more[n].amount = plan[i]
    BY <1>3 DEF Carries
  <2> QED
    BY <1>1, <2>1
<1> QED
  BY <1>2, <1>3

\* A plan whose rows pass the trigger leaves no credit above the total.
LEMMA CollectHasRoom ==
  ASSUME NEW G, NEW o, IsCollect(o), GuardInvoices(CollectRows(o)), NEW i \in DOMAIN o.plan
  PROVE  Credit(i) + o.plan[i] <= inv[i].total
<1> DEFINE plan == o.plan  rows == PlanRows(plan, "collect")
           left == IF o.amount > PlanTotal(plan)
                   THEN <<Row(Advance, o.amount - PlanTotal(plan), "collect")>> ELSE <<>>
<1>1. IsPlan(plan) /\ o.amount \in Nat /\ PlanTotal(plan) \in Int
  BY PlanSums DEF IsCollect
<1>2. rows \in Seq(RowsOf({})) /\ Carries(rows, plan)
  BY <1>1, PlanRowsTyped, PlanRowsAre
<1>3. left \in Seq(RowsOf({}))
  <2>1. CASE o.amount > PlanTotal(plan)
    <3>1. Row(Advance, o.amount - PlanTotal(plan), "collect") \in RowsOf({})
      BY <1>1, <2>1 DEF RowsOf, Row, Targets
    <3> QED
      BY <2>1, <3>1
  <2> QED
    BY <2>1
<1>4. CollectRows(o) = rows \o left
  BY DEF CollectRows
<1> HIDE DEF rows, left
<1> HIDE DEF plan
<1>5. /\ CollectRows(o) \in Seq(RowsOf({}))
      /\ \E n \in 1..Len(CollectRows(o)) :
           CollectRows(o)[n].to = i /\ CollectRows(o)[n].amount = plan[i]
  <2>1. i \in DOMAIN plan
    BY DEF plan
  <2>2. rows \o left \in Seq(RowsOf({}))
    BY <1>2, <1>3, RowsAppended
  <2>3. \E n \in 1..Len(rows \o left) : (rows \o left)[n].to = i /\ (rows \o left)[n].amount = plan[i]
    BY <1>2, <1>3, <2>1, RowAmong
  <2> QED
    BY <1>4, <2>2, <2>3
<1>6. Amounted(CollectRows(o))
  BY <1>5, RowsAmounted
<1> QED
  BY <1>1, <1>5, <1>6, RoomFor DEF plan

LEMMA ReallocateHasRoom ==
  ASSUME NEW o, IsReallocate(o), GuardInvoices(ReallocateRows(o)), NEW i \in DOMAIN o.plan
  PROVE  Credit(i) + o.plan[i] <= inv[i].total
<1> DEFINE plan == o.plan  rows == PlanRows(plan, o.key)
           moved == <<Row(Advance, -PlanTotal(plan), o.key)>>
<1>1. IsPlan(plan) /\ o.key \in Keys /\ PlanTotal(plan) \in Int /\ PlanTotal(plan) > 0
  BY PlanSums DEF IsReallocate
<1>2. rows \in Seq(RowsOf({})) /\ Carries(rows, plan)
  BY <1>1, PlanRowsTyped, PlanRowsAre
<1>3. moved \in Seq(RowsOf({}))
  <2>1. Row(Advance, -PlanTotal(plan), o.key) \in RowsOf({})
    BY <1>1 DEF RowsOf, Row, Targets
  <2> QED
    BY <2>1
<1>4. ReallocateRows(o) = moved \o rows
  BY DEF ReallocateRows
<1> HIDE DEF rows, moved
<1> HIDE DEF plan
<1>5. /\ ReallocateRows(o) \in Seq(RowsOf({}))
      /\ \E n \in 1..Len(ReallocateRows(o)) :
           ReallocateRows(o)[n].to = i /\ ReallocateRows(o)[n].amount = plan[i]
  <2>1. i \in DOMAIN plan
    BY DEF plan
  <2>2. moved \o rows \in Seq(RowsOf({}))
    BY <1>2, <1>3, RowsAppended
  <2>3. \E n \in 1..Len(moved \o rows) : (moved \o rows)[n].to = i /\ (moved \o rows)[n].amount = plan[i]
    BY <1>2, <1>3, <2>1, RowAmong
  <2> QED
    BY <1>4, <2>2, <2>3
<1>6. Amounted(ReallocateRows(o))
  BY <1>5, RowsAmounted
<1> QED
  BY <1>1, <1>5, <1>6, RoomFor DEF plan

-----------------------------------------------------------------------------
(***************************************************************************)
(* The invariant of the requests that move money.  A payment keeps what it *)
(* brought less what was refunded, no invoice has a negative part of it,   *)
(* and no invoice is credited with more than its total.                    *)
(***************************************************************************)
Balanced(p) ==
  /\ pay[p].status = "none" => alloc[p] = <<>> /\ pay[p].amount = 0
  /\ pay[p].status = "SUCCESS" => pay[p].amount > 0
  /\ Kept(p) = IF pay[p].status = "SUCCESS" THEN pay[p].amount - pay[p].refunded ELSE 0
  /\ \A i \in Invoices : Net(p, i) >= 0
  /\ pay[p].refunded <= pay[p].amount

FeeInv(G) ==
  /\ FeeTyped(G)
  /\ \A p \in Payments : Balanced(p)
  /\ InvoicesNotOverpaid

LEMMA FeeInitHolds == ASSUME NEW G, FeeInit PROVE FeeInv(G)
<1>1. FeeTyped(G)
  BY FeeAssumption DEF FeeInit, FeeTyped, InvoiceRows, InvoiceStatuses, PaymentRows
<1>3. \A p \in Payments : Balanced(p)
  BY SumToEmpty, SumOfEmpty DEF FeeInit, Balanced, Kept, Net
<1>4. InvoicesNotOverpaid
  <2>1. PICK rows : rows = alloc
    OBVIOUS
  <2>2. \A i : CreditIn(rows, i) = 0
    BY <2>1, CreditOfNothing DEF FeeInit
  <2> QED
    BY <2>1, <2>2, CreditIsIn, FeeAssumption DEF FeeInit, InvoicesNotOverpaid
<1> QED
  BY <1>1, <1>3, <1>4 DEF FeeInv

\* What else a request of a cashier or a bursar leaves alone: the payments
\* that exist, those that are not theirs, and what is already allocated.
Onward ==
  /\ \A p \in Payments : pay[p].status # "none" \/ p \in Online => pay'[p] = pay[p]
  /\ \A p \in Payments, i \in Invoices : Net(p, i)' >= Net(p, i)

\* The transaction pays the invoices of its plan.
Pays(o) ==
  \A i \in Invoices :
    IF i \in DOMAIN o.plan THEN o.plan[i] \in Nat \ {0} /\ Credit(i)' = Credit(i) + o.plan[i]
    ELSE Credit(i)' = Credit(i)

LEMMA CollectKeeps ==
  ASSUME NEW G, FeeInv(G), NEW w \in Workers, CollectPayment(w)
  PROVE  FeeInv(G)' /\ Onward /\ Pays(op[w])
<1>0. PICK o : o = op[w]
  OBVIOUS
<1> DEFINE p == o.p  rows == CollectRows(o)
<1>1. IsCollect(o) /\ p \in Payments \ Online /\ IsPlan(o.plan) /\ o.amount \in Nat \ {0}
  BY <1>0, RequestIs DEF CollectPayment, FeeInv, IsCollect
<1>2. rows \in Seq(RowsOf(G)) /\ SumOf(rows) = o.amount
      /\ \A i \in Invoices : SumTo(rows, i) = IF i \in DOMAIN o.plan THEN o.plan[i] ELSE 0
  BY <1>1, CollectRowsAre
<1>3. /\ pay[p].status = "none" /\ GuardInvoices(rows)
      /\ pay' = [pay EXCEPT ![p] = [status |-> "SUCCESS", amount |-> o.amount, refunded |-> 0]]
      /\ alloc' = [alloc EXCEPT ![p] = rows]
      /\ inv' = [i \in Invoices |->
                   IF i \in DOMAIN o.plan
                   THEN [inv[i] EXCEPT !.status = CollectedStatus(Credit(i) + o.plan[i], inv[i].total)]
                   ELSE inv[i]]
      /\ Become(w, Idle, DOMAIN o.plan)
  BY <1>0 DEF CollectPayment, MayCollect, AllocationGuard
<1>4. \A i \in DOMAIN o.plan : Credit(i) + o.plan[i] <= inv[i].total
  BY <1>1, <1>3, CollectHasRoom
<1>5. \A i \in DOMAIN o.plan : o.plan[i] \in Nat \ {0}
  BY <1>1, PlanDomain
<1> HIDE DEF rows, p
<1>6. /\ alloc' \in [Payments -> Seq(RowsOf(G))]
      /\ \A i : Credit(i) \in Int /\ Credit(i)' = Credit(i) + (SumTo(rows, i) - Net(p, i))
      /\ \A t : Net(p, t)' = SumTo(rows, t) /\ \A q \in Payments \ {p} : Net(q, t)' = Net(q, t)
      /\ Kept(p)' = SumOf(rows) /\ \A q \in Payments \ {p} : Kept(q)' = Kept(q)
  BY <1>1, <1>2, <1>3, RowsWritten DEF FeeInv, FeeTyped
<1>7. FeeTyped(G)'
  <2>1. inv' \in [Invoices -> InvoiceRows]
    BY <1>3, StatusIs DEF FeeInv, FeeTyped, InvoiceRows
  <2>2. pay' \in [Payments -> PaymentRows]
    BY <1>1, <1>3 DEF FeeInv, FeeTyped, PaymentRows
  <2>3. Requested(op')
    BY <1>3, Becomes DEF FeeInv
  <2> QED
    BY <1>6, <2>1, <2>2, <2>3 DEF FeeTyped, Requested
<1>8. \A i \in Invoices : Net(p, i) = 0
  <2>1. alloc[p] = <<>>
    BY <1>1, <1>3 DEF FeeInv, Balanced
  <2> QED
    BY <2>1, SumToEmpty DEF Net
<1>9. ASSUME NEW q \in Payments PROVE Balanced(q)'
  <2>1. CASE q = p
    <3>1. pay'[q] = [status |-> "SUCCESS", amount |-> o.amount, refunded |-> 0]
      BY <1>1, <1>3, <2>1 DEF FeeInv, FeeTyped
    <3>2. \A i \in Invoices : Net(q, i)' >= 0
      BY <1>2, <1>5, <1>6, <2>1
    <3> QED
      BY <1>1, <1>2, <1>6, <2>1, <3>1, <3>2 DEF Balanced
  <2>2. CASE q # p
    <3>1. pay'[q] = pay[q] /\ alloc'[q] = alloc[q]
      BY <1>1, <1>3, <2>2 DEF FeeInv, FeeTyped
    <3> QED
      BY <1>6, <2>2, <3>1 DEF FeeInv, Balanced
  <2> QED
    BY <2>1, <2>2
<1>10. InvoicesNotOverpaid'
  <2> SUFFICES ASSUME NEW i \in Invoices PROVE Credit(i)' \in 0..inv'[i].total
    BY DEF InvoicesNotOverpaid
  <2>1. inv'[i].total = inv[i].total /\ inv[i].total \in Nat /\ Credit(i) \in 0..inv[i].total
    BY <1>3 DEF FeeInv, FeeTyped, InvoiceRows, InvoicesNotOverpaid
  <2>2. Credit(i)' = Credit(i) + SumTo(rows, i) /\ SumTo(rows, i) \in Int
    BY <1>2, <1>5, <1>6, <1>8
  <2> QED
    BY <1>2, <1>4, <1>5, <2>1, <2>2
<1>11. Onward
  <2>1. \A q \in Payments : pay[q].status # "none" \/ q \in Online => q # p /\ pay'[q] = pay[q]
    BY <1>1, <1>3 DEF FeeInv, FeeTyped
  <2>2. ASSUME NEW q \in Payments, NEW i \in Invoices PROVE Net(q, i)' >= Net(q, i)
    <3>1. CASE q = p
      BY <1>2, <1>5, <1>6, <1>8, <3>1
    <3>2. CASE q # p
      <4>1. Net(q, i) \in Int
        BY RowsAmounted, SumToInt DEF FeeInv, FeeTyped, Net
      <4> QED
        BY <1>6, <3>2, <4>1
    <3> QED
      BY <3>1, <3>2
  <2> QED
    BY <2>1, <2>2 DEF Onward
<1>12. Pays(o)
  <2>1. ASSUME NEW i \in Invoices
        PROVE  IF i \in DOMAIN o.plan THEN o.plan[i] \in Nat \ {0} /\ Credit(i)' = Credit(i) + o.plan[i]
               ELSE Credit(i)' = Credit(i)
    BY <1>2, <1>5, <1>6, <1>8
  <2> QED
    BY <2>1 DEF Pays
<1> QED
  BY <1>0, <1>7, <1>9, <1>10, <1>11, <1>12 DEF FeeInv

LEMMA ReallocateKeeps ==
  ASSUME NEW G, FeeInv(G), NEW w \in Workers, ReallocatePayment(w)
  PROVE  FeeInv(G)' /\ Onward /\ Pays(op[w])
<1>0. PICK o : o = op[w]
  OBVIOUS
<1> DEFINE p == o.p  more == ReallocateRows(o)  rows == alloc[p] \o more
<1>1. IsReallocate(o) /\ p \in Payments /\ IsPlan(o.plan) /\ DOMAIN o.plan # {}
  BY <1>0, RequestIs DEF ReallocatePayment, FeeInv, IsReallocate
<1>2. more \in Seq(RowsOf(G)) /\ SumOf(more) = 0
      /\ \A i \in Invoices : SumTo(more, i) = IF i \in DOMAIN o.plan THEN o.plan[i] ELSE 0
  BY <1>1, ReallocateRowsAre
<1>3. /\ Net(p, Advance) >= PlanTotal(o.plan) /\ GuardInvoices(more)
      /\ alloc' = [alloc EXCEPT ![p] = rows]
      /\ inv' = [i \in Invoices |->
                   IF i \in DOMAIN o.plan
                   THEN [inv[i] EXCEPT !.status =
                           ResolveInvoiceStatusAfterAdjustment(Credit(i) + o.plan[i], o.seen[i])]
                   ELSE inv[i]]
      /\ Become(w, Idle, DOMAIN o.plan)
      /\ UNCHANGED pay
  BY <1>0 DEF ReallocatePayment, MayReallocate, AllocationGuard
<1>4. \A i \in DOMAIN o.plan : Credit(i) + o.plan[i] <= inv[i].total
  BY <1>1, <1>3, ReallocateHasRoom
<1>5. \A i \in DOMAIN o.plan : o.plan[i] \in Nat \ {0}
  BY <1>1, PlanDomain
<1>6. PICK written : written = rows
  OBVIOUS
<1>7. /\ written \in Seq(RowsOf(G)) /\ SumOf(written) = Kept(p)
      /\ \A t : SumTo(written, t) = Net(p, t) + SumTo(more, t)
  <2>1. alloc[p] \in Seq(RowsOf(G)) /\ Kept(p) \in Int
    BY <1>1, RowsAmounted, SumOfInt DEF FeeInv, FeeTyped, Kept
  <2> HIDE DEF more
  <2> QED
    BY <1>2, <1>6, <2>1, RowsAppended DEF Kept, Net
<1>8. alloc' = [alloc EXCEPT ![p] = written]
  BY <1>3, <1>6
<1>9. \A i \in Invoices : SumTo(more, i) \in Nat
  BY <1>2, <1>5
<1> HIDE DEF rows, p, more
<1>10. /\ alloc' \in [Payments -> Seq(RowsOf(G))]
       /\ \A i : Credit(i) \in Int /\ Credit(i)' = Credit(i) + (SumTo(written, i) - Net(p, i))
       /\ \A t : /\ Net(p, t)' = SumTo(written, t) /\ Net(p, t) \in Int
                 /\ \A q \in Payments \ {p} : Net(q, t)' = Net(q, t)
       /\ Kept(p)' = SumOf(written) /\ \A q \in Payments \ {p} : Kept(q)' = Kept(q)
  BY <1>1, <1>7, <1>8, RowsWritten DEF FeeInv, FeeTyped
<1>11. FeeTyped(G)'
  <2>1. inv' \in [Invoices -> InvoiceRows]
    BY <1>3, StatusIs DEF FeeInv, FeeTyped, InvoiceRows
  <2>2. Requested(op')
    BY <1>3, Becomes DEF FeeInv
  <2> QED
    BY <1>3, <1>10, <2>1, <2>2 DEF FeeInv, FeeTyped, Requested
<1>12. pay[p].status # "none"
  <2>1. ASSUME alloc[p] = <<>> PROVE FALSE
    <3>1. Net(p, Advance) = 0
      BY <2>1, SumToEmpty DEF Net
    <3>2. PlanTotal(o.plan) \in Int /\ PlanTotal(o.plan) > 0
      BY <1>1, PlanSums
    <3> QED
      BY <1>3, <3>1, <3>2
  <2> QED
    BY <1>1, <2>1 DEF FeeInv, Balanced
<1>13. ASSUME NEW q \in Payments PROVE Balanced(q)' /\ \A i \in Invoices : Net(q, i)' >= Net(q, i)
  <2>1. pay'[q] = pay[q] /\ Balanced(q)
    BY <1>3 DEF FeeInv
  <2>2. CASE q = p
    <3>1. \A i \in Invoices : Net(q, i)' >= 0 /\ Net(q, i)' >= Net(q, i)
      BY <1>7, <1>9, <1>10, <2>1, <2>2 DEF Balanced
    <3> QED
      BY <1>7, <1>10, <1>12, <2>1, <2>2, <3>1 DEF Balanced
  <2>3. CASE q # p
    <3>1. alloc'[q] = alloc[q]
      BY <1>1, <1>8, <2>3 DEF FeeInv, FeeTyped
    <3>2. \A i \in Invoices : Net(q, i) \in Int
      BY RowsAmounted, SumToInt DEF FeeInv, FeeTyped, Net
    <3>3. \A i \in Invoices : Net(q, i)' = Net(q, i)
      BY <1>10, <2>3
    <3>4. Kept(q)' = Kept(q)
      BY <1>10, <2>3
    <3>5. \A i \in Invoices : Net(q, i) >= 0
      BY <2>1 DEF Balanced
    <3>6. \A i \in Invoices : Net(q, i)' >= 0 /\ Net(q, i)' >= Net(q, i)
      BY <3>2, <3>3, <3>5
    <3> QED
      BY <2>1, <3>1, <3>4, <3>6 DEF Balanced
  <2> QED
    BY <2>2, <2>3
<1>14. InvoicesNotOverpaid'
  <2> SUFFICES ASSUME NEW i \in Invoices PROVE Credit(i)' \in 0..inv'[i].total
    BY DEF InvoicesNotOverpaid
  <2>1. inv'[i].total = inv[i].total /\ inv[i].total \in Nat /\ Credit(i) \in 0..inv[i].total
    BY <1>3 DEF FeeInv, FeeTyped, InvoiceRows, InvoicesNotOverpaid
  <2>2. Credit(i)' = Credit(i) + SumTo(more, i) /\ SumTo(more, i) \in Nat
    BY <1>7, <1>9, <1>10
  <2> QED
    BY <1>2, <1>4, <2>1, <2>2
<1>15. Onward
  BY <1>3, <1>13 DEF Onward
<1>16. Pays(o)
  <2>1. ASSUME NEW i \in Invoices
        PROVE  IF i \in DOMAIN o.plan THEN o.plan[i] \in Nat \ {0} /\ Credit(i)' = Credit(i) + o.plan[i]
               ELSE Credit(i)' = Credit(i)
    <3>1. Credit(i)' = Credit(i) + SumTo(more, i) /\ Credit(i) \in Int
      BY <1>7, <1>9, <1>10
    <3> QED
      BY <1>2, <1>5, <3>1
  <2> QED
    BY <2>1 DEF Pays
<1> QED
  BY <1>0, <1>11, <1>13, <1>14, <1>15, <1>16 DEF FeeInv

LEMMA AdjustKeeps ==
  ASSUME NEW G, FeeInv(G), NEW w \in Workers, CreateInvoiceAdjustment(w) \/ VoidInvoice(w)
  PROVE  FeeInv(G)' /\ UNCHANGED <<pay, alloc>>
<1>1. UNCHANGED <<pay, alloc>> /\ \E rows : Become(w, Idle, rows)
  BY DEF CreateInvoiceAdjustment, VoidInvoice
<1>2. /\ inv' \in [Invoices -> InvoiceRows]
      /\ \A i \in Invoices : inv'[i].total < inv[i].total => Credit(i) <= inv'[i].total
  <2>1. CASE CreateInvoiceAdjustment(w)
    <3>1. IsAdjust(op[w]) /\ op[w].i \in Invoices /\ op[w].total \in Nat
      BY <2>1, RequestIs, FeeAssumption DEF CreateInvoiceAdjustment, FeeInv, IsAdjust
    <3>2. PICK i \in Invoices, total \in Nat : i = op[w].i /\ total = op[w].total
      BY <3>1
    <3>3. PICK new : /\ inv' = [inv EXCEPT ![i] = new]
                     /\ new.total = total /\ new \in InvoiceRows
      <4>1. inv' = [inv EXCEPT ![i] =
                      [status |-> ResolveInvoiceStatusAfterAdjustment(op[w].paid, total),
                       total |-> total, adjusted |-> inv[i].adjusted + 1]]
        BY <2>1, <3>2 DEF CreateInvoiceAdjustment
      <4>2. inv[i].adjusted + 1 \in Nat
        BY DEF FeeInv, FeeTyped, InvoiceRows
      <4> DEFINE new == [status |-> ResolveInvoiceStatusAfterAdjustment(op[w].paid, total),
                         total |-> total, adjusted |-> inv[i].adjusted + 1]
      <4>3. new.total = total /\ new \in InvoiceRows
        BY <4>2, StatusIs DEF InvoiceRows
      <4> HIDE DEF new
      <4> QED
        BY <4>1, <4>3 DEF new
    <3>4. total < inv[i].total => Credit(i) <= total
      BY <2>1, <3>2 DEF CreateInvoiceAdjustment, MayAdjust, InvoiceTotalGuard
    <3>5. \A k \in Invoices : inv[k].total \in Nat
      BY DEF FeeInv, FeeTyped, InvoiceRows
    <3> QED
      BY <3>3, <3>4, <3>5 DEF FeeInv, FeeTyped
  <2>2. CASE VoidInvoice(w)
    <3>1. PICK i \in Invoices : inv' = [inv EXCEPT ![i].status = "VOID"]
      BY <2>2, RequestIs, FeeAssumption DEF VoidInvoice, FeeInv, IsVoid
    <3>2. inv' \in [Invoices -> InvoiceRows] /\ \A k \in Invoices : inv'[k].total = inv[k].total
      BY <3>1 DEF FeeInv, FeeTyped, InvoiceRows, InvoiceStatuses
    <3>3. \A k \in Invoices : inv[k].total \in Nat
      BY DEF FeeInv, FeeTyped, InvoiceRows
    <3> QED
      BY <3>2, <3>3
  <2> QED
    BY <2>1, <2>2
<1>3. FeeTyped(G)'
  <2>1. Requested(op')
    BY <1>1, Becomes DEF FeeInv
  <2> QED
    BY <1>1, <1>2, <2>1 DEF FeeInv, FeeTyped, Requested
<1>4. \A p \in Payments : Balanced(p)'
  BY <1>1, RowsKept DEF FeeInv, Balanced
<1>5. InvoicesNotOverpaid'
  <2> SUFFICES ASSUME NEW i \in Invoices PROVE Credit(i)' \in 0..inv'[i].total
    BY DEF InvoicesNotOverpaid
  <2>1. /\ Credit(i)' = Credit(i) /\ Credit(i) \in 0..inv[i].total
        /\ inv[i].total \in Nat /\ inv'[i].total \in Nat
    BY <1>1, <1>2, RowsKept DEF FeeInv, FeeTyped, InvoiceRows, InvoicesNotOverpaid
  <2> QED
    BY <1>2, <2>1
<1> QED
  BY <1>1, <1>3, <1>4, <1>5 DEF FeeInv

LEMMA FeeUnchanged ==
  ASSUME NEW G, FeeInv(G), UNCHANGED <<inv, pay, alloc>>, Requested(op')
  PROVE  FeeInv(G)'
<1>1. FeeTyped(G)'
  BY DEF FeeInv, FeeTyped, Requested
<1>2. (\A p \in Payments : Balanced(p)') /\ InvoicesNotOverpaid'
  BY RowsKept DEF FeeInv, Balanced, InvoicesNotOverpaid
<1> QED
  BY <1>1, <1>2 DEF FeeInv

\* Every request of FeeAllocations keeps the invariant.
LEMMA FeeStepKeeps ==
  ASSUME NEW G, FeeInv(G), NEW w \in Workers, FeeStep(w)
  PROVE  FeeInv(G)' /\ Onward
<1>1. CASE CollectPayment(w)
  BY <1>1, CollectKeeps
<1>2. CASE ReallocatePayment(w)
  BY <1>2, ReallocateKeeps
<1>3. ASSUME UNCHANGED <<pay, alloc>> PROVE Onward
  <2>1. \A p \in Payments, i \in Invoices : Net(p, i)' = Net(p, i) /\ Net(p, i) \in Int
    BY <1>3, RowsKept, RowsAmounted, SumToInt DEF FeeInv, FeeTyped, Net
  <2> QED
    BY <1>3, <2>1 DEF Onward
<1>4. CASE CreateInvoiceAdjustment(w) \/ VoidInvoice(w)
  BY <1>3, <1>4, AdjustKeeps
<1>5. CASE ReadCollect(w) \/ ReadReallocate(w) \/ ReadAdjust(w) \/ ReadVoid(w) \/ RollBack(w)
  <2>1. UNCHANGED <<inv, pay, alloc>> /\ Requested(op')
    BY <1>5, ReadsTyped DEF FeeInv
  <2> QED
    BY <1>3, <2>1, FeeUnchanged
<1> QED
  BY <1>1, <1>2, <1>4, <1>5 DEF FeeStep

\* A request becomes another one or none, and the others are told at most.
LEMMA FeeStepBecomes ==
  ASSUME NEW w \in Workers, FeeStep(w)
  PROVE  \E o, rows : Become(w, o, rows) /\ (o = Idle \/ o.kind # "execute")
<1>1. CASE ReadCollect(w)
  BY <1>1 DEF ReadCollect
<1>2. CASE ReadReallocate(w)
  BY <1>2 DEF ReadReallocate
<1>3. CASE ReadAdjust(w)
  BY <1>3 DEF ReadAdjust
<1>4. CASE ReadVoid(w)
  BY <1>4 DEF ReadVoid
<1>5. CASE CollectPayment(w) \/ ReallocatePayment(w) \/ CreateInvoiceAdjustment(w)
           \/ VoidInvoice(w) \/ RollBack(w)
  BY <1>5 DEF CollectPayment, ReallocatePayment, CreateInvoiceAdjustment, VoidInvoice, RollBack
<1> QED
  BY <1>1, <1>2, <1>3, <1>4, <1>5 DEF FeeStep

=============================================================================

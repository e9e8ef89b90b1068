------------------------ MODULE FinanceCorrectionsProofs ------------------------
(***************************************************************************)
(* Corrections of payments keep the books: what the rows of a payment keep *)
(* is what the payment and its approved requests say, nobody served twice  *)
(* in a correction, no invoice is overpaid, and the rows, requests and     *)
(* transactions implement CorrectionContract.                              *)
(***************************************************************************)
EXTENDS FinanceCorrections, FeeAllocationsProofs

-----------------------------------------------------------------------------
(***************************************************************************)
(* The plan of a correction                                                *)
(***************************************************************************)
\* Induction over a set of numbers.
LEMMA Reaches ==
  ASSUME NEW N \in Nat, NEW T, 0 \in T, \A n \in 1..N : n - 1 \in T => n \in T
  PROVE  \A n \in 0..N : n \in T
<1> DEFINE Bad == {n \in 0..N : n \notin T}
<1>1. ASSUME Bad # {} PROVE FALSE
  <2>1. PICK n \in Bad : \A m \in Bad : n <= m
    BY <1>1, LeastNatural, Bad \subseteq Nat
  <2>2. n \in 1..N /\ n - 1 \in 0..N /\ n - 1 < n
    BY <2>1
  <2>3. n - 1 \in T
    BY <2>1, <2>2
  <2> QED
    BY <2>1, <2>2, <2>3
<1> QED
  BY <1>1

\* A function defined step by step exists.
Unfolds(f, N, S, first, step) ==
  /\ f \in [0..N -> S]
  /\ f[0] = first
  /\ \A n \in 1..N : f[n] = step[n][f[n - 1]]

LEMMA Unfolded ==
  ASSUME NEW N \in Nat, NEW S, NEW first \in S, NEW step \in [1..N -> [S -> S]]
  PROVE  \E f : Unfolds(f, N, S, first, step)
<1> DEFINE Some(k) == \E f : /\ f \in [0..k -> S]
                             /\ f[0] = first
                             /\ \A n \in 1..k : f[n] = step[n][f[n - 1]]
           T == {k \in 0..N : Some(k)}
<1>1. 0 \in T
  <2> DEFINE f == [n \in 0..0 |-> first]
  <2>1. f \in [0..0 -> S] /\ f[0] = first /\ \A n \in 1..0 : f[n] = step[n][f[n - 1]]
    OBVIOUS
  <2>2. Some(0)
    BY <2>1
  <2> HIDE DEF Some
  <2> QED
    BY <2>2
<1>2. ASSUME NEW k \in 1..N, k - 1 \in T PROVE k \in T
  <2>1. Some(k - 1)
    BY <1>2
  <2>2. PICK f : /\ f \in [0..(k - 1) -> S]
                 /\ f[0] = first
                 /\ \A n \in 1..(k - 1) : f[n] = step[n][f[n - 1]]
    BY <2>1
  <2> DEFINE g == [n \in 0..k |-> IF n = k THEN step[k][f[k - 1]] ELSE f[n]]
  <2>3. k - 1 \in 0..(k - 1) /\ f[k - 1] \in S /\ step[k][f[k - 1]] \in S
    BY <2>2
  <2>4. g \in [0..k -> S] /\ g[0] = first
    BY <2>2, <2>3
  <2>5. ASSUME NEW n \in 1..k PROVE g[n] = step[n][g[n - 1]]
    <3>1. CASE n = k
      BY <3>1, <2>3
    <3>2. CASE n # k
      <4>1. n \in 1..(k - 1) /\ n - 1 # k /\ n - 1 \in 0..k /\ n \in 0..k
        BY <3>2
      <4>2. f[n] = step[n][f[n - 1]]
        BY <2>2, <4>1
      <4> QED
        BY <3>2, <4>1, <4>2
    <3> QED
      BY <3>1, <3>2
  <2> HIDE DEF g
  <2>6. Some(k)
    BY <2>4, <2>5
  <2> HIDE DEF Some
  <2> QED
    BY <2>6
<1>3. N \in T
  <2> HIDE DEF T
  <2>1. \A k \in 1..N : k - 1 \in T => k \in T
    BY <1>2
  <2>2. \A k \in 0..N : k \in T
    BY <1>1, <2>1, Reaches
  <2> QED
    BY <2>2
<1> QED
  BY <1>3 DEF Unfolds

\* The order in which rows first name their targets names each of them once.
Names(order, rows) ==
  /\ order \in Seq(Targets)
  /\ \A m, n \in 1..Len(order) : order[m] = order[n] => m = n
  /\ \A n \in 1..Len(order) : \E m \in 1..Len(rows) : rows[m].to = order[n]

LEMMA OrderIs ==
  ASSUME NEW G, NEW rows \in Seq(RowsOf(G))
  PROVE  Names(Order(rows), rows)
<1> DEFINE N == Len(rows)
           step == [n \in 1..N |-> [s \in Seq(Targets) |->
                      IF rows[n].to \in ToSet(s) THEN s ELSE Append(s, rows[n].to)]]
           Defines(f) == f = [n \in 0..Len(rows) |->
                                IF n = 0 THEN <<>>
                                ELSE IF rows[n].to \in ToSet(f[n - 1]) THEN f[n - 1]
                                ELSE Append(f[n - 1], rows[n].to)]
           C == CHOOSE f : Defines(f)
<1>1. N \in Nat /\ \A n \in 1..N : rows[n].to \in Targets
  <2>1. N \in Nat /\ \A n \in 1..N : rows[n] \in RowsOf(G)
    OBVIOUS
  <2>2. \A row \in RowsOf(G) : row.to \in Targets
    BY DEF RowsOf
  <2> HIDE DEF N
  <2> QED
    BY <2>1, <2>2
<1>2. step \in [1..N -> [Seq(Targets) -> Seq(Targets)]]
  BY <1>1
<1>3. PICK f : Unfolds(f, N, Seq(Targets), <<>>, step)
  <2> HIDE DEF step
  <2>1. <<>> \in Seq(Targets)
    OBVIOUS
  <2> QED
    BY <1>1, <1>2, <2>1, Unfolded
<1>4. Defines(f)
  <2>1. ASSUME NEW n \in 0..N, n # 0
        PROVE  f[n] = IF rows[n].to \in ToSet(f[n - 1]) THEN f[n - 1]
                      ELSE Append(f[n - 1], rows[n].to)
    <3>1. n \in 1..N /\ n - 1 \in 0..N
      BY <1>1, <2>1
    <3>2. f[n - 1] \in Seq(Targets) /\ f[n] = step[n][f[n - 1]]
      <4> HIDE DEF step, N
      <4> QED
        BY <1>3, <3>1 DEF Unfolds
    <3> QED
      BY <3>1, <3>2
  <2> QED
    BY <1>3, <2>1 DEF Unfolds
<1>5. Defines(C)
  <2> HIDE DEF Defines
  <2> QED
    BY <1>4
<1>6. Order(rows) = C[N]
  BY DEF Order
<1>7. C[0] = <<>> /\ \A n \in 1..N : C[n] = IF rows[n].to \in ToSet(C[n - 1]) THEN C[n - 1]
                                            ELSE Append(C[n - 1], rows[n].to)
  <2> HIDE DEF C
  <2>1. 0 \in 0..Len(rows) /\ \A n \in 1..N : n \in 0..Len(rows) /\ n # 0
    BY <1>1
  <2> QED
    BY <1>5, <2>1
<1> HIDE DEF C, step, Defines, N
<1>8. \A n \in 0..N : Names(C[n], rows)
  <2> DEFINE T == {n \in 0..N : Names(C[n], rows)}
  <2>1. 0 \in T
    <3> DEFINE none == <<>>
    <3>1. none \in Seq(Targets) /\ Len(none) = 0
      OBVIOUS
    <3> HIDE DEF none
    <3>2. Names(none, rows)
      BY <3>1 DEF Names
    <3> QED
      BY <1>1, <1>7, <3>2 DEF none
  <2>2. ASSUME NEW n \in 1..N, n - 1 \in T PROVE n \in T
    <3>1. Names(C[n - 1], rows)
      BY <2>2
    <3>2. C[n] = IF rows[n].to \in ToSet(C[n - 1]) THEN C[n - 1] ELSE Append(C[n - 1], rows[n].to)
      BY <1>7
    <3>3. PICK s \in Seq(Targets), t \in Targets : s = C[n - 1] /\ t = rows[n].to
      BY <1>1, <3>1 DEF Names
    <3>4. CASE t \notin ToSet(s)
      <4>1. /\ Append(s, t) \in Seq(Targets) /\ Len(Append(s, t)) = Len(s) + 1
            /\ \A k \in 1..Len(s) : Append(s, t)[k] = s[k] /\ s[k] # t
            /\ Append(s, t)[Len(s) + 1] = t /\ Len(s) \in Nat
        BY <3>4 DEF ToSet
      <4>2. \A k \in 1..(Len(s) + 1) : k = Len(s) + 1 \/ k \in 1..Len(s)
        BY <4>1
      <4> DEFINE more == Append(s, t)
      <4>3. /\ more \in Seq(Targets) /\ Len(more) = Len(s) + 1 /\ more[Len(s) + 1] = t
            /\ \A k \in 1..Len(s) : more[k] = s[k] /\ s[k] # t
        BY <4>1
      <4> HIDE DEF more
      <4>4. \A k \in 1..Len(more) : k = Len(s) + 1 \/ k \in 1..Len(s)
        BY <4>2, <4>3
      <4>5. \A k, l \in 1..Len(more) : more[k] = more[l] => k = l
        BY <3>1, <3>3, <4>3, <4>4, SMTT(30) DEF Names
      <4>6. \A k \in 1..Len(more) : \E m \in 1..Len(rows) : rows[m].to = more[k]
        <5>1. n \in 1..Len(rows)
          BY DEF N
        <5> QED
          BY <3>1, <3>3, <4>3, <4>4, <5>1 DEF Names
      <4>7. Names(more, rows)
        BY <4>3, <4>5, <4>6 DEF Names
      <4>8. C[n] = more
        BY <3>2, <3>3, <3>4 DEF more
      <4> QED
        BY <1>1, <4>7, <4>8
    <3>5. CASE t \in ToSet(s)
      BY <3>1, <3>2, <3>3, <3>5
    <3> QED
      BY <3>4, <3>5
  <2>3. \A n \in 0..N : n \in T
    <3> HIDE DEF T
    <3> QED
      BY <1>1, <2>1, <2>2, Reaches
  <2> QED
    BY <2>3
<1> QED
  BY <1>1, <1>6, <1>8

\* The rows of a plan: positive parts, to each target no more than the payment
\* has on it, and to no target that the payment has no row for.
Parts == [to : Targets, amount : Nat \ {0}, group : {"plan"}]
IsPart(plan, rows) ==
  /\ plan \in Seq(Parts)
  /\ \A t : SumTo(plan, t) \in Nat /\ (SumTo(plan, t) = 0 \/ SumTo(plan, t) <= SumTo(rows, t))
  /\ \A n \in 1..Len(plan) : \E m \in 1..Len(rows) : rows[m].to = plan[n].to

LEMMA PartRows == Seq(Parts) \subseteq Seq(RowsOf({"plan"}))
<1>1. Parts \subseteq RowsOf({"plan"})
  BY DEF Parts, RowsOf
<1> QED
  BY <1>1, SeqMonotonic

\* A plan that has nothing for a target yet takes a part for it.
LEMMA OnePart ==
  ASSUME NEW G, NEW rows \in Seq(RowsOf(G)), NEW plan, IsPart(plan, rows),
         NEW t \in Targets, SumTo(plan, t) = 0, \E m \in 1..Len(rows) : rows[m].to = t,
         NEW part \in Nat \ {0}, part <= SumTo(rows, t)
  PROVE  /\ IsPart(Append(plan, Row(t, part, "plan")), rows)
         /\ \A u : u # t => SumTo(Append(plan, Row(t, part, "plan")), u) = SumTo(plan, u)
<1> DEFINE row == Row(t, part, "plan")
<1>1. row \in Parts /\ row \in RowsOf({"plan"}) /\ row.to = t /\ row.amount = part
  BY DEF Parts, RowsOf, Row
<1> HIDE DEF row
<1>2. plan \in Seq(Parts) /\ plan \in Seq(RowsOf({"plan"}))
  <2>1. plan \in Seq(Parts)
    BY DEF IsPart
  <2> QED
    BY <2>1, PartRows
<1>3. /\ <<row>> \in Seq(RowsOf({"plan"}))
      /\ \A u : SumTo(<<row>>, u) = IF row.to = u THEN row.amount ELSE 0
  BY <1>1, SingleRow
<1>4. \A u : SumTo(plan \o <<row>>, u) = SumTo(plan, u) + SumTo(<<row>>, u)
  BY <1>2, <1>3, RowsAppended
<1>5. plan \o <<row>> = Append(plan, row)
  BY <1>1, <1>2, AppendIsConcat
<1> DEFINE more == Append(plan, row)
<1>6. more \in Seq(Parts) /\ Len(more) = Len(plan) + 1 /\ more[Len(plan) + 1] = row
      /\ Len(plan) \in Nat /\ \A n \in 1..Len(plan) : more[n] = plan[n]
  BY <1>1, <1>2, AppendProperties, LenProperties
<1>7. \A u : SumTo(more, u) = SumTo(plan, u) + (IF u = t THEN part ELSE 0)
  BY <1>1, <1>3, <1>4, <1>5
<1> HIDE DEF more
<1>8. \A u : SumTo(more, u) \in Nat /\ (SumTo(more, u) = 0 \/ SumTo(more, u) <= SumTo(rows, u))
             /\ (u # t => SumTo(more, u) = SumTo(plan, u))
  <2>1. \A u : SumTo(plan, u) \in Nat /\ (SumTo(plan, u) = 0 \/ SumTo(plan, u) <= SumTo(rows, u))
    BY DEF IsPart
  <2> QED
    BY <1>7, <2>1
<1>9. \A n \in 1..Len(more) : \E m \in 1..Len(rows) : rows[m].to = more[n].to
  <2>1. \A n \in 1..Len(more) : n = Len(plan) + 1 \/ n \in 1..Len(plan)
    BY <1>6
  <2>2. \A n \in 1..Len(plan) : \E m \in 1..Len(rows) : rows[m].to = plan[n].to
    BY DEF IsPart
  <2>3. ASSUME NEW n \in 1..Len(more) PROVE \E m \in 1..Len(rows) : rows[m].to = more[n].to
    <3>1. CASE n = Len(plan) + 1
      BY <1>1, <1>6, <3>1
    <3>2. CASE n \in 1..Len(plan)
      <4>1. more[n] = plan[n]
        BY <1>6, <3>2
      <4> QED
        BY <2>2, <3>2, <4>1
    <3> QED
      BY <2>1, <3>1, <3>2
  <2> QED
    BY <2>3
<1> QED
  BY <1>6, <1>8, <1>9 DEF IsPart, more, row

LEMMA CorrectionPlanIs ==
  ASSUME NEW G, NEW p \in Payments, alloc[p] \in Seq(RowsOf(G)), NEW amount \in Int
  PROVE  IsPart(CorrectionPlan(p, amount), alloc[p])
<1>1. PICK rows \in Seq(RowsOf(G)) : rows = alloc[p]
  OBVIOUS
<1>2. PICK order : order = Order(rows)
  OBVIOUS
<1>3. Names(order, rows)
  BY <1>2, OrderIs
<1> DEFINE N == Len(order)
           Next1(n, s) == LET part == Part(SumTo(rows, order[n]), amount - SumOf(s))
                          IN  IF part > 0 THEN Append(s, Row(order[n], part, "plan")) ELSE s
           step == [n \in 1..N |-> [s \in Seq(Parts) |-> Next1(n, s)]]
           Defines(f) == f = [n \in 0..Len(order) |->
                                IF n = 0 THEN <<>> ELSE Next1(n, f[n - 1])]
           C == CHOOSE f : Defines(f)
<1>4. CorrectionPlan(p, amount) = C[N]
  BY <1>1, <1>2 DEF CorrectionPlan, Net
<1>5. N \in Nat /\ \A n \in 1..N : order[n] \in Targets
  BY <1>3 DEF Names
<1>6. \A n \in 1..N : SumTo(rows, order[n]) \in Int
  BY RowsAmounted, SumToInt
<1>7. \A s \in Seq(Parts) : SumOf(s) \in Int
  BY PartRows, RowsAmounted, SumOfInt
<1>8. ASSUME NEW n \in 1..N, NEW s \in Seq(Parts)
      PROVE  \/ Next1(n, s) = s
             \/ \E part \in Nat \ {0} : /\ part <= SumTo(rows, order[n])
                                        /\ Next1(n, s) = Append(s, Row(order[n], part, "plan"))
  <2> DEFINE part == Part(SumTo(rows, order[n]), amount - SumOf(s))
  <2>1. part \in Int /\ part <= SumTo(rows, order[n])
    BY <1>6, <1>7 DEF Part
  <2>4. Next1(n, s) = IF part > 0 THEN Append(s, Row(order[n], part, "plan")) ELSE s
    OBVIOUS
  <2> HIDE DEF part, Next1
  <2>2. CASE part > 0
    <3>1. part \in Nat \ {0} /\ Next1(n, s) = Append(s, Row(order[n], part, "plan"))
      BY <2>1, <2>2, <2>4
    <3> QED
      BY <2>1, <3>1
  <2>3. CASE ~(part > 0)
    BY <2>3, <2>4
  <2> QED
    BY <2>2, <2>3
<1>9. ASSUME NEW n \in 1..N, NEW s \in Seq(Parts) PROVE Next1(n, s) \in Seq(Parts)
  <2>1. \A part \in Nat \ {0} : Row(order[n], part, "plan") \in Parts
    BY <1>5 DEF Row, Parts
  <2> HIDE DEF Next1
  <2>2. \A part \in Nat \ {0} : Append(s, Row(order[n], part, "plan")) \in Seq(Parts)
    BY <2>1, AppendProperties
  <2> QED
    BY <1>8, <2>2
<1> HIDE DEF Next1
<1>10. PICK f : Unfolds(f, N, Seq(Parts), <<>>, step)
  <2>1. step \in [1..N -> [Seq(Parts) -> Seq(Parts)]]
    BY <1>9
  <2>2. <<>> \in Seq(Parts)
    OBVIOUS
  <2> HIDE DEF step
  <2> QED
    BY <1>5, <2>1, <2>2, Unfolded
<1>11. Defines(f)
  <2>1. ASSUME NEW n \in 0..N, n # 0 PROVE f[n] = Next1(n, f[n - 1])
    <3>1. n \in 1..N /\ n - 1 \in 0..N
      BY <1>5, <2>1
    <3>2. f[n - 1] \in Seq(Parts) /\ f[n] = step[n][f[n - 1]]
      <4> HIDE DEF step, N
      <4> QED
        BY <1>10, <3>1 DEF Unfolds
    <3> QED
      BY <3>1, <3>2
  <2> QED
    BY <1>10, <2>1 DEF Unfolds
<1>12. Defines(C)
  <2> HIDE DEF Defines
  <2> QED
    BY <1>11
<1>13. C[0] = <<>> /\ \A n \in 1..N : C[n] = Next1(n, C[n - 1])
  <2> HIDE DEF C
  <2>1. 0 \in 0..Len(order) /\ \A n \in 1..N : n \in 0..Len(order) /\ n # 0
    BY <1>5
  <2> QED
    BY <1>12, <2>1
<1> HIDE DEF C, step, Defines
<1> DEFINE Fits(n) == /\ IsPart(C[n], rows)
                      /\ \A k \in 1..N : k > n => SumTo(C[n], order[k]) = 0
<1>14. \A n \in 0..N : Fits(n)
  <2> DEFINE T == {n \in 0..N : Fits(n)}
  <2>1. 0 \in T
    <3> DEFINE none == <<>>
    <3>1. none \in Seq(Parts) /\ Len(none) = 0 /\ \A t : SumTo(none, t) = 0
      BY SumToEmpty
    <3> HIDE DEF none
    <3>2. IsPart(none, rows)
      BY <3>1 DEF IsPart
    <3>3. C[0] = none
      BY <1>13 DEF none
    <3> QED
      BY <1>5, <3>1, <3>2, <3>3
  <2>2. ASSUME NEW n \in 1..N, n - 1 \in T PROVE n \in T
    <3>1. Fits(n - 1)
      BY <2>2
    <3>2. PICK s : s = C[n - 1]
      OBVIOUS
    <3>3. s \in Seq(Parts) /\ IsPart(s, rows) /\ C[n] = Next1(n, s)
      BY <1>13, <3>1, <3>2 DEF IsPart
    <3>4. SumTo(s, order[n]) = 0
      BY <1>5, <3>1, <3>2, n > n - 1
    <3>5. \A k \in 1..N : k > n => SumTo(s, order[k]) = 0 /\ order[k] # order[n]
      BY <1>3, <1>5, <3>1, <3>2 DEF Names
    <3>6. CASE Next1(n, s) = s
      BY <1>5, <3>3, <3>5, <3>6
    <3>7. CASE \E part \in Nat \ {0} : /\ part <= SumTo(rows, order[n])
                                       /\ Next1(n, s) = Append(s, Row(order[n], part, "plan"))
      <4>1. PICK part \in Nat \ {0} : /\ part <= SumTo(rows, order[n])
                                      /\ Next1(n, s) = Append(s, Row(order[n], part, "plan"))
        BY <3>7
      <4>2. \E m \in 1..Len(rows) : rows[m].to = order[n]
        BY <1>3 DEF Names
      <4>3. /\ IsPart(C[n], rows)
            /\ \A u : u # order[n] => SumTo(C[n], u) = SumTo(s, u)
        <5>1. PICK t \in Targets : t = order[n]
          BY <1>5
        <5>2. C[n] = Append(s, Row(t, part, "plan"))
          BY <3>3, <4>1, <5>1
        <5>3. SumTo(s, t) = 0 /\ (\E m \in 1..Len(rows) : rows[m].to = t) /\ part <= SumTo(rows, t)
          BY <3>4, <4>1, <4>2, <5>1
        <5>4. /\ IsPart(Append(s, Row(t, part, "plan")), rows)
              /\ \A u : u # t => SumTo(Append(s, Row(t, part, "plan")), u) = SumTo(s, u)
          BY <3>3, <5>3, OnePart
        <5> QED
          BY <5>1, <5>2, <5>4
      <4> QED
        BY <1>5, <3>5, <4>3
    <3> QED
      BY <1>8, <3>3, <3>6, <3>7
  <2>3. \A n \in 0..N : n \in T
    <3> HIDE DEF T
    <3>1. \A n \in 1..N : n - 1 \in T => n \in T
      BY <2>2
    <3> QED
      BY <1>5, <2>1, <3>1, Reaches
  <2> QED
    BY <2>3
<1>15. Fits(N)
  BY <1>5, <1>14
<1> QED
  BY <1>1, <1>4, <1>15

-----------------------------------------------------------------------------
(***************************************************************************)
(* The inductive invariant                                                 *)
(***************************************************************************)
RequestStatuses == Active \cup {"none", "REJECTED", "EXECUTED"}

\* The shape of a request; its source fingerprint is compared, never read.
RequestRow(q) ==
  /\ q \in [status : RequestStatuses, type : {"REFUND", "REVERSAL"},
            p : Payments \cup {Nobody}, amount : Nat, maker : Users \cup {Nobody},
            reviewer : Users \cup {Nobody}, deciders : SUBSET Users,
            executor : Users \cup {Nobody}, policy : Nat, required : Nat, source : {q.source}]
  /\ IsFiniteSet(q.deciders)
  /\ q.status # "none" => q.p \in Payments /\ q.maker \in Users /\ q.amount > 0

RequestsTyped == DOMAIN req = Requests /\ \A r \in Requests : RequestRow(req[r])

PolicyTyped ==
  /\ policy \in [active : Nat, required : Nat]
  /\ policy.active <= MaxPolicies /\ policy.required \in ApprovalCounts \cup {1}

\* What an open request returns is still there: nobody else takes it, since a
\* payment has one open request and only an approved one changes a payment.
Covered(r) ==
  LET p == req[r].p IN
  req[r].status \in Active =>
    /\ pay[p].status = "SUCCESS" /\ req[r].amount <= Refundable(p)
    /\ req[r].type = "REVERSAL" => pay[p].refunded = 0 /\ req[r].amount = pay[p].amount

OneOpenPerPayment ==
  \A r, s \in Requests :
    req[r].status \in Active /\ req[s].status \in Active /\ req[r].p = req[s].p => r = s

ReviewedByAnother ==
  \A r \in Requests : req[r].status \in {"REVIEWED", "APPROVED"} => req[r].reviewer # req[r].maker

\* What the executor of a request holds.  Its plan returns the amount of the
\* request and, until the request is closed, no more than the payment has on
\* any invoice; a transaction that was told nothing has an approved request.
Plain == Invoices \ (Adjustable \cup Voidable)

ExecutionOf(o) ==
  /\ o \in [kind : {"execute"}, r : Requests, u : Users, stage : {"read", "tx"},
            plan : Seq(Parts), seen : [DOMAIN o.seen -> Nat], stale : {o.stale}]
  /\ DOMAIN o.seen \subseteq Invoices

Executing(o) ==
  /\ ExecutionOf(o)
  /\ req[o.r].status \in {"APPROVED", "REJECTED", "EXECUTED"}
  /\ SumOf(o.plan) = req[o.r].amount
  /\ \A i \in Invoices : SumTo(o.plan, i) \in Nat
  /\ \A n \in 1..Len(o.plan) : o.plan[n].to \in DOMAIN o.seen \cup {Advance}
  /\ \A i \in DOMAIN o.seen \cap Plain : o.seen[i] = Total
  /\ req[o.r].status = "APPROVED" =>
       /\ MayExecute(o.r, o.u)
       /\ \A i \in Invoices : SumTo(o.plan, i) <= Net(req[o.r].p, i)
  /\ o.stage = "tx" /\ o.r \notin o.stale => req[o.r].status = "APPROVED"

ExecutionsHold == \A w \in Workers : op[w] # Idle /\ Execution(op[w]) => Executing(op[w])

\* Where totals are never changed, every reader has seen the total.
TotalsSeen ==
  /\ \A i \in Plain : inv[i].total = Total
  /\ \A w \in Workers : op[w] # Idle /\ op[w].kind = "reallocate" =>
       \A i \in DOMAIN op[w].seen \cap Plain : op[w].seen[i] = Total
CorrectionInv ==
  /\ FeeInv(Requests) /\ TotalsSeen
  /\ RequestsTyped /\ PolicyTyped
  /\ \A r \in Requests : Covered(r)
  /\ OneOpenPerPayment /\ ReviewedByAnother
  /\ ExecutionsHold
  /\ FourEyes

-----------------------------------------------------------------------------
(***************************************************************************)
(* Executions across the steps of others                                   *)
(***************************************************************************)
LEMMA ToldExecution ==
  ASSUME NEW o, o # Idle, ExecutionOf(o), NEW rows, NEW d, d = Told(o, rows)
  PROVE  /\ ExecutionOf(d)
         /\ d.r = o.r /\ d.u = o.u /\ d.stage = o.stage /\ d.plan = o.plan /\ d.seen = o.seen
         /\ o.stale \subseteq d.stale
         /\ o.stage = "tx" => d.stale = o.stale \cup rows
<1>1. CASE Holding(o)
  <2>1. d = [o EXCEPT !.stale = o.stale \cup rows]
    BY <1>1 DEF Told
  <2>2. /\ d.kind = o.kind /\ d.r = o.r /\ d.u = o.u /\ d.stage = o.stage
        /\ d.plan = o.plan /\ d.seen = o.seen /\ d.stale = o.stale \cup rows
    BY <2>1 DEF ExecutionOf
  <2>3. d = [kind |-> d.kind, r |-> d.r, u |-> d.u, stage |-> d.stage,
             plan |-> d.plan, seen |-> d.seen, stale |-> d.stale]
    BY <2>1 DEF ExecutionOf
  <2>4. ExecutionOf(d)
    BY <2>2, <2>3 DEF ExecutionOf
  <2> QED
    BY <2>2, <2>4
<1>2. CASE ~Holding(o)
  <2>1. d = o
    BY <1>2 DEF Told
  <2>2. o.stage # "tx"
    BY <1>2 DEF Holding, ExecutionOf
  <2> QED
    BY <2>1, <2>2
<1> QED
  BY <1>1, <1>2

\* Its request as it was, or closed by a transaction that told so.
LEMMA ExecutingKept ==
  ASSUME NEW o, o # Idle, Executing(o), NEW rows, NEW d, d = Told(o, rows),
         NEW p, p = req[o.r].p,
         \/ /\ req'[o.r] = req[o.r]
            /\ req[o.r].status = "APPROVED" => \A i \in Invoices : Net(p, i)' >= Net(p, i)
         \/ /\ req'[o.r].status \in {"REJECTED", "EXECUTED"}
            /\ req'[o.r].amount = req[o.r].amount
            /\ o.r \in rows,
         FeeInv(Requests), alloc' \in [Payments -> Seq(RowsOf(Requests))], RequestsTyped
  PROVE  Executing(d)'
<1>1. /\ ExecutionOf(d)
      /\ d.r = o.r /\ d.u = o.u /\ d.stage = o.stage /\ d.plan = o.plan /\ d.seen = o.seen
      /\ o.stale \subseteq d.stale
      /\ o.stage = "tx" => d.stale = o.stale \cup rows
  BY ToldExecution DEF Executing
<1>2. /\ SumOf(d.plan) = req'[d.r].amount
      /\ \A i \in Invoices : SumTo(d.plan, i) \in Nat
      /\ \A n \in 1..Len(d.plan) : d.plan[n].to \in DOMAIN d.seen \cup {Advance}
      /\ \A i \in DOMAIN d.seen \cap Plain : d.seen[i] = Total
  BY <1>1 DEF Executing
<1>3. CASE req'[o.r] = req[o.r] /\ (req[o.r].status = "APPROVED" => \A i \in Invoices : Net(p, i)' >= Net(p, i))
  <2>1. req'[d.r].status \in {"APPROVED", "REJECTED", "EXECUTED"}
    BY <1>1, <1>3 DEF Executing
  <2>2. ASSUME req'[d.r].status = "APPROVED"
        PROVE  MayExecute(d.r, d.u)' /\ \A i \in Invoices : SumTo(d.plan, i) <= Net(req[d.r].p, i)'
    <3>1. MayExecute(o.r, o.u) /\ \A i \in Invoices : SumTo(o.plan, i) <= Net(p, i)
      BY <1>1, <1>3, <2>2 DEF Executing
    <3>2. MayExecute(d.r, d.u)'
      BY <1>1, <1>3, <3>1 DEF MayExecute
    <3>3. p \in Payments
      BY <1>1, <1>3, <2>2 DEF RequestsTyped, RequestRow, ExecutionOf
    <3>4. \A i \in Invoices : Net(p, i) \in Int /\ Net(p, i)' \in Int
      BY <3>3, RowsAmounted, SumToInt DEF FeeInv, FeeTyped, Net
    <3>5. \A i \in Invoices : SumTo(o.plan, i) <= Net(p, i)'
      BY <1>1, <1>2, <1>3, <2>2, <3>1, <3>4
    <3>6. \A i \in Invoices : Net(req[d.r].p, i)' = Net(p, i)'
      BY <1>1, <1>3 DEF Net
    <3> QED
      BY <1>1, <3>2, <3>5, <3>6
  <2>3. d.stage = "tx" /\ d.r \notin d.stale => req'[d.r].status = "APPROVED"
    BY <1>1, <1>3 DEF Executing
  <2> QED
    BY <1>1, <1>2, <2>1, <2>2, <2>3 DEF Executing
<1>4. CASE req'[o.r].status \in {"REJECTED", "EXECUTED"} /\ o.r \in rows
  BY <1>1, <1>2, <1>4 DEF Executing
<1> QED
  BY <1>3, <1>4

\* The executions of all workers but w, when the others are told of rows.
LEMMA OthersKept ==
  ASSUME FeeInv(Requests), ExecutionsHold, RequestsTyped,
         alloc' \in [Payments -> Seq(RowsOf(Requests))],
         NEW v \in Workers, NEW rows, op'[v] = Told(op[v], rows),
         \A r \in Requests : \A p :
           req[r].status \in {"APPROVED", "REJECTED", "EXECUTED"} /\ p = req[r].p =>
             \/ /\ req'[r] = req[r]
                /\ req[r].status = "APPROVED" => \A i \in Invoices : Net(p, i)' >= Net(p, i)
             \/ /\ req'[r].status \in {"REJECTED", "EXECUTED"}
                /\ req'[r].amount = req[r].amount
                /\ r \in rows
  PROVE  op'[v] # Idle /\ Execution(op'[v]) => Executing(op[v])'
<1> SUFFICES ASSUME op'[v] # Idle, Execution(op'[v]) PROVE Executing(op[v])'
  OBVIOUS
<1>1. op[v] = Idle \/ FeeRequest(op[v]) \/ Execution(op[v])
  BY DEF FeeInv, FeeTyped
<1>2. op[v] # Idle /\ Execution(op[v])
  <2>1. op[v] = Idle \/ FeeRequest(op[v]) => op'[v] = op[v]
    BY ToldIs
  <2>2. FeeRequest(op[v]) => op[v].kind # "execute"
    BY DEF FeeRequest, IsCollect, IsReallocate, IsAdjust, IsVoid
  <2> QED
    BY <1>1, <2>1, <2>2 DEF Execution
<1>3. PICK o, d, p : o = op[v] /\ d = op'[v] /\ p = req[o.r].p
  OBVIOUS
<1>4. o # Idle /\ Executing(o) /\ d = Told(o, rows)
  BY <1>2, <1>3 DEF ExecutionsHold
<1>5. o.r \in Requests /\ req[o.r].status \in {"APPROVED", "REJECTED", "EXECUTED"}
  BY <1>4 DEF Executing, ExecutionOf
<1>6. Executing(d)'
  BY <1>3, <1>4, <1>5, ExecutingKept
<1> QED
  BY <1>3, <1>6

-----------------------------------------------------------------------------
(***************************************************************************)
(* The invariant holds                                                     *)
(***************************************************************************)
LEMMA CorrectionInit == ASSUME Init PROVE CorrectionInv
<1>1. FeeInv(Requests)
  BY FeeInitHolds DEF Init
<1>2. req = [r \in Requests |-> NoRequest]
  BY DEF Init
<1>3. RequestRow(NoRequest) /\ NoRequest.status = "none"
  BY FS_EmptySet DEF RequestRow, NoRequest, RequestStatuses
<1>4. RequestsTyped /\ \A r \in Requests : req[r].status = "none"
  BY <1>2, <1>3 DEF RequestsTyped
<1>5. PolicyTyped
  BY CorrectionAssumption DEF Init, PolicyTyped
<1>6. TotalsSeen /\ ExecutionsHold
  BY FeeAssumption DEF Init, FeeInit, TotalsSeen, ExecutionsHold, Plain
<1>7. (\A r \in Requests : Covered(r)) /\ OneOpenPerPayment /\ ReviewedByAnother /\ FourEyes
  BY <1>4 DEF Covered, OneOpenPerPayment, ReviewedByAnother, FourEyes, Active
<1> QED
  BY <1>1, <1>4, <1>5, <1>6, <1>7 DEF CorrectionInv

\* The requests of cashiers and bursars change no total that is never adjusted.
LEMMA FeeStepTotals ==
  ASSUME NEW G, FeeInv(G), TotalsSeen, NEW w \in Workers, FeeStep(w)
  PROVE  TotalsSeen'
<1>1. \A i \in Plain : inv'[i].total = Total
  <2>1. \A i \in Plain : i \in Invoices /\ inv[i].total = Total
    BY DEF TotalsSeen, Plain
  <2>2. CASE CollectPayment(w) \/ ReallocatePayment(w)
    <3>1. \A i \in Invoices : inv'[i].total = inv[i].total
      <4>1. ASSUME NEW i \in Invoices, NEW D, NEW status,
                   inv'[i] = IF i \in D THEN [inv[i] EXCEPT !.status = status] ELSE inv[i]
            PROVE  inv'[i].total = inv[i].total
        BY <4>1 DEF FeeInv, FeeTyped, InvoiceRows
      <4>2. ASSUME NEW i \in Invoices
            PROVE  \E D, status : inv'[i] = IF i \in D THEN [inv[i] EXCEPT !.status = status] ELSE inv[i]
        <5>1. CASE CollectPayment(w)
          BY <5>1 DEF CollectPayment
        <5>2. CASE ReallocatePayment(w)
          BY <5>2 DEF ReallocatePayment
        <5> QED
          BY <2>2, <5>1, <5>2
      <4> QED
        BY <4>1, <4>2
    <3> QED
      BY <2>1, <3>1
  <2>3. CASE CreateInvoiceAdjustment(w)
    <3>1. op[w].i \in Adjustable
      BY <2>3, RequestIs DEF CreateInvoiceAdjustment, FeeInv, IsAdjust
    <3>2. \A i \in Plain : inv'[i] = inv[i]
      BY <2>1, <2>3, <3>1 DEF CreateInvoiceAdjustment, Plain, FeeInv, FeeTyped
    <3> QED
      BY <2>1, <3>2
  <2>4. CASE VoidInvoice(w)
    <3>1. op[w].i \in Voidable
      BY <2>4, RequestIs DEF VoidInvoice, FeeInv, IsVoid
    <3>2. \A i \in Plain : inv'[i] = inv[i]
      BY <2>1, <2>4, <3>1 DEF VoidInvoice, Plain, FeeInv, FeeTyped
    <3> QED
      BY <2>1, <3>2
  <2>5. CASE ReadCollect(w) \/ ReadReallocate(w) \/ ReadAdjust(w) \/ ReadVoid(w) \/ RollBack(w)
    <3>1. UNCHANGED inv
      BY <2>5, ReadsTyped DEF FeeInv
    <3> QED
      BY <2>1, <3>1
  <2> QED
    BY <2>2, <2>3, <2>4, <2>5 DEF FeeStep
<1>2. \E o, rows : /\ Become(w, o, rows)
                   /\ o # Idle /\ o.kind = "reallocate" =>
                        \A i \in DOMAIN o.seen \cap Plain : o.seen[i] = Total
  <2>1. CASE ReadReallocate(w)
    <3>1. PICK p \in Payments, k \in Keys : \E plan \in Plans(Net(p, Advance)) :
            Become(w, [kind |-> "reallocate", p |-> p, key |-> k, plan |-> plan,
                       seen |-> [i \in DOMAIN plan |-> inv[i].total]], {})
      BY <2>1 DEF ReadReallocate
    <3>2. PICK plan \in Plans(Net(p, Advance)) :
            Become(w, [kind |-> "reallocate", p |-> p, key |-> k, plan |-> plan,
                       seen |-> [i \in DOMAIN plan |-> inv[i].total]], {})
      BY <3>1
    <3> DEFINE o == [kind |-> "reallocate", p |-> p, key |-> k, plan |-> plan,
                     seen |-> [i \in DOMAIN plan |-> inv[i].total]]
    <3>3. \A i \in DOMAIN o.seen \cap Plain : o.seen[i] = Total
      BY DEF TotalsSeen
    <3> HIDE DEF o
    <3> QED
      BY <3>2, <3>3 DEF o
  <2>2. CASE ReadCollect(w)
    <3>1. PICK p, amount, plan :
            Become(w, [kind |-> "collect", p |-> p, amount |-> amount, plan |-> plan], {})
      BY <2>2 DEF ReadCollect
    <3> QED
      BY <3>1
  <2>3. CASE ReadAdjust(w)
    <3>1. PICK i, total, paid :
            Become(w, [kind |-> "adjust", i |-> i, total |-> total, paid |-> paid], {})
      BY <2>3 DEF ReadAdjust
    <3> QED
      BY <3>1
  <2>4. CASE ReadVoid(w)
    <3>1. PICK i : Become(w, [kind |-> "void", i |-> i], {})
      BY <2>4 DEF ReadVoid
    <3> QED
      BY <3>1
  <2>5. CASE CollectPayment(w) \/ ReallocatePayment(w) \/ CreateInvoiceAdjustment(w)
             \/ VoidInvoice(w) \/ RollBack(w)
    BY <2>5 DEF CollectPayment, ReallocatePayment, CreateInvoiceAdjustment, VoidInvoice, RollBack
  <2> QED
    BY <2>1, <2>2, <2>3, <2>4, <2>5 DEF FeeStep
<1>3. PICK o, rows : /\ Become(w, o, rows)
                     /\ o # Idle /\ o.kind = "reallocate" =>
                          \A i \in DOMAIN o.seen \cap Plain : o.seen[i] = Total
  BY <1>2
<1>4. ASSUME NEW v \in Workers, op'[v] # Idle, op'[v].kind = "reallocate"
      PROVE  \A i \in DOMAIN op'[v].seen \cap Plain : op'[v].seen[i] = Total
  <2>1. op'[v] = IF v = w THEN o ELSE Told(op[v], rows)
    BY <1>3 DEF Become
  <2>2. CASE v = w
    BY <1>3, <1>4, <2>1, <2>2
  <2>3. CASE v # w
    <3>1. op[v] = Idle \/ FeeRequest(op[v]) \/ Execution(op[v])
      BY DEF FeeInv, FeeTyped
    <3>2. op'[v] = op[v]
      BY <1>4, <2>1, <2>3, <3>1, ToldIs DEF Execution
    <3> QED
      BY <1>4, <3>2 DEF TotalsSeen
  <2> QED
    BY <2>2, <2>3
<1> QED
  BY <1>1, <1>4 DEF TotalsSeen

\* A request that becomes another one and leaves the totals.
LEMMA TotalsKept ==
  ASSUME NEW G, FeeInv(G), TotalsSeen, NEW w \in Workers, NEW o, NEW rows, Become(w, o, rows),
         o = Idle \/ Execution(o), \A i \in Invoices : inv'[i].total = inv[i].total
  PROVE  TotalsSeen'
<1>1. ASSUME NEW v \in Workers, op'[v] # Idle, op'[v].kind = "reallocate"
      PROVE  \A i \in DOMAIN op'[v].seen \cap Plain : op'[v].seen[i] = Total
  <2>1. op'[v] = IF v = w THEN o ELSE Told(op[v], rows)
    BY DEF Become
  <2>2. v # w
    BY <1>1, <2>1 DEF Execution
  <2>3. op[v] = Idle \/ FeeRequest(op[v]) \/ Execution(op[v])
    BY DEF FeeInv, FeeTyped
  <2>4. op'[v] = op[v]
    BY <1>1, <2>1, <2>2, <2>3, ToldIs DEF Execution
  <2> QED
    BY <1>1, <2>4 DEF TotalsSeen
<1> QED
  BY <1>1 DEF TotalsSeen, Plain

LEMMA FeeStepCorrection ==
  ASSUME CorrectionInv, NEW w \in Workers, FeeStep(w), UNCHANGED <<req, policy>>
  PROVE  CorrectionInv'
<1>1. FeeInv(Requests)' /\ Onward
  BY FeeStepKeeps DEF CorrectionInv
<1>2. TotalsSeen'
  BY FeeStepTotals DEF CorrectionInv
<1>3. (RequestsTyped /\ PolicyTyped /\ OneOpenPerPayment /\ ReviewedByAnother /\ FourEyes)'
  BY DEF CorrectionInv, RequestsTyped, PolicyTyped, OneOpenPerPayment, ReviewedByAnother, FourEyes
<1>4. ASSUME NEW r \in Requests PROVE Covered(r)'
  <2>1. CASE req[r].status \in Active
    <3>1. pay[req[r].p].status = "SUCCESS" /\ Covered(r)
      BY <2>1 DEF CorrectionInv, Covered
    <3>2. req[r].p \in Payments
      BY <2>1 DEF CorrectionInv, RequestsTyped, RequestRow, Active
    <3>3. pay'[req[r].p] = pay[req[r].p]
      BY <1>1, <3>1, <3>2 DEF Onward
    <3> QED
      BY <3>1, <3>3 DEF Covered, Refundable
  <2>2. CASE req[r].status \notin Active
    BY <2>2 DEF Covered
  <2> QED
    BY <2>1, <2>2
<1>5. ExecutionsHold'
  <2>1. PICK o, rows : Become(w, o, rows) /\ (o = Idle \/ o.kind # "execute")
    BY FeeStepBecomes
  <2>2. ASSUME NEW v \in Workers, op'[v] # Idle, Execution(op'[v]) PROVE Executing(op[v])'
    <3>1. op'[v] = IF v = w THEN o ELSE Told(op[v], rows)
      BY <2>1 DEF Become
    <3>2. v # w
      BY <2>1, <2>2, <3>1 DEF Execution
    <3>3. \A r \in Requests : \A p :
            req[r].status \in {"APPROVED", "REJECTED", "EXECUTED"} /\ p = req[r].p =>
              /\ req'[r] = req[r]
              /\ \A i \in Invoices : Net(p, i)' >= Net(p, i)
      BY <1>1 DEF Onward, CorrectionInv, RequestsTyped, RequestRow
    <3>4. alloc' \in [Payments -> Seq(RowsOf(Requests))]
      BY <1>1 DEF FeeInv, FeeTyped
    <3> QED
      BY <2>2, <3>1, <3>2, <3>3, <3>4, OthersKept DEF CorrectionInv
  <2> QED
    BY <2>2 DEF ExecutionsHold
<1> QED
  BY <1>1, <1>2, <1>3, <1>4, <1>5 DEF CorrectionInv

-----------------------------------------------------------------------------
(***************************************************************************)
(* The steps of requests and of the policy                                 *)
(***************************************************************************)
LEMMA CreateCorrection ==
  ASSUME CorrectionInv, CreateFinanceCorrectionRequest
  PROVE  CorrectionInv'
<1>1. PICK r \in Requests, u \in Users, p \in Payments, type \in {"REFUND", "REVERSAL"} :
        \E amount \in IF type = "REFUND" THEN 1..Refundable(p) ELSE {pay[p].amount} :
          /\ req[r].status = "none"
          /\ OnePolicy
          /\ pay[p].status = "SUCCESS"
          /\ type = "REVERSAL" => pay[p].refunded = 0
          /\ amount <= Refundable(p)
          /\ \A s \in Requests : req[s].p = p => req[s].status \notin Active
          /\ req' = [req EXCEPT ![r] =
                       [status |-> "PENDING", type |-> type, p |-> p, amount |-> amount,
                        maker |-> u, reviewer |-> Nobody, deciders |-> {}, executor |-> Nobody,
                        policy |-> policy.active, required |-> policy.required,
                        source |-> Source(p)]]
          /\ UNCHANGED <<inv, pay, alloc, op, policy>>
  BY DEF CreateFinanceCorrectionRequest
<1>2. PICK amount \in IF type = "REFUND" THEN 1..Refundable(p) ELSE {pay[p].amount} :
          /\ req[r].status = "none"
          /\ pay[p].status = "SUCCESS"
          /\ type = "REVERSAL" => pay[p].refunded = 0
          /\ amount <= Refundable(p)
          /\ \A s \in Requests : req[s].p = p => req[s].status \notin Active
          /\ req' = [req EXCEPT ![r] =
                       [status |-> "PENDING", type |-> type, p |-> p, amount |-> amount,
                        maker |-> u, reviewer |-> Nobody, deciders |-> {}, executor |-> Nobody,
                        policy |-> policy.active, required |-> policy.required,
                        source |-> Source(p)]]
          /\ UNCHANGED <<inv, pay, alloc, op, policy>>
  BY <1>1
<1>3. pay[p].amount \in Nat /\ pay[p].refunded \in Nat /\ pay[p].amount > 0
  BY <1>2 DEF CorrectionInv, FeeInv, FeeTyped, PaymentRows, Balanced
<1>4. amount \in Nat /\ amount > 0 /\ (type = "REVERSAL" => amount = pay[p].amount)
  BY <1>2, <1>3 DEF Refundable
<1> DEFINE new == [status |-> "PENDING", type |-> type, p |-> p, amount |-> amount,
                   maker |-> u, reviewer |-> Nobody, deciders |-> {}, executor |-> Nobody,
                   policy |-> policy.active, required |-> policy.required,
                   source |-> Source(p)]
<1>5. /\ RequestRow(new) /\ new.status = "PENDING" /\ new.p = p /\ new.amount = amount
      /\ new.type = type
  <2>1. policy.active \in Nat /\ policy.required \in Nat
    BY DEF CorrectionInv, PolicyTyped
  <2> QED
    BY <1>4, <2>1, FS_EmptySet DEF RequestRow, RequestStatuses, Active
<1> HIDE DEF new
<1>6. req' = [req EXCEPT ![r] = new] /\ UNCHANGED <<inv, pay, alloc, op, policy>>
  BY <1>2 DEF new
<1>7. /\ DOMAIN req = Requests /\ req'[r] = new /\ \A s \in Requests \ {r} : req'[s] = req[s]
      /\ DOMAIN req' = Requests
  BY <1>6 DEF CorrectionInv, RequestsTyped
<1>8. FeeInv(Requests)' /\ TotalsSeen' /\ PolicyTyped'
  <2>1. Requested(op')
    BY <1>6 DEF CorrectionInv, FeeInv, FeeTyped, Requested
  <2> QED
    BY <1>6, <2>1, FeeUnchanged DEF CorrectionInv, TotalsSeen, PolicyTyped
<1>9. RequestsTyped'
  BY <1>5, <1>7 DEF CorrectionInv, RequestsTyped
<1>10. ASSUME NEW s \in Requests PROVE Covered(s)'
  <2>1. CASE s = r
    BY <1>2, <1>4, <1>5, <1>6, <1>7, <2>1 DEF Covered, Refundable
  <2>2. CASE s # r
    <3>1. req'[s] = req[s] /\ pay' = pay /\ Covered(s)
      BY <1>6, <1>7, <2>2 DEF CorrectionInv
    <3> QED
      BY <3>1 DEF Covered, Refundable
  <2> QED
    BY <2>1, <2>2
<1>11. OneOpenPerPayment'
  BY <1>2, <1>5, <1>7 DEF CorrectionInv, OneOpenPerPayment
<1>12. ReviewedByAnother' /\ FourEyes'
  BY <1>5, <1>7 DEF CorrectionInv, ReviewedByAnother, FourEyes
<1>13. ExecutionsHold'
  <2>1. \A s \in Requests : \A q :
          req[s].status \in {"APPROVED", "REJECTED", "EXECUTED"} /\ q = req[s].p =>
            /\ req'[s] = req[s]
            /\ req[s].status = "APPROVED" => \A i \in Invoices : Net(q, i)' >= Net(q, i)
    <3>1. ASSUME NEW s \in Requests, NEW q, q = req[s].p, req[s].status = "APPROVED"
          PROVE  \A i \in Invoices : Net(q, i)' >= Net(q, i)
      <4>1. q \in Payments
        BY <3>1 DEF CorrectionInv, RequestsTyped, RequestRow
      <4> QED
        BY <1>6, <4>1, RowsKept, RowsAmounted, SumToInt DEF CorrectionInv, FeeInv, FeeTyped, Net
    <3> QED
      BY <1>2, <1>7, <3>1
  <2>2. ASSUME NEW v \in Workers, op'[v] # Idle, Execution(op'[v]) PROVE Executing(op[v])'
    <3>1. op'[v] = Told(op[v], {})
      <4>1. CASE Holding(op[v])
        <5>1. Execution(op[v])
          BY <1>6, <2>2
        <5>2. [op[v] EXCEPT !.stale = op[v].stale \cup {}] = op[v]
          BY <1>6, <2>2 DEF CorrectionInv, ExecutionsHold, Executing, ExecutionOf
        <5> QED
          BY <1>6, <4>1, <5>2 DEF Told
      <4>2. CASE ~Holding(op[v])
        BY <1>6, <4>2 DEF Told
      <4> QED
        BY <4>1, <4>2
    <3>2. alloc' \in [Payments -> Seq(RowsOf(Requests))]
      BY <1>8 DEF FeeInv, FeeTyped
    <3> QED
      BY <2>1, <2>2, <3>1, <3>2, OthersKept DEF CorrectionInv
  <2> QED
    BY <2>2 DEF ExecutionsHold
<1> QED
  BY <1>8, <1>9, <1>10, <1>11, <1>12, <1>13 DEF CorrectionInv

\* A transition within the life of a request.  The new row keeps what the
\* request is about; only Create opens a request.
LEMMA TransitionKeeps ==
  ASSUME CorrectionInv, NEW r \in Requests, NEW new, Transition(r, new),
         RequestRow(new), req[r].status \in Active, new.status \in Active \cup {"REJECTED"},
         new.p = req[r].p, new.amount = req[r].amount, new.type = req[r].type,
         new.status \in {"REVIEWED", "APPROVED"} => new.reviewer # new.maker,
         req[r].status = "APPROVED" => new.status = "REJECTED"
  PROVE  CorrectionInv'
<1>1. /\ req' = [req EXCEPT ![r] = new]
      /\ op' = [w \in Workers |-> Told(op[w], {r})]
      /\ UNCHANGED <<inv, pay, alloc, policy>>
  BY DEF Transition
<1>2. /\ DOMAIN req = Requests /\ req'[r] = new /\ \A s \in Requests \ {r} : req'[s] = req[s]
      /\ DOMAIN req' = Requests
  BY <1>1 DEF CorrectionInv, RequestsTyped
<1>3. \A w \in Workers : op[w] = Idle \/ FeeRequest(op[w]) \/ Execution(op[w])
  BY DEF CorrectionInv, FeeInv, FeeTyped
<1>4. FeeInv(Requests)' /\ PolicyTyped'
  <2>1. Requested(op')
    BY <1>1, <1>3, ToldIs DEF Requested
  <2> QED
    BY <1>1, <2>1, FeeUnchanged DEF CorrectionInv, PolicyTyped
<1>5. TotalsSeen'
  <2>1. ASSUME NEW w \in Workers, op'[w] # Idle, op'[w].kind = "reallocate" PROVE op'[w] = op[w]
    BY <1>1, <1>3, <2>1, ToldIs DEF Execution
  <2>2. ASSUME NEW w \in Workers, op'[w] # Idle, op'[w].kind = "reallocate"
        PROVE  \A i \in DOMAIN op'[w].seen \cap Plain : op'[w].seen[i] = Total
    BY <2>1, <2>2 DEF CorrectionInv, TotalsSeen
  <2>3. \A i \in Plain : inv'[i].total = Total
    BY <1>1 DEF CorrectionInv, TotalsSeen
  <2> QED
    BY <2>2, <2>3 DEF TotalsSeen
<1>6. RequestsTyped'
  BY <1>2 DEF CorrectionInv, RequestsTyped
<1>7. ASSUME NEW s \in Requests PROVE Covered(s)'
  <2>1. pay' = pay /\ Covered(s)
    BY <1>1 DEF CorrectionInv
  <2>2. CASE s = r
    BY <1>2, <2>1, <2>2 DEF Covered, Refundable
  <2>3. CASE s # r
    BY <1>2, <2>1, <2>3 DEF Covered, Refundable
  <2> QED
    BY <2>2, <2>3
<1>8. OneOpenPerPayment'
  BY <1>2 DEF CorrectionInv, OneOpenPerPayment
<1>9. ReviewedByAnother' /\ FourEyes'
  BY <1>2 DEF CorrectionInv, ReviewedByAnother, FourEyes, Active
<1>10. ExecutionsHold'
  <2>1. ASSUME NEW s \in Requests, NEW q,
               req[s].status \in {"APPROVED", "REJECTED", "EXECUTED"}, q = req[s].p
        PROVE  \/ /\ req'[s] = req[s]
                  /\ req[s].status = "APPROVED" => \A i \in Invoices : Net(q, i)' >= Net(q, i)
               \/ /\ req'[s].status \in {"REJECTED", "EXECUTED"}
                  /\ req'[s].amount = req[s].amount
                  /\ s \in {r}
    <3>1. CASE s = r
      BY <1>2, <2>1, <3>1 DEF Active
    <3>2. CASE s # r
      <4>1. q \in Payments
        BY <2>1 DEF CorrectionInv, RequestsTyped, RequestRow
      <4>2. \A i \in Invoices : Net(q, i)' >= Net(q, i)
        BY <1>1, <4>1, RowsKept, RowsAmounted, SumToInt DEF CorrectionInv, FeeInv, FeeTyped, Net
      <4> QED
        BY <1>2, <3>2, <4>2
    <3> QED
      BY <3>1, <3>2
  <2>2. ASSUME NEW v \in Workers, op'[v] # Idle, Execution(op'[v]) PROVE Executing(op[v])'
    <3>1. op'[v] = Told(op[v], {r})
      BY <1>1
    <3>2. alloc' \in [Payments -> Seq(RowsOf(Requests))]
      BY <1>4 DEF FeeInv, FeeTyped
    <3>3. \A s \in Requests : \A q :
            req[s].status \in {"APPROVED", "REJECTED", "EXECUTED"} /\ q = req[s].p =>
              \/ /\ req'[s] = req[s]
                 /\ req[s].status = "APPROVED" => \A i \in Invoices : Net(q, i)' >= Net(q, i)
              \/ /\ req'[s].status \in {"REJECTED", "EXECUTED"}
                 /\ req'[s].amount = req[s].amount
                 /\ s \in {r}
      BY <2>1
    <3> QED
      BY <2>2, <3>1, <3>2, <3>3, OthersKept DEF CorrectionInv
  <2> QED
    BY <2>2 DEF ExecutionsHold
<1> QED
  BY <1>4, <1>5, <1>6, <1>7, <1>8, <1>9, <1>10 DEF CorrectionInv

LEMMA TransitionsCorrection ==
  ASSUME CorrectionInv, Review \/ Approve \/ Reject
  PROVE  CorrectionInv'
<1> USE DEF Active
<1>1. CASE Review
  <2>1. PICK r \in Requests, u \in Users :
          /\ req[r].status = "PENDING" /\ u # req[r].maker
          /\ Transition(r, [req[r] EXCEPT !.status = "REVIEWED", !.reviewer = u])
    BY <1>1 DEF Review
  <2> DEFINE new == [req[r] EXCEPT !.status = "REVIEWED", !.reviewer = u]
  <2>2. RequestRow(req[r])
    BY DEF CorrectionInv, RequestsTyped
  <2>3. /\ new.status = "REVIEWED" /\ new.reviewer = u /\ new.maker = req[r].maker
        /\ new.p = req[r].p /\ new.amount = req[r].amount /\ new.type = req[r].type
        /\ RequestRow(new)
    BY <2>1, <2>2 DEF RequestRow, RequestStatuses
  <2> HIDE DEF new
  <2> QED
    BY <2>1, <2>3, TransitionKeeps DEF new
<1>2. CASE Approve
  <2>1. PICK r \in Requests, u \in Users :
          /\ req[r].status = "REVIEWED"
          /\ Transition(r,
               [req[r] EXCEPT !.deciders = @ \cup {u},
                  !.status = IF Cardinality(req[r].deciders) + 1 >= req[r].required
                             THEN "APPROVED" ELSE "REVIEWED"])
    BY <1>2 DEF Approve
  <2> DEFINE new == [req[r] EXCEPT !.deciders = @ \cup {u},
                       !.status = IF Cardinality(req[r].deciders) + 1 >= req[r].required
                                  THEN "APPROVED" ELSE "REVIEWED"]
  <2>2. RequestRow(req[r])
    BY DEF CorrectionInv, RequestsTyped
  <2>3. IsFiniteSet(req[r].deciders \cup {u})
    BY <2>2, FS_AddElement DEF RequestRow
  <2>4. /\ new.status \in {"REVIEWED", "APPROVED"} /\ new.maker = req[r].maker
        /\ new.reviewer = req[r].reviewer
        /\ new.p = req[r].p /\ new.amount = req[r].amount /\ new.type = req[r].type
        /\ RequestRow(new)
    BY <2>1, <2>2, <2>3 DEF RequestRow, RequestStatuses
  <2>5. req[r].reviewer # req[r].maker
    BY <2>1 DEF CorrectionInv, ReviewedByAnother
  <2> HIDE DEF new
  <2> QED
    BY <2>1, <2>4, <2>5, TransitionKeeps DEF new
<1>3. CASE Reject
  <2>1. PICK r \in Requests, u \in Users :
          /\ req[r].status \in {"PENDING", "REVIEWED", "APPROVED"}
          /\ Transition(r, [req[r] EXCEPT !.status = "REJECTED"])
    BY <1>3 DEF Reject
  <2> DEFINE new == [req[r] EXCEPT !.status = "REJECTED"]
  <2>2. RequestRow(req[r])
    BY DEF CorrectionInv, RequestsTyped
  <2>3. /\ new.status = "REJECTED"
        /\ new.p = req[r].p /\ new.amount = req[r].amount /\ new.type = req[r].type
        /\ RequestRow(new)
    BY <2>1, <2>2 DEF RequestRow, RequestStatuses
  <2> HIDE DEF new
  <2> QED
    BY <2>1, <2>3, TransitionKeeps DEF new
<1> QED
  BY <1>1, <1>2, <1>3

-----------------------------------------------------------------------------
(***************************************************************************)
(* The steps of executions                                                 *)
(***************************************************************************)
\* An execution starts, or takes its snapshot: nothing else changes.
LEMMA ExecutionHeld ==
  ASSUME CorrectionInv, NEW w \in Workers, NEW o, Become(w, o, {}), Executing(o),
         UNCHANGED <<inv, pay, alloc, req, policy>>
  PROVE  CorrectionInv'
<1>1. Execution(o)
  BY DEF Executing, ExecutionOf, Execution
<1>2. FeeInv(Requests)'
  BY <1>1, Becomes, FeeUnchanged DEF CorrectionInv, FeeInv
<1>3. TotalsSeen'
  <2>1. \A i \in Invoices : inv'[i].total = inv[i].total
    OBVIOUS
  <2> QED
    BY <1>1, <2>1, TotalsKept DEF CorrectionInv
<1>4. (RequestsTyped /\ PolicyTyped /\ OneOpenPerPayment /\ ReviewedByAnother /\ FourEyes)'
  BY DEF CorrectionInv, RequestsTyped, PolicyTyped, OneOpenPerPayment, ReviewedByAnother, FourEyes
<1>5. ASSUME NEW r \in Requests PROVE Covered(r)'
  <2>1. Covered(r)
    BY DEF CorrectionInv
  <2> QED
    BY <2>1 DEF Covered, Refundable
<1>6. ASSUME NEW v \in Workers, op'[v] # Idle, Execution(op'[v]) PROVE Executing(op[v])'
  <2>1. op'[v] = IF v = w THEN o ELSE Told(op[v], {})
    BY DEF Become
  <2>2. CASE v = w
    <3>1. Executing(o)'
      BY DEF Executing, MayExecute, Net
    <3> QED
      BY <2>1, <2>2, <3>1
  <2>3. CASE v # w
    <3>1. \A r \in Requests : \A p :
            req[r].status \in {"APPROVED", "REJECTED", "EXECUTED"} /\ p = req[r].p =>
              /\ req'[r] = req[r]
              /\ req[r].status = "APPROVED" => \A i \in Invoices : Net(p, i)' >= Net(p, i)
      <4>1. ASSUME NEW r \in Requests, NEW p, p = req[r].p, req[r].status = "APPROVED"
            PROVE  \A i \in Invoices : Net(p, i)' >= Net(p, i)
        <5>1. p \in Payments
          BY <4>1 DEF CorrectionInv, RequestsTyped, RequestRow
        <5> QED
          BY <5>1, RowsKept, RowsAmounted, SumToInt DEF CorrectionInv, FeeInv, FeeTyped, Net
      <4> QED
        BY <4>1
    <3>2. alloc' \in [Payments -> Seq(RowsOf(Requests))]
      BY DEF CorrectionInv, FeeInv, FeeTyped
    <3> QED
      BY <1>6, <2>1, <2>3, <3>1, <3>2, OthersKept DEF CorrectionInv
  <2> QED
    BY <2>2, <2>3
<1> QED
  BY <1>2, <1>3, <1>4, <1>5, <1>6 DEF CorrectionInv, ExecutionsHold

LEMMA ReadExecuteCorrection ==
  ASSUME CorrectionInv, NEW w \in Workers, ReadExecute(w)
  PROVE  CorrectionInv'
<1>1. PICK r \in Requests, u \in Users :
        /\ req[r].status = "APPROVED" /\ MayExecute(r, u)
        /\ SumOf(CorrectionPlan(req[r].p, req[r].amount)) = req[r].amount
        /\ Become(w, [kind |-> "execute", r |-> r, u |-> u, stage |-> "read",
                      plan |-> CorrectionPlan(req[r].p, req[r].amount),
                      seen |-> [i \in AllocatedInvoices(req[r].p) |-> inv[i].total],
                      stale |-> {}], {})
        /\ UNCHANGED <<inv, pay, alloc, req, policy>>
  BY DEF ReadExecute
<1>2. PICK p, amount, plan, seen :
        /\ p = req[r].p /\ amount = req[r].amount
        /\ plan = CorrectionPlan(p, amount)
        /\ seen = [i \in AllocatedInvoices(p) |-> inv[i].total]
  OBVIOUS
<1>3. p \in Payments /\ amount \in Nat /\ alloc[p] \in Seq(RowsOf(Requests))
  BY <1>1, <1>2 DEF CorrectionInv, RequestsTyped, RequestRow, FeeInv, FeeTyped
<1>4. IsPart(plan, alloc[p])
  BY <1>2, <1>3, CorrectionPlanIs
<1>5. /\ seen \in [AllocatedInvoices(p) -> Nat]
      /\ AllocatedInvoices(p) \subseteq Invoices
      /\ \A i \in AllocatedInvoices(p) \cap Plain : seen[i] = Total
  BY <1>2 DEF CorrectionInv, TotalsSeen, FeeInv, FeeTyped, InvoiceRows, AllocatedInvoices
<1>6. \A n \in 1..Len(plan) : plan[n].to \in AllocatedInvoices(p) \cup {Advance}
  <2>1. DOMAIN alloc[p] = 1..Len(alloc[p])
    BY <1>3
  <2>2. \A n \in 1..Len(plan) : plan[n].to \in Targets
    <3>1. plan \in Seq(Parts)
      BY <1>4 DEF IsPart
    <3>2. \A part \in Parts : part.to \in Targets
      BY DEF Parts
    <3> QED
      BY <3>1, <3>2
  <2> QED
    BY <1>4, <2>1, <2>2 DEF IsPart, AllocatedInvoices, Targets
<1>7. \A i \in Invoices : SumTo(plan, i) \in Nat /\ SumTo(plan, i) <= Net(p, i)
  <2>1. \A i \in Invoices : Net(p, i) >= 0
    BY <1>3 DEF CorrectionInv, FeeInv, Balanced
  <2> QED
    BY <1>4, <2>1 DEF IsPart, Net
<1> DEFINE o == [kind |-> "execute", r |-> r, u |-> u, stage |-> "read",
                 plan |-> plan, seen |-> seen, stale |-> {}]
<1>8. Become(w, o, {})
  BY <1>1, <1>2
<1>9. Executing(o)
  <2>1. /\ o.kind = "execute" /\ o.r = r /\ o.u = u /\ o.stage = "read" /\ o.plan = plan
        /\ o.seen = seen
    OBVIOUS
  <2>2. ExecutionOf(o)
    BY <1>4, <1>5 DEF ExecutionOf, IsPart
  <2> HIDE DEF o
  <2>3. SumOf(o.plan) = req[o.r].amount
    BY <1>1, <1>2, <2>1
  <2>4. \A i \in Invoices : SumTo(o.plan, i) <= Net(req[o.r].p, i)
    BY <1>2, <1>7, <2>1
  <2> QED
    BY <1>1, <1>5, <1>6, <1>7, <2>1, <2>2, <2>3, <2>4 DEF Executing
<1> HIDE DEF o
<1> QED
  BY <1>1, <1>8, <1>9, ExecutionHeld

LEMMA TakeSnapshotCorrection ==
  ASSUME CorrectionInv, NEW w \in Workers, TakeSnapshot(w)
  PROVE  CorrectionInv'
<1>1. PICK o : o = op[w]
  OBVIOUS
<1> DEFINE d == [o EXCEPT !.stage = "tx"]
<1>2. /\ o # Idle /\ o.kind = "execute" /\ req[o.r].status = "APPROVED"
      /\ Become(w, d, {}) /\ UNCHANGED <<inv, pay, alloc, req, policy>>
  BY <1>1 DEF TakeSnapshot, MayClaim
<1>3. Executing(o)
  <2>1. Execution(o)
    BY <1>1, <1>2 DEF CorrectionInv, FeeInv, FeeTyped, FeeRequest, IsCollect, IsReallocate, IsAdjust, IsVoid
  <2> QED
    BY <1>1, <1>2, <2>1 DEF CorrectionInv, ExecutionsHold
<1>4. /\ d.r = o.r /\ d.u = o.u /\ d.plan = o.plan /\ d.seen = o.seen /\ d.stage = "tx"
      /\ ExecutionOf(d)
  BY <1>3 DEF Executing, ExecutionOf
<1> HIDE DEF d
<1>5. Executing(d)
  BY <1>2, <1>3, <1>4 DEF Executing
<1> QED
  BY <1>2, <1>5, ExecutionHeld

LEMMA NegatedRows ==
  ASSUME NEW plan \in Seq(Parts), NEW r \in Requests
  PROVE  /\ Negated(plan, r) \in Seq(RowsOf(Requests))
         /\ SumOf(Negated(plan, r)) = -SumOf(plan)
         /\ \A t : SumTo(Negated(plan, r), t) = -SumTo(plan, t)
<1> DEFINE neg == Negated(plan, r)
<1>1. /\ Len(plan) \in Nat /\ DOMAIN plan = 1..Len(plan)
      /\ \A n \in 1..Len(plan) : plan[n].to \in Targets /\ plan[n].amount \in Nat \ {0}
  <2>1. \A part \in Parts : part.to \in Targets /\ part.amount \in Nat \ {0}
    BY DEF Parts
  <2> QED
    BY <2>1
<1>2. neg = [n \in 1..Len(plan) |-> Row(plan[n].to, -plan[n].amount, r)]
  BY <1>1 DEF Negated
<1>3. neg \in Seq(RowsOf(Requests)) /\ Len(neg) = Len(plan)
      /\ \A n \in 1..Len(plan) : neg[n].to = plan[n].to /\ neg[n].amount = -plan[n].amount
  <2>1. \A n \in 1..Len(plan) : Row(plan[n].to, -plan[n].amount, r) \in RowsOf(Requests)
    BY <1>1 DEF Row, RowsOf
  <2> QED
    BY <1>1, <1>2, <2>1 DEF Row
<1> HIDE DEF neg
<1>4. Amounted(plan) /\ Amounted(neg)
  BY <1>3, PartRows, RowsAmounted
<1>5. SumOf(neg) = -SumOf(plan)
  BY <1>3, <1>4, SumOfNegated
<1>6. ASSUME NEW t PROVE SumTo(neg, t) = -SumTo(plan, t)
  <2>1. /\ SumTo(plan, t) = SumOf(Only(plan, t)) /\ SumTo(neg, t) = SumOf(Only(neg, t))
        /\ Amounted(Only(plan, t)) /\ Amounted(Only(neg, t))
        /\ Len(Only(plan, t)) = Len(plan) /\ Len(Only(neg, t)) = Len(plan)
        /\ \A n \in 1..Len(plan) :
             /\ Only(plan, t)[n].amount = IF plan[n].to = t THEN plan[n].amount ELSE 0
             /\ Only(neg, t)[n].amount = IF neg[n].to = t THEN neg[n].amount ELSE 0
    BY <1>3, <1>4, OnlyIs
  <2>2. \A n \in 1..Len(plan) : Only(neg, t)[n].amount = -Only(plan, t)[n].amount
    BY <1>1, <1>3, <2>1
  <2> QED
    BY <2>1, <2>2, SumOfNegated
<1> QED
  BY <1>3, <1>5, <1>6 DEF neg

\* The last step of a correction: a fifth hand besides those that asked,
\* reviewed and approved.
LEMMA HandsCounted ==
  ASSUME NEW D, IsFiniteSet(D), NEW a, NEW b, NEW c, a # b, c \notin {a, b} \cup D,
         D \cap {a, b} = {}, NEW n \in Nat, Cardinality(D) >= n
  PROVE  Cardinality({a, b, c} \cup D) >= 3 + n
<1>0. Cardinality(D) \in Nat
  BY FS_CardinalityType
<1>1. PICK A, B : A = D \cup {a} /\ B = A \cup {b}
  OBVIOUS
<1>2. IsFiniteSet(A) /\ Cardinality(A) = Cardinality(D) + 1
  <2>1. a \notin D
    OBVIOUS
  <2> QED
    BY <1>1, <2>1, FS_AddElement
<1>3. IsFiniteSet(B) /\ Cardinality(B) = Cardinality(A) + 1
  <2>1. b \notin A
    BY <1>1
  <2> QED
    BY <1>1, <1>2, <2>1, FS_AddElement
<1>4. Cardinality(B \cup {c}) = Cardinality(B) + 1
  <2>1. c \notin B
    BY <1>1
  <2> QED
    BY <1>3, <2>1, FS_AddElement
<1>5. {a, b, c} \cup D = B \cup {c}
  BY <1>1
<1>6. Cardinality({a, b, c} \cup D) = Cardinality(D) + 3
  BY <1>0, <1>2, <1>3, <1>4, <1>5
<1> QED
  BY <1>0, <1>6

\* What the transaction of an approved request writes, in terms of what it held.
ExecuteWrites(o, r, p, D) ==
  /\ Executing(o) /\ r = o.r /\ p = req[r].p /\ D = Corrected(o)
  /\ r \in Requests /\ p \in Payments /\ RequestRow(req[r]) /\ req[r].status = "APPROVED"
  /\ Covered(r)
  /\ alloc' = [alloc EXCEPT ![p] = alloc[p] \o Negated(o.plan, r)]
  /\ inv' = [i \in Invoices |->
               IF i \in D
               THEN [inv[i] EXCEPT !.status =
                       ResolveInvoiceStatusAfterAdjustment(Credit(i) - SumTo(o.plan, i), o.seen[i])]
               ELSE inv[i]]
  /\ pay' = IF req[r].type = "REFUND"
            THEN [pay EXCEPT ![p].refunded = @ + req[r].amount]
            ELSE [pay EXCEPT ![p].status = "REVERSED"]
  /\ req' = Executed(o)

LEMMA ExecuteIs ==
  ASSUME CorrectionInv, NEW w \in Workers, Execute(w)
  PROVE  \E o, r, p, D, rows :
           /\ o = op[w] /\ o # Idle /\ ExecuteWrites(o, r, p, D)
           /\ Become(w, Idle, rows) /\ r \in rows /\ UNCHANGED policy
<1>1. PICK o, r, p, D : o = op[w] /\ r = o.r /\ p = req[r].p /\ D = Corrected(o)
  OBVIOUS
<1>2. PICK rows : rows = {r} \cup D \cup (IF req[r].type = "REVERSAL" THEN {p} ELSE {})
  OBVIOUS
<1>3. /\ o # Idle /\ o.kind = "execute" /\ o.stage = "tx" /\ o.stale \cap ({r, p} \cup D) = {}
      /\ alloc' = [alloc EXCEPT ![p] = alloc[p] \o Negated(o.plan, r)]
      /\ inv' = [i \in Invoices |->
                   IF i \in D
                   THEN [inv[i] EXCEPT !.status =
                           ResolveInvoiceStatusAfterAdjustment(Credit(i) - SumTo(o.plan, i), o.seen[i])]
                   ELSE inv[i]]
      /\ pay' = IF req[r].type = "REFUND"
                THEN [pay EXCEPT ![p].refunded = @ + req[r].amount]
                ELSE [pay EXCEPT ![p].status = "REVERSED"]
      /\ req' = Executed(o)
      /\ Become(w, Idle, rows) /\ UNCHANGED policy
  BY <1>1, <1>2 DEF Execute
<1>4. Executing(o)
  <2>1. Execution(o)
    BY <1>1, <1>3 DEF CorrectionInv, FeeInv, FeeTyped, FeeRequest, IsCollect, IsReallocate, IsAdjust, IsVoid
  <2> QED
    BY <1>1, <1>3, <2>1 DEF CorrectionInv, ExecutionsHold
<1>5. r \in Requests /\ req[r].status = "APPROVED"
  BY <1>1, <1>3, <1>4 DEF Executing, ExecutionOf
<1>6. RequestRow(req[r]) /\ p \in Payments /\ Covered(r)
  BY <1>1, <1>5 DEF CorrectionInv, RequestsTyped, RequestRow
<1>7. ExecuteWrites(o, r, p, D)
  BY <1>1, <1>3, <1>4, <1>5, <1>6 DEF ExecuteWrites
<1>8. r \in rows
  BY <1>2
<1> QED
  BY <1>1, <1>3, <1>7, <1>8

LEMMA ExecuteAccounts ==
  ASSUME CorrectionInv, NEW o, NEW r, NEW p, NEW D, ExecuteWrites(o, r, p, D)
  PROVE  /\ alloc' \in [Payments -> Seq(RowsOf(Requests))]
         /\ \A i \in Invoices : /\ Credit(i) \in Int
                                /\ Credit(i)' = Credit(i) - SumTo(o.plan, i)
                                /\ SumTo(o.plan, i) \in Nat
         /\ \A i \in Invoices, q \in Payments : Net(q, i)' >= 0
         /\ \A i \in Invoices, q \in Payments : q # p => Net(q, i)' = Net(q, i) /\ Net(q, i) \in Int
         /\ Kept(p)' = Kept(p) - req[r].amount /\ Kept(p) \in Int
         /\ \A q \in Payments : q # p => Kept(q)' = Kept(q)
<1> DEFINE plan == o.plan
           all == alloc[p] \o Negated(plan, r)
<1>1. /\ plan \in Seq(Parts) /\ r \in Requests /\ p \in Payments
      /\ SumOf(plan) = req[r].amount
      /\ \A i \in Invoices : SumTo(plan, i) \in Nat /\ SumTo(plan, i) <= Net(p, i)
      /\ req[r].amount \in Nat
      /\ alloc' = [alloc EXCEPT ![p] = all]
  BY DEF ExecuteWrites, Executing, ExecutionOf, RequestRow
<1>2. alloc \in [Payments -> Seq(RowsOf(Requests))] /\ \A q \in Payments : Balanced(q)
  BY DEF CorrectionInv, FeeInv, FeeTyped
<1> HIDE DEF plan
<1>3. /\ all \in Seq(RowsOf(Requests))
      /\ SumOf(all) = Kept(p) - req[r].amount
      /\ \A t : SumTo(all, t) = Net(p, t) + (-SumTo(plan, t))
  <2>1. /\ Negated(plan, r) \in Seq(RowsOf(Requests))
        /\ SumOf(Negated(plan, r)) = -SumOf(plan)
        /\ \A t : SumTo(Negated(plan, r), t) = -SumTo(plan, t)
    BY <1>1, NegatedRows
  <2>2. alloc[p] \in Seq(RowsOf(Requests))
    BY <1>1, <1>2
  <2>3. /\ alloc[p] \o Negated(plan, r) \in Seq(RowsOf(Requests))
        /\ SumOf(alloc[p] \o Negated(plan, r)) = SumOf(alloc[p]) + SumOf(Negated(plan, r))
        /\ \A t : SumTo(alloc[p] \o Negated(plan, r), t) = SumTo(alloc[p], t) + SumTo(Negated(plan, r), t)
    BY <2>1, <2>2, RowsAppended
  <2>4. SumOf(alloc[p]) \in Int
    BY <2>2, RowsAmounted, SumOfInt
  <2>5. SumOf(all) = Kept(p) - req[r].amount
    BY <1>1, <2>1, <2>3, <2>4 DEF Kept
  <2> QED
    BY <2>1, <2>3, <2>5 DEF Net
<1>4. PICK rows : rows = all
  OBVIOUS
<1>5. /\ alloc' \in [Payments -> Seq(RowsOf(Requests))]
      /\ \A i : /\ Credit(i) \in Int
                /\ Credit(i)' = Credit(i) + (SumTo(rows, i) - Net(p, i))
      /\ \A t : /\ Net(p, t)' = SumTo(rows, t) /\ Net(p, t) \in Int
                /\ \A q \in Payments \ {p} : Net(q, t)' = Net(q, t)
      /\ Kept(p)' = SumOf(rows) /\ Kept(p) \in Int
      /\ \A q \in Payments \ {p} : Kept(q)' = Kept(q)
  <2>1. rows \in Seq(RowsOf(Requests)) /\ alloc' = [alloc EXCEPT ![p] = rows]
    BY <1>1, <1>3, <1>4
  <2> QED
    BY <1>1, <1>2, <2>1, RowsWritten
<1> HIDE DEF all
<1>6. ASSUME NEW i \in Invoices
      PROVE  /\ Credit(i) \in Int /\ Credit(i)' = Credit(i) - SumTo(plan, i)
             /\ Net(p, i)' >= 0
  BY <1>1, <1>3, <1>4, <1>5
<1>7. ASSUME NEW i \in Invoices, NEW q \in Payments, q # p
      PROVE  Net(q, i)' = Net(q, i) /\ Net(q, i) \in Int /\ Net(q, i)' >= 0
  <2>1. Net(q, i) \in Int /\ Net(q, i) >= 0
    BY <1>2, RowsAmounted, SumToInt DEF Balanced, Net
  <2> QED
    BY <1>5, <1>7, <2>1
<1>8. ASSUME NEW i \in Invoices, NEW q \in Payments PROVE Net(q, i)' >= 0
  BY <1>6, <1>7
<1> QED
  BY <1>1, <1>3, <1>4, <1>5, <1>6, <1>7, <1>8 DEF plan

LEMMA ExecuteCorrection ==
  ASSUME CorrectionInv, NEW w \in Workers, Execute(w)
  PROVE  CorrectionInv'
<1>1. PICK o, r, p, D, rows :
        /\ o = op[w] /\ o # Idle /\ ExecuteWrites(o, r, p, D)
        /\ Become(w, Idle, rows) /\ r \in rows /\ UNCHANGED policy
  BY ExecuteIs
<1>2. /\ alloc' \in [Payments -> Seq(RowsOf(Requests))]
      /\ \A i \in Invoices : /\ Credit(i) \in Int
                             /\ Credit(i)' = Credit(i) - SumTo(o.plan, i)
                             /\ SumTo(o.plan, i) \in Nat
      /\ \A i \in Invoices, q \in Payments : Net(q, i)' >= 0
      /\ \A i \in Invoices, q \in Payments : q # p => Net(q, i)' = Net(q, i) /\ Net(q, i) \in Int
      /\ Kept(p)' = Kept(p) - req[r].amount /\ Kept(p) \in Int
      /\ \A q \in Payments : q # p => Kept(q)' = Kept(q)
  BY <1>1, ExecuteAccounts
<1>3. /\ r \in Requests /\ p \in Payments /\ p = req[r].p /\ req[r].status = "APPROVED"
      /\ RequestRow(req[r]) /\ Covered(r) /\ Executing(o) /\ r = o.r
      /\ req' = Executed(o)
      /\ pay' = IF req[r].type = "REFUND"
                THEN [pay EXCEPT ![p].refunded = @ + req[r].amount]
                ELSE [pay EXCEPT ![p].status = "REVERSED"]
  BY <1>1 DEF ExecuteWrites
<1>4. /\ inv \in [Invoices -> InvoiceRows] /\ pay \in [Payments -> PaymentRows]
      /\ \A q \in Payments : Balanced(q)
      /\ InvoicesNotOverpaid
  BY DEF CorrectionInv, FeeInv, FeeTyped
<1>5. /\ pay[p].status = "SUCCESS" /\ req[r].amount \in Nat
      /\ req[r].amount <= pay[p].amount - pay[p].refunded
      /\ req[r].type = "REFUND" \/ (pay[p].refunded = 0 /\ req[r].amount = pay[p].amount)
  BY <1>3 DEF Covered, Active, RequestRow, Refundable
<1>6. ASSUME NEW i \in Invoices
      PROVE  inv'[i] \in InvoiceRows /\ inv'[i].total = inv[i].total
  <2>1. inv'[i] = IF i \in D
                  THEN [inv[i] EXCEPT !.status =
                          ResolveInvoiceStatusAfterAdjustment(Credit(i) - SumTo(o.plan, i), o.seen[i])]
                  ELSE inv[i]
    BY <1>1 DEF ExecuteWrites
  <2>2. ResolveInvoiceStatusAfterAdjustment(Credit(i) - SumTo(o.plan, i), o.seen[i]) \in InvoiceStatuses
    BY StatusIs
  <2>3. inv[i] \in InvoiceRows
    BY <1>4
  <2> QED
    BY <2>1, <2>2, <2>3 DEF InvoiceRows
<1>7. /\ pay' \in [Payments -> PaymentRows]
      /\ \A q \in Payments : q # p => pay'[q] = pay[q]
      /\ pay'[p].amount = pay[p].amount
      /\ \/ req[r].type = "REFUND" /\ pay'[p].status = "SUCCESS"
            /\ pay'[p].refunded = pay[p].refunded + req[r].amount
         \/ req[r].type # "REFUND" /\ pay'[p].status = "REVERSED"
  <2>1. pay[p] \in PaymentRows
    BY <1>3, <1>4
  <2>2. CASE req[r].type = "REFUND"
    <3>1. PICK row : row = [pay[p] EXCEPT !.refunded = pay[p].refunded + req[r].amount]
      OBVIOUS
    <3>2. pay' = [pay EXCEPT ![p] = row]
      BY <1>3, <2>2, <3>1
    <3>3. /\ row \in PaymentRows /\ row.status = "SUCCESS" /\ row.amount = pay[p].amount
          /\ row.refunded = pay[p].refunded + req[r].amount
      BY <1>5, <2>1, <3>1 DEF PaymentRows
    <3> QED
      BY <1>3, <1>4, <2>2, <3>2, <3>3
  <2>3. CASE req[r].type # "REFUND"
    <3>1. pay' = [pay EXCEPT ![p] = [pay[p] EXCEPT !.status = "REVERSED"]]
      BY <1>3, <2>3
    <3>2. PICK row : row = [pay[p] EXCEPT !.status = "REVERSED"]
      OBVIOUS
    <3>3. row \in PaymentRows /\ row.status = "REVERSED" /\ row.amount = pay[p].amount
      BY <2>1, <3>2 DEF PaymentRows
    <3>4. p \in Payments /\ pay \in [Payments -> PaymentRows] /\ pay' = [pay EXCEPT ![p] = row]
      BY <1>3, <1>4, <3>1, <3>2
    <3>5. /\ pay' \in [Payments -> PaymentRows] /\ pay'[p] = row
          /\ \A q \in Payments : q # p => pay'[q] = pay[q]
      BY <3>3, <3>4
    <3> QED
      BY <2>3, <3>3, <3>5
  <2> QED
    BY <2>2, <2>3
<1>8. FeeTyped(Requests)'
  <2>1. inv' \in [Invoices -> InvoiceRows]
    <3>1. DOMAIN inv' = Invoices /\ inv' = [i \in Invoices |-> inv'[i]]
      BY <1>1 DEF ExecuteWrites
    <3> QED
      BY <1>6, <3>1
  <2>2. Requested(op')
    BY <1>1, Becomes DEF CorrectionInv, FeeInv
  <2> QED
    BY <1>2, <1>7, <2>1, <2>2 DEF FeeTyped, Requested
<1>9. ASSUME NEW q \in Payments PROVE Balanced(q)'
  <2>1. Balanced(q) /\ \A i \in Invoices : Net(q, i)' >= 0
    BY <1>2, <1>4
  <2>2. CASE q # p
    <3>1. /\ Kept(q)' = Kept(q) /\ pay'[q] = pay[q] /\ alloc'[q] = alloc[q]
      BY <1>1, <1>2, <1>7, <2>2, ZenonT(60) DEF ExecuteWrites, CorrectionInv, FeeInv, FeeTyped
    <3> QED
      BY <2>1, <3>1 DEF Balanced
  <2>3. CASE q = p
    <3>1. Kept(p) = pay[p].amount - pay[p].refunded /\ pay[p].amount > 0
          /\ pay[p].amount \in Nat /\ pay[p].refunded \in Nat
      BY <1>4, <1>5, <2>1, <2>3 DEF Balanced, PaymentRows
    <3>2. Kept(p)' = IF pay'[p].status = "SUCCESS" THEN pay'[p].amount - pay'[p].refunded ELSE 0
      BY <1>2, <1>5, <1>7, <3>1
    <3>3. pay'[p].refunded <= pay'[p].amount
      <4>1. CASE req[r].type = "REFUND"
        BY <1>5, <1>7, <3>1, <4>1
      <4>2. CASE req[r].type # "REFUND"
        BY <1>3, <1>4, <1>5, <3>1, <4>2 DEF PaymentRows
      <4> QED
        BY <4>1, <4>2
    <3> QED
      BY <1>7, <2>1, <2>3, <3>1, <3>2, <3>3 DEF Balanced
  <2> QED
    BY <2>2, <2>3
<1>10. InvoicesNotOverpaid'
  <2>1. ASSUME NEW i \in Invoices PROVE Credit(i)' \in 0..inv'[i].total
    <3>1. PICK after : after = alloc'
      OBVIOUS
    <3>2. CreditIn(after, i) >= 0
      <4>1. \A q \in Payments : Amounted(after[q]) /\ SumTo(after[q], i) >= 0
        BY <1>2, <3>1, RowsAmounted DEF Net
      <4> QED
        BY <4>1, CreditPositive
    <3>3. Credit(i)' >= 0
      BY <3>1, <3>2, CreditIsNext
    <3>4. Credit(i) \in 0..inv[i].total /\ inv[i].total \in Nat
      BY <1>4 DEF InvoicesNotOverpaid, InvoiceRows
    <3> QED
      BY <1>2, <1>6, <3>3, <3>4
  <2> QED
    BY <2>1 DEF InvoicesNotOverpaid
<1>11. FeeInv(Requests)'
  BY <1>8, <1>9, <1>10 DEF FeeInv
<1>12. TotalsSeen'
  BY <1>1, <1>6, TotalsKept DEF CorrectionInv
<1>13. /\ DOMAIN req' = Requests /\ \A s \in Requests : s # r => req'[s] = req[s]
       /\ req'[r].status = "EXECUTED" /\ req'[r].executor = o.u
       /\ req'[r].amount = req[r].amount /\ req'[r].maker = req[r].maker
       /\ req'[r].reviewer = req[r].reviewer /\ req'[r].deciders = req[r].deciders
       /\ req'[r].required = req[r].required
       /\ RequestRow(req'[r])
  <2>1. o.u \in Users
    BY <1>3 DEF Executing, ExecutionOf
  <2>2. /\ req' = [req EXCEPT ![r] = [req[r] EXCEPT !.status = "EXECUTED", !.executor = o.u]]
        /\ DOMAIN req = Requests
    BY <1>3 DEF Executed, CorrectionInv, RequestsTyped
  <2>3. req'[r] = [req[r] EXCEPT !.status = "EXECUTED", !.executor = o.u]
    BY <1>3, <2>2
  <2> QED
    BY <1>3, <2>1, <2>2, <2>3 DEF RequestRow, RequestStatuses
<1>14. RequestsTyped' /\ PolicyTyped'
  BY <1>1, <1>13 DEF CorrectionInv, RequestsTyped, PolicyTyped
<1>15. \A s \in Requests : s # r /\ req[s].status \in Active => req[s].p # p
  BY <1>3 DEF CorrectionInv, OneOpenPerPayment, Active
<1>16. ASSUME NEW s \in Requests PROVE Covered(s)'
  <2>1. CASE s = r
    BY <1>13, <2>1 DEF Covered, Active
  <2>2. CASE s # r /\ req[s].status \in Active
    <3>1. req'[s] = req[s] /\ Covered(s) /\ req[s].p # p /\ req[s].p \in Payments
      BY <1>13, <1>15, <2>2 DEF CorrectionInv, RequestsTyped, RequestRow, Active
    <3>2. pay'[req[s].p] = pay[req[s].p]
      BY <1>7, <3>1
    <3> QED
      BY <3>1, <3>2 DEF Covered, Refundable
  <2>3. CASE s # r /\ req[s].status \notin Active
    BY <1>13, <2>3 DEF Covered
  <2> QED
    BY <2>1, <2>2, <2>3
<1>17. OneOpenPerPayment' /\ ReviewedByAnother'
  BY <1>13 DEF CorrectionInv, OneOpenPerPayment, ReviewedByAnother, Active
<1>18. FourEyes'
  <2>1. MayExecute(r, o.u)
    BY <1>3 DEF Executing
  <2>2. PICK deciders, maker, reviewer, n :
          /\ deciders = req[r].deciders /\ maker = req[r].maker /\ reviewer = req[r].reviewer
          /\ n = req[r].required
    OBVIOUS
  <2>3. /\ IsFiniteSet(deciders) /\ n \in Nat /\ reviewer # maker
        /\ Cardinality(deciders) >= n
        /\ deciders \cap {maker, reviewer} = {}
        /\ o.u \notin {maker, reviewer} \cup deciders
    BY <1>3, <2>1, <2>2 DEF RequestRow, MayExecute, CorrectionInv, ReviewedByAnother
  <2>4. Cardinality({maker, reviewer, o.u} \cup deciders) >= 3 + n
    BY <2>3, HandsCounted
  <2>5. ASSUME NEW s \in Requests, req'[s].status = "EXECUTED"
        PROVE  Cardinality({req'[s].maker, req'[s].reviewer, req'[s].executor} \cup req'[s].deciders)
                 >= 3 + req'[s].required
    <3>1. CASE s = r
      BY <1>13, <2>2, <2>4, <3>1
    <3>2. CASE s # r
      BY <1>13, <2>5, <3>2 DEF CorrectionInv, FourEyes
    <3> QED
      BY <3>1, <3>2
  <2> QED
    BY <2>5 DEF FourEyes
<1>19. ExecutionsHold'
  <2>1. ASSUME NEW s \in Requests, NEW q,
               req[s].status \in {"APPROVED", "REJECTED", "EXECUTED"}, q = req[s].p
        PROVE  \/ /\ req'[s] = req[s]
                  /\ req[s].status = "APPROVED" => \A i \in Invoices : Net(q, i)' >= Net(q, i)
               \/ /\ req'[s].status \in {"REJECTED", "EXECUTED"}
                  /\ req'[s].amount = req[s].amount
                  /\ s \in rows
    <3>1. CASE s = r
      BY <1>1, <1>13, <3>1
    <3>2. CASE s # r /\ req[s].status = "APPROVED"
      <4>1. q \in Payments /\ q # p
        BY <1>15, <2>1, <3>2 DEF CorrectionInv, RequestsTyped, RequestRow, Active
      <4> QED
        BY <1>2, <1>13, <3>2, <4>1
    <3>3. CASE s # r /\ req[s].status # "APPROVED"
      BY <1>13, <3>3
    <3> QED
      BY <3>1, <3>2, <3>3
  <2>2. ASSUME NEW v \in Workers, op'[v] # Idle, Execution(op'[v]) PROVE Executing(op[v])'
    <3>1. op'[v] = IF v = w THEN Idle ELSE Told(op[v], rows)
      BY <1>1 DEF Become
    <3>2. v # w
      BY <2>2, <3>1
    <3>3. \A s \in Requests : \A q :
            req[s].status \in {"APPROVED", "REJECTED", "EXECUTED"} /\ q = req[s].p =>
              \/ /\ req'[s] = req[s]
                 /\ req[s].status = "APPROVED" => \A i \in Invoices : Net(q, i)' >= Net(q, i)
              \/ /\ req'[s].status \in {"REJECTED", "EXECUTED"}
                 /\ req'[s].amount = req[s].amount
                 /\ s \in rows
      BY <2>1
    <3> QED
      BY <1>2, <2>2, <3>1, <3>2, <3>3, OthersKept DEF CorrectionInv
  <2> QED
    BY <2>2 DEF ExecutionsHold
<1> QED
  BY <1>11, <1>12, <1>14, <1>16, <1>17, <1>18, <1>19 DEF CorrectionInv

-----------------------------------------------------------------------------
(***************************************************************************)
(* Every step keeps the invariant                                          *)
(***************************************************************************)
\* Steps that change the policy at most.
LEMMA PolicyCorrection ==
  ASSUME CorrectionInv, UNCHANGED <<inv, pay, alloc, op, req>>, PolicyTyped'
  PROVE  CorrectionInv'
<1>1. FeeInv(Requests)'
  BY FeeUnchanged DEF CorrectionInv, FeeInv, FeeTyped, Requested
<1>2. TotalsSeen'
  BY DEF CorrectionInv, TotalsSeen
<1>3. (RequestsTyped /\ OneOpenPerPayment /\ ReviewedByAnother /\ FourEyes)'
  BY DEF CorrectionInv, RequestsTyped, OneOpenPerPayment, ReviewedByAnother, FourEyes
<1>4. \A r \in Requests : Covered(r)'
  BY DEF CorrectionInv, Covered, Refundable
<1>5. ExecutionsHold'
  BY DEF CorrectionInv, ExecutionsHold, Executing, MayExecute, Net
<1> QED
  BY <1>1, <1>2, <1>3, <1>4, <1>5 DEF CorrectionInv

LEMMA NextCorrection == CorrectionInv /\ [Next]_vars => CorrectionInv'
<1> SUFFICES ASSUME CorrectionInv, [Next]_vars PROVE CorrectionInv'
  OBVIOUS
<1>1. CASE \E w \in Workers : FeeStep(w) /\ UNCHANGED <<req, policy>>
  BY <1>1, FeeStepCorrection
<1>2. CASE \E w \in Workers : ReadExecute(w) \/ TakeSnapshot(w) \/ Execute(w)
  BY <1>2, ReadExecuteCorrection, TakeSnapshotCorrection, ExecuteCorrection
<1>3. CASE CreateFinanceCorrectionRequest
  BY <1>3, CreateCorrection
<1>4. CASE Review \/ Approve \/ Reject
  BY <1>4, TransitionsCorrection
<1>5. CASE CreatePolicy
  <2>1. PolicyTyped'
    BY <1>5, CorrectionAssumption DEF CreatePolicy, CorrectionInv, PolicyTyped
  <2> QED
    BY <1>5, <2>1, PolicyCorrection DEF CreatePolicy
<1>6. CASE UNCHANGED vars
  <2>1. PolicyTyped'
    BY <1>6 DEF vars, CorrectionInv, PolicyTyped
  <2> QED
    BY <1>6, <2>1, PolicyCorrection DEF vars
<1> QED
  BY <1>1, <1>2, <1>3, <1>4, <1>5, <1>6 DEF Next

THEOREM CorrectionSafe == Spec => []CorrectionInv
<1> QED
  BY CorrectionInit, NextCorrection, PTL DEF Spec

-----------------------------------------------------------------------------
\* However requests, refunds and reversals interleave (collectPayment,
\* reallocatePayment, refundPayment, reversePayment), no refund exceeds its
\* payment, no invoice has a negative part of a payment, and the allocation
\* rows, requests and policies keep their shape.  Of advances it says nothing.
THEOREM CorrectionsTyped == Spec => []TypeOK
<1>1. CorrectionInv => TypeOK
  <2> SUFFICES ASSUME CorrectionInv PROVE TypeOK
    OBVIOUS
  <2>1. inv \in [Invoices -> InvoiceRows] /\ pay \in [Payments -> PaymentRows]
        /\ alloc \in [Payments -> Seq(RowsOf(Requests))]
    BY DEF CorrectionInv, FeeInv, FeeTyped
  <2>2. ASSUME NEW p \in Payments
        PROVE  /\ \A n \in DOMAIN alloc[p] : AllocationRow(alloc[p][n])
               /\ \A i \in Invoices : Net(p, i) >= 0
               /\ pay[p].refunded <= pay[p].amount
    <3>1. ASSUME NEW n \in DOMAIN alloc[p] PROVE AllocationRow(alloc[p][n])
      <4>1. alloc[p][n] \in RowsOf(Requests)
        BY <2>1
      <4> QED
        BY <4>1 DEF RowsOf, AllocationRow
    <3>2. Balanced(p)
      BY DEF CorrectionInv, FeeInv
    <3> QED
      BY <3>1, <3>2 DEF Balanced
  <2>3. \A r \in Requests :
          /\ req[r].status \in Active \cup {"none", "REJECTED", "EXECUTED"}
          /\ req[r].deciders \subseteq Users
          /\ req[r].status # "none" => req[r].maker \in Users /\ req[r].p \in Payments
    BY DEF CorrectionInv, RequestsTyped, RequestRow, RequestStatuses
  <2>4. policy.active \in 0..MaxPolicies /\ policy.required \in ApprovalCounts \cup {1}
    BY CorrectionAssumption DEF CorrectionInv, PolicyTyped
  <2> QED
    BY <2>1, <2>2, <2>3, <2>4 DEF TypeOK
<1> QED
  BY <1>1, CorrectionSafe, PTL

\* No invoice is ever credited with more than its total, and no correction
\* takes more from an invoice than was paid on it.
THEOREM NeverOverpaid == Spec => []InvoicesNotOverpaid
<1>1. CorrectionInv => InvoicesNotOverpaid
  BY DEF CorrectionInv, FeeInv
<1> QED
  BY <1>1, CorrectionSafe, PTL

\* The allocation rows of a payment keep what it brought less its refunds, and
\* nothing once it is reversed.
THEOREM PaymentsAlwaysBalance == Spec => []PaymentsBalance
<1>1. CorrectionInv => PaymentsBalance
  BY DEF CorrectionInv, FeeInv, Balanced, PaymentsBalance, Refundable
<1> QED
  BY <1>1, CorrectionSafe, PTL

\* Every executed refund and reversal took a maker, a reviewer, the approvers
\* its policy asked for and an executor, and nobody served twice.
THEOREM AlwaysFourEyes == Spec => []FourEyes
<1>1. CorrectionInv => FourEyes
  BY DEF CorrectionInv
<1> QED
  BY <1>1, CorrectionSafe, PTL

-----------------------------------------------------------------------------
(***************************************************************************)
(* The status of an invoice                                                *)
(***************************************************************************)
BalanceStatus(paid, total) ==
  CASE paid >= total -> "PAID"
    [] paid \in 1..(total - 1) -> "PARTIAL"
    [] OTHER -> "ISSUED"

LEMMA StatusComputed ==
  ASSUME NEW total \in Nat \ {0}, NEW paid \in Int
  PROVE  /\ ResolveInvoiceStatusAfterAdjustment(paid, total) = BalanceStatus(paid, total)
         /\ paid > 0 => CollectedStatus(paid, total) = BalanceStatus(paid, total)
<1>1. paid \in 1..(total - 1) <=> paid > 0 /\ paid < total
  OBVIOUS
<1> QED
  BY <1>1 DEF ResolveInvoiceStatusAfterAdjustment, CollectedStatus, BalanceStatus

\* What a step does to an invoice whose total is never changed.
StatusWritten(i) ==
  \/ inv'[i] = inv[i] /\ Credit(i)' = Credit(i)
  \/ inv'[i].total = inv[i].total /\ inv'[i].status = BalanceStatus(Credit(i)', Total)

LEMMA StatusTold ==
  ASSUME CorrectionInv, StatusTellsBalance, \A i \in Plain : StatusWritten(i)
  PROVE  StatusTellsBalance'
<1>1. \A i \in Plain : inv[i].total = Total /\ inv[i].status = BalanceStatus(Credit(i), inv[i].total)
  BY DEF CorrectionInv, TotalsSeen, StatusTellsBalance, Plain, BalanceStatus
<1>2. \A i \in Plain : inv'[i].status = BalanceStatus(Credit(i)', inv'[i].total)
  BY <1>1 DEF StatusWritten
<1> QED
  BY <1>2 DEF StatusTellsBalance, Plain, BalanceStatus

\* A cashier computes the status from rows read under the lock.
LEMMA CollectTells ==
  ASSUME CorrectionInv, NEW w \in Workers, CollectPayment(w), NEW i \in Plain
  PROVE  StatusWritten(i)
<1>1. PICK o : o = op[w]
  OBVIOUS
<1>2. i \in Invoices /\ inv[i] \in InvoiceRows /\ inv[i].total = Total /\ Credit(i) \in 0..inv[i].total
  BY DEF Plain, CorrectionInv, FeeInv, FeeTyped, TotalsSeen, InvoicesNotOverpaid
<1>3. Pays(o)
  BY <1>1, CollectKeeps DEF CorrectionInv
<1>4. inv'[i] = IF i \in DOMAIN o.plan
                THEN [inv[i] EXCEPT !.status = CollectedStatus(Credit(i) + o.plan[i], inv[i].total)]
                ELSE inv[i]
  BY <1>1, <1>2 DEF CollectPayment
<1>5. CASE i \in DOMAIN o.plan
  <2>1. PICK paid : paid = Credit(i) + o.plan[i]
    OBVIOUS
  <2>2. paid \in Int /\ paid > 0 /\ Credit(i)' = paid
    BY <1>2, <1>3, <1>5, <2>1, FeeAssumption DEF Pays
  <2>3. CollectedStatus(paid, Total) = BalanceStatus(paid, Total)
    BY <2>2, StatusComputed, FeeAssumption
  <2>4. inv'[i] = [inv[i] EXCEPT !.status = CollectedStatus(paid, Total)]
    BY <1>2, <1>4, <1>5, <2>1
  <2>5. inv'[i].status = BalanceStatus(paid, Total) /\ inv'[i].total = inv[i].total
    BY <1>2, <2>3, <2>4 DEF InvoiceRows
  <2> QED
    BY <2>2, <2>5 DEF StatusWritten
<1>6. CASE i \notin DOMAIN o.plan
  BY <1>2, <1>3, <1>4, <1>6 DEF Pays, StatusWritten
<1> QED
  BY <1>5, <1>6

\* reallocatePayment uses the total it read before, which is still the total.
LEMMA ReallocateTells ==
  ASSUME CorrectionInv, NEW w \in Workers, ReallocatePayment(w), NEW i \in Plain
  PROVE  StatusWritten(i)
<1>1. PICK o : o = op[w]
  OBVIOUS
<1>2. i \in Invoices /\ inv[i] \in InvoiceRows /\ inv[i].total = Total /\ Credit(i) \in 0..inv[i].total
  BY DEF Plain, CorrectionInv, FeeInv, FeeTyped, TotalsSeen, InvoicesNotOverpaid
<1>3. Pays(o)
  BY <1>1, ReallocateKeeps DEF CorrectionInv
<1>4. inv'[i] = IF i \in DOMAIN o.plan
                THEN [inv[i] EXCEPT !.status =
                        ResolveInvoiceStatusAfterAdjustment(Credit(i) + o.plan[i], o.seen[i])]
                ELSE inv[i]
  BY <1>1, <1>2 DEF ReallocatePayment
<1>5. CASE i \in DOMAIN o.plan
  <2>1. PICK paid : paid = Credit(i) + o.plan[i]
    OBVIOUS
  <2>2. paid \in Int /\ Credit(i)' = paid
    BY <1>2, <1>3, <1>5, <2>1, FeeAssumption DEF Pays
  <2>3. o.seen[i] = Total
    <3>1. o # Idle /\ o.kind = "reallocate"
      BY <1>1 DEF ReallocatePayment
    <3>2. IsReallocate(o)
      BY <1>1, <3>1, RequestIs DEF CorrectionInv, FeeInv
    <3> QED
      BY <1>1, <1>5, <3>1, <3>2 DEF IsReallocate, CorrectionInv, TotalsSeen
  <2>4. inv'[i] = [inv[i] EXCEPT !.status = ResolveInvoiceStatusAfterAdjustment(paid, Total)]
    BY <1>4, <1>5, <2>1, <2>3
  <2>5. ResolveInvoiceStatusAfterAdjustment(paid, Total) = BalanceStatus(paid, Total)
    BY <2>2, StatusComputed, FeeAssumption
  <2>6. inv'[i].status = BalanceStatus(paid, Total) /\ inv'[i].total = inv[i].total
    BY <1>2, <2>4, <2>5 DEF InvoiceRows
  <2> QED
    BY <2>2, <2>6 DEF StatusWritten
<1>6. CASE i \notin DOMAIN o.plan
  BY <1>2, <1>3, <1>4, <1>6 DEF Pays, StatusWritten
<1> QED
  BY <1>5, <1>6

\* A correction updates every invoice that its plan takes from.
LEMMA ExecuteTells ==
  ASSUME CorrectionInv, NEW w \in Workers, Execute(w), NEW i \in Plain
  PROVE  StatusWritten(i)
<1>1. PICK o, r, p, D : ExecuteWrites(o, r, p, D)
  BY ExecuteIs
<1>2. i \in Invoices /\ inv[i] \in InvoiceRows /\ inv[i].total = Total
  BY DEF Plain, CorrectionInv, FeeInv, FeeTyped, TotalsSeen
<1>3. Credit(i) \in Int /\ Credit(i)' = Credit(i) - SumTo(o.plan, i) /\ SumTo(o.plan, i) \in Nat
  BY <1>1, <1>2, ExecuteAccounts
<1>4. /\ o.plan \in Seq(Parts)
      /\ \A n \in 1..Len(o.plan) : o.plan[n].to \in DOMAIN o.seen \cup {Advance}
      /\ \A j \in DOMAIN o.seen \cap Plain : o.seen[j] = Total
  BY <1>1 DEF ExecuteWrites, Executing, ExecutionOf
<1>5. i # Advance
  BY <1>2, FeeAssumption
<1>6. /\ i \in D => i \in DOMAIN o.seen
      /\ i \notin D => \A n \in 1..Len(o.plan) : o.plan[n].to # i
  <2>1. D = IF req[o.r].type = "REFUND"
            THEN {row.to : row \in ToSet(o.plan)} \ {Advance} ELSE DOMAIN o.seen
    BY <1>1 DEF ExecuteWrites, Corrected
  <2>2. ToSet(o.plan) = {o.plan[n] : n \in 1..Len(o.plan)}
    BY <1>4 DEF ToSet
  <2> QED
    BY <1>4, <1>5, <2>1, <2>2
<1>7. inv'[i] = IF i \in D
                THEN [inv[i] EXCEPT !.status =
                        ResolveInvoiceStatusAfterAdjustment(Credit(i) - SumTo(o.plan, i), o.seen[i])]
                ELSE inv[i]
  BY <1>1, <1>2 DEF ExecuteWrites
<1>8. CASE i \in D
  <2>1. PICK paid \in Int : paid = Credit(i) - SumTo(o.plan, i)
    BY <1>3
  <2>2. o.seen[i] = Total
    BY <1>4, <1>6, <1>8
  <2>3. inv'[i] = [inv[i] EXCEPT !.status = ResolveInvoiceStatusAfterAdjustment(paid, Total)]
    BY <1>7, <1>8, <2>1, <2>2
  <2>4. ResolveInvoiceStatusAfterAdjustment(paid, Total) = BalanceStatus(paid, Total)
    BY StatusComputed, FeeAssumption
  <2>5. inv'[i].status = BalanceStatus(paid, Total) /\ inv'[i].total = inv[i].total
    BY <1>2, <2>3, <2>4 DEF InvoiceRows
  <2> QED
    BY <1>3, <2>1, <2>5 DEF StatusWritten
<1>9. CASE i \notin D
  <2>1. SumTo(o.plan, i) = 0
    BY <1>4, <1>6, <1>9, PartRows, RowsAmounted, SumToNone
  <2> QED
    BY <1>3, <1>7, <1>9, <2>1 DEF StatusWritten
<1> QED
  BY <1>8, <1>9

LEMMA NextTells ==
  ASSUME CorrectionInv, [Next]_vars, NEW i \in Plain
  PROVE  StatusWritten(i)
<1>1. CASE UNCHANGED <<inv, alloc>>
  BY <1>1, RowsKept DEF StatusWritten
<1>2. CASE \E w \in Workers : FeeStep(w)
  <2>1. PICK w \in Workers : FeeStep(w)
    BY <1>2
  <2>2. CASE CreateInvoiceAdjustment(w) \/ VoidInvoice(w)
    <3>1. UNCHANGED alloc
      BY <2>2 DEF CreateInvoiceAdjustment, VoidInvoice
    <3>2. inv'[i] = inv[i]
      <4>1. CASE CreateInvoiceAdjustment(w)
        <5>1. op[w].i \in Adjustable
          BY <4>1, RequestIs DEF CreateInvoiceAdjustment, CorrectionInv, FeeInv, IsAdjust
        <5> QED
          BY <4>1, <5>1 DEF CreateInvoiceAdjustment, Plain, CorrectionInv, FeeInv, FeeTyped
      <4>2. CASE VoidInvoice(w)
        <5>1. op[w].i \in Voidable
          BY <4>2, RequestIs DEF VoidInvoice, CorrectionInv, FeeInv, IsVoid
        <5> QED
          BY <4>2, <5>1 DEF VoidInvoice, Plain, CorrectionInv, FeeInv, FeeTyped
      <4> QED
        BY <2>2, <4>1, <4>2
    <3> QED
      BY <3>1, <3>2, RowsKept DEF StatusWritten
  <2>3. CASE ReadCollect(w) \/ ReadReallocate(w) \/ ReadAdjust(w) \/ ReadVoid(w) \/ RollBack(w)
    BY <1>1, <2>3, ReadsTyped DEF CorrectionInv, FeeInv
  <2> QED
    BY <2>1, <2>2, <2>3, CollectTells, ReallocateTells DEF FeeStep
<1>3. CASE \E w \in Workers : Execute(w)
  BY <1>3, ExecuteTells
<1>4. CASE \/ \E w \in Workers : ReadExecute(w) \/ TakeSnapshot(w)
           \/ CreateFinanceCorrectionRequest \/ Review \/ Approve \/ Reject
           \/ CreatePolicy \/ UNCHANGED vars
  <2>1. UNCHANGED <<inv, alloc>>
    BY <1>4, ZenonT(60) DEF ReadExecute, TakeSnapshot, CreateFinanceCorrectionRequest, Review, Approve, Reject,
                Transition, CreatePolicy, vars
  <2> QED
    BY <1>1, <2>1
<1> QED
  BY <1>2, <1>3, <1>4 DEF Next

\* Away from adjusted and voided invoices the status tells the balance, though
\* cashiers, bursars and executors compute it from totals they read before.
THEOREM StatusAlwaysTellsBalance == Spec => []StatusTellsBalance
<1>1. Init => StatusTellsBalance
  <2> SUFFICES ASSUME Init PROVE StatusTellsBalance
    OBVIOUS
  <2>1. ASSUME NEW i \in Invoices PROVE Credit(i) = 0
    <3>1. PICK rows : rows = alloc
      OBVIOUS
    <3>2. CreditIn(rows, i) = 0
      BY <3>1, CreditOfNothing DEF Init, FeeInit
    <3> QED
      BY <3>1, <3>2, CreditIsIn
  <2> QED
    BY <2>1, FeeAssumption DEF Init, FeeInit, StatusTellsBalance
<1>2. CorrectionInv /\ StatusTellsBalance /\ [Next]_vars => StatusTellsBalance'
  BY NextTells, StatusTold
<1> QED
  BY <1>1, <1>2, CorrectionSafe, PTL DEF Spec

-----------------------------------------------------------------------------
(***************************************************************************)
(* The contract of corrections                                             *)
(***************************************************************************)
\* What was given back of a payment, as its record tells it.
Back(row) == IF row.status = "SUCCESS" THEN row.refunded ELSE row.amount

ReceivedNow == [p \in Payments |-> pay[p].amount]
ReturnedNow == [p \in Payments |-> pay[p].amount - Kept(p)]
GrantedNow == [r \in Approved |-> [p |-> req[r].p, amount |-> req[r].amount]]
CarriedNow == {r \in Requests : req[r].status = "EXECUTED"}

LEMMA ReturnedIsBack ==
  ASSUME CorrectionInv
  PROVE  /\ \A p \in Payments : pay[p] \in PaymentRows /\ pay[p].amount - Kept(p) = Back(pay[p])
         /\ ReturnedNow = [p \in Payments |-> Back(pay[p])]
<1>1. ASSUME NEW p \in Payments
      PROVE  pay[p] \in PaymentRows /\ pay[p].amount - Kept(p) = Back(pay[p])
  <2>1. pay[p] \in PaymentRows /\ Balanced(p)
    BY DEF CorrectionInv, FeeInv, FeeTyped
  <2>2. Kept(p) = IF pay[p].status = "SUCCESS" THEN pay[p].amount - pay[p].refunded ELSE 0
    BY <2>1 DEF Balanced
  <2>3. pay[p].amount \in Nat /\ pay[p].refunded \in Nat
    BY <2>1 DEF PaymentRows
  <2> QED
    BY <2>1, <2>2, <2>3 DEF Back
<1> QED
  BY <1>1 DEF ReturnedNow

LEMMA ReturnedIsBackNext ==
  ASSUME CorrectionInv'
  PROVE  ReturnedNow' = [p \in Payments |-> Back(pay'[p])]
<1>1. (CorrectionInv => ReturnedNow = [p \in Payments |-> Back(pay[p])])'
  BY ReturnedIsBack, PTL
<1> QED
  BY <1>1

LEMMA GrantedIs ==
  /\ DOMAIN GrantedNow = Approved
  /\ GrantedNow = [r \in DOMAIN GrantedNow |-> GrantedNow[r]]
  /\ \A r \in Approved : GrantedNow[r] = [p |-> req[r].p, amount |-> req[r].amount]
  BY DEF GrantedNow

LEMMA GrantedIsNext ==
  /\ DOMAIN GrantedNow' = Approved'
  /\ GrantedNow' = [r \in DOMAIN GrantedNow' |-> GrantedNow'[r]]
  /\ \A r \in Approved' : GrantedNow'[r] = [p |-> req'[r].p, amount |-> req'[r].amount]
  BY DEF GrantedNow

\* One request leaves the granted ones.
LEMMA GrantedWithout ==
  ASSUME NEW r, r \in Approved, Approved' = Approved \ {r},
         \A s \in Approved : s # r => req'[s] = req[s]
  PROVE  /\ GrantedNow' = [s \in DOMAIN GrantedNow \ {r} |-> GrantedNow[s]]
         /\ r \in DOMAIN GrantedNow
<1>1. PICK g, h : g = GrantedNow /\ h = GrantedNow'
  OBVIOUS
<1>2. /\ DOMAIN g = Approved /\ DOMAIN h = DOMAIN g \ {r}
      /\ h = [s \in DOMAIN h |-> h[s]]
  BY <1>1, GrantedIs, GrantedIsNext
<1>3. \A s \in DOMAIN h : h[s] = g[s]
  BY <1>1, <1>2, GrantedIs, GrantedIsNext
<1>4. h = [s \in DOMAIN g \ {r} |-> g[s]]
  BY <1>2, <1>3
<1> QED
  BY <1>1, <1>2, <1>4

\* A function that differs in one place.
LEMMA FunctionExcept ==
  ASSUME NEW S, NEW f, f = [x \in S |-> f[x]], NEW g, g = [x \in S |-> g[x]],
         NEW a \in S, NEW v, g[a] = v, \A x \in S : x # a => g[x] = f[x]
  PROVE  g = [f EXCEPT ![a] = v]
<1>1. DOMAIN f = S /\ DOMAIN g = S
  OBVIOUS
<1>2. \A x \in S : g[x] = IF x = a THEN v ELSE f[x]
  OBVIOUS
<1>3. g = [x \in S |-> IF x = a THEN v ELSE f[x]]
  BY <1>2
<1> QED
  BY <1>1, <1>3

\* Steps that leave the payments and what is approved and executed.
LEMMA ContractStutters ==
  ASSUME CorrectionInv, CorrectionInv', UNCHANGED pay,
         \A r \in Requests :
           /\ req'[r].status = "APPROVED" <=> req[r].status = "APPROVED"
           /\ req'[r].status = "EXECUTED" <=> req[r].status = "EXECUTED"
           /\ req[r].status = "APPROVED" => req'[r].p = req[r].p /\ req'[r].amount = req[r].amount
  PROVE  UNCHANGED Promise!contractVars
<1>1. UNCHANGED ReceivedNow
  BY DEF ReceivedNow
<1>2. UNCHANGED ReturnedNow
  BY ReturnedIsBack, ReturnedIsBackNext
<1>3. UNCHANGED GrantedNow
  BY DEF GrantedNow, Approved
<1>4. UNCHANGED CarriedNow
  BY DEF CarriedNow
<1> QED
  BY <1>1, <1>2, <1>3, <1>4 DEF Promise!contractVars, ReceivedNow, ReturnedNow, GrantedNow, CarriedNow

LEMMA CollectReceives ==
  ASSUME CorrectionInv, CorrectionInv', NEW w \in Workers, CollectPayment(w), UNCHANGED req
  PROVE  \E p \in Payments : Promise!Receive(p)
<1>1. PICK o : o = op[w]
  OBVIOUS
<1>2. PICK p \in Payments, amount \in Nat \ {0} : p = o.p /\ amount = o.amount
  BY <1>1, RequestIs DEF CollectPayment, CorrectionInv, FeeInv, IsCollect
<1>3. /\ pay[p].status = "none"
      /\ pay' = [pay EXCEPT ![p] = [status |-> "SUCCESS", amount |-> amount, refunded |-> 0]]
  BY <1>1, <1>2 DEF CollectPayment, MayCollect
<1>4. pay[p].amount = 0
  BY <1>3 DEF CorrectionInv, FeeInv, Balanced
<1>5. DOMAIN pay = Payments
  BY DEF CorrectionInv, FeeInv, FeeTyped
<1>6. /\ pay'[p].status = "SUCCESS" /\ pay'[p].amount = amount /\ pay'[p].refunded = 0
      /\ \A q \in Payments : q # p => pay'[q] = pay[q]
  BY <1>3, <1>5
<1>7. /\ ReceivedNow[p] = 0 /\ ReceivedNow'[p] = amount
      /\ ReceivedNow' = [ReceivedNow EXCEPT ![p] = ReceivedNow'[p]]
  BY <1>4, <1>6 DEF ReceivedNow
<1>8. UNCHANGED ReturnedNow
  <2>1. \A q \in Payments : Back(pay'[q]) = Back(pay[q])
    BY <1>3, <1>4, <1>6 DEF Back
  <2> QED
    BY <2>1, ReturnedIsBack, ReturnedIsBackNext
<1>9. UNCHANGED <<GrantedNow, CarriedNow>>
  BY DEF GrantedNow, CarriedNow, Approved
<1> QED
  BY <1>2, <1>7, <1>8, <1>9 DEF Promise!Receive, ReceivedNow, ReturnedNow, GrantedNow, CarriedNow

LEMMA TransitionContract ==
  ASSUME CorrectionInv, CorrectionInv', Review \/ Approve \/ Reject
  PROVE  \/ UNCHANGED Promise!contractVars
         \/ \E r \in Requests : Promise!Grant(r) \/ Promise!Withdraw(r)
<1>0. PICK r \in Requests : \E new :
        /\ Transition(r, new)
        /\ req[r].status \in Active /\ new.status \in {"REVIEWED", "APPROVED", "REJECTED"}
        /\ req[r].status = "APPROVED" => new.status = "REJECTED"
        /\ new.p = req[r].p /\ new.amount = req[r].amount
  <2>1. \A r \in Requests : RequestRow(req[r])
    BY DEF CorrectionInv, RequestsTyped
  <2>2. CASE Review
    <3>1. PICK r \in Requests, u \in Users :
            /\ req[r].status = "PENDING"
            /\ Transition(r, [req[r] EXCEPT !.status = "REVIEWED", !.reviewer = u])
      BY <2>2 DEF Review
    <3>2. PICK new : new = [req[r] EXCEPT !.status = "REVIEWED", !.reviewer = u]
      OBVIOUS
    <3>3. new.status = "REVIEWED" /\ new.p = req[r].p /\ new.amount = req[r].amount
      BY <2>1, <3>2 DEF RequestRow
    <3> QED
      BY <3>1, <3>2, <3>3 DEF Active
  <2>3. CASE Approve
    <3>1. PICK r \in Requests, u \in Users, status \in {"REVIEWED", "APPROVED"} :
            /\ req[r].status = "REVIEWED"
            /\ Transition(r, [req[r] EXCEPT !.deciders = @ \cup {u}, !.status = status])
      BY <2>3 DEF Approve
    <3>2. PICK new : new = [req[r] EXCEPT !.deciders = @ \cup {u}, !.status = status]
      OBVIOUS
    <3>3. new.status = status /\ new.p = req[r].p /\ new.amount = req[r].amount
      BY <2>1, <3>2 DEF RequestRow
    <3> QED
      BY <3>1, <3>2, <3>3 DEF Active
  <2>4. CASE Reject
    <3>1. PICK r \in Requests :
            /\ req[r].status \in {"PENDING", "REVIEWED", "APPROVED"}
            /\ Transition(r, [req[r] EXCEPT !.status = "REJECTED"])
      BY <2>4 DEF Reject
    <3>2. PICK new : new = [req[r] EXCEPT !.status = "REJECTED"]
      OBVIOUS
    <3>3. new.status = "REJECTED" /\ new.p = req[r].p /\ new.amount = req[r].amount
      BY <2>1, <3>2 DEF RequestRow
    <3> QED
      BY <3>1, <3>2, <3>3 DEF Active
  <2> QED
    BY <2>2, <2>3, <2>4
<1>1. PICK new :
        /\ Transition(r, new)
        /\ req[r].status \in Active /\ new.status \in {"REVIEWED", "APPROVED", "REJECTED"}
        /\ req[r].status = "APPROVED" => new.status = "REJECTED"
        /\ new.p = req[r].p /\ new.amount = req[r].amount
  BY <1>0
<1>2. /\ UNCHANGED pay /\ req'[r] = new /\ \A s \in Requests : s # r => req'[s] = req[s]
  BY <1>1 DEF Transition, CorrectionInv, RequestsTyped
<1>3. UNCHANGED <<ReceivedNow, ReturnedNow>>
  BY <1>2, ReturnedIsBack, ReturnedIsBackNext DEF ReceivedNow
<1>4. UNCHANGED CarriedNow
  BY <1>1, <1>2 DEF CarriedNow, Active
<1>5. CASE new.status = "APPROVED"
  <2>1. Approved' = Approved \cup {r} /\ r \notin Approved /\ r \notin CarriedNow
    BY <1>1, <1>2, <1>5 DEF Approved, CarriedNow, Active
  <2>2. /\ DOMAIN GrantedNow = Approved /\ DOMAIN GrantedNow' = Approved'
        /\ \A s \in Approved : GrantedNow'[s] = GrantedNow[s]
        /\ GrantedNow'[r] = [p |-> req[r].p, amount |-> req[r].amount]
    <3>1. \A s \in Approved : s \in Approved' /\ req'[s] = req[s]
      BY <1>2, <2>1 DEF Approved
    <3>2. r \in Approved' /\ req'[r].p = req[r].p /\ req'[r].amount = req[r].amount
      BY <1>1, <1>2, <2>1
    <3> QED
      BY <3>1, <3>2, GrantedIs, GrantedIsNext
  <2>3. PICK p, amount : p = req[r].p /\ amount = req[r].amount
    OBVIOUS
  <2>4. /\ p \in Payments /\ amount \in Nat \ {0}
        /\ pay[p].status = "SUCCESS" /\ amount <= pay[p].amount - pay[p].refunded
    BY <1>1, <2>3 DEF CorrectionInv, RequestsTyped, RequestRow, Covered, Refundable, Active
  <2>5. ReturnedNow[p] + amount <= ReceivedNow[p]
    <3>1. ReturnedNow[p] = pay[p].refunded /\ ReceivedNow[p] = pay[p].amount
      BY <2>4, ReturnedIsBack DEF Back, ReceivedNow
    <3>2. pay[p].amount \in Nat /\ pay[p].refunded \in Nat
      BY <2>4, ReturnedIsBack DEF PaymentRows
    <3> QED
      BY <2>4, <3>1, <3>2
  <2>6. GrantedNow'[r] \in [p : Payments, amount : Nat \ {0}]
        /\ GrantedNow'[r].p = p /\ GrantedNow'[r].amount = amount
    BY <2>2, <2>3, <2>4
  <2>7. Promise!Grant(r)
    <3>1. /\ r \notin DOMAIN GrantedNow \cup CarriedNow
          /\ DOMAIN GrantedNow' = DOMAIN GrantedNow \cup {r}
          /\ \A s \in DOMAIN GrantedNow : GrantedNow'[s] = GrantedNow[s]
          /\ GrantedNow'[r] \in [p : Payments, amount : Nat \ {0}]
          /\ ReturnedNow[GrantedNow'[r].p] + GrantedNow'[r].amount <= ReceivedNow[GrantedNow'[r].p]
          /\ UNCHANGED <<ReceivedNow, ReturnedNow, CarriedNow>>
      BY <1>3, <1>4, <2>1, <2>2, <2>5, <2>6
    <3> QED
      BY <3>1 DEF Promise!Grant, Promise!Corrections, ReceivedNow, ReturnedNow, GrantedNow, CarriedNow
  <2> QED
    BY <2>7
<1>6. CASE new.status # "APPROVED" /\ req[r].status = "APPROVED"
  <2>1. Approved' = Approved \ {r} /\ r \in Approved
    BY <1>1, <1>2, <1>6 DEF Approved
  <2>2. GrantedNow' = [s \in DOMAIN GrantedNow \ {r} |-> GrantedNow[s]] /\ r \in DOMAIN GrantedNow
    <3>1. \A s \in Approved : s # r => req'[s] = req[s]
      BY <1>2 DEF Approved
    <3> QED
      BY <2>1, <3>1, GrantedWithout
  <2>3. Promise!Withdraw(r)
    BY <1>3, <1>4, <2>2
    DEF Promise!Withdraw, Promise!Granted, ReceivedNow, ReturnedNow, GrantedNow, CarriedNow
  <2> QED
    BY <2>3
<1>7. CASE new.status # "APPROVED" /\ req[r].status # "APPROVED"
  <2>1. UNCHANGED GrantedNow
    BY <1>2, <1>7 DEF GrantedNow, Approved
  <2> QED
    BY <1>3, <1>4, <2>1 DEF Promise!contractVars, ReceivedNow, ReturnedNow, GrantedNow, CarriedNow
<1> QED
  BY <1>5, <1>6, <1>7

LEMMA ExecuteReturns ==
  ASSUME CorrectionInv, CorrectionInv', NEW w \in Workers, Execute(w)
  PROVE  \E r \in Requests : Promise!Return(r)
<1>1. PICK o, r, p, D : ExecuteWrites(o, r, p, D)
  BY ExecuteIs
<1>2. PICK amount : amount = req[r].amount
  OBVIOUS
<1>12. /\ r \in Requests /\ p \in Payments /\ p = req[r].p /\ req[r].status = "APPROVED"
       /\ r = o.r /\ RequestRow(req[r]) /\ Covered(r)
  BY <1>1 DEF ExecuteWrites
<1>13. pay' = IF req[r].type = "REFUND"
              THEN [pay EXCEPT ![p].refunded = @ + amount]
              ELSE [pay EXCEPT ![p].status = "REVERSED"]
  BY <1>1, <1>2 DEF ExecuteWrites
<1>14. req' = [req EXCEPT ![r].status = "EXECUTED", ![r].executor = o.u]
  <2>1. req' = Executed(o)
    BY <1>1 DEF ExecuteWrites
  <2> QED
    BY <1>12, <2>1 DEF Executed
<1>15. amount \in Nat \ {0}
  BY <1>2, <1>12 DEF RequestRow
<1>16. /\ pay[p].status = "SUCCESS" /\ amount <= pay[p].amount - pay[p].refunded
       /\ req[r].type = "REFUND" \/ (pay[p].refunded = 0 /\ amount = pay[p].amount)
  <2>1. req[r].type \in {"REFUND", "REVERSAL"}
    BY <1>12 DEF RequestRow
  <2> QED
    BY <1>2, <1>12, <2>1, SMTT(30) DEF Covered, Refundable, Active
<1>4. /\ \A s \in Requests : s # r => req'[s] = req[s]
      /\ req'[r].status = "EXECUTED"
  <2>1. PICK new : new = [req[r] EXCEPT !.status = "EXECUTED", !.executor = o.u]
    OBVIOUS
  <2>2. req' = [req EXCEPT ![r] = new] /\ DOMAIN req = Requests
    BY <1>14, <2>1 DEF CorrectionInv, RequestsTyped
  <2>3. new.status = "EXECUTED"
    BY <1>12, <2>1, SMTT(30) DEF RequestRow
  <2> QED
    BY <1>12, <2>2, <2>3
<1>5. pay \in [Payments -> PaymentRows] /\ pay[p] \in PaymentRows
  BY <1>12 DEF CorrectionInv, FeeInv, FeeTyped
<1>6. /\ \A q \in Payments : q # p => pay'[q] = pay[q]
      /\ \A q \in Payments : pay'[q].amount = pay[q].amount
      /\ Back(pay'[p]) = Back(pay[p]) + amount
      /\ Back(pay[p]) + amount <= pay[p].amount
  <2>1. CASE req[r].type = "REFUND"
    <3>1. pay' = [pay EXCEPT ![p] = [pay[p] EXCEPT !.refunded = pay[p].refunded + amount]]
      BY <1>13, <2>1
    <3>2. PICK row : row = [pay[p] EXCEPT !.refunded = pay[p].refunded + amount]
      OBVIOUS
    <3>3. row.status = "SUCCESS" /\ row.amount = pay[p].amount
          /\ row.refunded = pay[p].refunded + amount
      BY <1>16, <1>5, <3>2 DEF PaymentRows
    <3>4. pay[p].amount \in Nat /\ pay[p].refunded \in Nat
      BY <1>5 DEF PaymentRows
    <3>5. pay'[p] = row /\ \A q \in Payments : q # p => pay'[q] = pay[q]
      BY <1>12, <1>5, <3>1, <3>2
    <3>6. Back(row) = Back(pay[p]) + amount /\ Back(pay[p]) + amount <= pay[p].amount
      BY <1>15, <1>16, <3>3, <3>4, SMTT(30) DEF Back
    <3> QED
      BY <3>3, <3>5, <3>6
  <2>2. CASE req[r].type # "REFUND"
    <3>1. pay' = [pay EXCEPT ![p] = [pay[p] EXCEPT !.status = "REVERSED"]]
      BY <1>13, <2>2
    <3>2. PICK row : row = [pay[p] EXCEPT !.status = "REVERSED"]
      OBVIOUS
    <3>3. row.status = "REVERSED" /\ row.amount = pay[p].amount
      BY <1>5, <3>2 DEF PaymentRows
    <3>4. pay[p].amount \in Nat /\ pay[p].refunded = 0 /\ amount = pay[p].amount
      BY <1>16, <1>5, <2>2 DEF PaymentRows
    <3>5. pay'[p] = row /\ \A q \in Payments : q # p => pay'[q] = pay[q]
      BY <1>12, <1>5, <3>1, <3>2
    <3>6. Back(row) = Back(pay[p]) + amount /\ Back(pay[p]) + amount <= pay[p].amount
      BY <1>15, <1>16, <3>3, <3>4, SMTT(30) DEF Back
    <3> QED
      BY <3>3, <3>5, <3>6
  <2> QED
    BY <2>1, <2>2
<1>7. UNCHANGED ReceivedNow
  BY <1>6 DEF ReceivedNow
<1>8. /\ ReturnedNow' = [ReturnedNow EXCEPT ![p] = ReturnedNow[p] + amount]
      /\ ReturnedNow'[p] <= ReceivedNow[p]
  <2>1. /\ ReturnedNow = [q \in Payments |-> Back(pay[q])]
        /\ ReturnedNow' = [q \in Payments |-> Back(pay'[q])]
    BY ReturnedIsBack, ReturnedIsBackNext
  <2>2. \A q \in Payments : q # p => Back(pay'[q]) = Back(pay[q])
    BY <1>6
  <2>3. ReceivedNow[p] = pay[p].amount
    BY <1>12 DEF ReceivedNow
  <2>4. PICK before, after : before = [q \in Payments |-> Back(pay[q])] /\ after = [q \in Payments |-> Back(pay'[q])]
    OBVIOUS
  <2>5. after = [before EXCEPT ![p] = before[p] + amount]
    <3>1. /\ after = [q \in Payments |-> after[q]] /\ before = [q \in Payments |-> before[q]]
          /\ after[p] = before[p] + amount
          /\ \A q \in Payments : q # p => after[q] = before[q]
      <4>1. p \in Payments
        BY <1>12
      <4> QED
        BY <1>6, <2>2, <2>4, <4>1
    <3> QED
      BY <1>12, <3>1, FunctionExcept
  <2>6. after[p] = before[p] + amount /\ before[p] + amount <= pay[p].amount
    BY <1>12, <1>6, <2>4
  <2> QED
    BY <2>1, <2>3, <2>4, <2>5, <2>6
<1>9. /\ r \in DOMAIN GrantedNow
      /\ GrantedNow[r].p = p /\ GrantedNow[r].amount = amount
      /\ GrantedNow' = [s \in DOMAIN GrantedNow \ {r} |-> GrantedNow[s]]
  <2>1. Approved' = Approved \ {r} /\ r \in Approved
    BY <1>12, <1>4 DEF Approved
  <2>2. \A s \in Approved : s # r => req'[s] = req[s]
    BY <1>4 DEF Approved
  <2>3. GrantedNow[r].p = p /\ GrantedNow[r].amount = amount
    BY <1>2, <1>12, <2>1, GrantedIs, SMTT(30)
  <2> QED
    BY <2>1, <2>2, <2>3, GrantedWithout
<1>10. CarriedNow' = CarriedNow \cup {r}
  BY <1>12, <1>4 DEF CarriedNow
<1>11. Promise!Return(r)
  <2>1. /\ r \in DOMAIN GrantedNow
        /\ ReturnedNow' = [ReturnedNow EXCEPT ![GrantedNow[r].p] = @ + GrantedNow[r].amount]
        /\ ReturnedNow'[GrantedNow[r].p] <= ReceivedNow[GrantedNow[r].p]
        /\ GrantedNow' = [s \in DOMAIN GrantedNow \ {r} |-> GrantedNow[s]]
        /\ CarriedNow' = CarriedNow \cup {r}
        /\ UNCHANGED ReceivedNow
    BY <1>7, <1>8, <1>9, <1>10
  <2> QED
    BY <2>1 DEF Promise!Return, Promise!Granted, ReceivedNow, ReturnedNow, GrantedNow, CarriedNow
<1> QED
  BY <1>12, <1>11

LEMMA ContractStep ==
  ASSUME CorrectionInv, [Next]_vars
  PROVE  [Promise!ContractNext]_(Promise!contractVars)
<1>1. CorrectionInv'
  BY NextCorrection
<1>2. CASE \E w \in Workers : FeeStep(w) /\ UNCHANGED <<req, policy>>
  <2>1. PICK w \in Workers : FeeStep(w) /\ UNCHANGED req
    BY <1>2
  <2>2. CASE CollectPayment(w)
    BY <1>1, <2>1, <2>2, CollectReceives DEF Promise!ContractNext
  <2>3. CASE ~CollectPayment(w)
    <3>1. UNCHANGED pay
      BY <2>1, <2>3, ReadsTyped, AdjustKeeps DEF FeeStep, ReallocatePayment, CorrectionInv, FeeInv
    <3> QED
      BY <1>1, <2>1, <3>1, ContractStutters
  <2> QED
    BY <2>2, <2>3
<1>3. CASE \E w \in Workers : Execute(w)
  BY <1>1, <1>3, ExecuteReturns DEF Promise!ContractNext
<1>4. CASE Review \/ Approve \/ Reject
  BY <1>1, <1>4, TransitionContract DEF Promise!ContractNext
<1>5. CASE CreateFinanceCorrectionRequest
  <2>0. PICK r \in Requests : \E new :
          /\ req[r].status = "none" /\ new.status = "PENDING"
          /\ req' = [req EXCEPT ![r] = new] /\ UNCHANGED pay
    <3>1. PICK r \in Requests, u \in Users, p \in Payments, type \in {"REFUND", "REVERSAL"} :
            \E amount \in IF type = "REFUND" THEN 1..Refundable(p) ELSE {pay[p].amount} :
              /\ req[r].status = "none"
              /\ OnePolicy
              /\ pay[p].status = "SUCCESS"
              /\ type = "REVERSAL" => pay[p].refunded = 0
              /\ amount <= Refundable(p)
              /\ \A s \in Requests : req[s].p = p => req[s].status \notin Active
              /\ req' = [req EXCEPT ![r] =
                           [status |-> "PENDING", type |-> type, p |-> p, amount |-> amount,
                            maker |-> u, reviewer |-> Nobody, deciders |-> {}, executor |-> Nobody,
                            policy |-> policy.active, required |-> policy.required,
                            source |-> Source(p)]]
              /\ UNCHANGED <<inv, pay, alloc, op, policy>>
      BY <1>5 DEF CreateFinanceCorrectionRequest
    <3>3. PICK amount :
              /\ req[r].status = "none"
              /\ req' = [req EXCEPT ![r] =
                           [status |-> "PENDING", type |-> type, p |-> p, amount |-> amount,
                            maker |-> u, reviewer |-> Nobody, deciders |-> {}, executor |-> Nobody,
                            policy |-> policy.active, required |-> policy.required,
                            source |-> Source(p)]]
              /\ UNCHANGED pay
      BY <3>1
    <3>2. PICK new : new = [status |-> "PENDING", type |-> type, p |-> p, amount |-> amount,
                            maker |-> u, reviewer |-> Nobody, deciders |-> {}, executor |-> Nobody,
                            policy |-> policy.active, required |-> policy.required,
                            source |-> Source(p)]
      OBVIOUS
    <3> QED
      BY <3>2, <3>3
  <2>1. PICK new :
          /\ req[r].status = "none" /\ new.status = "PENDING"
          /\ req' = [req EXCEPT ![r] = new] /\ UNCHANGED pay
    BY   <2>0
  <2>2. DOMAIN req = Requests
    BY DEF CorrectionInv, RequestsTyped
  <2>3. \A s \in Requests :
          /\ req'[s].status = "APPROVED" <=> req[s].status = "APPROVED"
          /\ req'[s].status = "EXECUTED" <=> req[s].status = "EXECUTED"
          /\ req[s].status = "APPROVED" => req'[s].p = req[s].p /\ req'[s].amount = req[s].amount
    BY <2>1, <2>2
  <2> QED
    BY <1>1, <2>1, <2>3, ContractStutters
<1>6. CASE \/ \E w \in Workers : ReadExecute(w) \/ TakeSnapshot(w)
           \/ CreatePolicy \/ UNCHANGED vars
  <2>1. UNCHANGED <<pay, req>>
    BY <1>6 DEF ReadExecute, TakeSnapshot, CreatePolicy, vars
  <2> QED
    BY <1>1, <2>1, ContractStutters
<1> QED
  BY <1>2, <1>3, <1>4, <1>5, <1>6 DEF Next

\* The allocation rows, the requests and the transactions of corrections
\* implement the contract of the finance office: money that leaves again was
\* granted, leaves once, by the amount granted, and was there.
THEOREM CorrectionsKeepPromise == Spec => KeepsPromise
<1>1. Init => Promise!ContractInit
  <2> SUFFICES ASSUME Init PROVE Promise!ContractInit
    OBVIOUS
  <2>1. \A p \in Payments : pay[p].amount = 0 /\ Kept(p) = 0
    BY SumOfEmpty DEF Init, FeeInit, Kept
  <2>2. \A r \in Requests : req[r].status = "none"
    BY DEF Init, NoRequest
  <2>3. Approved = {} /\ {r \in Requests : req[r].status = "EXECUTED"} = {}
    BY <2>2 DEF Approved
  <2> QED
    BY <2>1, <2>3 DEF Promise!ContractInit
<1>2. CorrectionInv /\ [Next]_vars => [Promise!ContractNext]_(Promise!contractVars)
  BY ContractStep
<1> QED
  BY <1>1, <1>2, CorrectionSafe, PTL DEF Spec, KeepsPromise, Promise!Contract

=================================================================================

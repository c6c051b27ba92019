------------------------ MODULE DuplexCarrierProofs ------------------------
(***************************************************************************)
(* Proofs about DuplexCarrier, for every number and size of records, every *)
(* window and every bound on buffered records: credit is conserved between *)
(* the ends, every operation is settled once, and no check of the ledgers  *)
(* ever fails.                                                             *)
(*                                                                         *)
(* A handler is a composition of functions on one end's state, so the      *)
(* argument is too.  Gains(x, y, c, d) says what a handler that takes x to *)
(* y does to the two sums that matter, what the end may still send and     *)
(* what it holds of its peer's window; all but a read leave both alone     *)
(* (Keeps).  A read moves what it takes off the wire from one side of the  *)
(* balance to the other (Exchange).  That no check fails is part of the    *)
(* induction: an end that has not used up its window can take every byte   *)
(* that its peer could send, and an end whose ledger covers what it        *)
(* buffers can return it.                                                  *)
(***************************************************************************)
EXTENDS DuplexCarrier, SequenceTheorems, WellFoundedInduction, TLAPS

-----------------------------------------------------------------------------
(* Induction over the natural numbers in the form the provers can use: for a *)
(* set of numbers instead of a predicate.                                    *)

\* A set with 0 that is closed under successor holds every natural number.
LEMMA NatSetInduction ==
  ASSUME NEW S, 0 \in S, \A n \in Nat : n \in S => n + 1 \in S
  PROVE  Nat \subseteq S
  <1> DEFINE T == Nat \ S
             R == OpToRel(<, Nat)
  <1>1. SUFFICES ASSUME T # {} PROVE FALSE
    OBVIOUS
  <1>2. IsWellFoundedOn(R, Nat)
    BY NatLessThanWellFounded
  <1>3. \A x, y \in Nat : x < y => <<x, y>> \in R
    BY DEF OpToRel
  <1>4. PICK x \in T : \A y \in T : ~ (<<y, x>> \in R)
    <2> HIDE DEF T, R
    <2>1. T \subseteq Nat BY DEF T
    <2> QED BY <1>1, <1>2, <2>1, WFMin
  <1> HIDE DEF R
  <1>5. x # 0 /\ x \in Nat
    OBVIOUS
  <1>6. x - 1 \in Nat /\ x - 1 < x
    BY <1>5
  <1>7. x - 1 \notin T
    BY <1>3, <1>4, <1>5, <1>6
  <1> QED BY <1>5, <1>6, <1>7

\* Induction up to a bound.
LEMMA UpTo ==
  ASSUME NEW S, NEW m \in Nat, 0 \in S,
         \A n \in Nat : n < m /\ n \in S => n + 1 \in S
  PROVE  \A n \in 0..m : n \in S
  <1> DEFINE T == {n \in Nat : n <= m => n \in S}
  <1>1. 0 \in T
    OBVIOUS
  <1>2. \A n \in Nat : n \in T => n + 1 \in T
    OBVIOUS
  <1>3. Nat \subseteq T
    <2> HIDE DEF T
    <2> QED BY <1>1, <1>2, NatSetInduction
  <1> QED BY <1>3

\* `g' holds the running totals of the first n numbers of v.
IsSum(v, n, g) ==
    /\ g \in [0..n -> Nat]
    /\ g[0] = 0
    /\ \A i \in 1..n : g[i] = g[i - 1] + v[i]

\* Running totals exist.
LEMMA SumExists ==
    ASSUME NEW n \in Nat, NEW v \in [1..n -> Nat]
    PROVE  \E g : IsSum(v, n, g)
  <1> DEFINE K == {m \in Nat : \E g : IsSum(v, m, g)}
  <1>1. 0 \in K
    <2>1. IsSum(v, 0, [i \in 0..0 |-> 0])
      BY DEF IsSum
    <2> QED BY <2>1
  <1>2. ASSUME NEW m \in Nat, m < n, m \in K PROVE m + 1 \in K
    <2>1. PICK g : IsSum(v, m, g)
      BY <1>2
    <2> DEFINE h == [i \in 0..(m + 1) |-> IF i <= m THEN g[i] ELSE g[m] + v[m + 1]]
    <2>2. v[m + 1] \in Nat /\ m + 1 \in 1..n
      BY <1>2
    <2>3. \A i \in 0..m : g[i] \in Nat
      BY <2>1 DEF IsSum
    <2>4. h \in [0..(m + 1) -> Nat] /\ h[0] = 0
      BY <2>1, <2>2, <2>3 DEF IsSum
    <2>5. ASSUME NEW i \in 1..(m + 1) PROVE h[i] = h[i - 1] + v[i]
      <3>1. CASE i <= m
        <4>1. g[i] = g[i - 1] + v[i]
          BY <2>1, <3>1 DEF IsSum
        <4> QED BY <3>1, <4>1
      <3>2. CASE i = m + 1
        <4>1. h[i] = g[m] + v[m + 1] /\ i - 1 = m /\ m \in 0..(m + 1) /\ m <= m
          BY <3>2
        <4> QED BY <3>2, <4>1
      <3> QED BY <3>1, <3>2
    <2> HIDE DEF h
    <2>6. IsSum(v, m + 1, h)
      BY <2>4, <2>5 DEF IsSum
    <2> QED BY <2>6
  <1>3. \A m \in 0..n : m \in K
    <2> HIDE DEF K
    <2> QED BY <1>1, <1>2, UpTo
  <1> QED BY <1>3

\* They are determined by the numbers.
LEMMA SumUnique ==
    ASSUME NEW n \in Nat, NEW v, NEW w, NEW g, NEW h, IsSum(v, n, g), IsSum(w, n, h),
           \A i \in 1..n : v[i] = w[i]
    PROVE  g[n] = h[n]
  <1> DEFINE K == {m \in Nat : g[m] = h[m]}
  <1>1. 0 \in K
    BY DEF IsSum
  <1>2. ASSUME NEW m \in Nat, m < n, m \in K PROVE m + 1 \in K
    <2>1. m + 1 \in 1..n /\ (m + 1) - 1 = m
      BY <1>2
    <2>2. g[m + 1] = g[m] + v[m + 1] /\ h[m + 1] = h[m] + w[m + 1]
      BY <2>1 DEF IsSum
    <2> QED BY <1>2, <2>1, <2>2
  <1>3. \A m \in 0..n : m \in K
    <2> HIDE DEF K
    <2> QED BY <1>1, <1>2, UpTo
  <1> QED BY <1>3

\* A number more at the end.
LEMMA SumLonger ==
    ASSUME NEW n \in Nat, NEW v \in [1..n -> Nat], NEW w \in [1..(n + 1) -> Nat],
           NEW g, NEW h, IsSum(v, n, g), IsSum(w, n + 1, h),
           \A i \in 1..n : w[i] = v[i]
    PROVE  h[n + 1] = g[n] + w[n + 1]
  <1>1. n + 1 \in 1..(n + 1) /\ (n + 1) - 1 = n
    OBVIOUS
  <1>2. h[n + 1] = h[n] + w[n + 1]
    BY <1>1 DEF IsSum
  <1> DEFINE f == [i \in 0..n |-> h[i]]
  <1>3. IsSum(w, n, f)
    BY DEF IsSum
  <1>4. f[n] = h[n]
    OBVIOUS
  <1> HIDE DEF f
  <1>5. f[n] = g[n]
    BY <1>3, SumUnique
  <1> QED BY <1>2, <1>4, <1>5

\* Sum is a running total at its end.
LEMMA SumIs ==
    ASSUME NEW v \in Seq(Nat)
    PROVE  \E g : IsSum(v, Len(v), g) /\ Sum(v) = g[Len(v)]
  <1> DEFINE n == Len(v)
             Body(g) == [i \in 0..n |-> IF i = 0 THEN 0 ELSE g[i - 1] + v[i]]
             f == CHOOSE g : g = Body(g)
  <1>1. n \in Nat /\ v \in [1..n -> Nat]
    OBVIOUS
  <1>2. PICK h : IsSum(v, n, h)
    BY <1>1, SumExists
  <1>3. h = Body(h)
    <2>1. /\ h = [i \in 0..n |-> h[i]]
          /\ \A i \in 0..n : h[i] = IF i = 0 THEN 0 ELSE h[i - 1] + v[i]
      BY <1>1, <1>2 DEF IsSum
    <2> QED BY <2>1
  <1>4. f = Body(f)
    BY <1>3
  <1>5. Sum(v) = f[n]
    BY DEF Sum
  <1> HIDE DEF f
  <1>6. /\ DOMAIN f = 0..n /\ f[0] = 0
        /\ \A i \in 1..n : f[i] = f[i - 1] + v[i]
    <2>1. \A i \in 0..n : f[i] = IF i = 0 THEN 0 ELSE f[i - 1] + v[i]
      BY <1>1, <1>4
    <2>2. DOMAIN f = 0..n
      BY <1>4
    <2> QED BY <1>1, <2>1, <2>2
  <1> HIDE DEF Body
  <1>7. \A m \in 0..n : f[m] \in Nat
    <2> DEFINE K == {m \in Nat : f[m] \in Nat}
    <2>1. 0 \in K
      BY <1>6
    <2>2. ASSUME NEW m \in Nat, m < n, m \in K PROVE m + 1 \in K
      <3>1. m + 1 \in 1..n /\ (m + 1) - 1 = m
        BY <1>1, <2>2
      <3>2. f[m + 1] = f[m] + v[m + 1] /\ v[m + 1] \in Nat
        BY <1>1, <1>6, <3>1
      <3> QED BY <2>2, <3>2
    <2> HIDE DEF K
    <2>3. \A m \in 0..n : m \in K
      BY <1>1, <2>1, <2>2, UpTo
    <2> QED BY <2>3 DEF K
  <1>8. f = [i \in 0..n |-> f[i]]
    BY <1>4 DEF Body
  <1>9. IsSum(v, n, f)
    BY <1>6, <1>7, <1>8 DEF IsSum
  <1> QED BY <1>5, <1>9

\* Sums are numbers, and nothing adds up to nothing.
LEMMA SumNat ==
    ASSUME NEW v \in Seq(Nat)
    PROVE  Sum(v) \in Nat /\ (v = <<>> => Sum(v) = 0)
  <1>1. PICK g : IsSum(v, Len(v), g) /\ Sum(v) = g[Len(v)]
    BY SumIs
  <1>2. Len(v) \in Nat /\ (v = <<>> => Len(v) = 0)
    OBVIOUS
  <1> QED BY <1>1, <1>2 DEF IsSum

\* One number more.
LEMMA SumAppend ==
    ASSUME NEW v \in Seq(Nat), NEW e \in Nat
    PROVE  Append(v, e) \in Seq(Nat) /\ Sum(Append(v, e)) = Sum(v) + e
  <1> DEFINE w == Append(v, e)
             n == Len(v)
  <1>1. /\ w \in Seq(Nat) /\ Len(w) = n + 1 /\ w[n + 1] = e /\ n \in Nat
        /\ \A i \in 1..n : w[i] = v[i]
    BY AppendProperties
  <1> HIDE DEF w
  <1>2. v \in [1..n -> Nat] /\ w \in [1..(n + 1) -> Nat]
    <2>1. w \in [1..Len(w) -> Nat]
      BY <1>1
    <2> QED BY <1>1, <2>1
  <1>3. PICK g : IsSum(v, n, g) /\ Sum(v) = g[n]
    BY SumIs
  <1>4. PICK h : IsSum(w, n + 1, h) /\ Sum(w) = h[n + 1]
    BY <1>1, SumIs
  <1> HIDE DEF n
  <1>5. h[n + 1] = g[n] + w[n + 1]
    BY SMTT(30), <1>1, <1>2, <1>3, <1>4, SumLonger
  <1> QED BY <1>1, <1>3, <1>4, <1>5 DEF w

\* Two sequences add up to their sums.
LEMMA SumConcat ==
    ASSUME NEW v \in Seq(Nat), NEW w \in Seq(Nat)
    PROVE  v \o w \in Seq(Nat) /\ Sum(v \o w) = Sum(v) + Sum(w)
  <1> DEFINE P(u) == v \o u \in Seq(Nat) /\ Sum(v \o u) = Sum(v) + Sum(u)
             K == {n \in Nat : \A u \in Seq(Nat) : Len(u) = n => P(u)}
  <1>1. 0 \in K
    <2>1. ASSUME NEW u \in Seq(Nat), Len(u) = 0 PROVE P(u)
      <3>1. u = <<>>
        BY <2>1, EmptySeq
      <3>2. v \o u = v
        BY <3>1, ConcatEmptySeq
      <3>3. Sum(u) = 0 /\ Sum(v) \in Nat
        BY <3>1, SumNat
      <3> QED BY <3>2, <3>3
    <2> QED BY <2>1
  <1>2. ASSUME NEW n \in Nat, n \in K PROVE n + 1 \in K
    <2>1. ASSUME NEW u \in Seq(Nat), Len(u) = n + 1 PROVE P(u)
      <3>1. u # <<>>
        BY <2>1
      <3>2. PICK t \in Seq(Nat), e \in Nat : u = Append(t, e)
        BY <3>1, SequenceEmptyOrAppend
      <3>3. Len(t) = n
        BY <2>1, <3>2
      <3>4. P(t)
        BY <1>2, <3>3
      <3>5. v \o u = Append(v \o t, e)
        BY <3>2
      <3>6. /\ Sum(u) = Sum(t) + e
            /\ Sum(Append(v \o t, e)) = Sum(v \o t) + e /\ Append(v \o t, e) \in Seq(Nat)
        BY <3>2, <3>4, SumAppend
      <3>7. Sum(v) \in Nat /\ Sum(t) \in Nat
        BY SumNat
      <3> QED BY <3>4, <3>5, <3>6, <3>7
    <2> QED BY <2>1
  <1>3. Nat \subseteq K
    <2> HIDE DEF K
    <2> QED BY <1>1, <1>2, NatSetInduction
  <1>4. Len(w) \in Nat
    OBVIOUS
  <1> QED BY <1>3, <1>4

\* The sum of what a function says of the elements of a sequence.
Values(f, q) == [i \in 1..Len(q) |-> f[q[i]]]
Total(f, q) == Sum(Values(f, q))

\* The values are numbers.
LEMMA ValuesType ==
    ASSUME NEW A, NEW f \in [A -> Nat], NEW q \in Seq(A)
    PROVE  Values(f, q) \in Seq(Nat) /\ Len(Values(f, q)) = Len(q)
  <1>1. Len(q) \in Nat /\ \A i \in 1..Len(q) : f[q[i]] \in Nat
    OBVIOUS
  <1>2. Values(f, q) \in [1..Len(q) -> Nat]
    BY <1>1 DEF Values
  <1> QED BY <1>1, <1>2, IsASeq DEF Values

\* So is their total, and an empty sequence has none.
LEMMA TotalNat ==
    ASSUME NEW A, NEW f \in [A -> Nat], NEW q \in Seq(A)
    PROVE  Total(f, q) \in Nat /\ (q = <<>> => Total(f, q) = 0)
  <1>1. Values(f, q) \in Seq(Nat) /\ Len(Values(f, q)) = Len(q)
    BY ValuesType
  <1>2. q = <<>> => Values(f, q) = <<>>
    BY <1>1, EmptySeq
  <1> QED BY <1>1, <1>2, SumNat DEF Total

\* Totals add up.
LEMMA TotalConcat ==
    ASSUME NEW A, NEW f \in [A -> Nat], NEW q \in Seq(A), NEW r \in Seq(A)
    PROVE  q \o r \in Seq(A) /\ Total(f, q \o r) = Total(f, q) + Total(f, r)
  <1> DEFINE u == q \o r
             v == Values(f, q)
             w == Values(f, r)
  <1>1. /\ u \in Seq(A) /\ Len(u) = Len(q) + Len(r) /\ Len(q) \in Nat /\ Len(r) \in Nat
        /\ \A i \in 1..Len(u) : u[i] = IF i <= Len(q) THEN q[i] ELSE r[i - Len(q)]
    BY ConcatProperties
  <1>2. v \in Seq(Nat) /\ Len(v) = Len(q) /\ w \in Seq(Nat) /\ Len(w) = Len(r)
    BY ValuesType
  <1>3. /\ \A i \in 1..Len(q) : v[i] = f[q[i]]
        /\ \A i \in 1..Len(r) : w[i] = f[r[i]]
        /\ \A i \in 1..Len(u) : Values(f, u)[i] = f[u[i]]
    BY DEF Values
  <1>4. Values(f, u) \in Seq(Nat) /\ Len(Values(f, u)) = Len(u)
    BY <1>1, ValuesType
  <1> HIDE DEF u, v, w
  <1>5. /\ v \o w \in Seq(Nat) /\ Len(v \o w) = Len(v) + Len(w)
        /\ \A i \in 1..(Len(v) + Len(w)) :
             (v \o w)[i] = IF i <= Len(v) THEN v[i] ELSE w[i - Len(v)]
    BY <1>2, ConcatProperties
  <1>6. Values(f, u) = v \o w
    <2>1. ASSUME NEW i \in 1..Len(u) PROVE Values(f, u)[i] = (v \o w)[i]
      <3>1. CASE i <= Len(q)
        <4>1. i \in 1..Len(q)
          BY <1>1, <3>1
        <4> QED BY <1>1, <1>2, <1>3, <1>5, <3>1, <4>1
      <3>2. CASE ~(i <= Len(q))
        <4>1. i - Len(q) \in 1..Len(r)
          BY <1>1, <3>2
        <4>2. u[i] = r[i - Len(q)] /\ (v \o w)[i] = w[i - Len(q)]
          BY <1>1, <1>2, <1>5, <3>2
        <4> QED BY <1>3, <4>1, <4>2
      <3> QED BY <3>1, <3>2
    <2> QED BY <1>1, <1>2, <1>4, <1>5, <2>1, SeqEqual
  <1>7. Sum(v \o w) = Sum(v) + Sum(w)
    BY <1>2, SumConcat
  <1> QED BY <1>1, <1>6, <1>7 DEF Total, u, v, w

\* The total of one element.
LEMMA TotalOne ==
    ASSUME NEW A, NEW f \in [A -> Nat], NEW e \in A
    PROVE  <<e>> \in Seq(A) /\ Total(f, <<e>>) = f[e]
  <1>1. Values(f, <<e>>) = Append(<<>>, f[e])
    BY DEF Values
  <1>2. <<>> \in Seq(Nat) /\ f[e] \in Nat
    OBVIOUS
  <1>4. Sum(<<>>) = 0
    BY <1>2, SumNat
  <1>3. Sum(Append(<<>>, f[e])) = Sum(<<>>) + f[e]
    BY <1>2, SumAppend
  <1> QED BY <1>1, <1>2, <1>3, <1>4 DEF Total

\* One element more at the end.
LEMMA TotalAppend ==
    ASSUME NEW A, NEW f \in [A -> Nat], NEW q \in Seq(A), NEW e \in A
    PROVE  Append(q, e) \in Seq(A) /\ Total(f, Append(q, e)) = Total(f, q) + f[e]
  <1>1. Append(q, e) = q \o <<e>>
    BY AppendIsConcat
  <1>2. <<e>> \in Seq(A) /\ Total(f, <<e>>) = f[e]
    BY TotalOne
  <1>3. q \o <<e>> \in Seq(A) /\ Total(f, q \o <<e>>) = Total(f, q) + Total(f, <<e>>)
    BY <1>2, TotalConcat
  <1> QED BY <1>1, <1>2, <1>3

\* One element less at the beginning.
LEMMA TotalTail ==
    ASSUME NEW A, NEW f \in [A -> Nat], NEW q \in Seq(A), q # <<>>
    PROVE  /\ Tail(q) \in Seq(A) /\ Head(q) \in A
           /\ Total(f, q) = f[Head(q)] + Total(f, Tail(q))
  <1>1. Tail(q) \in Seq(A) /\ Head(q) \in A /\ q = <<Head(q)>> \o Tail(q)
    BY HeadTailProperties
  <1>2. <<Head(q)>> \in Seq(A) /\ Total(f, <<Head(q)>>) = f[Head(q)]
    BY <1>1, TotalOne
  <1>3. \A r, t \in Seq(A) : Total(f, r \o t) = Total(f, r) + Total(f, t)
    BY TotalConcat
  <1> QED BY <1>1, <1>2, <1>3

\* Elements that all count for nothing, or all for one.
LEMMA TotalConstant ==
    ASSUME NEW A, NEW f \in [A -> Nat], NEW c \in {0, 1}, NEW q \in Seq(A),
           \A i \in 1..Len(q) : f[q[i]] = c
    PROVE  Total(f, q) = IF c = 0 THEN 0 ELSE Len(q)
  <1>1. Values(f, q) \in Seq(Nat) /\ Len(Values(f, q)) = Len(q) /\ Len(q) \in Nat
    BY ValuesType
  <1>2. PICK g : IsSum(Values(f, q), Len(q), g) /\ Total(f, q) = g[Len(q)]
    BY <1>1, SumIs DEF Total
  <1>3. \A i \in 1..Len(q) : Values(f, q)[i] = c
    BY DEF Values
  <1> DEFINE K == {n \in Nat : g[n] = IF c = 0 THEN 0 ELSE n}
  <1>4. 0 \in K
    BY <1>2 DEF IsSum
  <1>5. ASSUME NEW n \in Nat, n < Len(q), n \in K PROVE n + 1 \in K
    <2>1. n + 1 \in 1..Len(q) /\ (n + 1) - 1 = n
      BY <1>1, <1>5
    <2>2. g[n + 1] = g[n] + c
      BY <1>2, <1>3, <2>1 DEF IsSum
    <2> QED BY <1>5, <2>2
  <1>6. \A n \in 0..Len(q) : n \in K
    <2> HIDE DEF K
    <2> QED BY <1>1, <1>4, <1>5, UpTo
  <1> QED BY <1>1, <1>2, <1>6

-----------------------------------------------------------------------------
(* What a write weighs. *)

\* What travels, and of it what spends the window and what returns it.
Pieces == [kind : {"update", "accept", "refuse", "ping", "pong", "close", "envelope",
                   "payload"}, n : Nat]
DataPiece == {p \in Pieces : IsData(p)}
Returns == {p \in Pieces : p.kind = "update"}

\* The counts as functions.
DataOf == [p \in Pieces |-> IF IsData(p) THEN 1 ELSE 0]
CreditOf == [p \in Pieces |-> IF p.kind = "update" THEN p.n ELSE 0]
DataInOf == [w \in Seq(Pieces) |-> DataIn(w)]
CreditInOf == [w \in Seq(Pieces) |-> CreditIn(w)]

\* What one write holds is a total of what its pieces do.
LEMMA WriteTotals ==
    /\ DataOf \in [Pieces -> Nat] /\ CreditOf \in [Pieces -> Nat]
    /\ \A q \in Seq(Pieces) : DataIn(q) = Total(DataOf, q) /\ CreditIn(q) = Total(CreditOf, q)
  <1>1. DataOf \in [Pieces -> Nat] /\ CreditOf \in [Pieces -> Nat]
    BY DEF DataOf, CreditOf, Pieces
  <1>2. ASSUME NEW q \in Seq(Pieces)
        PROVE  DataIn(q) = Total(DataOf, q) /\ CreditIn(q) = Total(CreditOf, q)
    <2>1. \A i \in 1..Len(q) : q[i] \in Pieces
      OBVIOUS
    <2>2. /\ Values(DataOf, q) = [i \in 1..Len(q) |-> IF IsData(q[i]) THEN 1 ELSE 0]
          /\ Values(CreditOf, q) =
               [i \in 1..Len(q) |-> IF q[i].kind = "update" THEN q[i].n ELSE 0]
      BY <2>1 DEF Values, DataOf, CreditOf
    <2> QED BY <2>2 DEF Total, DataIn, CreditIn
  <1> QED BY <1>1, <1>2

\* The counts of a write are numbers.
LEMMA WriteNat ==
    ASSUME NEW q \in Seq(Pieces)
    PROVE  /\ DataIn(q) \in Nat /\ CreditIn(q) \in Nat
           /\ q = <<>> => DataIn(q) = 0 /\ CreditIn(q) = 0
  BY WriteTotals, TotalNat

\* Two parts of a write.
LEMMA WriteConcat ==
    ASSUME NEW q \in Seq(Pieces), NEW r \in Seq(Pieces)
    PROVE  /\ q \o r \in Seq(Pieces)
           /\ DataIn(q \o r) = DataIn(q) + DataIn(r)
           /\ CreditIn(q \o r) = CreditIn(q) + CreditIn(r)
  <1>1. \A f \in [Pieces -> Nat] :
          q \o r \in Seq(Pieces) /\ Total(f, q \o r) = Total(f, q) + Total(f, r)
    BY TotalConcat
  <1> QED BY <1>1, WriteTotals

\* One piece more.
LEMMA WriteAppend ==
    ASSUME NEW q \in Seq(Pieces), NEW p \in Pieces
    PROVE  /\ Append(q, p) \in Seq(Pieces)
           /\ DataIn(Append(q, p)) = DataIn(q) + IF IsData(p) THEN 1 ELSE 0
           /\ CreditIn(Append(q, p)) = CreditIn(q) + IF p.kind = "update" THEN p.n ELSE 0
  <1>1. /\ Append(q, p) \in Seq(Pieces)
        /\ Total(DataOf, Append(q, p)) = Total(DataOf, q) + DataOf[p]
        /\ Total(CreditOf, Append(q, p)) = Total(CreditOf, q) + CreditOf[p]
    BY WriteTotals, TotalAppend
  <1>2. /\ DataOf[p] = IF IsData(p) THEN 1 ELSE 0
        /\ CreditOf[p] = IF p.kind = "update" THEN p.n ELSE 0
    BY DEF DataOf, CreditOf
  <1>3. /\ DataIn(Append(q, p)) = Total(DataOf, Append(q, p)) /\ DataIn(q) = Total(DataOf, q)
        /\ CreditIn(Append(q, p)) = Total(CreditOf, Append(q, p))
        /\ CreditIn(q) = Total(CreditOf, q)
    BY <1>1, WriteTotals
  <1> QED BY <1>1, <1>2, <1>3

\* A part of the queue is DATA.
LEMMA AllData ==
    ASSUME NEW q \in Seq(DataPiece)
    PROVE  q \in Seq(Pieces) /\ DataIn(q) = Len(q) /\ CreditIn(q) = 0
  <1>1. q \in Seq(Pieces) /\ \A i \in 1..Len(q) : q[i] \in DataPiece
    BY SeqMonotonic DEF DataPiece
  <1>2. \A p \in DataPiece : DataOf[p] = 1 /\ CreditOf[p] = 0
    BY DEF DataPiece, DataOf, CreditOf, IsData
  <1>3. Total(DataOf, q) = Len(q)
    <2>1. DataOf \in [Pieces -> Nat] /\ \A i \in 1..Len(q) : DataOf[q[i]] = 1
      BY <1>1, <1>2, WriteTotals
    <2>2. \A f \in [Pieces -> Nat], c \in {0, 1} :
            (\A i \in 1..Len(q) : f[q[i]] = c) => Total(f, q) = IF c = 0 THEN 0 ELSE Len(q)
      BY <1>1, TotalConstant
    <2>3. Total(DataOf, q) = IF 1 = 0 THEN 0 ELSE Len(q)
      BY <2>1, <2>2
    <2> QED BY <2>3
  <1>4. Total(CreditOf, q) = 0
    BY <1>1, <1>2, WriteTotals, TotalConstant
  <1> QED BY <1>1, <1>3, <1>4, WriteTotals

\* Announcements are not.
LEMMA AllReturns ==
    ASSUME NEW q \in Seq(Returns)
    PROVE  q \in Seq(Pieces) /\ DataIn(q) = 0
  <1>1. q \in Seq(Pieces) /\ \A i \in 1..Len(q) : q[i] \in Returns
    BY SeqMonotonic DEF Returns
  <1>2. \A p \in Returns : DataOf[p] = 0
    BY DEF Returns, DataOf, IsData
  <1>3. Total(DataOf, q) = 0
    BY <1>1, <1>2, WriteTotals, TotalConstant
  <1> QED BY <1>1, <1>3, WriteTotals

\* What several writes hold is a total of what each does.
LEMMA WritesTotals ==
    /\ DataInOf \in [Seq(Pieces) -> Nat] /\ CreditInOf \in [Seq(Pieces) -> Nat]
    /\ \A w \in Seq(Pieces) : DataInOf[w] = DataIn(w) /\ CreditInOf[w] = CreditIn(w)
    /\ \A ws \in Seq(Seq(Pieces)) : /\ DataPieces(ws) = Total(DataInOf, ws)
                                    /\ Announced(ws) = Total(CreditInOf, ws)
  <1>1. DataInOf \in [Seq(Pieces) -> Nat] /\ CreditInOf \in [Seq(Pieces) -> Nat]
    BY WriteNat DEF DataInOf, CreditInOf
  <1>2. ASSUME NEW ws \in Seq(Seq(Pieces))
        PROVE  DataPieces(ws) = Total(DataInOf, ws) /\ Announced(ws) = Total(CreditInOf, ws)
    <2>1. \A i \in 1..Len(ws) : ws[i] \in Seq(Pieces)
      OBVIOUS
    <2>2. /\ Values(DataInOf, ws) = [i \in 1..Len(ws) |-> DataIn(ws[i])]
          /\ Values(CreditInOf, ws) = [i \in 1..Len(ws) |-> CreditIn(ws[i])]
      BY <2>1 DEF Values, DataInOf, CreditInOf
    <2> QED BY <2>2 DEF Total, DataPieces, Announced
  <1>3. \A w \in Seq(Pieces) : DataInOf[w] = DataIn(w) /\ CreditInOf[w] = CreditIn(w)
    BY DEF DataInOf, CreditInOf
  <1> QED BY <1>1, <1>2, <1>3

\* The counts of several writes are numbers.
LEMMA WritesNat ==
    ASSUME NEW ws \in Seq(Seq(Pieces))
    PROVE  /\ DataPieces(ws) \in Nat /\ Announced(ws) \in Nat
           /\ ws = <<>> => DataPieces(ws) = 0 /\ Announced(ws) = 0
  BY SMTT(30), WritesTotals, TotalNat

\* One write more.
LEMMA WritesAppend ==
    ASSUME NEW ws \in Seq(Seq(Pieces)), NEW w \in Seq(Pieces)
    PROVE  /\ Append(ws, w) \in Seq(Seq(Pieces))
           /\ DataPieces(Append(ws, w)) = DataPieces(ws) + DataIn(w)
           /\ Announced(Append(ws, w)) = Announced(ws) + CreditIn(w)
  <1>1. /\ Append(ws, w) \in Seq(Seq(Pieces))
        /\ Total(DataInOf, Append(ws, w)) = Total(DataInOf, ws) + DataInOf[w]
        /\ Total(CreditInOf, Append(ws, w)) = Total(CreditInOf, ws) + CreditInOf[w]
    BY WritesTotals, TotalAppend
  <1> QED BY <1>1, WritesTotals

\* One write less.
LEMMA WritesTail ==
    ASSUME NEW ws \in Seq(Seq(Pieces)), ws # <<>>
    PROVE  /\ Tail(ws) \in Seq(Seq(Pieces)) /\ Head(ws) \in Seq(Pieces)
           /\ DataPieces(ws) = DataIn(Head(ws)) + DataPieces(Tail(ws))
           /\ Announced(ws) = CreditIn(Head(ws)) + Announced(Tail(ws))
  <1>1. /\ Tail(ws) \in Seq(Seq(Pieces)) /\ Head(ws) \in Seq(Pieces)
        /\ Total(DataInOf, ws) = DataInOf[Head(ws)] + Total(DataInOf, Tail(ws))
        /\ Total(CreditInOf, ws) = CreditInOf[Head(ws)] + Total(CreditInOf, Tail(ws))
    BY WritesTotals, TotalTail
  <1> QED BY <1>1, WritesTotals

-----------------------------------------------------------------------------
(* The invariant. *)

\* The fields of an end's state.
Fields ==
    {"role", "opening", "created", "cancelled", "queue", "ctl", "window", "consumed",
     "active", "refused", "closeSent", "wsClosed", "pinged", "input", "expected",
     "records", "owned", "receiving", "sending", "writes", "writing", "wire", "reading",
     "peerClosed", "closing", "initiated", "completed", "terminal", "why", "deadline",
     "requested", "returned", "control", "rx", "tx", "got", "next", "sent", "held",
     "stage"}

\* The fields that the ledgers are about have their types.
Typed(x) ==
    /\ DOMAIN x = Fields
    /\ x.queue \in Seq(DataPiece) /\ x.ctl \in Seq(Returns)
    /\ x.writes \in Seq(Seq(Pieces)) /\ x.wire \in Seq(Seq(Pieces))
    /\ x.input \in Seq(Pieces) /\ x.records \in Seq(Nat)
    /\ x.window \in Nat /\ x.consumed \in Nat /\ x.owned \in 0..Window
    /\ x.returned \in Nat /\ x.held \in Nat /\ x.next \in Nat
    /\ x.opening \in BOOLEAN /\ x.terminal \in BOOLEAN /\ x.closing \in BOOLEAN
    /\ x.receiving \in BOOLEAN /\ x.sending \in BOOLEAN

\* What the session asked for is pending, or was settled once.
Asked(x) ==
    /\ (x.rx = "asked") <=> x.receiving
    /\ (x.tx = "asked") <=> x.sending
    /\ x.rx # "twice" /\ x.tx # "twice"

\* The credit an end owns covers the bytes it has not parsed, the records it
\* buffers or has handed out, and what was handed back to it.
Covered(x) ==
    ~x.terminal /\ ~x.closing =>
        x.owned >= Len(x.input) + RecordBytes * (Len(x.records) + x.held) + x.returned

\* No check of the ledgers has failed.
Solvent(x) == x.why \notin {"overrun", "ledger"}

\* The invariant of one end.
Good(x) == Typed(x) /\ Asked(x) /\ Covered(x) /\ Solvent(x)

\* The window that an end has announced to its peer.
Share(x) == IF x.opening THEN FirstWindow ELSE Window

\* A handler that takes x to y: the end stays good, may send c more than it
\* could, and holds d more of its peer's window; if it ended instead, it sends
\* no more than that.
Gains(x, y, c, d) ==
    /\ Good(y)
    /\ x.terminal => y.terminal
    /\ Sendable(y) <= Sendable(x) + c
    /\ ~y.terminal => /\ Sendable(y) = Sendable(x) + c
                      /\ Retained(y) - Share(y) = Retained(x) - Share(x) + d

\* Most handlers change neither.
Keeps(x, y) == Gains(x, y, 0, 0)

\* The two states agree on everything the invariant is about.
Alike(x, y) ==
    /\ DOMAIN y = Fields
    /\ y.queue = x.queue /\ y.ctl = x.ctl /\ y.writes = x.writes /\ y.wire = x.wire
    /\ y.input = x.input /\ y.records = x.records /\ y.window = x.window
    /\ y.consumed = x.consumed /\ y.owned = x.owned /\ y.returned = x.returned
    /\ y.held = x.held /\ y.opening = x.opening /\ y.terminal = x.terminal
    /\ y.closing = x.closing /\ y.receiving = x.receiving /\ y.sending = x.sending
    /\ y.rx = x.rx /\ y.tx = x.tx /\ y.why = x.why /\ y.next = x.next

\* The constants are numbers.
LEMMA Limits ==
    /\ RecordBytes \in Nat /\ RecordBytes >= 1 /\ Window \in Nat /\ FirstWindow \in Nat
    /\ FirstWindow <= Window
  BY LimitsAssumption

\* The bytes of several records.
LEMMA Products ==
    ASSUME NEW m \in Nat, NEW n \in Nat
    PROVE  /\ RecordBytes * m \in Nat /\ RecordBytes * (m + n) \in Nat
           /\ RecordBytes * (m + n) = RecordBytes * m + RecordBytes * n
           /\ RecordBytes * (m + 1) = RecordBytes * m + RecordBytes
  <1>1. RecordBytes \in Nat
    BY Limits
  <1> QED BY <1>1

\* What an end may send and what it holds are numbers.
LEMMA Measures ==
    ASSUME NEW x, Typed(x)
    PROVE  /\ Sendable(x) \in Nat /\ Retained(x) \in Nat /\ Share(x) \in Nat
           /\ DataPieces(x.wire) \in Nat /\ DataPieces(x.writes) \in Nat
           /\ Announced(x.wire) \in Nat /\ Announced(x.writes) \in Nat
           /\ CreditIn(x.ctl) \in Nat /\ x.window \in Nat /\ x.consumed \in Nat
           /\ x.owned \in Nat /\ x.owned <= Window
  <1>1. /\ x.wire \in Seq(Seq(Pieces)) /\ x.writes \in Seq(Seq(Pieces))
        /\ x.ctl \in Seq(Returns) /\ x.window \in Nat /\ x.consumed \in Nat
        /\ x.owned \in 0..Window
    BY DEF Typed
  <1>2. x.ctl \in Seq(Pieces)
    BY <1>1, AllReturns
  <1>3. /\ DataPieces(x.wire) \in Nat /\ DataPieces(x.writes) \in Nat
        /\ Announced(x.wire) \in Nat /\ Announced(x.writes) \in Nat
    BY <1>1, WritesNat
  <1>4. CreditIn(x.ctl) \in Nat
    BY <1>2, WriteNat
  <1>5. Share(x) \in Nat
    BY Limits DEF Share
  <1>6. x.owned \in Nat /\ x.owned <= Window
    BY <1>1, Limits
  <1>7. Sendable(x) \in Nat
    BY <1>1, <1>3 DEF Sendable
  <1>8. Retained(x) \in Nat
    <2>1. \A a, b, c, d, e \in Nat : a + b + c + d + e \in Nat
      OBVIOUS
    <2>2. x.consumed \in Nat
      BY <1>1
    <2> QED BY <1>3, <1>4, <1>6, <2>1, <2>2 DEF Retained
  <1> QED BY <1>1, <1>3, <1>4, <1>5, <1>6, <1>7, <1>8

\* Handlers compose.
LEMMA GainsTrans ==
    ASSUME NEW x, NEW y, NEW z, NEW c \in Int, NEW d \in Int, NEW e \in Int, NEW f \in Int,
           Good(x), Gains(x, y, c, d), Gains(y, z, e, f)
    PROVE  Gains(x, z, c + e, d + f)
  <1>1. /\ Sendable(x) \in Nat /\ Retained(x) \in Nat /\ Share(x) \in Nat
        /\ Sendable(y) \in Nat /\ Retained(y) \in Nat /\ Share(y) \in Nat
        /\ Sendable(z) \in Nat /\ Retained(z) \in Nat /\ Share(z) \in Nat
    BY Measures DEF Gains, Good
  <1>2. Sendable(z) <= Sendable(x) + (c + e)
    BY <1>1 DEF Gains
  <1>3. ASSUME ~z.terminal
        PROVE  /\ Sendable(z) = Sendable(x) + (c + e)
               /\ Retained(z) - Share(z) = Retained(x) - Share(x) + (d + f)
    <2>1. ~y.terminal
      BY <1>3 DEF Gains
    <2> QED BY <1>1, <1>3, <2>1 DEF Gains
  <1> QED BY <1>2, <1>3 DEF Gains

\* The most common case.
LEMMA KeepsTrans ==
    ASSUME NEW x, NEW y, NEW z, Good(x), Keeps(x, y), Keeps(y, z)
    PROVE  Keeps(x, z)
  <1>1. Gains(x, z, 0 + 0, 0 + 0)
    BY GainsTrans DEF Keeps
  <1> QED BY <1>1 DEF Keeps

\* A state that is alike is kept.
LEMMA AlikeKeeps ==
    ASSUME NEW x, NEW y, Good(x), Alike(x, y)
    PROVE  Keeps(x, y)
  <1>1. Good(y)
    BY DEF Good, Typed, Asked, Covered, Solvent, Alike
  <1>2. Sendable(y) = Sendable(x) /\ Retained(y) = Retained(x) /\ Share(y) = Share(x)
    BY DEF Alike, Sendable, Retained, Share
  <1>3. Sendable(x) \in Nat /\ Retained(x) \in Nat /\ Share(x) \in Nat
    BY Measures DEF Good
  <1>4. x.terminal => y.terminal
    BY DEF Alike
  <1> QED BY <1>1, <1>2, <1>3, <1>4 DEF Keeps, Gains

\* So is the state itself.
LEMMA KeepsSelf ==
    ASSUME NEW x, Good(x)
    PROVE  Keeps(x, x)
  <1>1. Alike(x, x)
    BY DEF Alike, Good, Typed
  <1> QED BY <1>1, AlikeKeeps

\* A handler that leaves the window and the ledgers alone.
LEMMA SameLedger ==
    ASSUME NEW x, NEW y, Good(x), Good(y), y.terminal = x.terminal, y.window = x.window,
           y.wire = x.wire, y.writes = x.writes, y.owned = x.owned,
           y.consumed = x.consumed, y.ctl = x.ctl, y.opening = x.opening
    PROVE  Keeps(x, y)
  <1>1. Sendable(y) = Sendable(x) /\ Retained(y) = Retained(x) /\ Share(y) = Share(x)
    BY DEF Sendable, Retained, Share
  <1>2. Sendable(x) \in Nat /\ Retained(x) \in Nat /\ Share(x) \in Nat
    BY Measures DEF Good
  <1> QED BY <1>1, <1>2 DEF Keeps, Gains

-----------------------------------------------------------------------------
(* Settlement. *)

\* cancel_receive settles a receive that is pending, and no other.
LEMMA SettleReceiveKeeps ==
    ASSUME NEW x, Good(x), NEW result, result \notin {"asked", "twice"}
    PROVE  /\ Keeps(x, SettleReceive(x, result))
           /\ SettleReceive(x, result).closing = x.closing
           /\ SettleReceive(x, result).terminal = x.terminal
  <1> DEFINE y == SettleReceive(x, result)
  <1>1. DOMAIN x = Fields /\ Asked(x) /\ x.receiving \in BOOLEAN
    BY DEF Good, Typed
  <1>2. /\ DOMAIN y = Fields
        /\ y.queue = x.queue /\ y.ctl = x.ctl /\ y.writes = x.writes /\ y.wire = x.wire
        /\ y.input = x.input /\ y.records = x.records /\ y.window = x.window
        /\ y.consumed = x.consumed /\ y.owned = x.owned /\ y.returned = x.returned
        /\ y.held = x.held /\ y.opening = x.opening /\ y.terminal = x.terminal
        /\ y.closing = x.closing /\ y.sending = x.sending
        /\ y.tx = x.tx /\ y.why = x.why /\ y.next = x.next
        /\ y.receiving = FALSE
        /\ y.rx = IF x.receiving THEN result ELSE x.rx
    BY <1>1 DEF SettleReceive, Fields, Told, Asked
  <1> HIDE DEF y
  <1>3. Asked(y)
    BY <1>1, <1>2 DEF Asked
  <1>4. Typed(y) /\ Covered(y) /\ Solvent(y)
    BY <1>2 DEF Good, Typed, Covered, Solvent
  <1>5. Keeps(x, y)
    BY <1>2, <1>3, <1>4, SameLedger DEF Good
  <1> QED BY <1>2, <1>5 DEF y

\* cancel_send and the completion of a send settle one that is pending.
LEMMA SettleSendKeeps ==
    ASSUME NEW x, Good(x), NEW result, result \notin {"asked", "twice"}
    PROVE  /\ Keeps(x, SettleSend(x, result))
           /\ SettleSend(x, result).closing = x.closing
           /\ SettleSend(x, result).terminal = x.terminal
  <1> DEFINE y == SettleSend(x, result)
  <1>1. DOMAIN x = Fields /\ Asked(x) /\ x.sending \in BOOLEAN
    BY DEF Good, Typed
  <1>2. /\ DOMAIN y = Fields
        /\ y.queue = x.queue /\ y.ctl = x.ctl /\ y.writes = x.writes /\ y.wire = x.wire
        /\ y.input = x.input /\ y.records = x.records /\ y.window = x.window
        /\ y.consumed = x.consumed /\ y.owned = x.owned /\ y.returned = x.returned
        /\ y.held = x.held /\ y.opening = x.opening /\ y.terminal = x.terminal
        /\ y.closing = x.closing /\ y.receiving = x.receiving
        /\ y.rx = x.rx /\ y.why = x.why /\ y.next = x.next
        /\ y.sending = FALSE
        /\ y.tx = IF x.sending THEN result ELSE x.tx
    BY <1>1 DEF SettleSend, Fields, Told, Asked
  <1> HIDE DEF y
  <1>3. Asked(y)
    BY <1>1, <1>2 DEF Asked
  <1>4. Typed(y) /\ Covered(y) /\ Solvent(y)
    BY <1>2 DEF Good, Typed, Covered, Solvent
  <1>5. Keeps(x, y)
    BY <1>2, <1>3, <1>4, SameLedger DEF Good
  <1> QED BY <1>2, <1>5 DEF y

\* The end of the carrier settles what is pending and lets go of the rest; what
\* it wrote may still arrive.
LEMMA FailKeeps ==
    ASSUME NEW x, Good(x), NEW why, why \notin {"asked", "twice", "overrun", "ledger"}
    PROVE  /\ Keeps(x, Fail(x, why))
           /\ Fail(x, why).terminal
           /\ Fail(x, why).closing = x.closing
  <1>1. CASE x.terminal
    BY <1>1, KeepsSelf DEF Fail
  <1>2. CASE ~x.terminal
    <2> DEFINE e == [x EXCEPT !.terminal = TRUE, !.why = why, !.deadline = FALSE,
                              !.returned = 0, !.records = <<>>, !.writes = <<>>,
                              !.input = <<>>, !.owned = 0,
                              !.created = IF @ = "waiting" THEN "failed" ELSE @,
                              !.queue = <<>>, !.ctl = <<>>, !.window = 0,
                              !.consumed = 0, !.reading = FALSE, !.writing = FALSE,
                              !.control = FALSE]
               r == SettleReceive(e, why)
    <2>1. Fail(x, why) = SettleSend(r, why)
      BY <1>2 DEF Fail
    <2>2. DOMAIN x = Fields
      BY DEF Good, Typed
    <2>3. /\ DOMAIN e = Fields
          /\ e.queue = <<>> /\ e.ctl = <<>> /\ e.writes = <<>> /\ e.wire = x.wire
          /\ e.input = <<>> /\ e.records = <<>> /\ e.window = 0
          /\ e.consumed = 0 /\ e.owned = 0 /\ e.returned = 0
          /\ e.held = x.held /\ e.opening = x.opening /\ e.terminal = TRUE
          /\ e.closing = x.closing /\ e.receiving = x.receiving /\ e.sending = x.sending
          /\ e.rx = x.rx /\ e.tx = x.tx /\ e.why = why /\ e.next = x.next
      BY ZenonT(60), <2>2 DEF Fields
    <2> HIDE DEF e
    <2>4. Typed(e)
      <3>1. /\ <<>> \in Seq(DataPiece) /\ <<>> \in Seq(Returns) /\ <<>> \in Seq(Seq(Pieces))
            /\ <<>> \in Seq(Pieces) /\ <<>> \in Seq(Nat)
        OBVIOUS
      <3>2. 0 \in 0..Window
        BY Limits
      <3>3. /\ x.wire \in Seq(Seq(Pieces)) /\ x.held \in Nat /\ x.next \in Nat
            /\ x.opening \in BOOLEAN
            /\ x.closing \in BOOLEAN /\ x.receiving \in BOOLEAN /\ x.sending \in BOOLEAN
        BY DEF Good, Typed
      <3>4. 0 \in Nat /\ TRUE \in BOOLEAN
        OBVIOUS
      <3> QED BY <2>3, <3>1, <3>2, <3>3, <3>4, Zenon DEF Typed
    <2>5. Good(e)
      BY <2>3, <2>4 DEF Good, Asked, Covered, Solvent
    <2>6. Sendable(e) <= Sendable(x)
      <3>1. /\ DataPieces(x.wire) \in Nat /\ DataPieces(x.writes) \in Nat /\ x.window \in Nat
        BY Measures DEF Good
      <3>2. DataPieces(<<>>) = 0
        <4>1. <<>> \in Seq(Seq(Pieces))
          OBVIOUS
        <4> QED BY <4>1, WritesNat
      <3> QED BY <2>3, <3>1, <3>2 DEF Sendable
    <2>7. Keeps(x, e)
      BY SMTT(30), <2>3, <2>5, <2>6, Measures DEF Keeps, Gains, Good
    <2>8. Good(r) /\ Keeps(e, r) /\ r.closing = e.closing /\ r.terminal = e.terminal
      BY <2>5, SettleReceiveKeeps DEF Keeps, Gains
    <2> HIDE DEF r
    <2>9. /\ Keeps(r, SettleSend(r, why)) /\ SettleSend(r, why).closing = r.closing
          /\ SettleSend(r, why).terminal = r.terminal
      BY <2>8, SettleSendKeeps
    <2>10. Keeps(x, r)
      BY <2>5, <2>7, <2>8, KeepsTrans
    <2>11. Keeps(x, SettleSend(r, why))
      BY <2>9, <2>10, KeepsTrans
    <2> QED BY <2>1, <2>3, <2>8, <2>9, <2>11
  <1> QED BY <1>1, <1>2

\* So does the end of a graceful close.
LEMMA FinishKeeps ==
    ASSUME NEW x, Good(x), NEW completed
    PROVE  Keeps(x, FinishGracefulClose(x, completed))
  <1>1. CASE x.closing /\ ~x.terminal
    <2> DEFINE y == [x EXCEPT !.completed = completed]
    <2>1. DOMAIN x = Fields
      BY DEF Good, Typed
    <2>2. Alike(x, y)
      BY <2>1 DEF Fields, Alike
    <2> HIDE DEF y
    <2>3. Keeps(x, y) /\ Good(y)
      BY <2>2, AlikeKeeps DEF Keeps, Gains
    <2>4. Keeps(y, Fail(y, "closed"))
      BY <2>3, FailKeeps
    <2>5. FinishGracefulClose(x, completed) = Fail(y, "closed")
      BY <1>1 DEF FinishGracefulClose, y
    <2> QED BY <2>3, <2>4, <2>5, KeepsTrans
  <1>2. CASE ~(x.closing /\ ~x.terminal)
    BY <1>2, KeepsSelf DEF FinishGracefulClose
  <1> QED BY <1>1, <1>2

-----------------------------------------------------------------------------
(* The stream. *)

\* Credit that is returned is counted, or announced.
LEMMA ConsumeFacts ==
    ASSUME NEW x, Typed(x), NEW n \in Nat
    PROVE  LET y == Consume(x, n)
           IN  /\ DOMAIN y = Fields
               /\ y.queue = x.queue /\ y.writes = x.writes /\ y.wire = x.wire
               /\ y.input = x.input /\ y.records = x.records /\ y.window = x.window
               /\ y.owned = x.owned /\ y.returned = x.returned
               /\ y.held = x.held /\ y.opening = x.opening /\ y.terminal = x.terminal
               /\ y.closing = x.closing /\ y.receiving = x.receiving
               /\ y.sending = x.sending
               /\ y.rx = x.rx /\ y.tx = x.tx /\ y.why = x.why /\ y.next = x.next
               /\ y.expected = x.expected
               /\ y.ctl \in Seq(Returns) /\ y.consumed \in Nat
               /\ CreditIn(y.ctl) \in Nat
               /\ y.consumed + CreditIn(y.ctl) = x.consumed + CreditIn(x.ctl) + n
  <1> DEFINE total == x.consumed + n
             y == Consume(x, n)
  <1>1. /\ DOMAIN x = Fields /\ x.consumed \in Nat /\ x.ctl \in Seq(Returns)
        /\ total \in Nat
    BY SMTT(30) DEF Typed
  <1>2. x.ctl \in Seq(Pieces) /\ CreditIn(x.ctl) \in Nat
    BY <1>1, AllReturns, WriteNat
  <1>3. CASE n > 0 /\ 2 * total >= Window
    <2>1. y = [x EXCEPT !.consumed = 0, !.ctl = Append(x.ctl, Update(total))]
      BY <1>1, <1>3 DEF Consume
    <2>2. /\ Update(total) \in Pieces /\ Update(total) \in Returns
          /\ Update(total).kind = "update" /\ Update(total).n = total
      BY <1>1 DEF Update, Piece, Pieces, Returns
    <2>3. Append(x.ctl, Update(total)) \in Seq(Returns)
      BY <1>1, <2>2
    <2>4. CreditIn(Append(x.ctl, Update(total))) = CreditIn(x.ctl) + total
      BY <1>2, <2>2, WriteAppend
    <2>5. y.ctl = Append(x.ctl, Update(total)) /\ y.consumed = 0
      BY <1>1, <2>1 DEF Fields
    <2>6. /\ y.ctl \in Seq(Returns) /\ y.consumed \in Nat
          /\ CreditIn(y.ctl) \in Nat
          /\ y.consumed + CreditIn(y.ctl) = x.consumed + CreditIn(x.ctl) + n
      BY <1>1, <1>2, <2>3, <2>4, <2>5
    <2> HIDE DEF total
    <2> QED BY <1>1, <2>1, <2>6 DEF Fields
  <1>4. CASE ~(n > 0 /\ 2 * total >= Window)
    <2>1. y = [x EXCEPT !.consumed = total]
      BY <1>1, <1>4 DEF Consume
    <2>2. y.ctl = x.ctl /\ y.consumed = total
      BY <1>1, <2>1 DEF Fields
    <2>3. y.consumed + CreditIn(y.ctl) = x.consumed + CreditIn(x.ctl) + n
      BY <1>1, <1>2, <2>2
    <2> HIDE DEF total
    <2> QED BY <1>1, <1>2, <2>1, <2>2, <2>3 DEF Fields
  <1> QED BY <1>3, <1>4

\* An end that returns n of its peer's window to the stream holds n more in it.
LEMMA ConsumeGains ==
    ASSUME NEW x, Good(x), NEW n \in Nat
    PROVE  /\ Gains(x, Consume(x, n), 0, n)
           /\ Consume(x, n).closing = x.closing /\ Consume(x, n).terminal = x.terminal
  <1> DEFINE y == Consume(x, n)
  <1>1. /\ DOMAIN y = Fields
        /\ y.queue = x.queue /\ y.writes = x.writes /\ y.wire = x.wire
        /\ y.input = x.input /\ y.records = x.records /\ y.window = x.window
        /\ y.owned = x.owned /\ y.returned = x.returned
        /\ y.held = x.held /\ y.opening = x.opening /\ y.terminal = x.terminal
        /\ y.closing = x.closing /\ y.receiving = x.receiving
        /\ y.sending = x.sending
        /\ y.rx = x.rx /\ y.tx = x.tx /\ y.why = x.why /\ y.next = x.next
        /\ y.ctl \in Seq(Returns) /\ y.consumed \in Nat
        /\ CreditIn(y.ctl) \in Nat
        /\ y.consumed + CreditIn(y.ctl) = x.consumed + CreditIn(x.ctl) + n
    BY ConsumeFacts DEF Good
  <1> HIDE DEF y
  <1>2. Good(y)
    BY <1>1 DEF Good, Typed, Asked, Covered, Solvent
  <1>3. /\ x.owned \in Nat /\ x.consumed \in Nat /\ CreditIn(x.ctl) \in Nat
        /\ Announced(x.wire) \in Nat /\ Announced(x.writes) \in Nat
        /\ Sendable(x) \in Nat /\ Retained(x) \in Nat /\ Share(x) \in Nat
    BY Measures DEF Good
  <1>4. Retained(y) = Retained(x) + n
    <2>1. /\ Retained(y) = x.owned + y.consumed + CreditIn(y.ctl) + Announced(x.wire)
                            + Announced(x.writes)
          /\ Retained(x) = x.owned + x.consumed + CreditIn(x.ctl) + Announced(x.wire)
                            + Announced(x.writes)
      BY <1>1 DEF Retained
    <2>2. /\ y.consumed \in Nat /\ CreditIn(y.ctl) \in Nat
          /\ y.consumed + CreditIn(y.ctl) = x.consumed + CreditIn(x.ctl) + n
      BY <1>1
    <2> QED BY <1>3, <2>1, <2>2
  <1>5. Sendable(y) = Sendable(x) /\ Share(y) = Share(x)
    BY <1>1 DEF Sendable, Share
  <1>6. Gains(x, y, 0, n)
    BY SMTT(30), <1>1, <1>2, <1>3, <1>4, <1>5 DEF Gains
  <1> QED BY <1>1, <1>6 DEF y

\* Bytes that are queued wait for the window.
LEMMA QueueKeeps ==
    ASSUME NEW x, Good(x), NEW pieces \in Seq(DataPiece)
    PROVE  /\ Keeps(x, QueueBytes(x, pieces))
           /\ QueueBytes(x, pieces).closing = x.closing
           /\ QueueBytes(x, pieces).terminal = x.terminal
  <1> DEFINE y == QueueBytes(x, pieces)
  <1>1. DOMAIN x = Fields /\ x.queue \o pieces \in Seq(DataPiece)
    BY DEF Good, Typed
  <1>2. /\ DOMAIN y = Fields
        /\ y.queue \in Seq(DataPiece) /\ y.ctl = x.ctl /\ y.writes = x.writes /\ y.wire = x.wire
        /\ y.input = x.input /\ y.records = x.records /\ y.window = x.window
        /\ y.consumed = x.consumed /\ y.owned = x.owned /\ y.returned = x.returned
        /\ y.held = x.held /\ y.opening = x.opening /\ y.terminal = x.terminal
        /\ y.closing = x.closing /\ y.receiving = x.receiving /\ y.sending = x.sending
        /\ y.tx = x.tx /\ y.rx = x.rx /\ y.why = x.why /\ y.next = x.next
    BY <1>1 DEF QueueBytes, Fields
  <1> HIDE DEF y
  <1>3. Good(y)
    BY <1>2 DEF Good, Typed, Asked, Covered, Solvent
  <1>4. Keeps(x, y)
    BY <1>2, <1>3, SameLedger
  <1> QED BY <1>2, <1>4 DEF y

-----------------------------------------------------------------------------
(* Records in. *)

\* deliver_record hands a record and its credit to the receive that waits.
LEMMA DeliverKeeps ==
    ASSUME NEW x, Good(x)
    PROVE  /\ Keeps(x, MaybeDeliver(x)) /\ MaybeDeliver(x).closing = x.closing
           /\ MaybeDeliver(x).terminal = x.terminal
  <1>1. CASE x.receiving /\ x.records # <<>>
    <2> DEFINE y == MaybeDeliver(x)
    <2>1. /\ DOMAIN x = Fields /\ x.records \in Seq(Nat) /\ x.held \in Nat
          /\ x.rx = "asked"
      BY <1>1 DEF Good, Typed, Asked
    <2>2. /\ DOMAIN y = Fields
          /\ y.queue = x.queue /\ y.ctl = x.ctl /\ y.writes = x.writes /\ y.wire = x.wire
          /\ y.input = x.input /\ y.records = Tail(x.records) /\ y.window = x.window
          /\ y.consumed = x.consumed /\ y.owned = x.owned /\ y.returned = x.returned
          /\ y.held = x.held + 1 /\ y.opening = x.opening /\ y.terminal = x.terminal
          /\ y.closing = x.closing /\ y.receiving = FALSE /\ y.sending = x.sending
          /\ y.tx = x.tx /\ y.why = x.why /\ y.next = x.next /\ y.rx = "idle"
      BY <1>1, <2>1 DEF MaybeDeliver, DeliverRecord, Fields, Told
    <2> HIDE DEF y
    <2>3. /\ Tail(x.records) \in Seq(Nat) /\ Len(x.records) \in Nat
          /\ Len(Tail(x.records)) = Len(x.records) - 1
      BY <1>1, <2>1
    <2>4. Typed(y)
      <3>1. x.held + 1 \in Nat
        BY <2>1
      <3> QED BY <2>2, <2>3, <3>1 DEF Good, Typed
    <2>5. Len(y.records) + y.held = Len(x.records) + x.held
      BY <2>1, <2>2, <2>3
    <2>6. Covered(y)
      BY <2>2, <2>5 DEF Good, Covered
    <2>7. Good(y)
      BY <2>2, <2>4, <2>6 DEF Good, Asked, Solvent
    <2>8. Keeps(x, y)
      BY <2>2, <2>7, SameLedger
    <2> QED BY <2>2, <2>8 DEF y
  <1>2. CASE ~(x.receiving /\ x.records # <<>>)
    BY <1>2, KeepsSelf DEF MaybeDeliver
  <1> QED BY <1>1, <1>2

\* The envelope of a record is returned at once.
LEMMA ParseHeaderKeeps ==
    ASSUME NEW x, Good(x), ~x.terminal, ~x.closing, x.input # <<>>
    PROVE  Keeps(x, ParseHeader(x)) /\ ParseHeader(x).closing = x.closing
  <1>1. /\ DOMAIN x = Fields /\ x.input \in Seq(Pieces) /\ x.records \in Seq(Nat)
        /\ x.owned \in 0..Window /\ x.returned \in Nat /\ x.held \in Nat
    BY DEF Good, Typed
  <1>2. /\ Tail(x.input) \in Seq(Pieces) /\ Len(x.input) \in Nat /\ Len(x.input) >= 1
        /\ Len(Tail(x.input)) = Len(x.input) - 1
    BY <1>1
  <1> DEFINE m == RecordBytes * (Len(x.records) + x.held)
  <1>3. m \in Nat /\ x.owned >= Len(x.input) + m + x.returned
    <2>1. Len(x.records) \in Nat
      BY <1>1
    <2>2. m \in Nat
      BY <1>1, <2>1, Products
    <2>3. x.owned >= Len(x.input) + m + x.returned
      BY DEF Good, Covered
    <2> QED BY <2>2, <2>3
  <1> HIDE DEF m
  <1>4. x.owned \in Nat /\ x.owned >= 1 /\ Window \in Nat
    BY <1>1, <1>2, <1>3, Limits
  <1>5. CASE Head(x.input).kind # "envelope"
    BY <1>5, FailKeeps DEF ParseHeader
  <1>6. CASE Head(x.input).kind = "envelope"
    <2> DEFINE z == [x EXCEPT !.expected = TRUE, !.owned = @ - 1, !.input = Tail(@)]
    <2>1. ParseHeader(x) = Consume(z, 1)
      BY <1>4, <1>6 DEF ParseHeader
    <2>2. /\ DOMAIN z = Fields
          /\ z.queue = x.queue /\ z.ctl = x.ctl /\ z.writes = x.writes /\ z.wire = x.wire
          /\ z.input = Tail(x.input) /\ z.records = x.records /\ z.window = x.window
          /\ z.consumed = x.consumed /\ z.owned = x.owned - 1 /\ z.returned = x.returned
          /\ z.held = x.held /\ z.opening = x.opening /\ z.terminal = x.terminal
          /\ z.closing = x.closing /\ z.receiving = x.receiving /\ z.sending = x.sending
          /\ z.tx = x.tx /\ z.rx = x.rx /\ z.why = x.why /\ z.next = x.next
      BY <1>1 DEF Fields
    <2> HIDE DEF z
    <2>3. z.owned \in 0..Window /\ z.owned >= Len(z.input) + m + z.returned
      BY SMTT(30), <1>1, <1>2, <1>3, <1>4, <2>2
    <2>4. Typed(z)
      BY <1>2, <2>2, <2>3 DEF Good, Typed
    <2>5. Covered(z)
      BY <2>2, <2>3 DEF Covered, m
    <2>6. Good(z)
      BY <2>2, <2>4, <2>5 DEF Good, Asked, Solvent
    <2>7. Gains(x, z, 0, -1)
      <3>1. /\ x.consumed \in Nat /\ CreditIn(x.ctl) \in Nat
            /\ Announced(x.wire) \in Nat /\ Announced(x.writes) \in Nat
            /\ Sendable(x) \in Nat /\ Share(x) \in Nat
        BY Measures DEF Good
      <3>2. /\ Retained(z) = x.owned - 1 + x.consumed + CreditIn(x.ctl) + Announced(x.wire)
                              + Announced(x.writes)
            /\ Retained(x) = x.owned + x.consumed + CreditIn(x.ctl) + Announced(x.wire)
                              + Announced(x.writes)
        BY <2>2 DEF Retained
      <3>3. Sendable(z) = Sendable(x) /\ Share(z) = Share(x)
        BY <2>2 DEF Sendable, Share
      <3>4. Retained(z) - Share(x) = Retained(x) - Share(x) - 1
        BY SMTT(30), <1>4, <3>1, <3>2
      <3>5. Retained(z) \in Nat /\ Retained(x) \in Nat
        BY <2>6, Measures DEF Good
      <3> QED BY <2>2, <2>6, <3>1, <3>3, <3>4, <3>5 DEF Gains
    <2>8. /\ Gains(z, Consume(z, 1), 0, 1) /\ Consume(z, 1).closing = z.closing
      BY <2>6, ConsumeGains
    <2>9. Gains(x, Consume(z, 1), 0 + 0, -1 + 1)
      BY <2>7, <2>8, GainsTrans
    <2> QED BY <2>1, <2>2, <2>8, <2>9 DEF Keeps
  <1> QED BY <1>5, <1>6

\* A record that is complete keeps its credit and is delivered with it.
LEMMA ParsePayloadKeeps ==
    ASSUME NEW x, Good(x), ~x.terminal, ~x.closing, Len(x.input) >= RecordBytes
    PROVE  Keeps(x, ParsePayload(x)) /\ ParsePayload(x).closing = x.closing
  <1>1. /\ DOMAIN x = Fields /\ x.input \in Seq(Pieces) /\ x.records \in Seq(Nat)
        /\ x.owned \in 0..Window /\ x.returned \in Nat /\ x.held \in Nat
        /\ Len(x.input) \in Nat /\ Len(x.records) \in Nat
    BY DEF Good, Typed
  <1> DEFINE r == Len(x.records)
             left == SubSeq(x.input, RecordBytes + 1, Len(x.input))
  <1>2. /\ Head(x.input) \in Pieces /\ left \in Seq(Pieces)
        /\ Len(left) = Len(x.input) - RecordBytes /\ Len(left) \in Nat
    <2>1. x.input # <<>> /\ RecordBytes + 1 \in 1..(Len(x.input) + 1)
      BY <1>1, Limits
    <2>2. Head(x.input) \in Pieces
      BY <1>1, <2>1
    <2>3. /\ left \in Seq(Pieces)
          /\ Len(left) = IF RecordBytes + 1 <= Len(x.input)
                         THEN Len(x.input) - (RecordBytes + 1) + 1 ELSE 0
      BY <1>1, <2>1, Limits, SubSeqProperties
    <2>4. Len(left) = Len(x.input) - RecordBytes /\ Len(left) \in Nat
      BY <1>1, <2>1, <2>3, Limits
    <2> QED BY <2>2, <2>3, <2>4
  <1>3. Head(x.input).n \in Nat
    BY <1>2 DEF Pieces
  <1>4. Append(x.records, Head(x.input).n) \in Seq(Nat)
        /\ Len(Append(x.records, Head(x.input).n)) = r + 1
    BY <1>1, <1>3
  <1> DEFINE m == RecordBytes * (r + x.held)
             h == RecordBytes * x.held
             k == RecordBytes * r
  <1>5. /\ m \in Nat /\ h \in Nat /\ k \in Nat /\ m = k + h
        /\ RecordBytes * (r + 1) = k + RecordBytes
        /\ RecordBytes * ((r + 1) + x.held) = m + RecordBytes
    <2>1. /\ r \in Nat /\ x.held \in Nat /\ r + x.held \in Nat
          /\ (r + 1) + x.held = (r + x.held) + 1
      BY SMTT(30), <1>1
    <2> HIDE DEF r
    <2> QED BY <2>1, Products
  <1>6. x.owned >= Len(x.input) + m + x.returned
    BY DEF Good, Covered
  <1> HIDE DEF r, left, m, h, k
  <1>7. k + RecordBytes <= Window
    <2>1. /\ x.owned \in Nat /\ x.owned <= Window /\ Len(x.input) \in Nat
          /\ x.returned \in Nat /\ RecordBytes \in Nat /\ Window \in Nat
      BY <1>1, Limits
    <2>2. m \in Nat /\ h \in Nat /\ k \in Nat /\ m = k + h
      BY <1>5
    <2>3. \A o, l, b, w, t \in Nat :
            o >= l + (k + h) + t /\ o <= w /\ l >= b => k + b <= w
      BY <2>2
    <2> QED BY <1>6, <2>1, <2>2, <2>3
  <1> DEFINE z == [x EXCEPT !.records = Append(@, Head(x.input).n), !.expected = FALSE,
                            !.input = SubSeq(@, RecordBytes + 1, Len(@))]
  <1>8. ParsePayload(x) = MaybeDeliver(z)
    <2>1. ~(RecordBytes * (r + 1) > Window)
      <3>1. RecordBytes \in Nat /\ Window \in Nat
        BY Limits
      <3>2. ~(k + RecordBytes > Window)
        BY <1>5, <1>7, <3>1
      <3> QED BY <1>5, <3>2
    <2> QED BY <2>1 DEF ParsePayload, MaxRetained, r
  <1>9. /\ DOMAIN z = Fields
        /\ z.queue = x.queue /\ z.ctl = x.ctl /\ z.writes = x.writes /\ z.wire = x.wire
        /\ z.input = left /\ z.records = Append(x.records, Head(x.input).n)
        /\ z.window = x.window
        /\ z.consumed = x.consumed /\ z.owned = x.owned /\ z.returned = x.returned
        /\ z.held = x.held /\ z.opening = x.opening /\ z.terminal = x.terminal
        /\ z.closing = x.closing /\ z.receiving = x.receiving /\ z.sending = x.sending
        /\ z.tx = x.tx /\ z.rx = x.rx /\ z.why = x.why /\ z.next = x.next
    BY <1>1 DEF Fields, left
  <1> HIDE DEF z
  <1>10. Typed(z)
    BY <1>2, <1>4, <1>9 DEF Good, Typed
  <1>11. x.owned >= Len(left) + RecordBytes * ((r + 1) + x.held) + x.returned
    <2>1. x.owned >= Len(left) + (m + RecordBytes) + x.returned
      <3>1. /\ x.owned \in Nat /\ m \in Nat /\ RecordBytes \in Nat /\ Len(x.input) \in Nat
            /\ x.returned \in Nat
        BY <1>1, <1>5, Limits
      <3>2. Len(left) = Len(x.input) - RecordBytes
        BY <1>2
      <3>3. \A o, l, b, t \in Nat :
              o >= l + m + t /\ l >= b => o >= (l - b) + (m + b) + t
        BY <3>1
      <3> QED BY <1>6, <3>1, <3>2, <3>3
    <2> QED BY <1>5, <2>1
  <1>12. Covered(z)
    BY <1>4, <1>9, <1>11 DEF Covered
  <1>13. Good(z)
    BY <1>9, <1>10, <1>12 DEF Good, Asked, Solvent
  <1>14. Keeps(x, z)
    BY <1>9, <1>13, SameLedger
  <1>15. Keeps(z, MaybeDeliver(z)) /\ MaybeDeliver(z).closing = z.closing
    BY <1>13, DeliverKeeps
  <1>16. Keeps(x, MaybeDeliver(z))
    BY <1>14, <1>15, KeepsTrans
  <1> QED BY <1>8, <1>9, <1>15, <1>16

\* One round of parse_records.
LEMMA ParseStepKeeps ==
    ASSUME NEW x, Good(x), ~x.closing
    PROVE  Keeps(x, ParseStep(x)) /\ ParseStep(x).closing = x.closing
  <1>1. CASE x.terminal \/ Len(x.records) >= MaxBuffered
    <2>1. ParseStep(x) = x
      BY <1>1 DEF ParseStep
    <2> QED BY <2>1, KeepsSelf
  <1>2. CASE ~(x.terminal \/ Len(x.records) >= MaxBuffered)
    <2>1. CASE ~x.expected /\ x.input # <<>>
      <3>1. ParseStep(x) = ParseHeader(x)
        BY <1>2, <2>1 DEF ParseStep
      <3> QED BY <1>2, <2>1, <3>1, ParseHeaderKeeps
    <2>2. CASE x.expected /\ Len(x.input) >= RecordBytes
      <3>1. ParseStep(x) = ParsePayload(x)
        BY <1>2, <2>2 DEF ParseStep
      <3> QED BY <1>2, <2>2, <3>1, ParsePayloadKeeps
    <2>3. CASE ~(~x.expected /\ x.input # <<>>) /\ ~(x.expected /\ Len(x.input) >= RecordBytes)
      <3>1. ParseStep(x) = x
        BY <1>2, <2>3 DEF ParseStep
      <3> QED BY <3>1, KeepsSelf
    <2> QED BY <2>1, <2>2, <2>3
  <1> QED BY <1>1, <1>2

\* A sequence of rounds.
Round(x, g, n) == IF n = 0 THEN x ELSE ParseStep(g[n - 1])
IsRounds(x, g, m) == g = [n \in 0..m |-> Round(x, g, n)]

\* The rounds exist.
LEMMA RoundsExist ==
    ASSUME NEW x, NEW m \in Nat
    PROVE  \E g : IsRounds(x, g, m)
  <1> DEFINE K == {k \in Nat : \E g : IsRounds(x, g, k)}
  <1>1. 0 \in K
    <2>1. IsRounds(x, [i \in 0..0 |-> x], 0)
      BY DEF IsRounds, Round
    <2> QED BY <2>1
  <1>2. ASSUME NEW k \in Nat, k \in K PROVE k + 1 \in K
    <2>1. PICK g : IsRounds(x, g, k)
      BY <1>2
    <2> DEFINE h == [i \in 0..(k + 1) |-> IF i <= k THEN g[i] ELSE Round(x, g, i)]
    <2>2. \A i \in 0..k : g[i] = Round(x, g, i)
      BY <2>1 DEF IsRounds
    <2>3. ASSUME NEW i \in 0..(k + 1) PROVE h[i] = Round(x, h, i)
      <3>1. h[i] = Round(x, g, i)
        BY <2>2
      <3>2. i # 0 => h[i - 1] = g[i - 1]
        OBVIOUS
      <3> HIDE DEF h
      <3> QED BY <3>1, <3>2 DEF Round
    <2>4. h = [i \in 0..(k + 1) |-> Round(x, h, i)]
      <3>1. h = [i \in 0..(k + 1) |-> h[i]]
        OBVIOUS
      <3> HIDE DEF h
      <3> QED BY <2>3, <3>1
    <2> HIDE DEF h
    <2> QED BY <2>4 DEF IsRounds
  <1>3. Nat \subseteq K
    <2> HIDE DEF K
    <2> QED BY <1>1, <1>2, NatSetInduction
  <1> QED BY <1>3

\* parse_records changes no ledger, however many rounds it makes.
LEMMA ParseKeeps ==
    ASSUME NEW x, Good(x), ~x.closing
    PROVE  Keeps(x, ParseRecords(x)) /\ ParseRecords(x).closing = x.closing
  <1> DEFINE m == Len(x.input) + 1
             g == CHOOSE f : IsRounds(x, f, m)
             K == {n \in Nat : Good(g[n]) /\ Keeps(x, g[n]) /\ g[n].closing = x.closing}
  <1>1. ParseRecords(x) = g[m]
    BY DEF ParseRecords, IsRounds, Round
  <1>2. m \in Nat
    BY DEF Good, Typed
  <1> HIDE DEF m
  <1>3. IsRounds(x, g, m)
    BY <1>2, RoundsExist
  <1>4. \A n \in 0..m : g[n] = Round(x, g, n)
    <2> HIDE DEF g
    <2> QED BY <1>3 DEF IsRounds
  <1> HIDE DEF g
  <1>5. 0 \in K
    <2>1. g[0] = x
      BY <1>2, <1>4 DEF Round
    <2> QED BY <2>1, KeepsSelf
  <1>6. ASSUME NEW n \in Nat, n < m, n \in K PROVE n + 1 \in K
    <2>1. n + 1 \in 0..m /\ n + 1 # 0 /\ (n + 1) - 1 = n
      BY <1>2, <1>6
    <2>2. g[n + 1] = ParseStep(g[n])
      BY <1>4, <2>1 DEF Round
    <2>3. Good(g[n]) /\ Keeps(x, g[n]) /\ g[n].closing = x.closing
      BY <1>6
    <2>4. Keeps(g[n], ParseStep(g[n])) /\ ParseStep(g[n]).closing = g[n].closing
      BY <2>3, ParseStepKeeps
    <2>5. Keeps(x, ParseStep(g[n])) /\ Good(ParseStep(g[n]))
      BY <2>3, <2>4, KeepsTrans DEF Keeps, Gains
    <2> QED BY <2>2, <2>3, <2>4, <2>5
  <1>7. \A n \in 0..m : n \in K
    <2> HIDE DEF K
    <2> QED BY <1>2, <1>5, <1>6, UpTo
  <1>8. m \in K
    BY <1>2, <1>7
  <1> QED BY <1>1, <1>8

-----------------------------------------------------------------------------
(* What arrives. *)

\* Frames that the stream answers itself return their own byte.
Answered(p) == IF p.kind \in {"ping", "pong", "close"} THEN 1 ELSE 0
Heard(p) == IF p.kind = "update" THEN p.n ELSE 0
Carried(p) == IF p.kind \in {"envelope", "payload"} THEN 1 ELSE 0

\* One byte of DATA is answered by the stream or carried to the session.
LEMMA PieceKinds ==
    ASSUME NEW p \in Pieces
    PROVE  /\ Answered(p) \in Nat /\ Heard(p) \in Nat /\ Carried(p) \in Nat
           /\ (IF IsData(p) THEN 1 ELSE 0) = Answered(p) + Carried(p)
  BY DEF Pieces, Answered, Heard, Carried, IsData

\* One frame: an update widens the window, and a byte that the stream answers
\* is returned.
LEMMA FeedPieceGains ==
    ASSUME NEW x, Good(x), NEW p \in Pieces
    PROVE  LET y == FeedPiece(x, p)
           IN  /\ Gains(x, y, Heard(p), Answered(p))
               /\ y.closing = x.closing /\ y.terminal = x.terminal /\ y.owned = x.owned
  <1>1. DOMAIN x = Fields
    BY DEF Good, Typed
  <1>2. p.kind \in {"update", "accept", "refuse", "ping", "pong", "close", "envelope", "payload"}
        /\ p.n \in Nat
    BY DEF Pieces
  <1>3. CASE p.kind = "update"
    <2> DEFINE y == [x EXCEPT !.window = @ + p.n]
    <2>1. FeedPiece(x, p) = y
      BY <1>3 DEF FeedPiece
    <2>2. /\ DOMAIN y = Fields
          /\ y.queue = x.queue /\ y.ctl = x.ctl /\ y.writes = x.writes /\ y.wire = x.wire
          /\ y.input = x.input /\ y.records = x.records /\ y.window = x.window + p.n
          /\ y.consumed = x.consumed /\ y.owned = x.owned /\ y.returned = x.returned
          /\ y.held = x.held /\ y.opening = x.opening /\ y.terminal = x.terminal
          /\ y.closing = x.closing /\ y.receiving = x.receiving /\ y.sending = x.sending
          /\ y.tx = x.tx /\ y.rx = x.rx /\ y.why = x.why /\ y.next = x.next
      BY <1>1 DEF Fields
    <2> HIDE DEF y
    <2>3. /\ x.window \in Nat /\ DataPieces(x.wire) \in Nat /\ DataPieces(x.writes) \in Nat
          /\ Sendable(x) \in Nat /\ Retained(x) \in Nat /\ Share(x) \in Nat
      BY Measures DEF Good
    <2>4. x.window + p.n \in Nat
      BY <1>2, <2>3
    <2>5. Typed(y)
      BY <2>2, <2>4 DEF Good, Typed
    <2>6. Good(y)
      BY <2>2, <2>5 DEF Good, Asked, Covered, Solvent
    <2>7. Sendable(y) = Sendable(x) + p.n
      <3>1. /\ Sendable(y) = x.window + p.n + DataPieces(x.wire) + DataPieces(x.writes)
            /\ Sendable(x) = x.window + DataPieces(x.wire) + DataPieces(x.writes)
        BY <2>2 DEF Sendable
      <3> QED BY <1>2, <2>3, <3>1
    <2>8. Retained(y) = Retained(x) /\ Share(y) = Share(x)
      BY <2>2 DEF Retained, Share
    <2>9. Heard(p) = p.n /\ Answered(p) = 0
      BY <1>3 DEF Heard, Answered
    <2>10. Gains(x, y, p.n, 0)
      BY <1>2, <2>2, <2>3, <2>6, <2>7, <2>8 DEF Gains
    <2> QED BY <2>1, <2>2, <2>9, <2>10
  <1>4. CASE p.kind \in {"accept", "refuse"}
    <2> DEFINE y == FeedPiece(x, p)
    <2>1. y = [x EXCEPT !.active = TRUE] \/ y = [x EXCEPT !.refused = TRUE]
      BY <1>4 DEF FeedPiece
    <2> HIDE DEF y
    <2>2. Alike(x, y)
      BY <1>1, <2>1 DEF Fields, Alike
    <2>3. Heard(p) = 0 /\ Answered(p) = 0
      BY <1>4 DEF Heard, Answered
    <2>4. Gains(x, y, 0, 0)
      BY <2>2, AlikeKeeps DEF Keeps
    <2> QED BY <2>2, <2>3, <2>4 DEF Alike, y
  <1> DEFINE c == Consume(x, 1)
  <1>5. /\ Gains(x, c, 0, 1) /\ Good(c)
        /\ c.closing = x.closing /\ c.terminal = x.terminal /\ c.owned = x.owned
        /\ DOMAIN c = Fields
    <2>1. 1 \in Nat /\ Typed(x)
      BY DEF Good
    <2>2. Gains(x, c, 0, 1) /\ c.closing = x.closing /\ c.terminal = x.terminal
      BY <2>1, ConsumeGains
    <2>3. c.owned = x.owned /\ DOMAIN c = Fields
      BY <2>1, ConsumeFacts
    <2> HIDE DEF c
    <2> QED BY <2>2, <2>3 DEF Gains
  <1>6. CASE p.kind = "pong"
    <2>1. FeedPiece(x, p) = c
      BY <1>6 DEF FeedPiece
    <2>2. Heard(p) = 0 /\ Answered(p) = 1
      BY <1>6 DEF Heard, Answered
    <2> HIDE DEF c
    <2> QED BY <1>5, <2>1, <2>2
  <1>7. \A e \in {"ping", "pong", "close"} : <<Piece(e, 0)>> \in Seq(DataPiece)
    BY DEF Piece, DataPiece, Pieces, IsData
  <1>8. CASE p.kind = "ping"
    <2> DEFINE q == <<Piece("pong", 0)>>
    <2>1. FeedPiece(x, p) = QueueBytes(c, q)
      BY <1>8 DEF FeedPiece
    <2>2. Heard(p) = 0 /\ Answered(p) = 1
      BY <1>8 DEF Heard, Answered
    <2>3. q \in Seq(DataPiece)
      BY <1>7
    <2> HIDE DEF c, q
    <2>4. /\ Gains(c, QueueBytes(c, q), 0, 0) /\ QueueBytes(c, q).closing = c.closing
          /\ QueueBytes(c, q).terminal = c.terminal
      BY <1>5, <2>3, QueueKeeps DEF Keeps
    <2>5. QueueBytes(c, q).owned = c.owned
      BY <1>5 DEF QueueBytes, Fields
    <2>6. Gains(x, QueueBytes(c, q), 0 + 0, 1 + 0)
      BY <1>5, <2>4, GainsTrans
    <2> QED BY <1>5, <2>1, <2>2, <2>4, <2>5, <2>6
  <1>9. CASE p.kind = "close"
    <2> DEFINE q == <<Piece("close", 0)>>
               h == [c EXCEPT !.wsClosed = TRUE, !.pinged = TRUE]
               s == [h EXCEPT !.closeSent = TRUE]
    <2>1. FeedPiece(x, p) = IF x.closeSent THEN h ELSE QueueBytes(s, q)
      BY <1>9 DEF FeedPiece
    <2>2. Heard(p) = 0 /\ Answered(p) = 1
      BY <1>9 DEF Heard, Answered
    <2>3. q \in Seq(DataPiece)
      BY <1>7
    <2> HIDE DEF c, q
    <2>4. Alike(c, h) /\ Alike(c, s)
      BY <1>5 DEF Fields, Alike
    <2> HIDE DEF h, s
    <2>5. /\ Gains(c, h, 0, 0) /\ Gains(c, s, 0, 0) /\ Good(h) /\ Good(s)
      BY <1>5, <2>4, AlikeKeeps DEF Keeps, Gains
    <2>6. Gains(x, h, 0 + 0, 1 + 0) /\ Gains(x, s, 0 + 0, 1 + 0)
      BY <1>5, <2>5, GainsTrans
    <2>7. /\ Gains(s, QueueBytes(s, q), 0, 0) /\ QueueBytes(s, q).closing = s.closing
          /\ QueueBytes(s, q).terminal = s.terminal
      BY <2>3, <2>5, QueueKeeps DEF Keeps
    <2>8. QueueBytes(s, q).owned = s.owned
      BY <2>4 DEF QueueBytes, Fields, Alike
    <2>9. Gains(x, s, 0, 1) /\ Gains(x, h, 0, 1)
      BY <2>6
    <2>10. Gains(x, QueueBytes(s, q), 0 + 0, 1 + 0)
      BY <2>7, <2>9, GainsTrans
    <2>11. /\ h.closing = c.closing /\ h.terminal = c.terminal /\ h.owned = c.owned
           /\ s.closing = c.closing /\ s.terminal = c.terminal /\ s.owned = c.owned
      BY <2>4 DEF Alike
    <2>12. CASE x.closeSent
      BY <1>5, <2>1, <2>2, <2>9, <2>11, <2>12
    <2>13. CASE ~x.closeSent
      BY <1>5, <2>1, <2>2, <2>7, <2>8, <2>10, <2>11, <2>13
    <2> QED BY <2>12, <2>13
  <1>10. CASE p.kind \in {"envelope", "payload"}
    <2> DEFINE q == <<Piece("ping", 0)>>
               s == [x EXCEPT !.pinged = TRUE]
    <2>1. FeedPiece(x, p) = IF x.role = "server" /\ ~x.pinged THEN QueueBytes(s, q) ELSE x
      BY <1>10 DEF FeedPiece
    <2>2. Heard(p) = 0 /\ Answered(p) = 0
      BY <1>10 DEF Heard, Answered
    <2>3. q \in Seq(DataPiece)
      BY <1>7
    <2> HIDE DEF q
    <2>4. Alike(x, s)
      BY <1>1 DEF Fields, Alike
    <2> HIDE DEF s
    <2>5. Keeps(x, s) /\ Good(s)
      BY <2>4, AlikeKeeps DEF Keeps, Gains
    <2>6. /\ Keeps(s, QueueBytes(s, q)) /\ QueueBytes(s, q).closing = s.closing
          /\ QueueBytes(s, q).terminal = s.terminal
      BY <2>3, <2>5, QueueKeeps
    <2>7. QueueBytes(s, q).owned = s.owned
      BY <2>4 DEF QueueBytes, Fields, Alike
    <2>8. Gains(x, QueueBytes(s, q), 0, 0) /\ Gains(x, x, 0, 0)
      BY <2>5, <2>6, KeepsTrans, KeepsSelf DEF Keeps
    <2>9. CASE x.role = "server" /\ ~x.pinged
      BY <2>1, <2>2, <2>4, <2>6, <2>7, <2>8, <2>9 DEF Alike
    <2>10. CASE ~(x.role = "server" /\ ~x.pinged)
      BY <2>1, <2>2, <2>8, <2>10
    <2> QED BY <2>9, <2>10
  <1> QED BY <1>2, <1>3, <1>4, <1>6, <1>8, <1>9, <1>10

\* The states and the tunnel bytes after each frame.
FedBody(x, q, g, n) == IF n = 0 THEN x ELSE FeedPiece(g[n - 1], q[n])
IsFed(x, q, g, m) == g = [n \in 0..m |-> FedBody(x, q, g, n)]
KeptBody(q, g, n) ==
    IF n = 0 THEN <<>>
    ELSE IF q[n].kind \in {"envelope", "payload"} THEN Append(g[n - 1], q[n])
    ELSE g[n - 1]
IsKept(q, g, m) == g = [n \in 0..m |-> KeptBody(q, g, n)]

\* The states exist.
LEMMA FedExist ==
    ASSUME NEW x, NEW q, NEW m \in Nat
    PROVE  \E g : IsFed(x, q, g, m)
  <1> DEFINE K == {k \in Nat : \E g : IsFed(x, q, g, k)}
  <1>1. 0 \in K
    <2>1. IsFed(x, q, [i \in 0..0 |-> x], 0)
      BY DEF IsFed, FedBody
    <2> QED BY <2>1
  <1>2. ASSUME NEW k \in Nat, k \in K PROVE k + 1 \in K
    <2>1. PICK g : IsFed(x, q, g, k)
      BY <1>2
    <2> DEFINE h == [i \in 0..(k + 1) |-> IF i <= k THEN g[i] ELSE FedBody(x, q, g, i)]
    <2>2. \A i \in 0..k : g[i] = FedBody(x, q, g, i)
      BY <2>1 DEF IsFed
    <2>3. ASSUME NEW i \in 0..(k + 1) PROVE h[i] = FedBody(x, q, h, i)
      <3>1. h[i] = FedBody(x, q, g, i)
        BY <2>2
      <3>2. i # 0 => h[i - 1] = g[i - 1]
        OBVIOUS
      <3> HIDE DEF h
      <3> QED BY <3>1, <3>2 DEF FedBody
    <2>4. h = [i \in 0..(k + 1) |-> FedBody(x, q, h, i)]
      <3>1. h = [i \in 0..(k + 1) |-> h[i]]
        OBVIOUS
      <3> HIDE DEF h
      <3> QED BY <2>3, <3>1
    <2> HIDE DEF h
    <2> QED BY <2>4 DEF IsFed
  <1>3. Nat \subseteq K
    <2> HIDE DEF K
    <2> QED BY <1>1, <1>2, NatSetInduction
  <1> QED BY <1>3

\* The bytes exist.
LEMMA KeptExist ==
    ASSUME NEW q, NEW m \in Nat
    PROVE  \E g : IsKept(q, g, m)
  <1> DEFINE K == {k \in Nat : \E g : IsKept(q, g, k)}
  <1>1. 0 \in K
    <2>1. IsKept(q, [i \in 0..0 |-> <<>>], 0)
      BY DEF IsKept, KeptBody
    <2> QED BY <2>1
  <1>2. ASSUME NEW k \in Nat, k \in K PROVE k + 1 \in K
    <2>1. PICK g : IsKept(q, g, k)
      BY <1>2
    <2> DEFINE h == [i \in 0..(k + 1) |-> IF i <= k THEN g[i] ELSE KeptBody(q, g, i)]
    <2>2. \A i \in 0..k : g[i] = KeptBody(q, g, i)
      BY <2>1 DEF IsKept
    <2>3. ASSUME NEW i \in 0..(k + 1) PROVE h[i] = KeptBody(q, h, i)
      <3>1. h[i] = KeptBody(q, g, i)
        BY <2>2
      <3>2. i # 0 => h[i - 1] = g[i - 1]
        OBVIOUS
      <3> HIDE DEF h
      <3> QED BY <3>1, <3>2 DEF KeptBody
    <2>4. h = [i \in 0..(k + 1) |-> KeptBody(q, h, i)]
      <3>1. h = [i \in 0..(k + 1) |-> h[i]]
        OBVIOUS
      <3> HIDE DEF h
      <3> QED BY <2>3, <3>1
    <2> HIDE DEF h
    <2> QED BY <2>4 DEF IsKept
  <1>3. Nat \subseteq K
    <2> HIDE DEF K
    <2> QED BY <1>1, <1>2, NatSetInduction
  <1> QED BY <1>3

\* Everything a read brings: the updates widen the window, and what the stream
\* does not answer itself is carried to the session.
LEMMA FeedGains ==
    ASSUME NEW x, Good(x), NEW q \in Seq(Pieces)
    PROVE  LET y == Feed(x, q)
           IN  /\ Gains(x, y, CreditIn(q), DataIn(q) - Len(Tunnel(q)))
               /\ y.closing = x.closing /\ y.terminal = x.terminal /\ y.owned = x.owned
               /\ Tunnel(q) \in Seq(Pieces) /\ Len(Tunnel(q)) <= DataIn(q)
  <1> DEFINE m == Len(q)
             g == CHOOSE f : IsFed(x, q, f, m)
             h == CHOOSE f : IsKept(q, f, m)
             pre(n) == SubSeq(q, 1, n)
             P(n) == /\ Gains(x, g[n], CreditIn(pre(n)), DataIn(pre(n)) - Len(h[n]))
                     /\ g[n].closing = x.closing /\ g[n].terminal = x.terminal
                     /\ g[n].owned = x.owned
                     /\ h[n] \in Seq(Pieces) /\ Len(h[n]) <= DataIn(pre(n))
             K == {n \in Nat : P(n)}
  <1>1. Feed(x, q) = g[m] /\ Tunnel(q) = h[m]
    BY DEF Feed, Tunnel, IsFed, FedBody, IsKept, KeptBody
  <1>2. m \in Nat
    OBVIOUS
  <1>3. IsFed(x, q, g, m) /\ IsKept(q, h, m)
    BY <1>2, FedExist, KeptExist
  <1>4. \A n \in 0..m : g[n] = FedBody(x, q, g, n) /\ h[n] = KeptBody(q, h, n)
    <2> HIDE DEF g, h
    <2> QED BY <1>3 DEF IsFed, IsKept
  <1> HIDE DEF g, h
  <1>5. P(0)
    <2>1. g[0] = x /\ h[0] = <<>>
      BY <1>2, <1>4 DEF FedBody, KeptBody
    <2>2. pre(0) = <<>>
      BY SubSeqEmpty
    <2>3. CreditIn(<<>>) = 0 /\ DataIn(<<>>) = 0 /\ <<>> \in Seq(Pieces)
      <3>1. <<>> \in Seq(Pieces)
        OBVIOUS
      <3> QED BY <3>1, WriteNat
    <2>4. Gains(x, x, 0, 0)
      BY KeepsSelf DEF Keeps
    <2>5. Len(<<>>) = 0 /\ 0 - 0 = 0 /\ 0 <= 0
      OBVIOUS
    <2> QED BY <2>1, <2>2, <2>3, <2>4, <2>5
  <1>6. ASSUME NEW n \in Nat, n < m, P(n) PROVE P(n + 1)
    <2> DEFINE p == q[n + 1]
               r == pre(n)
    <2>1. /\ n + 1 \in 1..m /\ n + 1 \in 0..m /\ n + 1 # 0 /\ (n + 1) - 1 = n
          /\ n \in 0..m
      BY <1>2, <1>6
    <2>2. p \in Pieces
      BY <2>1
    <2>3. r \in Seq(Pieces) /\ pre(n + 1) = Append(r, p)
      <3>1. r \in Seq(Pieces)
        BY <2>1, SubSeqProperties
      <3>2. pre(n + 1) = SubSeq(q, 1, (n + 1) - 1) \o <<p>>
        <4>1. 1 \in 1..m /\ n + 1 \in 1..m
          BY <1>2, <2>1
        <4> QED BY <4>1, SubSeqRecursiveSecond
      <3>3. r \o <<p>> = Append(r, p)
        BY <2>2, <3>1, AppendIsConcat
      <3> QED BY <2>1, <3>1, <3>2, <3>3
    <2> DEFINE w == pre(n + 1)
    <2> HIDE DEF r
    <2>4. /\ CreditIn(w) = CreditIn(r) + Heard(p)
          /\ DataIn(w) = DataIn(r) + (Answered(p) + Carried(p))
          /\ CreditIn(r) \in Nat /\ DataIn(r) \in Nat
      BY <2>2, <2>3, WriteAppend, WriteNat, PieceKinds DEF Heard
    <2> HIDE DEF w
    <2>5. g[n + 1] = FeedPiece(g[n], p)
      BY <1>4, <2>1 DEF FedBody
    <2>6. h[n + 1] = IF Carried(p) = 1 THEN Append(h[n], p) ELSE h[n]
      BY <1>4, <2>1 DEF KeptBody, Carried
    <2> HIDE DEF p
    <2>7. /\ h[n] \in Seq(Pieces) /\ Len(h[n]) <= DataIn(r) /\ Len(h[n]) \in Nat
          /\ Gains(x, g[n], CreditIn(r), DataIn(r) - Len(h[n])) /\ Good(g[n])
          /\ g[n].closing = x.closing /\ g[n].terminal = x.terminal
          /\ g[n].owned = x.owned
      BY <1>6 DEF r, Gains
    <2>8. /\ h[n + 1] \in Seq(Pieces) /\ Len(h[n + 1]) = Len(h[n]) + Carried(p)
      <3>1. Carried(p) \in {0, 1}
        BY DEF Carried
      <3> QED BY <2>2, <2>6, <2>7, <3>1
    <2>9. /\ Gains(g[n], FeedPiece(g[n], p), Heard(p), Answered(p))
          /\ FeedPiece(g[n], p).closing = g[n].closing
          /\ FeedPiece(g[n], p).terminal = g[n].terminal
          /\ FeedPiece(g[n], p).owned = g[n].owned
      BY <2>2, <2>7, FeedPieceGains
    <2>10. Answered(p) \in Nat /\ Heard(p) \in Nat /\ Carried(p) \in Nat
      BY <2>2, PieceKinds
    <2> DEFINE d == DataIn(r) - Len(h[n])
    <2>11. /\ d \in Int /\ d + Answered(p) = DataIn(w) - Len(h[n + 1])
           /\ Len(h[n + 1]) <= DataIn(w)
      <3>1. \A a, b, c, e \in Nat : /\ b <= a => b + e <= a + (c + e)
                                    /\ (a - b) + c = (a + (c + e)) - (b + e)
        OBVIOUS
      <3>2. d \in Int
        BY <2>4, <2>7
      <3> QED BY SMTT(30), <2>4, <2>7, <2>8, <2>10, <3>1, <3>2
    <2>12. Gains(x, g[n], CreditIn(r), d)
      BY <2>7
    <2> HIDE DEF d
    <2>13. CreditIn(r) \in Int /\ Heard(p) \in Int /\ Answered(p) \in Int
      BY <2>4, <2>10
    <2>14. Gains(x, FeedPiece(g[n], p), CreditIn(r) + Heard(p), d + Answered(p))
      BY <2>9, <2>11, <2>12, <2>13, GainsTrans
    <2>15. Gains(x, g[n + 1], CreditIn(w), DataIn(w) - Len(h[n + 1]))
      BY <2>4, <2>5, <2>11, <2>14
    <2> QED BY <2>5, <2>7, <2>8, <2>9, <2>11, <2>15 DEF w
  <1>7. \A n \in 0..m : n \in K
    <2>1. 0 \in K /\ \A n \in Nat : n < m /\ n \in K => n + 1 \in K
      <3> HIDE DEF P
      <3> QED BY <1>5, <1>6
    <2> HIDE DEF K
    <2> QED BY <1>2, <2>1, UpTo
  <1>8. P(m)
    <2> HIDE DEF P
    <2> QED BY <1>2, <1>7
  <1>9. pre(m) = q
    BY SubSeqFull
  <1> QED BY <1>1, <1>8, <1>9

\* drain_tunnel_bytes takes what the window admits, and no check fails.
LEMMA DrainGains ==
    ASSUME NEW x, Good(x), NEW bytes \in Seq(Pieces), x.owned + Len(bytes) <= Window
    PROVE  Gains(x, DrainTunnelBytes(x, bytes), 0, Len(bytes))
  <1>1. /\ DOMAIN x = Fields /\ x.owned \in Nat /\ Len(bytes) \in Nat /\ Window \in Nat
        /\ x.input \in Seq(Pieces) /\ x.returned \in Nat /\ x.held \in Nat
        /\ x.records \in Seq(Nat)
    BY Limits DEF Good, Typed
  <1>2. CASE bytes = <<>>
    <2>1. DrainTunnelBytes(x, bytes) = x /\ Len(bytes) = 0
      BY <1>2 DEF DrainTunnelBytes
    <2> QED BY <2>1, KeepsSelf DEF Keeps
  <1>3. CASE bytes # <<>> /\ x.closing
    <2>1. DrainTunnelBytes(x, bytes) = Consume(x, Len(bytes))
      BY <1>3 DEF DrainTunnelBytes
    <2> QED BY <1>1, <2>1, ConsumeGains
  <1>4. CASE bytes # <<>> /\ ~x.closing
    <2> DEFINE z == [x EXCEPT !.input = @ \o bytes, !.owned = @ + Len(bytes)]
    <2>1. DrainTunnelBytes(x, bytes) = ParseRecords(z)
      <3>1. ~(Len(bytes) > Window - x.owned)
        BY <1>1
      <3> QED BY <1>4, <3>1 DEF DrainTunnelBytes, MaxRetained
    <2>2. /\ DOMAIN z = Fields
          /\ z.queue = x.queue /\ z.ctl = x.ctl /\ z.writes = x.writes /\ z.wire = x.wire
          /\ z.input = x.input \o bytes /\ z.records = x.records /\ z.window = x.window
          /\ z.consumed = x.consumed /\ z.owned = x.owned + Len(bytes)
          /\ z.returned = x.returned
          /\ z.held = x.held /\ z.opening = x.opening /\ z.terminal = x.terminal
          /\ z.closing = x.closing /\ z.receiving = x.receiving /\ z.sending = x.sending
          /\ z.tx = x.tx /\ z.rx = x.rx /\ z.why = x.why /\ z.next = x.next
      BY <1>1 DEF Fields
    <2> HIDE DEF z
    <2>3. /\ x.input \o bytes \in Seq(Pieces) /\ Len(x.input) \in Nat
          /\ Len(x.input \o bytes) = Len(x.input) + Len(bytes)
      BY <1>1, ConcatProperties
    <2>4. x.owned + Len(bytes) \in 0..Window
      BY <1>1
    <2>5. Typed(z)
      BY <2>2, <2>3, <2>4 DEF Good, Typed
    <2>6. Covered(z)
      <3> DEFINE k == RecordBytes * (Len(x.records) + x.held)
      <3>1. k \in Nat
        <4>1. Len(x.records) \in Nat
          BY <1>1
        <4> QED BY <1>1, <4>1, Products
      <3>2. ~x.terminal => x.owned >= Len(x.input) + k + x.returned
        BY <1>4 DEF Good, Covered
      <3> HIDE DEF k
      <3>3. \A o, l, b, t \in Nat : o >= l + k + t => o + b >= (l + b) + k + t
        BY <3>1
      <3>4. ~x.terminal => x.owned + Len(bytes) >= (Len(x.input) + Len(bytes)) + k + x.returned
        BY <1>1, <2>3, <3>2, <3>3
      <3> QED BY <2>2, <2>3, <3>4 DEF Covered, k
    <2>7. Good(z)
      BY <2>2, <2>5, <2>6 DEF Good, Asked, Solvent
    <2>8. Gains(x, z, 0, Len(bytes))
      <3>1. /\ x.consumed \in Nat /\ CreditIn(x.ctl) \in Nat
            /\ Announced(x.wire) \in Nat /\ Announced(x.writes) \in Nat
            /\ Sendable(x) \in Nat /\ Share(x) \in Nat /\ Retained(x) \in Nat
        BY Measures DEF Good
      <3>2. /\ Retained(z) = (x.owned + Len(bytes)) + x.consumed + CreditIn(x.ctl)
                              + Announced(x.wire) + Announced(x.writes)
            /\ Retained(x) = x.owned + x.consumed + CreditIn(x.ctl) + Announced(x.wire)
                              + Announced(x.writes)
        BY <2>2 DEF Retained
      <3>3. Sendable(z) = Sendable(x) /\ Share(z) = Share(x)
        BY <2>2 DEF Sendable, Share
      <3>4. Retained(z) = Retained(x) + Len(bytes)
        <4>1. x.owned \in Nat /\ Len(bytes) \in Nat
          BY <1>1
        <4>2. PICK b \in Nat : b = Len(bytes)
          BY <4>1
        <4>3. Retained(z) = (x.owned + b) + x.consumed + CreditIn(x.ctl)
                              + Announced(x.wire) + Announced(x.writes)
          BY <3>2, <4>2
        <4>4. Retained(x) = x.owned + x.consumed + CreditIn(x.ctl) + Announced(x.wire)
                              + Announced(x.writes)
          BY <3>2
        <4>5. /\ x.consumed \in Nat /\ CreditIn(x.ctl) \in Nat
              /\ Announced(x.wire) \in Nat /\ Announced(x.writes) \in Nat
          BY <3>1
        <4>6. x.owned \in Nat
          BY <4>1
        <4>7. Retained(z) = Retained(x) + b
          BY SMTT(30), <4>3, <4>4, <4>5, <4>6
        <4> QED BY <4>2, <4>7
      <3> QED BY SMTT(30), <1>1, <2>2, <2>7, <3>1, <3>3, <3>4 DEF Gains
    <2>9. Gains(z, ParseRecords(z), 0, 0)
      BY <1>4, <2>2, <2>7, ParseKeeps DEF Keeps
    <2>10. Gains(x, ParseRecords(z), 0 + 0, Len(bytes) + 0)
      BY <1>1, <2>8, <2>9, GainsTrans
    <2>11. Len(bytes) + 0 = Len(bytes)
      BY <1>1
    <2> QED BY <2>1, <2>10, <2>11
  <1> QED BY <1>2, <1>3, <1>4

-----------------------------------------------------------------------------
(* Bytes out, and the pump. *)

\* What leaves the queue has paid for itself with window, and what was to be
\* announced is in the write.
LEMMA CollectKeeps ==
    ASSUME NEW x, Good(x)
    PROVE  /\ Keeps(x, CollectOutput(x)) /\ CollectOutput(x).closing = x.closing
           /\ CollectOutput(x).terminal = x.terminal
  <1> DEFINE n == IF x.window < Len(x.queue) THEN x.window ELSE Len(x.queue)
             first == SubSeq(x.queue, 1, n)
             rest == SubSeq(x.queue, n + 1, Len(x.queue))
             write == x.ctl \o first
  <1>1. CASE x.terminal \/ write = <<>>
    <2>1. CollectOutput(x) = x
      BY <1>1 DEF CollectOutput
    <2> QED BY <2>1, KeepsSelf
  <1>2. CASE ~(x.terminal \/ write = <<>>)
    <2> DEFINE y == [x EXCEPT !.ctl = <<>>, !.queue = SubSeq(@, n + 1, Len(@)),
                              !.window = @ - n, !.writes = Append(@, write)]
    <2>1. CollectOutput(x) = y
      BY <1>2 DEF CollectOutput
    <2>2. /\ DOMAIN x = Fields /\ x.queue \in Seq(DataPiece) /\ x.ctl \in Seq(Returns)
          /\ x.writes \in Seq(Seq(Pieces)) /\ x.window \in Nat
      BY DEF Good, Typed
    <2>3. n \in Nat /\ n <= x.window /\ n <= Len(x.queue) /\ Len(x.queue) \in Nat
      BY <2>2
    <2>4. /\ DOMAIN y = Fields
          /\ y.queue = rest /\ y.ctl = <<>> /\ y.writes = Append(x.writes, write)
          /\ y.wire = x.wire
          /\ y.input = x.input /\ y.records = x.records /\ y.window = x.window - n
          /\ y.consumed = x.consumed /\ y.owned = x.owned /\ y.returned = x.returned
          /\ y.held = x.held /\ y.opening = x.opening /\ y.terminal = x.terminal
          /\ y.closing = x.closing /\ y.receiving = x.receiving /\ y.sending = x.sending
          /\ y.tx = x.tx /\ y.rx = x.rx /\ y.why = x.why /\ y.next = x.next
      <3> HIDE DEF n, write
      <3> QED BY ZenonT(60), <2>2 DEF Fields
    <2> HIDE DEF n, y
    <2>5. first \in Seq(DataPiece) /\ Len(first) = n
      <3>1. 1 \in 1..(Len(x.queue) + 1) /\ n \in 0..Len(x.queue)
        BY <2>3
      <3>2. /\ first \in Seq(DataPiece)
            /\ Len(first) = IF 1 <= n THEN n - 1 + 1 ELSE 0
        BY <2>2, <3>1, SubSeqProperties
      <3> QED BY <2>3, <3>2
    <2>6. rest \in Seq(DataPiece)
      <3>1. n + 1 \in 1..(Len(x.queue) + 1) /\ Len(x.queue) \in n..Len(x.queue)
        BY <2>3
      <3> QED BY <2>2, <2>3, <3>1, SubSeqProperties
    <2> HIDE DEF first, rest
    <2>7. /\ first \in Seq(Pieces) /\ DataIn(first) = n /\ CreditIn(first) = 0
      BY <2>5, AllData
    <2>8. x.ctl \in Seq(Pieces) /\ DataIn(x.ctl) = 0 /\ CreditIn(x.ctl) \in Nat
      BY <2>2, AllReturns, WriteNat
    <2>9. write \in Seq(Pieces) /\ DataIn(write) = n /\ CreditIn(write) = CreditIn(x.ctl)
      <3>1. /\ write \in Seq(Pieces) /\ DataIn(write) = DataIn(x.ctl) + DataIn(first)
            /\ CreditIn(write) = CreditIn(x.ctl) + CreditIn(first)
        BY <2>7, <2>8, WriteConcat
      <3> QED BY <2>3, <2>7, <2>8, <3>1
    <2> HIDE DEF write
    <2>10. /\ Append(x.writes, write) \in Seq(Seq(Pieces))
           /\ DataPieces(Append(x.writes, write)) = DataPieces(x.writes) + n
           /\ Announced(Append(x.writes, write)) = Announced(x.writes) + CreditIn(x.ctl)
      BY <2>2, <2>9, WritesAppend
    <2>11. Typed(y)
      <3>1. x.window - n \in Nat /\ <<>> \in Seq(Returns)
        BY <2>2, <2>3
      <3> QED BY <2>4, <2>6, <2>10, <3>1 DEF Good, Typed
    <2>12. Good(y)
      BY <2>4, <2>11 DEF Good, Asked, Covered, Solvent
    <2>13. /\ x.window \in Nat /\ DataPieces(x.wire) \in Nat /\ DataPieces(x.writes) \in Nat
           /\ x.owned \in Nat /\ x.consumed \in Nat /\ CreditIn(x.ctl) \in Nat
           /\ Announced(x.wire) \in Nat /\ Announced(x.writes) \in Nat
           /\ Sendable(x) \in Nat /\ Retained(x) \in Nat /\ Share(x) \in Nat
      BY Measures DEF Good
    <2>14. Sendable(y) = Sendable(x)
      <3>1. /\ Sendable(y) = (x.window - n) + DataPieces(x.wire) + (DataPieces(x.writes) + n)
            /\ Sendable(x) = x.window + DataPieces(x.wire) + DataPieces(x.writes)
        BY <2>4, <2>10 DEF Sendable
      <3>2. /\ x.window \in Nat /\ DataPieces(x.wire) \in Nat /\ DataPieces(x.writes) \in Nat
            /\ n \in Nat
        BY <2>3, <2>13
      <3> QED BY <3>1, <3>2
    <2>15. Retained(y) = Retained(x)
      <3>1. CreditIn(<<>>) = 0
        <4>1. <<>> \in Seq(Pieces)
          OBVIOUS
        <4> QED BY <4>1, WriteNat
      <3>2. /\ Retained(y) = x.owned + x.consumed + 0 + Announced(x.wire)
                              + (Announced(x.writes) + CreditIn(x.ctl))
            /\ Retained(x) = x.owned + x.consumed + CreditIn(x.ctl) + Announced(x.wire)
                              + Announced(x.writes)
        BY <2>4, <2>10, <3>1 DEF Retained
      <3>3. \A a, b, c, d, e \in Nat : a + b + 0 + d + (e + c) = a + b + c + d + e
        OBVIOUS
      <3> QED BY <2>13, <3>2, <3>3
    <2>16. Share(y) = Share(x)
      BY <2>4 DEF Share
    <2>17. Keeps(x, y)
      BY <2>4, <2>12, <2>13, <2>14, <2>15, <2>16 DEF Keeps, Gains
    <2> QED BY <2>1, <2>4, <2>17
  <1> QED BY <1>1, <1>2

\* A write moves to the channel as it is.
LEMMA StartWriteKeeps ==
    ASSUME NEW x, Good(x)
    PROVE  /\ Keeps(x, StartWrite(x)) /\ StartWrite(x).closing = x.closing
           /\ StartWrite(x).terminal = x.terminal
  <1>1. CASE x.terminal \/ x.writing \/ x.writes = <<>>
    <2>1. StartWrite(x) = x
      BY <1>1 DEF StartWrite
    <2> QED BY <2>1, KeepsSelf
  <1>2. CASE ~(x.terminal \/ x.writing \/ x.writes = <<>>)
    <2> DEFINE w == Head(x.writes)
               y == [x EXCEPT !.writing = TRUE, !.wire = Append(@, Head(x.writes)),
                              !.writes = Tail(@)]
    <2>1. StartWrite(x) = y
      BY <1>2 DEF StartWrite
    <2>2. /\ DOMAIN x = Fields /\ x.writes \in Seq(Seq(Pieces)) /\ x.wire \in Seq(Seq(Pieces))
      BY DEF Good, Typed
    <2>3. /\ DOMAIN y = Fields
          /\ y.queue = x.queue /\ y.ctl = x.ctl /\ y.writes = Tail(x.writes)
          /\ y.wire = Append(x.wire, w)
          /\ y.input = x.input /\ y.records = x.records /\ y.window = x.window
          /\ y.consumed = x.consumed /\ y.owned = x.owned /\ y.returned = x.returned
          /\ y.held = x.held /\ y.opening = x.opening /\ y.terminal = x.terminal
          /\ y.closing = x.closing /\ y.receiving = x.receiving /\ y.sending = x.sending
          /\ y.tx = x.tx /\ y.rx = x.rx /\ y.why = x.why /\ y.next = x.next
      BY <2>2 DEF Fields
    <2> HIDE DEF y
    <2>4. /\ Tail(x.writes) \in Seq(Seq(Pieces)) /\ w \in Seq(Pieces)
          /\ DataPieces(x.writes) = DataIn(w) + DataPieces(Tail(x.writes))
          /\ Announced(x.writes) = CreditIn(w) + Announced(Tail(x.writes))
      BY <1>2, <2>2, WritesTail
    <2> HIDE DEF w
    <2>5. /\ Append(x.wire, w) \in Seq(Seq(Pieces))
          /\ DataPieces(Append(x.wire, w)) = DataPieces(x.wire) + DataIn(w)
          /\ Announced(Append(x.wire, w)) = Announced(x.wire) + CreditIn(w)
      BY <2>2, <2>4, WritesAppend
    <2>6. Typed(y)
      BY <2>3, <2>4, <2>5 DEF Good, Typed
    <2>7. Good(y)
      BY <2>3, <2>6 DEF Good, Asked, Covered, Solvent
    <2>8. /\ x.window \in Nat /\ DataPieces(x.wire) \in Nat
          /\ x.owned \in Nat /\ x.consumed \in Nat /\ CreditIn(x.ctl) \in Nat
          /\ Announced(x.wire) \in Nat
          /\ Sendable(x) \in Nat /\ Retained(x) \in Nat /\ Share(x) \in Nat
      BY Measures DEF Good
    <2>9. /\ DataIn(w) \in Nat /\ CreditIn(w) \in Nat /\ DataPieces(Tail(x.writes)) \in Nat
          /\ Announced(Tail(x.writes)) \in Nat
      BY <2>4, WriteNat, WritesNat
    <2>10. Sendable(y) = Sendable(x)
      <3>1. /\ Sendable(y) = x.window + (DataPieces(x.wire) + DataIn(w)) + DataPieces(Tail(x.writes))
            /\ Sendable(x) = x.window + DataPieces(x.wire) + (DataIn(w) + DataPieces(Tail(x.writes)))
        BY <2>3, <2>4, <2>5 DEF Sendable
      <3>2. \A a, b, c, d \in Nat : a + (b + c) + d = a + b + (c + d)
        OBVIOUS
      <3> QED BY <2>8, <2>9, <3>1, <3>2
    <2>11. Retained(y) = Retained(x)
      <3>1. /\ Retained(y) = x.owned + x.consumed + CreditIn(x.ctl)
                              + (Announced(x.wire) + CreditIn(w)) + Announced(Tail(x.writes))
            /\ Retained(x) = x.owned + x.consumed + CreditIn(x.ctl)
                              + Announced(x.wire) + (CreditIn(w) + Announced(Tail(x.writes)))
        BY <2>3, <2>4, <2>5 DEF Retained
      <3>2. \A a, b, c, d, e, f \in Nat : a + b + c + (d + e) + f = a + b + c + d + (e + f)
        OBVIOUS
      <3> QED BY <2>8, <2>9, <3>1, <3>2
    <2>12. Share(y) = Share(x)
      BY <2>3 DEF Share
    <2>13. Keeps(x, y)
      BY <2>3, <2>7, <2>8, <2>10, <2>11, <2>12 DEF Keeps, Gains
    <2> QED BY <2>1, <2>3, <2>13
  <1> QED BY <1>1, <1>2

\* A send completes once.
LEMMA CompleteSendKeeps ==
    ASSUME NEW x, Good(x)
    PROVE  /\ Keeps(x, MaybeCompleteSend(x)) /\ MaybeCompleteSend(x).closing = x.closing
           /\ MaybeCompleteSend(x).terminal = x.terminal
  <1>1. CASE x.sending /\ ~x.terminal /\ Flushed(x)
    <2> DEFINE y == [x EXCEPT !.sent = @ + 1]
    <2>1. MaybeCompleteSend(x) = SettleSend(y, "idle")
      BY <1>1 DEF MaybeCompleteSend
    <2>2. DOMAIN x = Fields
      BY DEF Good, Typed
    <2>3. Alike(x, y)
      BY <2>2 DEF Fields, Alike
    <2> HIDE DEF y
    <2>4. Keeps(x, y) /\ Good(y)
      BY <2>3, AlikeKeeps DEF Keeps, Gains
    <2>5. /\ Keeps(y, SettleSend(y, "idle")) /\ SettleSend(y, "idle").closing = y.closing
          /\ SettleSend(y, "idle").terminal = y.terminal
      BY <2>4, SettleSendKeeps
    <2>6. Keeps(x, SettleSend(y, "idle"))
      BY <2>4, <2>5, KeepsTrans
    <2> QED BY <2>1, <2>3, <2>5, <2>6 DEF Alike
  <1>2. CASE ~(x.sending /\ ~x.terminal /\ Flushed(x))
    BY <1>2, KeepsSelf DEF MaybeCompleteSend
  <1> QED BY <1>1, <1>2

\* A read that starts changes no ledger.
LEMMA StartReadKeeps ==
    ASSUME NEW x, Good(x)
    PROVE  /\ Keeps(x, StartRead(x)) /\ StartRead(x).closing = x.closing
           /\ StartRead(x).terminal = x.terminal
  <1>1. DOMAIN x = Fields
    BY DEF Good, Typed
  <1>2. Alike(x, StartRead(x))
    BY <1>1 DEF StartRead, Fields, Alike
  <1>3. Keeps(x, StartRead(x))
    BY <1>2, AlikeKeeps
  <1> QED BY <1>2, <1>3 DEF Alike

\* Neither does the pump.
LEMMA PumpKeeps ==
    ASSUME NEW x, Good(x)
    PROVE  Keeps(x, Pump(x))
  <1>1. CASE x.terminal
    BY <1>1, KeepsSelf DEF Pump
  <1>2. CASE ~x.terminal
    <2> DEFINE p == IF x.closing THEN x ELSE ParseRecords(x)
               c == CollectOutput(p)
               d == MaybeDeliver(c)
               w == StartWrite(d)
               m == MaybeCompleteSend(w)
               r == StartRead(m)
               f == MaybeFinishGracefulClose(r)
    <2>1. Pump(x) = IF c.terminal THEN c ELSE f
      BY <1>2 DEF Pump
    <2>2. Keeps(x, p) /\ Good(p)
      BY KeepsSelf, ParseKeeps DEF Keeps, Gains
    <2> HIDE DEF p
    <2>3. Keeps(p, c) /\ Good(c)
      BY <2>2, CollectKeeps DEF Keeps, Gains
    <2>4. Keeps(x, c)
      BY <2>2, <2>3, KeepsTrans
    <2> HIDE DEF c
    <2>5. Keeps(c, d) /\ Good(d)
      BY <2>3, DeliverKeeps DEF Keeps, Gains
    <2>6. Keeps(x, d)
      BY <2>4, <2>5, KeepsTrans
    <2> HIDE DEF d
    <2>7. Keeps(d, w) /\ Good(w)
      BY <2>5, StartWriteKeeps DEF Keeps, Gains
    <2>8. Keeps(x, w)
      BY <2>6, <2>7, KeepsTrans
    <2> HIDE DEF w
    <2>9. Keeps(w, m) /\ Good(m)
      BY <2>7, CompleteSendKeeps DEF Keeps, Gains
    <2>10. Keeps(x, m)
      BY <2>8, <2>9, KeepsTrans
    <2> HIDE DEF m
    <2>11. Keeps(m, r) /\ Good(r)
      BY <2>9, StartReadKeeps DEF Keeps, Gains
    <2>12. Keeps(x, r)
      BY <2>10, <2>11, KeepsTrans
    <2> HIDE DEF r
    <2>13. Keeps(r, f)
      <3>1. f = r \/ f = FinishGracefulClose(r, TRUE)
        BY DEF MaybeFinishGracefulClose
      <3> QED BY <2>11, <3>1, KeepsSelf, FinishKeeps
    <2>14. Keeps(x, f)
      BY <2>12, <2>13, KeepsTrans
    <2> HIDE DEF f
    <2> QED BY <2>1, <2>4, <2>14
  <1> QED BY <1>1, <1>2

-----------------------------------------------------------------------------
(* The close. *)

\* The peer's close settles what is pending and returns nothing.
LEMMA PeerCloseKeeps ==
    ASSUME NEW x, Good(x)
    PROVE  Keeps(x, HandlePeerClose(x))
  <1> DEFINE m == [x EXCEPT !.peerClosed = TRUE]
  <1>1. DOMAIN x = Fields
    BY DEF Good, Typed
  <1>2. Alike(x, m)
    BY <1>1 DEF Fields, Alike
  <1>3. CASE x.terminal \/ x.peerClosed
    BY <1>3, KeepsSelf DEF HandlePeerClose
  <1>4. CASE ~(x.terminal \/ x.peerClosed) /\ x.closing
    <2>1. HandlePeerClose(x) = Pump(m)
      BY <1>4 DEF HandlePeerClose
    <2> HIDE DEF m
    <2>2. Keeps(x, m) /\ Good(m)
      BY <1>2, AlikeKeeps DEF Keeps, Gains
    <2> QED BY <2>1, <2>2, PumpKeeps, KeepsTrans
  <1>5. CASE ~(x.terminal \/ x.peerClosed) /\ ~x.closing /\ (x.expected \/ x.input # <<>>)
    <2>1. HandlePeerClose(x) = Fail(x, "truncated")
      BY <1>5 DEF HandlePeerClose
    <2> QED BY <2>1, FailKeeps
  <1>6. CASE ~(x.terminal \/ x.peerClosed) /\ ~x.closing /\ ~(x.expected \/ x.input # <<>>)
    <2> DEFINE s == SettleSend(m, "closed")
               h == MaybeDeliver(s)
               r == SettleReceive(h, "closed")
    <2>1. HandlePeerClose(x) = Pump(IF h.records = <<>> THEN r ELSE h)
      BY <1>6 DEF HandlePeerClose
    <2> HIDE DEF m
    <2>2. Keeps(x, m) /\ Good(m)
      BY <1>2, AlikeKeeps DEF Keeps, Gains
    <2>3. Keeps(m, s) /\ Good(s)
      BY <2>2, SettleSendKeeps DEF Keeps, Gains
    <2> HIDE DEF s
    <2>4. Keeps(s, h) /\ Good(h)
      BY <2>3, DeliverKeeps DEF Keeps, Gains
    <2> HIDE DEF h
    <2>5. Keeps(h, r) /\ Good(r)
      BY <2>4, SettleReceiveKeeps DEF Keeps, Gains
    <2> HIDE DEF r
    <2>6. Keeps(x, s)
      BY <2>2, <2>3, KeepsTrans
    <2>7. Keeps(x, h)
      BY <2>3, <2>4, <2>6, KeepsTrans
    <2>8. Keeps(x, r)
      BY <2>4, <2>5, <2>7, KeepsTrans
    <2>9. Keeps(x, Pump(r)) /\ Keeps(x, Pump(h))
      BY <2>4, <2>5, <2>7, <2>8, PumpKeeps, KeepsTrans
    <2> QED BY <2>1, <2>9
  <1> QED BY <1>3, <1>4, <1>5, <1>6

\* begin_graceful_close returns all the credit the end still owns.
LEMMA GracefulCloseKeeps ==
    ASSUME NEW x, Good(x), ~x.terminal
    PROVE  Keeps(x, BeginGracefulClose(x))
  <1> DEFINE initiate == x.role = "client" /\ ~x.peerClosed
             b == [x EXCEPT !.closing = TRUE, !.initiated = initiate,
                            !.records = <<>>, !.input = <<>>, !.expected = FALSE]
             r == SettleReceive(b, "closed")
             s == SettleSend(r, "closed")
             c == Consume(s, s.owned)
             t == [c EXCEPT !.owned = 0]
             a == [t EXCEPT !.deadline = TRUE]
             k == [a EXCEPT !.closeSent = TRUE]
             q == <<Piece("close", 0)>>
  <1>1. BeginGracefulClose(x) = Pump(IF initiate THEN QueueBytes(k, q) ELSE a)
    BY DEF BeginGracefulClose
  <1>2. DOMAIN x = Fields
    BY DEF Good, Typed
  <1> HIDE DEF initiate
  <1>3. /\ DOMAIN b = Fields
        /\ b.queue = x.queue /\ b.ctl = x.ctl /\ b.writes = x.writes /\ b.wire = x.wire
        /\ b.input = <<>> /\ b.records = <<>> /\ b.window = x.window
        /\ b.consumed = x.consumed /\ b.owned = x.owned /\ b.returned = x.returned
        /\ b.held = x.held /\ b.opening = x.opening /\ b.terminal = x.terminal
        /\ b.closing = TRUE /\ b.receiving = x.receiving /\ b.sending = x.sending
        /\ b.tx = x.tx /\ b.rx = x.rx /\ b.why = x.why /\ b.next = x.next
    BY <1>2 DEF Fields
  <1> HIDE DEF b
  <1>4. Typed(b)
    <2>1. <<>> \in Seq(Nat) /\ <<>> \in Seq(Pieces) /\ TRUE \in BOOLEAN
      OBVIOUS
    <2> QED BY <1>3, <2>1 DEF Good, Typed
  <1>5. Good(b)
    BY <1>3, <1>4 DEF Good, Asked, Covered, Solvent
  <1>6. Keeps(x, b)
    BY <1>3, <1>5, SameLedger
  <1>7. Keeps(b, r) /\ Good(r) /\ r.closing = b.closing /\ r.terminal = b.terminal
    BY <1>5, SettleReceiveKeeps DEF Keeps, Gains
  <1> HIDE DEF r
  <1>8. Keeps(r, s) /\ Good(s) /\ s.closing = r.closing /\ s.terminal = r.terminal
    BY <1>7, SettleSendKeeps DEF Keeps, Gains
  <1> HIDE DEF s
  <1>9. Keeps(x, r)
    BY <1>5, <1>6, <1>7, KeepsTrans
  <1>10. Keeps(x, s)
    BY <1>7, <1>8, <1>9, KeepsTrans
  <1>11. s.owned \in Nat /\ Typed(s)
    BY <1>8, Measures DEF Good
  <1>12. /\ Gains(s, c, 0, s.owned) /\ Good(c) /\ c.closing = s.closing
         /\ c.terminal = s.terminal
    BY <1>8, <1>11, ConsumeGains DEF Gains
  <1>13. c.owned = s.owned
    BY <1>11, ConsumeFacts
  <1> HIDE DEF c
  <1>14. /\ DOMAIN t = Fields
         /\ t.queue = c.queue /\ t.ctl = c.ctl /\ t.writes = c.writes /\ t.wire = c.wire
         /\ t.input = c.input /\ t.records = c.records /\ t.window = c.window
         /\ t.consumed = c.consumed /\ t.owned = 0 /\ t.returned = c.returned
         /\ t.held = c.held /\ t.opening = c.opening /\ t.terminal = c.terminal
         /\ t.closing = c.closing /\ t.receiving = c.receiving /\ t.sending = c.sending
         /\ t.tx = c.tx /\ t.rx = c.rx /\ t.why = c.why /\ t.next = c.next
    <2>1. DOMAIN c = Fields
      BY <1>12 DEF Good, Typed
    <2> QED BY <2>1 DEF Fields
  <1> HIDE DEF t
  <1>15. t.closing = TRUE
    BY <1>3, <1>7, <1>8, <1>12, <1>14
  <1>16. Good(t)
    <2>1. 0 \in 0..Window
      BY Limits
    <2>2. Typed(t)
      BY <1>12, <1>14, <2>1 DEF Good, Typed
    <2> QED BY <1>12, <1>14, <1>15, <2>2 DEF Good, Asked, Covered, Solvent
  <1>17. Gains(c, t, 0, -s.owned)
    <2>1. /\ c.owned \in Nat /\ c.consumed \in Nat /\ CreditIn(c.ctl) \in Nat
          /\ Announced(c.wire) \in Nat /\ Announced(c.writes) \in Nat
          /\ Sendable(c) \in Nat /\ Share(c) \in Nat /\ Retained(c) \in Nat
      BY <1>12, Measures DEF Good
    <2>2. /\ Retained(t) = 0 + c.consumed + CreditIn(c.ctl) + Announced(c.wire)
                            + Announced(c.writes)
          /\ Retained(c) = s.owned + c.consumed + CreditIn(c.ctl) + Announced(c.wire)
                            + Announced(c.writes)
      BY <1>13, <1>14 DEF Retained
    <2>3. Sendable(t) = Sendable(c) /\ Share(t) = Share(c)
      BY <1>14 DEF Sendable, Share
    <2>4. Retained(t) - Share(c) = Retained(c) - Share(c) + (-s.owned)
      BY <1>11, <2>1, <2>2
    <2> QED BY <1>14, <1>16, <2>1, <2>3, <2>4 DEF Gains
  <1>18. Gains(s, t, 0 + 0, s.owned + (-s.owned))
    BY <1>8, <1>11, <1>12, <1>17, GainsTrans
  <1>19. s.owned + (-s.owned) = 0
    BY <1>11
  <1>20. Keeps(s, t)
    BY <1>18, <1>19 DEF Keeps
  <1>21. Keeps(x, t)
    BY <1>8, <1>10, <1>20, KeepsTrans
  <1>22. Alike(t, a) /\ Alike(t, k)
    BY <1>14 DEF Fields, Alike
  <1> HIDE DEF a, k
  <1>23. Keeps(t, a) /\ Good(a) /\ Keeps(t, k) /\ Good(k)
    BY <1>16, <1>22, AlikeKeeps DEF Keeps, Gains
  <1>24. Keeps(x, a) /\ Keeps(x, k)
    BY <1>16, <1>21, <1>23, KeepsTrans
  <1>25. q \in Seq(DataPiece)
    BY DEF Piece, DataPiece, Pieces, IsData
  <1> HIDE DEF q
  <1>26. Keeps(k, QueueBytes(k, q)) /\ Good(QueueBytes(k, q))
    BY <1>23, <1>25, QueueKeeps DEF Keeps, Gains
  <1>27. Keeps(x, QueueBytes(k, q))
    BY <1>24, <1>26, KeepsTrans
  <1>28. Keeps(x, Pump(QueueBytes(k, q))) /\ Keeps(x, Pump(a))
    BY <1>23, <1>24, <1>26, <1>27, PumpKeeps, KeepsTrans
  <1> QED BY <1>1, <1>28

\* return_credit returns what the sinks handed back.
LEMMA ReturnKeeps ==
    ASSUME NEW x, Good(x), NEW n \in Nat,
           x.owned >= n + (Len(x.input) + RecordBytes * (Len(x.records) + x.held) + x.returned)
    PROVE  Keeps(x, ReturnCredit(x, n))
  <1>1. /\ DOMAIN x = Fields /\ x.owned \in Nat /\ Window \in Nat /\ x.owned <= Window
        /\ x.input \in Seq(Pieces) /\ x.returned \in Nat /\ x.held \in Nat
        /\ x.records \in Seq(Nat)
    BY Limits DEF Good, Typed
  <1>2. Len(x.input) \in Nat /\ Len(x.records) \in Nat
    BY <1>1
  <1> DEFINE k == Len(x.input) + RecordBytes * (Len(x.records) + x.held) + x.returned
  <1>3. k \in Nat /\ x.owned >= n + k
    <2>1. RecordBytes * (Len(x.records) + x.held) \in Nat
      BY <1>1, <1>2, Products
    <2> QED BY SMTT(30), <1>1, <1>2, <2>1
  <1> HIDE DEF k
  <1>4. ~(n > x.owned) /\ x.owned - n \in 0..Window /\ x.owned - n >= k
    BY <1>1, <1>3
  <1> DEFINE c == Consume(x, n)
             z == [c EXCEPT !.owned = @ - n]
  <1>5. ReturnCredit(x, n) = Pump(z)
    BY <1>4 DEF ReturnCredit
  <1>6. Gains(x, c, 0, n) /\ Good(c)
    BY ConsumeGains DEF Gains
  <1>7. /\ c.owned = x.owned /\ c.input = x.input /\ c.records = x.records
        /\ c.held = x.held /\ c.returned = x.returned
    BY ConsumeFacts DEF Good
  <1> HIDE DEF c
  <1>8. /\ DOMAIN z = Fields
        /\ z.queue = c.queue /\ z.ctl = c.ctl /\ z.writes = c.writes /\ z.wire = c.wire
        /\ z.input = c.input /\ z.records = c.records /\ z.window = c.window
        /\ z.consumed = c.consumed /\ z.owned = x.owned - n /\ z.returned = c.returned
        /\ z.held = c.held /\ z.opening = c.opening /\ z.terminal = c.terminal
        /\ z.closing = c.closing /\ z.receiving = c.receiving /\ z.sending = c.sending
        /\ z.tx = c.tx /\ z.rx = c.rx /\ z.why = c.why /\ z.next = c.next
    <2>1. DOMAIN c = Fields
      BY <1>6 DEF Good, Typed
    <2> QED BY <1>7, <2>1 DEF Fields
  <1> HIDE DEF z
  <1>9. Good(z)
    <2>1. Typed(z)
      BY <1>4, <1>6, <1>8 DEF Good, Typed
    <2>2. Covered(z)
      BY <1>4, <1>7, <1>8 DEF Covered, k
    <2> QED BY <1>6, <1>8, <2>1, <2>2 DEF Good, Asked, Solvent
  <1>10. Gains(c, z, 0, -n)
    <2>1. /\ c.consumed \in Nat /\ CreditIn(c.ctl) \in Nat
          /\ Announced(c.wire) \in Nat /\ Announced(c.writes) \in Nat
          /\ Sendable(c) \in Nat /\ Share(c) \in Nat /\ Retained(c) \in Nat
      BY <1>6, Measures DEF Good
    <2>2. /\ Retained(z) = (x.owned - n) + c.consumed + CreditIn(c.ctl) + Announced(c.wire)
                            + Announced(c.writes)
          /\ Retained(c) = x.owned + c.consumed + CreditIn(c.ctl) + Announced(c.wire)
                            + Announced(c.writes)
      BY <1>7, <1>8 DEF Retained
    <2>3. Sendable(z) = Sendable(c) /\ Share(z) = Share(c)
      BY <1>8 DEF Sendable, Share
    <2>4. x.owned \in Nat /\ x.owned - n \in Int
      BY <1>1
    <2>5. Retained(z) - Share(c) = Retained(c) - Share(c) + (-n)
      <3>1. PICK r \in Nat :
              r = c.consumed + CreditIn(c.ctl) + Announced(c.wire) + Announced(c.writes)
        BY <2>1
      <3>2. Retained(z) = (x.owned - n) + r /\ Retained(c) = x.owned + r
        <4>1. \A a \in Int : \A f, g, h, i \in Nat :
                a + f + g + h + i = a + (f + g + h + i)
          OBVIOUS
        <4>2. /\ c.consumed \in Nat /\ CreditIn(c.ctl) \in Nat
              /\ Announced(c.wire) \in Nat /\ Announced(c.writes) \in Nat
          BY <2>1
        <4>3. \A a \in Int :
                a + c.consumed + CreditIn(c.ctl) + Announced(c.wire) + Announced(c.writes)
                  = a + r
          BY SMTT(30), <3>1, <4>1, <4>2
        <4>4. PICK a \in Int : a = x.owned - n
          BY <2>4
        <4>5. Retained(z) = a + c.consumed + CreditIn(c.ctl) + Announced(c.wire)
                              + Announced(c.writes)
          BY <2>2, <4>4
        <4>6. Retained(z) = a + r
          BY <4>3, <4>5
        <4>7. Retained(c) = x.owned + r
          <5>1. PICK o \in Int : o = x.owned
            BY <2>4
          <5>2. Retained(c) = o + c.consumed + CreditIn(c.ctl) + Announced(c.wire)
                                + Announced(c.writes)
            BY <2>2, <5>1
          <5>3. Retained(c) = o + r
            BY <4>3, <5>2
          <5> QED BY <5>1, <5>3
        <4> QED BY <4>4, <4>6, <4>7
      <3>3. Share(c) \in Nat
        BY <2>1
      <3> QED BY <2>4, <3>2, <3>3
    <2> QED BY <1>8, <1>9, <2>1, <2>3, <2>5 DEF Gains
  <1>11. Gains(x, z, 0 + 0, n + (-n))
    BY <1>6, <1>10, GainsTrans
  <1>12. Keeps(x, z)
    <2>1. 0 + 0 = 0 /\ n + (-n) = 0
      OBVIOUS
    <2> QED BY <1>11, <2>1 DEF Keeps
  <1> QED BY <1>5, <1>9, <1>12, PumpKeeps, KeepsTrans

-----------------------------------------------------------------------------
(* Requests of other threads, and the control task. *)

\* A request leaves a mark.
LEMMA NotifyKeeps ==
    ASSUME NEW x, Good(x)
    PROVE  Keeps(x, NotifyControl(x)) /\ Keeps(x, RequestTerminal(x))
  <1>1. DOMAIN x = Fields
    BY DEF Good, Typed
  <1>2. Alike(x, NotifyControl(x)) /\ Alike(x, RequestTerminal(x))
    BY <1>1 DEF NotifyControl, RequestTerminal, Fields, Alike
  <1> QED BY <1>2, AlikeKeeps

\* A sink hands back the credit of one record, and no more than it holds.
LEMMA ReleaseKeeps ==
    ASSUME NEW x, Good(x), x.held > 0
    PROVE  Keeps(x, RequestCredit([x EXCEPT !.held = @ - 1], RecordBytes))
  <1> DEFINE z == [x EXCEPT !.held = @ - 1]
             y == [z EXCEPT !.returned = @ + RecordBytes]
  <1>1. /\ DOMAIN x = Fields /\ x.owned \in Nat /\ x.held \in Nat /\ x.returned \in Nat
        /\ x.input \in Seq(Pieces) /\ x.records \in Seq(Nat)
    BY DEF Good, Typed
  <1>2. /\ Len(x.input) \in Nat /\ Len(x.records) \in Nat /\ x.held - 1 \in Nat
        /\ RecordBytes \in Nat
    BY <1>1, Limits
  <1>3. /\ DOMAIN z = Fields
        /\ z.queue = x.queue /\ z.ctl = x.ctl /\ z.writes = x.writes /\ z.wire = x.wire
        /\ z.input = x.input /\ z.records = x.records /\ z.window = x.window
        /\ z.consumed = x.consumed /\ z.owned = x.owned /\ z.returned = x.returned
        /\ z.held = x.held - 1 /\ z.opening = x.opening /\ z.terminal = x.terminal
        /\ z.closing = x.closing /\ z.receiving = x.receiving /\ z.sending = x.sending
        /\ z.tx = x.tx /\ z.rx = x.rx /\ z.why = x.why /\ z.next = x.next
    BY <1>1 DEF Fields
  <1>4. RequestCredit(z, RecordBytes) = IF z.terminal \/ z.requested THEN z
                                        ELSE NotifyControl(y)
    BY DEF RequestCredit
  <1> HIDE DEF z
  <1>5. /\ DOMAIN y = Fields
        /\ y.queue = x.queue /\ y.ctl = x.ctl /\ y.writes = x.writes /\ y.wire = x.wire
        /\ y.input = x.input /\ y.records = x.records /\ y.window = x.window
        /\ y.consumed = x.consumed /\ y.owned = x.owned
        /\ y.returned = x.returned + RecordBytes
        /\ y.held = x.held - 1 /\ y.opening = x.opening /\ y.terminal = x.terminal
        /\ y.closing = x.closing /\ y.receiving = x.receiving /\ y.sending = x.sending
        /\ y.tx = x.tx /\ y.rx = x.rx /\ y.why = x.why /\ y.next = x.next
    BY <1>3 DEF Fields
  <1> HIDE DEF y
  <1> DEFINE k == RecordBytes * (Len(x.records) + (x.held - 1))
  <1>6. k \in Nat /\ RecordBytes * (Len(x.records) + x.held) = k + RecordBytes
    <2>1. PICK l \in Nat : l = Len(x.records) + (x.held - 1)
      BY <1>2
    <2>2. RecordBytes * (l + 1) = RecordBytes * l + RecordBytes /\ RecordBytes * l \in Nat
      BY Products
    <2>3. Len(x.records) + x.held = l + 1
      <3>1. PICK g, h \in Nat : g = Len(x.records) /\ h = x.held
        BY <1>1, <1>2
      <3>2. l = g + (h - 1)
        BY <2>1, <3>1
      <3>3. g + h = l + 1
        BY <3>2
      <3> QED BY <3>1, <3>3
    <2> QED BY <2>1, <2>2, <2>3
  <1> HIDE DEF k
  <1>7. ~x.terminal /\ ~x.closing =>
          /\ x.owned >= Len(x.input) + k + x.returned
          /\ x.owned >= Len(x.input) + k + (x.returned + RecordBytes)
    <2>1. ~x.terminal /\ ~x.closing =>
            x.owned >= Len(x.input) + (k + RecordBytes) + x.returned
      BY <1>6 DEF Good, Covered
    <2>2. \A o, l, t, b \in Nat : o >= l + (k + b) + t =>
            o >= l + k + t /\ o >= l + k + (t + b)
      BY <1>6
    <2> QED BY <1>1, <1>2, <2>1, <2>2
  <1>8. Good(z)
    <2>1. Typed(z)
      BY <1>2, <1>3 DEF Good, Typed
    <2>2. Covered(z)
      BY <1>3, <1>7 DEF Covered, k
    <2> QED BY <1>3, <2>1, <2>2 DEF Good, Asked, Solvent
  <1>9. Good(y)
    <2>1. x.returned + RecordBytes \in Nat
      BY <1>1, <1>2
    <2>2. Typed(y)
      BY <1>2, <1>5, <2>1 DEF Good, Typed
    <2>3. Covered(y)
      BY <1>5, <1>7 DEF Covered, k
    <2> QED BY <1>5, <2>2, <2>3 DEF Good, Asked, Solvent
  <1>10. Keeps(x, z) /\ Keeps(x, y)
    BY <1>3, <1>5, <1>8, <1>9, SameLedger
  <1>11. Keeps(x, NotifyControl(y))
    BY <1>9, <1>10, NotifyKeeps, KeepsTrans
  <1>12. Keeps(x, RequestCredit(z, RecordBytes))
    BY <1>4, <1>10, <1>11
  <1> QED BY <1>12 DEF z

\* The control task returns the credit it finds, or ends the carrier.
LEMMA ControlKeeps ==
    ASSUME NEW x, Good(x), ~x.terminal
    PROVE  Keeps(x, SettleControl(x))
  <1> DEFINE run == [x EXCEPT !.control = FALSE, !.returned = 0]
             quiet == IF run.cancelled THEN SettleReceive(run, "cancelled") ELSE run
  <1>1. /\ DOMAIN x = Fields /\ x.owned \in Nat /\ x.held \in Nat /\ x.returned \in Nat
        /\ x.input \in Seq(Pieces) /\ x.records \in Seq(Nat)
    BY DEF Good, Typed
  <1>2. SettleControl(x) =
          IF run.terminal \/ run.closing THEN run
          ELSE IF run.requested
          THEN IF CanCloseGracefully(run) THEN BeginGracefulClose(run)
               ELSE Fail(run, "closed")
          ELSE IF run.cancelled /\ (run.opening \/ run.sending) THEN Fail(run, "cancelled")
          ELSE IF x.returned > 0 THEN ReturnCredit(quiet, x.returned)
          ELSE quiet
    BY DEF SettleControl
  <1>3. /\ DOMAIN run = Fields
        /\ run.queue = x.queue /\ run.ctl = x.ctl /\ run.writes = x.writes
        /\ run.wire = x.wire
        /\ run.input = x.input /\ run.records = x.records /\ run.window = x.window
        /\ run.consumed = x.consumed /\ run.owned = x.owned /\ run.returned = 0
        /\ run.held = x.held /\ run.opening = x.opening /\ run.terminal = x.terminal
        /\ run.closing = x.closing /\ run.receiving = x.receiving
        /\ run.sending = x.sending
        /\ run.tx = x.tx /\ run.rx = x.rx /\ run.why = x.why /\ run.next = x.next
    BY <1>1 DEF Fields
  <1> HIDE DEF run
  <1> DEFINE k == RecordBytes * (Len(x.records) + x.held)
  <1>4. /\ k \in Nat /\ Len(x.input) \in Nat
        /\ ~x.closing => x.owned >= Len(x.input) + k + x.returned
    <2>1. Len(x.records) \in Nat
      BY <1>1
    <2>2. k \in Nat
      BY <1>1, <2>1, Products
    <2>3. ~x.closing => x.owned >= Len(x.input) + k + x.returned
      BY DEF Good, Covered
    <2> QED BY <1>1, <2>2, <2>3
  <1> HIDE DEF k
  <1>5. ~x.closing => /\ x.owned >= Len(x.input) + k + 0
                      /\ x.owned >= x.returned + (Len(x.input) + k + 0)
    <2>1. \A o, l, t \in Nat : o >= l + k + t => o >= l + k + 0 /\ o >= t + (l + k + 0)
      BY <1>4
    <2> QED BY <1>1, <1>4, <2>1
  <1>6. Good(run)
    <2>1. Typed(run)
      BY <1>3 DEF Good, Typed
    <2>2. Covered(run)
      BY <1>3, <1>5 DEF Covered, k
    <2> QED BY <1>3, <2>1, <2>2 DEF Good, Asked, Solvent
  <1>7. Keeps(x, run)
    BY <1>3, <1>6, SameLedger
  <1>8. CASE run.terminal \/ run.closing
    BY <1>2, <1>7, <1>8
  <1>9. CASE ~(run.terminal \/ run.closing) /\ run.requested
    <2>1. Keeps(run, BeginGracefulClose(run)) /\ Keeps(run, Fail(run, "closed"))
      BY <1>6, <1>9, GracefulCloseKeeps, FailKeeps
    <2>2. Keeps(x, BeginGracefulClose(run)) /\ Keeps(x, Fail(run, "closed"))
      BY <1>6, <1>7, <2>1, KeepsTrans
    <2> QED BY <1>2, <1>9, <2>2
  <1>10. CASE ~(run.terminal \/ run.closing) /\ ~run.requested
    <2>1. Keeps(run, Fail(run, "cancelled"))
      BY <1>6, FailKeeps
    <2>2. Keeps(x, Fail(run, "cancelled"))
      BY <1>6, <1>7, <2>1, KeepsTrans
    <2>3. Keeps(run, quiet) /\ Good(quiet)
      BY <1>6, KeepsSelf, SettleReceiveKeeps DEF Keeps, Gains
    <2>4. /\ quiet.owned = x.owned /\ quiet.input = x.input /\ quiet.records = x.records
          /\ quiet.held = x.held /\ quiet.returned = 0
      BY <1>3 DEF SettleReceive, Fields
    <2> HIDE DEF quiet
    <2>5. Keeps(x, quiet)
      BY <1>6, <1>7, <2>3, KeepsTrans
    <2>6. Keeps(quiet, ReturnCredit(quiet, x.returned))
      <3>1. quiet.owned >= x.returned + (Len(quiet.input)
              + RecordBytes * (Len(quiet.records) + quiet.held) + quiet.returned)
        BY <1>3, <1>5, <1>10, <2>4 DEF k
      <3> QED BY <1>1, <2>3, <3>1, ReturnKeeps
    <2>7. Keeps(x, ReturnCredit(quiet, x.returned))
      BY <2>3, <2>5, <2>6, KeepsTrans
    <2> QED BY <1>2, <1>10, <2>2, <2>5, <2>7
  <1> QED BY <1>8, <1>9, <1>10

-----------------------------------------------------------------------------
(* The remaining handlers. *)

\* The client announces the rest of its window as it takes it into account.
LEMMA AdvanceKeeps ==
    ASSUME NEW x, Good(x)
    PROVE  Keeps(x, AdvanceOpening(x))
  <1>1. CASE ~x.opening \/ x.terminal
    <2>1. AdvanceOpening(x) = x
      BY <1>1 DEF AdvanceOpening
    <2> QED BY <2>1, KeepsSelf
  <1>2. CASE ~(~x.opening \/ x.terminal) /\ x.active
    <2> DEFINE u == Update(Window - FirstWindow)
               y == [x EXCEPT !.opening = FALSE, !.created = "ok",
                              !.ctl = Append(@, Update(Window - FirstWindow))]
    <2>1. AdvanceOpening(x) = y
      BY <1>2 DEF AdvanceOpening
    <2>2. DOMAIN x = Fields /\ x.ctl \in Seq(Returns)
      BY DEF Good, Typed
    <2>3. /\ DOMAIN y = Fields
          /\ y.queue = x.queue /\ y.ctl = Append(x.ctl, u) /\ y.writes = x.writes
          /\ y.wire = x.wire
          /\ y.input = x.input /\ y.records = x.records /\ y.window = x.window
          /\ y.consumed = x.consumed /\ y.owned = x.owned /\ y.returned = x.returned
          /\ y.held = x.held /\ y.opening = FALSE /\ y.terminal = x.terminal
          /\ y.closing = x.closing /\ y.receiving = x.receiving /\ y.sending = x.sending
          /\ y.tx = x.tx /\ y.rx = x.rx /\ y.why = x.why /\ y.next = x.next
      BY <2>2 DEF Fields
    <2> HIDE DEF y
    <2>4. PICK m \in Nat : m = Window - FirstWindow
      BY Limits
    <2>5. u \in Pieces /\ u \in Returns /\ u.kind = "update" /\ u.n = m
      BY <2>4 DEF Update, Piece, Pieces, Returns
    <2> HIDE DEF u
    <2>6. Append(x.ctl, u) \in Seq(Returns)
      BY <2>2, <2>5
    <2>7. CreditIn(Append(x.ctl, u)) = CreditIn(x.ctl) + m
      <3>1. x.ctl \in Seq(Pieces)
        BY <2>2, AllReturns
      <3> QED BY <2>5, <3>1, WriteAppend
    <2>8. Good(y)
      <3>1. Typed(y)
        BY <2>3, <2>6 DEF Good, Typed
      <3> QED BY <2>3, <3>1 DEF Good, Asked, Covered, Solvent
    <2>9. /\ x.owned \in Nat /\ x.consumed \in Nat /\ CreditIn(x.ctl) \in Nat
          /\ Announced(x.wire) \in Nat /\ Announced(x.writes) \in Nat
          /\ Sendable(x) \in Nat
      BY Measures DEF Good
    <2>10. Retained(y) = Retained(x) + m /\ Retained(x) \in Nat
      <3>1. /\ Retained(y) = x.owned + x.consumed + (CreditIn(x.ctl) + m) + Announced(x.wire)
                              + Announced(x.writes)
            /\ Retained(x) = x.owned + x.consumed + CreditIn(x.ctl) + Announced(x.wire)
                              + Announced(x.writes)
        BY <2>3, <2>7 DEF Retained
      <3> QED BY <2>9, <3>1
    <2>11. Share(y) = Window /\ Share(x) = FirstWindow
      BY <1>2, <2>3 DEF Share
    <2>12. Retained(y) - Share(y) = Retained(x) - Share(x) + 0
      BY <2>4, <2>10, <2>11, Limits
    <2>13. Sendable(y) = Sendable(x)
      BY <2>3 DEF Sendable
    <2>14. Keeps(x, y)
      BY <2>3, <2>8, <2>9, <2>12, <2>13 DEF Keeps, Gains
    <2> QED BY <2>1, <2>14
  <1>3. CASE ~(~x.opening \/ x.terminal) /\ ~x.active
    <2>1. AdvanceOpening(x) = Fail(x, "refused") \/ AdvanceOpening(x) = x
      BY <1>3 DEF AdvanceOpening
    <2> QED BY <2>1, FailKeeps, KeepsSelf
  <1> QED BY <1>1, <1>2, <1>3

\* A read brings what it brings, and no check of the ledgers fails.
LEMMA ReadGains ==
    ASSUME NEW x, Good(x), NEW q \in Seq(Pieces), x.owned + DataIn(q) <= Window
    PROVE  Gains(x, OnRead(x, q), CreditIn(q), DataIn(q))
  <1> DEFINE b == [x EXCEPT !.reading = FALSE]
             f == Feed(b, q)
             t == Tunnel(q)
             d == DrainTunnelBytes(f, t)
             o == CollectOutput(d)
             a == AdvanceOpening(o)
  <1>1. OnRead(x, q) = IF d.terminal \/ a.terminal THEN a
                       ELSE IF CarrierClosed(a) THEN HandlePeerClose(a) ELSE Pump(a)
    BY DEF OnRead
  <1>2. DOMAIN x = Fields
    BY DEF Good, Typed
  <1>3. Alike(x, b)
    BY <1>2 DEF Fields, Alike
  <1> HIDE DEF b
  <1>4. Gains(x, b, 0, 0) /\ Good(b) /\ b.owned = x.owned
    BY <1>3, AlikeKeeps DEF Keeps, Gains, Alike
  <1>5. /\ Gains(b, f, CreditIn(q), DataIn(q) - Len(t)) /\ f.owned = b.owned
        /\ t \in Seq(Pieces) /\ Len(t) <= DataIn(q)
    BY <1>4, FeedGains
  <1> HIDE DEF f, t
  <1>6. /\ CreditIn(q) \in Nat /\ DataIn(q) \in Nat /\ Len(t) \in Nat /\ Good(f)
        /\ f.owned \in Nat /\ Window \in Nat
    <2>1. Good(f) /\ Len(t) \in Nat
      BY <1>5 DEF Gains
    <2>2. CreditIn(q) \in Nat /\ DataIn(q) \in Nat
      BY WriteNat
    <2>3. f.owned \in Nat /\ Window \in Nat
      BY <2>1, Measures, Limits DEF Good
    <2> QED BY <2>1, <2>2, <2>3
  <1>7. PICK l \in Nat : l = Len(t)
    BY <1>6
  <1>8. PICK c, n \in Nat : c = CreditIn(q) /\ n = DataIn(q)
    BY <1>6
  <1>9. Gains(x, f, 0 + c, 0 + (n - l)) /\ n - l \in Int
    <2>1. Gains(b, f, c, n - l) /\ n - l \in Int /\ c \in Int
      BY <1>5, <1>7, <1>8
    <2> QED BY <1>4, <2>1, GainsTrans
  <1>10. f.owned + Len(t) <= Window
    <2>1. f.owned + n <= Window /\ l <= n
      BY <1>4, <1>5, <1>7, <1>8
    <2> QED BY <1>6, <1>7, <2>1
  <1>11. Gains(f, d, 0, l) /\ Good(d)
    BY <1>5, <1>6, <1>7, <1>10, DrainGains DEF Gains
  <1> HIDE DEF d
  <1>12. Gains(x, d, c, n)
    <2>1. 0 + c \in Int /\ 0 + (n - l) \in Int /\ l \in Int /\ 0 \in Int
      OBVIOUS
    <2>2. Gains(x, d, (0 + c) + 0, (0 + (n - l)) + l)
      BY <1>9, <1>11, <2>1, GainsTrans
    <2>3. (0 + c) + 0 = c /\ (0 + (n - l)) + l = n
      OBVIOUS
    <2> QED BY <2>2, <2>3
  <1>13. ASSUME NEW y, NEW z, Gains(x, y, c, n), Keeps(y, z) PROVE Gains(x, z, c, n)
    <2>1. Gains(x, z, c + 0, n + 0)
      BY <1>13, GainsTrans DEF Keeps
    <2> QED BY <2>1
  <1>14. Keeps(d, o) /\ Good(o)
    BY <1>11, CollectKeeps DEF Keeps, Gains
  <1>15. Gains(x, o, c, n)
    BY <1>12, <1>13, <1>14
  <1> HIDE DEF o
  <1>16. Keeps(o, a) /\ Good(a)
    BY <1>14, AdvanceKeeps DEF Keeps, Gains
  <1>17. Gains(x, a, c, n)
    BY <1>13, <1>15, <1>16
  <1> HIDE DEF a
  <1>18. Gains(x, HandlePeerClose(a), c, n) /\ Gains(x, Pump(a), c, n)
    BY <1>13, <1>16, <1>17, PeerCloseKeeps, PumpKeeps
  <1> QED BY <1>1, <1>8, <1>17, <1>18

\* The end of the connection ends the carrier.
LEMMA ReadEndKeeps ==
    ASSUME NEW x, Good(x)
    PROVE  Keeps(x, OnReadEnd(x))
  <1> DEFINE y == [x EXCEPT !.reading = FALSE]
  <1>1. OnReadEnd(x) = IF y.closing THEN FinishGracefulClose(y, ~y.initiated \/ y.wsClosed)
                       ELSE Fail(y, "io")
    BY DEF OnReadEnd
  <1>2. DOMAIN x = Fields
    BY DEF Good, Typed
  <1>3. Alike(x, y)
    BY <1>2 DEF Fields, Alike
  <1> HIDE DEF y
  <1>4. Keeps(x, y) /\ Good(y)
    BY <1>3, AlikeKeeps DEF Keeps, Gains
  <1>5. \A c : Keeps(y, FinishGracefulClose(y, c))
    BY <1>4, FinishKeeps
  <1>6. Keeps(y, Fail(y, "io"))
    BY <1>4, FailKeeps
  <1>7. Keeps(y, OnReadEnd(x))
    BY <1>1, <1>5, <1>6
  <1> QED BY <1>4, <1>7, KeepsTrans

\* A write that completed makes room for the next one.
LEMMA WriteKeeps ==
    ASSUME NEW x, Good(x), NEW ok
    PROVE  Keeps(x, OnWrite(x, ok))
  <1> DEFINE y == [x EXCEPT !.writing = FALSE]
  <1>1. OnWrite(x, ok) = IF ok THEN Pump(y) ELSE Fail(y, "io")
    BY DEF OnWrite
  <1>2. DOMAIN x = Fields
    BY DEF Good, Typed
  <1>3. Alike(x, y)
    BY <1>2 DEF Fields, Alike
  <1> HIDE DEF y
  <1>4. Keeps(x, y) /\ Good(y)
    BY <1>3, AlikeKeeps DEF Keeps, Gains
  <1>5. Keeps(y, Pump(y)) /\ Keeps(y, Fail(y, "io"))
    BY <1>4, PumpKeeps, FailKeeps
  <1>6. Keeps(x, Pump(y)) /\ Keeps(x, Fail(y, "io"))
    BY <1>4, <1>5, KeepsTrans
  <1> QED BY <1>1, <1>6

\* A receive is pending, or answered at once.
LEMMA ReceiveKeeps ==
    ASSUME NEW x, Good(x), x.rx = "idle"
    PROVE  Keeps(x, BeginReceive(x))
  <1> DEFINE a == [x EXCEPT !.rx = "asked", !.receiving = TRUE]
             e == [x EXCEPT !.rx = "closed"]
             n == [x EXCEPT !.rx = "cancelled"]
  <1>1. BeginReceive(x) \in {e, n, Pump(a), Pump(MaybeDeliver(a))}
    BY DEF BeginReceive
  <1>2. DOMAIN x = Fields
    BY DEF Good, Typed
  <1>3. ASSUME NEW y, y \in {a, e, n} PROVE Good(y) /\ Keeps(x, y)
    <2>1. /\ DOMAIN y = Fields
          /\ y.queue = x.queue /\ y.ctl = x.ctl /\ y.writes = x.writes /\ y.wire = x.wire
          /\ y.input = x.input /\ y.records = x.records /\ y.window = x.window
          /\ y.consumed = x.consumed /\ y.owned = x.owned /\ y.returned = x.returned
          /\ y.held = x.held /\ y.opening = x.opening /\ y.terminal = x.terminal
          /\ y.closing = x.closing /\ y.sending = x.sending
          /\ y.tx = x.tx /\ y.why = x.why /\ y.next = x.next
          /\ \/ y.rx = "asked" /\ y.receiving = TRUE
             \/ y.rx \in {"closed", "cancelled"} /\ y.receiving = x.receiving
      <3>1. CASE y = a
        BY <1>2, <3>1 DEF Fields
      <3>2. CASE y = e
        BY <1>2, <3>2 DEF Fields
      <3>3. CASE y = n
        BY <1>2, <3>3 DEF Fields
      <3> QED BY <1>3, <3>1, <3>2, <3>3
    <2> HIDE DEF a, e, n
    <2>2. Asked(y) /\ y.receiving \in BOOLEAN
      BY <2>1 DEF Good, Typed, Asked
    <2>3. Typed(y)
      BY <2>1, <2>2 DEF Good, Typed
    <2>4. Good(y)
      BY <2>1, <2>2, <2>3 DEF Good, Covered, Solvent
    <2> QED BY <2>1, <2>4, SameLedger
  <1> HIDE DEF a, e, n
  <1>4. Keeps(x, Pump(a))
    BY <1>3, PumpKeeps, KeepsTrans
  <1>5. Keeps(x, Pump(MaybeDeliver(a)))
    <2>1. Keeps(a, MaybeDeliver(a)) /\ Good(MaybeDeliver(a))
      BY <1>3, DeliverKeeps DEF Keeps, Gains
    <2>2. Keeps(x, MaybeDeliver(a))
      BY <1>3, <2>1, KeepsTrans
    <2> QED BY <2>1, <2>2, PumpKeeps, KeepsTrans
  <1> QED BY <1>1, <1>3, <1>4, <1>5

\* A send is queued, or answered at once.
LEMMA SendKeeps ==
    ASSUME NEW x, Good(x), x.tx = "idle"
    PROVE  Keeps(x, BeginSend(x))
  <1> DEFINE t == [x EXCEPT !.next = @ + 1]
             a == [t EXCEPT !.tx = "asked", !.sending = TRUE]
             e == [t EXCEPT !.tx = "closed"]
             n == [t EXCEPT !.tx = "cancelled"]
             q == RecordPieces(x.next)
  <1>1. BeginSend(x) \in {e, n, Pump(QueueBytes(a, q))}
    BY DEF BeginSend
  <1>2. DOMAIN x = Fields /\ x.next \in Nat
    BY DEF Good, Typed
  <1>3. q \in Seq(DataPiece)
    <2>1. RecordBytes \in Nat
      BY Limits
    <2>2. Piece("envelope", x.next) \in DataPiece /\ Piece("payload", x.next) \in DataPiece
      BY <1>2 DEF Piece, DataPiece, Pieces, IsData
    <2>3. <<Piece("envelope", x.next)>> \in Seq(DataPiece)
      BY <2>2
    <2>4. [i \in 1..RecordBytes |-> Piece("payload", x.next)] \in Seq(DataPiece)
      BY <2>1, <2>2, IsASeq
    <2> QED BY <2>3, <2>4 DEF RecordPieces
  <1>4. ASSUME NEW y, y \in {a, e, n} PROVE Good(y) /\ Keeps(x, y)
    <2>0. /\ DOMAIN t = Fields
          /\ t.queue = x.queue /\ t.ctl = x.ctl /\ t.writes = x.writes /\ t.wire = x.wire
          /\ t.input = x.input /\ t.records = x.records /\ t.window = x.window
          /\ t.consumed = x.consumed /\ t.owned = x.owned /\ t.returned = x.returned
          /\ t.held = x.held /\ t.opening = x.opening /\ t.terminal = x.terminal
          /\ t.closing = x.closing /\ t.receiving = x.receiving /\ t.sending = x.sending
          /\ t.rx = x.rx /\ t.why = x.why /\ t.next = x.next + 1
      BY <1>2 DEF Fields
    <2> HIDE DEF t
    <2>1. /\ DOMAIN y = Fields
          /\ y.queue = x.queue /\ y.ctl = x.ctl /\ y.writes = x.writes /\ y.wire = x.wire
          /\ y.input = x.input /\ y.records = x.records /\ y.window = x.window
          /\ y.consumed = x.consumed /\ y.owned = x.owned /\ y.returned = x.returned
          /\ y.held = x.held /\ y.opening = x.opening /\ y.terminal = x.terminal
          /\ y.closing = x.closing /\ y.receiving = x.receiving
          /\ y.rx = x.rx /\ y.why = x.why /\ y.next = x.next + 1
          /\ \/ y.tx = "asked" /\ y.sending = TRUE
             \/ y.tx \in {"closed", "cancelled"} /\ y.sending = x.sending
      <3>1. CASE y = a
        BY <2>0, <3>1 DEF Fields
      <3>2. CASE y = e
        BY <2>0, <3>2 DEF Fields
      <3>3. CASE y = n
        BY <2>0, <3>3 DEF Fields
      <3> QED BY <1>4, <3>1, <3>2, <3>3
    <2> HIDE DEF a, e, n
    <2>2. Asked(y) /\ y.sending \in BOOLEAN
      BY <2>1 DEF Good, Typed, Asked
    <2>3. Typed(y)
      <3>1. x.next + 1 \in Nat
        BY <1>2
      <3> QED BY <2>1, <2>2, <3>1 DEF Good, Typed
    <2>4. Good(y)
      BY <2>1, <2>2, <2>3 DEF Good, Covered, Solvent
    <2> QED BY <2>1, <2>4, SameLedger
  <1> HIDE DEF t, a, e, n, q
  <1>5. Keeps(x, Pump(QueueBytes(a, q)))
    <2>1. Keeps(a, QueueBytes(a, q)) /\ Good(QueueBytes(a, q))
      BY <1>3, <1>4, QueueKeeps DEF Keeps, Gains
    <2>2. Keeps(x, QueueBytes(a, q))
      BY <1>4, <2>1, KeepsTrans
    <2> QED BY <2>1, <2>2, PumpKeeps, KeepsTrans
  <1> QED BY <1>1, <1>4, <1>5

-----------------------------------------------------------------------------
(* Both ends. *)

\* What x may still send and what y holds of it make up y's window while both
\* ends live; a sender that ended leaves no more than that.
Balanced(x, y) ==
    ~y.terminal => /\ Sendable(x) + Retained(y) <= Share(y)
                   /\ ~x.terminal => Sendable(x) + Retained(y) = Share(y)

\* The inductive invariant.
DInv ==
    /\ DOMAIN carrier = Sides
    /\ \A s \in Sides : Good(carrier[s]) /\ Balanced(carrier[s], carrier[Peer(s)])

\* What the end x takes from the wire of its peer p moves from one side of the
\* balance to the other.
LEMMA Exchange ==
    ASSUME NEW x, NEW y, NEW p, NEW r, NEW c \in Nat, NEW d \in Nat,
           Good(x), Good(p), Good(r), Gains(x, y, c, d),
           r.terminal = p.terminal, Share(r) = Share(p),
           Sendable(p) = Sendable(r) + d, Retained(p) = Retained(r) + c,
           Balanced(x, p), Balanced(p, x)
    PROVE  Balanced(y, r) /\ Balanced(r, y)
  <1>1. /\ Sendable(x) \in Nat /\ Retained(x) \in Nat /\ Share(x) \in Nat
        /\ Sendable(y) \in Nat /\ Retained(y) \in Nat /\ Share(y) \in Nat
        /\ Sendable(p) \in Nat /\ Retained(p) \in Nat /\ Share(p) \in Nat
        /\ Sendable(r) \in Nat /\ Retained(r) \in Nat /\ Share(r) \in Nat
    BY Measures DEF Gains, Good
  <1>2. /\ x.terminal => y.terminal
        /\ Sendable(y) <= Sendable(x) + c
        /\ ~y.terminal => /\ Sendable(y) = Sendable(x) + c
                          /\ Retained(y) - Share(y) = Retained(x) - Share(x) + d
    BY DEF Gains
  <1>3. Balanced(y, r)
    <2>1. ~r.terminal => Sendable(y) + Retained(r) <= Share(r)
      BY <1>1, <1>2 DEF Balanced
    <2>2. ~r.terminal /\ ~y.terminal => Sendable(y) + Retained(r) = Share(r)
      BY <1>1, <1>2 DEF Balanced
    <2> QED BY <2>1, <2>2 DEF Balanced
  <1>4. Balanced(r, y)
    <2>1. ~y.terminal => Sendable(r) + Retained(y) <= Share(y)
      BY <1>1, <1>2 DEF Balanced
    <2>2. ~y.terminal /\ ~r.terminal => Sendable(r) + Retained(y) = Share(y)
      BY <1>1, <1>2 DEF Balanced
    <2> QED BY <2>1, <2>2 DEF Balanced
  <1> QED BY <1>3, <1>4

\* There are two ends.
LEMMA Ends ==
    ASSUME NEW s \in Sides
    PROVE  /\ Peer(s) \in Sides /\ Peer(s) # s /\ Peer(Peer(s)) = s
           /\ \A t \in Sides : t = s \/ t = Peer(s)
  BY DEF Sides, Peer

\* A step of one end alone.
LEMMA OneEnd ==
    ASSUME DInv, NEW s \in Sides, NEW y, Keeps(carrier[s], y), Becomes(s, y)
    PROVE  DInv'
  <1> DEFINE p == Peer(s)
  <1>1. /\ p \in Sides /\ p # s /\ Peer(p) = s /\ \A t \in Sides : t = s \/ t = p
    BY Ends
  <1> HIDE DEF p
  <1>2. /\ DOMAIN carrier' = Sides /\ carrier'[s] = y /\ carrier'[p] = carrier[p]
    BY <1>1 DEF DInv, Becomes
  <1>3. /\ Good(carrier[s]) /\ Good(carrier[p]) /\ Balanced(carrier[s], carrier[p])
        /\ Balanced(carrier[p], carrier[s])
    BY <1>1 DEF DInv, p
  <1>4. Gains(carrier[s], y, 0, 0) /\ Good(y)
    BY DEF Keeps, Gains
  <1>5. /\ Sendable(carrier[p]) = Sendable(carrier[p]) + 0
        /\ Retained(carrier[p]) = Retained(carrier[p]) + 0
    BY <1>3, Measures DEF Good
  <1>6. Balanced(y, carrier[p]) /\ Balanced(carrier[p], y)
    BY <1>3, <1>4, <1>5, Exchange
  <1>7. Good(carrier'[s]) /\ Balanced(carrier'[s], carrier'[p])
    BY <1>2, <1>4, <1>6
  <1>8. Good(carrier'[p]) /\ Balanced(carrier'[p], carrier'[s])
    BY <1>2, <1>3, <1>6
  <1>9. \A t \in Sides : Good(carrier'[t]) /\ Balanced(carrier'[t], carrier'[Peer(t)])
    BY <1>1, <1>7, <1>8 DEF p
  <1> QED BY <1>2, <1>9 DEF DInv

\* The front of the oldest write leaves the wire.
LEMMA WireFront ==
    ASSUME NEW ws \in Seq(Seq(Pieces)), ws # <<>>, NEW n \in 1..Len(Head(ws))
    PROVE  LET q == SubSeq(Head(ws), 1, n)
               left == SubSeq(Head(ws), n + 1, Len(Head(ws)))
               rest == IF left = <<>> THEN Tail(ws) ELSE [ws EXCEPT ![1] = left]
           IN  /\ q \in Seq(Pieces) /\ rest \in Seq(Seq(Pieces))
               /\ DataPieces(ws) = DataPieces(rest) + DataIn(q)
               /\ Announced(ws) = Announced(rest) + CreditIn(q)
  <1> DEFINE h == Head(ws)
             q == SubSeq(h, 1, n)
             left == SubSeq(h, n + 1, Len(h))
             rest == IF left = <<>> THEN Tail(ws) ELSE [ws EXCEPT ![1] = left]
  <1>1. /\ Tail(ws) \in Seq(Seq(Pieces)) /\ h \in Seq(Pieces)
        /\ DataPieces(ws) = DataIn(h) + DataPieces(Tail(ws))
        /\ Announced(ws) = CreditIn(h) + Announced(Tail(ws))
    BY WritesTail
  <1> HIDE DEF h
  <1>2. n \in 1..Len(h) /\ Len(h) \in Nat /\ n \in Nat
    BY <1>1 DEF h
  <1>3. q \in Seq(Pieces) /\ left \in Seq(Pieces)
    <2>1. n \in 0..Len(h) /\ 1 \in 1..(Len(h) + 1) /\ n + 1 \in 1..(Len(h) + 1)
          /\ Len(h) \in n..Len(h)
      BY <1>2
    <2> QED BY <1>1, <1>2, <2>1, SubSeqProperties
  <1>4. h = q \o left
    <2>1. SubSeq(h, 1, n) \o SubSeq(h, n + 1, Len(h)) = SubSeq(h, 1, Len(h))
      <3>1. 1 \in 1..(Len(h) + 1) /\ n \in (1 - 1)..Len(h) /\ Len(h) \in n..Len(h)
        BY <1>2
      <3> QED BY <1>1, <3>1, ConcatAdjacentSubSeq
    <2>2. SubSeq(h, 1, Len(h)) = h
      BY <1>1, SubSeqFull
    <2> QED BY <2>1, <2>2
  <1> HIDE DEF q, left
  <1>5. DataIn(h) = DataIn(q) + DataIn(left) /\ CreditIn(h) = CreditIn(q) + CreditIn(left)
    BY <1>3, <1>4, WriteConcat
  <1>6. /\ DataIn(q) \in Nat /\ CreditIn(q) \in Nat
        /\ DataIn(left) \in Nat /\ CreditIn(left) \in Nat
        /\ left = <<>> => DataIn(left) = 0 /\ CreditIn(left) = 0
        /\ DataPieces(Tail(ws)) \in Nat /\ Announced(Tail(ws)) \in Nat
    BY <1>1, <1>3, WriteNat, WritesNat
  <1>7. /\ rest \in Seq(Seq(Pieces))
        /\ DataPieces(rest) = DataIn(left) + DataPieces(Tail(ws))
        /\ Announced(rest) = CreditIn(left) + Announced(Tail(ws))
    <2>1. CASE left = <<>>
      BY <1>1, <1>6, <2>1
    <2>2. CASE left # <<>>
      <3> DEFINE u == [ws EXCEPT ![1] = left]
      <3>1. /\ Len(ws) \in Nat /\ Len(ws) >= 1 /\ DOMAIN ws = 1..Len(ws)
            /\ \A i \in 1..Len(ws) : ws[i] \in Seq(Pieces)
        OBVIOUS
      <3>2. u \in [1..Len(ws) -> Seq(Pieces)]
        BY <1>3, <3>1
      <3>3. u \in Seq(Seq(Pieces))
        BY <3>1, <3>2, IsASeq
      <3>4. /\ Len(u) = Len(ws) /\ u[1] = left
            /\ \A i \in 2..Len(ws) : u[i] = ws[i]
        BY <3>1, <3>3
      <3> HIDE DEF u
      <3>5. u # <<>> /\ Head(u) = left
        BY <3>1, <3>3, <3>4
      <3>6. Tail(u) = Tail(ws)
        <4>1. /\ Len(Tail(u)) = Len(ws) - 1 /\ Len(Tail(ws)) = Len(ws) - 1
              /\ Tail(u) \in Seq(Seq(Pieces)) /\ Tail(ws) \in Seq(Seq(Pieces))
          BY <3>1, <3>3, <3>4, <3>5
        <4>2. ASSUME NEW i \in 1..(Len(ws) - 1) PROVE Tail(u)[i] = Tail(ws)[i]
          <5>1. Tail(u)[i] = u[i + 1] /\ Tail(ws)[i] = ws[i + 1]
            BY <3>1, <3>3, <3>4, <3>5
          <5>2. i + 1 \in 2..Len(ws)
            BY <3>1
          <5> QED BY <3>4, <5>1, <5>2
        <4> QED BY <4>1, <4>2, SeqEqual
      <3>7. /\ DataPieces(u) = DataIn(left) + DataPieces(Tail(ws))
            /\ Announced(u) = CreditIn(left) + Announced(Tail(ws))
        BY <3>3, <3>5, <3>6, WritesTail
      <3>8. rest = u
        BY <2>2 DEF u
      <3> QED BY <3>3, <3>7, <3>8
    <2> QED BY <2>1, <2>2
  <1> HIDE DEF rest
  <1>8. /\ DataPieces(ws) = DataPieces(rest) + DataIn(q)
        /\ Announced(ws) = Announced(rest) + CreditIn(q)
    BY SMTT(30), <1>1, <1>5, <1>6, <1>7
  <1> QED BY <1>3, <1>7, <1>8 DEF h, q, left, rest

\* A read is a step of both ends.
LEMMA ReadStep ==
    ASSUME DInv, NEW s \in Sides, Read(s)
    PROVE  DInv'
  <1> DEFINE p == Peer(s)
             x == carrier[s]
             z == carrier[p]
  <1>1. /\ p \in Sides /\ p # s /\ Peer(p) = s /\ \A t \in Sides : t = s \/ t = p
    BY Ends
  <1>2. /\ ~x.terminal /\ z.wire # <<>>
    BY DEF Read
  <1>3. PICK n \in 1..Len(Head(z.wire)) :
          LET left == SubSeq(Head(z.wire), n + 1, Len(Head(z.wire)))
          IN  carrier' = [carrier EXCEPT
                ![s] = OnRead(x, SubSeq(Head(z.wire), 1, n)),
                ![p].wire = IF left = <<>> THEN Tail(@) ELSE [@ EXCEPT ![1] = left]]
    BY DEF Read
  <1> DEFINE q == SubSeq(Head(z.wire), 1, n)
             left == SubSeq(Head(z.wire), n + 1, Len(Head(z.wire)))
             rest == IF left = <<>> THEN Tail(z.wire) ELSE [z.wire EXCEPT ![1] = left]
             r == [z EXCEPT !.wire = rest]
             y == OnRead(x, q)
  <1>4. /\ Good(x) /\ Good(z) /\ Balanced(x, z) /\ Balanced(z, x) /\ DOMAIN carrier = Sides
    BY <1>1 DEF DInv
  <1>5. z.wire \in Seq(Seq(Pieces)) /\ DOMAIN z = Fields
    BY <1>4 DEF Good, Typed
  <1> HIDE DEF p
  <1>6. /\ DOMAIN carrier' = Sides /\ carrier'[s] = y /\ carrier'[p] = r
    <2>1. carrier' = [carrier EXCEPT ![s] = y, ![p].wire = rest]
      BY <1>1, <1>3, <1>4
    <2> HIDE DEF y, rest
    <2> QED BY <1>1, <1>4, <2>1
  <1>7. /\ q \in Seq(Pieces) /\ rest \in Seq(Seq(Pieces))
        /\ DataPieces(z.wire) = DataPieces(rest) + DataIn(q)
        /\ Announced(z.wire) = Announced(rest) + CreditIn(q)
    BY <1>2, <1>3, <1>5, WireFront
  <1> HIDE DEF rest, q
  <1>8. /\ DOMAIN r = Fields
        /\ r.queue = z.queue /\ r.ctl = z.ctl /\ r.writes = z.writes /\ r.wire = rest
        /\ r.input = z.input /\ r.records = z.records /\ r.window = z.window
        /\ r.consumed = z.consumed /\ r.owned = z.owned /\ r.returned = z.returned
        /\ r.held = z.held /\ r.opening = z.opening /\ r.terminal = z.terminal
        /\ r.closing = z.closing /\ r.receiving = z.receiving /\ r.sending = z.sending
        /\ r.tx = z.tx /\ r.rx = z.rx /\ r.why = z.why /\ r.next = z.next
    <2> HIDE DEF z
    <2> QED BY <1>5 DEF Fields
  <1> HIDE DEF x, z, y, r
  <1>9. Good(r)
    <2>1. Typed(r)
      BY <1>4, <1>7, <1>8 DEF Good, Typed
    <2> QED BY <1>4, <1>8, <2>1 DEF Good, Asked, Covered, Solvent
  <1>10. Share(r) = Share(z)
    BY <1>8 DEF Share
  <1>11. /\ CreditIn(q) \in Nat /\ DataIn(q) \in Nat
         /\ DataPieces(rest) \in Nat /\ Announced(rest) \in Nat
    BY <1>7, WriteNat, WritesNat
  <1>12. /\ z.window \in Nat /\ DataPieces(z.writes) \in Nat
         /\ z.owned \in Nat /\ z.consumed \in Nat /\ CreditIn(z.ctl) \in Nat
         /\ Announced(z.writes) \in Nat
    BY <1>4, Measures DEF Good
  <1>13. Sendable(z) = Sendable(r) + DataIn(q)
    <2>1. /\ Sendable(z) = z.window + (DataPieces(rest) + DataIn(q)) + DataPieces(z.writes)
          /\ Sendable(r) = z.window + DataPieces(rest) + DataPieces(z.writes)
      BY <1>7, <1>8 DEF Sendable
    <2> QED BY <1>11, <1>12, <2>1
  <1>14. Retained(z) = Retained(r) + CreditIn(q)
    <2>1. /\ Retained(z) = z.owned + z.consumed + CreditIn(z.ctl)
                            + (Announced(rest) + CreditIn(q)) + Announced(z.writes)
          /\ Retained(r) = z.owned + z.consumed + CreditIn(z.ctl)
                            + Announced(rest) + Announced(z.writes)
      BY <1>7, <1>8 DEF Retained
    <2> QED BY <1>11, <1>12, <2>1
  <1>15. x.owned + DataIn(q) <= Window
    <2>1. Sendable(z) + Retained(x) <= Share(x)
      BY <1>2, <1>4 DEF Balanced, x
    <2>2. Share(x) <= Window /\ Share(x) \in Nat /\ Window \in Nat
      BY Limits DEF Share
    <2>3. /\ x.owned \in Nat /\ x.consumed \in Nat /\ CreditIn(x.ctl) \in Nat
          /\ Announced(x.wire) \in Nat /\ Announced(x.writes) \in Nat
          /\ Retained(x) \in Nat
      BY <1>4, Measures DEF Good
    <2>4. x.owned <= Retained(x)
      BY <2>3 DEF Retained
    <2>5. Sendable(r) \in Nat /\ Sendable(z) \in Nat
      BY <1>4, <1>9, Measures DEF Good
    <2> QED BY SMTT(30), <1>11, <1>13, <2>1, <2>2, <2>3, <2>4, <2>5
  <1>16. Gains(x, y, CreditIn(q), DataIn(q))
    BY <1>4, <1>7, <1>15, ReadGains DEF y
  <1>17. Balanced(y, r) /\ Balanced(r, y)
    BY <1>4, <1>8, <1>9, <1>10, <1>11, <1>13, <1>14, <1>16, Exchange
  <1>18. Good(y)
    BY <1>16 DEF Gains
  <1>19. Good(carrier'[s]) /\ Balanced(carrier'[s], carrier'[p])
    BY <1>6, <1>17, <1>18
  <1>20. Good(carrier'[p]) /\ Balanced(carrier'[p], carrier'[s])
    BY <1>6, <1>9, <1>17
  <1>21. \A t \in Sides : Good(carrier'[t]) /\ Balanced(carrier'[t], carrier'[Peer(t)])
    BY <1>1, <1>19, <1>20 DEF p
  <1> QED BY <1>6, <1>21 DEF DInv

\* What an end starts with.
LEMMA FreshFacts ==
    ASSUME NEW s \in Sides
    PROVE  LET f == Fresh(s)
           IN  /\ DOMAIN f = Fields
               /\ f.queue = <<>> /\ f.ctl = <<>> /\ f.writes = <<>> /\ f.wire = <<>>
               /\ f.input = <<>> /\ f.records = <<>> /\ f.window = FirstWindow
               /\ f.consumed = 0 /\ f.owned = 0 /\ f.returned = 0
               /\ f.held = 0 /\ f.opening = (s = "client") /\ f.terminal = FALSE
               /\ f.closing = FALSE /\ f.receiving = FALSE /\ f.sending = FALSE
               /\ f.tx = "idle" /\ f.rx = "idle" /\ f.why = "none" /\ f.next = 1
  BY DEF Fresh, Fields

\* An end that has only sent what is in ws.
LEMMA FreshGood ==
    ASSUME NEW f, NEW ws \in Seq(Seq(Pieces)),
           DOMAIN f = Fields,
           f.queue = <<>>, f.ctl = <<>>, f.writes = <<>>, f.wire = ws,
           f.input = <<>>, f.records = <<>>, f.window = FirstWindow,
           f.consumed = 0, f.owned = 0, f.returned = 0, f.held = 0,
           f.opening \in BOOLEAN, f.terminal \in BOOLEAN, f.closing = FALSE,
           f.receiving = FALSE, f.sending = FALSE, f.tx = "idle", f.rx = "idle",
           f.why \in {"none", "refused"}, f.next = 1
    PROVE  /\ Good(f) /\ Sendable(f) = FirstWindow + DataPieces(ws)
           /\ Retained(f) = Announced(ws)
  <1>1. /\ <<>> \in Seq(DataPiece) /\ <<>> \in Seq(Returns) /\ <<>> \in Seq(Seq(Pieces))
        /\ <<>> \in Seq(Pieces) /\ <<>> \in Seq(Nat) /\ 0 \in 0..Window /\ 0 \in Nat
        /\ 1 \in Nat /\ FirstWindow \in Nat /\ FALSE \in BOOLEAN
    BY Limits
  <1>2. Typed(f)
    BY <1>1, Zenon DEF Typed
  <1>3. Covered(f)
    <2>1. Len(f.records) + f.held = 0 /\ Len(f.input) = 0
      OBVIOUS
    <2>2. RecordBytes * 0 = 0
      BY Limits
    <2>3. Len(f.input) + RecordBytes * (Len(f.records) + f.held) + f.returned = 0
      BY <2>1, <2>2
    <2> QED BY <2>3 DEF Covered
  <1>4. Good(f)
    BY <1>2, <1>3 DEF Good, Asked, Solvent
  <1>5. DataPieces(<<>>) = 0 /\ Announced(<<>>) = 0 /\ CreditIn(<<>>) = 0
    BY <1>1, WritesNat, WriteNat
  <1>6. DataPieces(ws) \in Nat /\ Announced(ws) \in Nat
    BY WritesNat
  <1>7. Sendable(f) = FirstWindow + DataPieces(ws)
    <2>1. Sendable(f) = FirstWindow + DataPieces(ws) + 0
      BY <1>5 DEF Sendable
    <2> QED BY <1>1, <1>6, <2>1
  <1>8. Retained(f) = Announced(ws)
    <2>1. Retained(f) = 0 + 0 + 0 + Announced(ws) + 0
      BY <1>5 DEF Retained
    <2> QED BY <1>6, <2>1
  <1> QED BY <1>4, <1>7, <1>8

\* What the server has written at the start.
LEMMA FirstWrites ==
    /\ <<>> \in Seq(Seq(Pieces)) /\ DataPieces(<<>>) = 0 /\ Announced(<<>>) = 0
    /\ LET a == <<<<Piece("accept", 0)>>, <<Update(Window - FirstWindow)>>>>
       IN  /\ a \in Seq(Seq(Pieces)) /\ DataPieces(a) = 0
           /\ Announced(a) = Window - FirstWindow
    /\ LET d == <<<<Piece("refuse", 0)>>>>
       IN  d \in Seq(Seq(Pieces)) /\ DataPieces(d) = 0 /\ Announced(d) = 0
  <1>1. <<>> \in Seq(Seq(Pieces)) /\ <<>> \in Seq(Pieces)
    OBVIOUS
  <1>2. /\ DataPieces(<<>>) = 0 /\ Announced(<<>>) = 0
        /\ DataIn(<<>>) = 0 /\ CreditIn(<<>>) = 0
    BY <1>1, WritesNat, WriteNat
  <1>3. PICK m \in Nat : m = Window - FirstWindow
    BY Limits
  <1> DEFINE a == Piece("accept", 0)
             d == Piece("refuse", 0)
             u == Update(m)
  <1>4. /\ a \in Pieces /\ d \in Pieces /\ u \in Pieces /\ u.kind = "update" /\ u.n = m
        /\ a.kind = "accept" /\ d.kind = "refuse"
        /\ ~IsData(a) /\ ~IsData(d) /\ ~IsData(u)
    BY DEF Piece, Update, Pieces, IsData
  <1> HIDE DEF a, d, u
  <1>5. ASSUME NEW e \in Pieces, ~IsData(e)
        PROVE  /\ <<e>> \in Seq(Pieces) /\ DataIn(<<e>>) = 0
               /\ CreditIn(<<e>>) = IF e.kind = "update" THEN e.n ELSE 0
    <2>1. Append(<<>>, e) = <<e>>
      OBVIOUS
    <2>2. /\ Append(<<>>, e) \in Seq(Pieces)
          /\ DataIn(Append(<<>>, e)) = DataIn(<<>>) + IF IsData(e) THEN 1 ELSE 0
          /\ CreditIn(Append(<<>>, e)) = CreditIn(<<>>) + IF e.kind = "update" THEN e.n ELSE 0
      BY <1>1, WriteAppend
    <2>3. e.n \in Nat
      BY DEF Pieces
    <2> QED BY <1>2, <1>5, <2>1, <2>2, <2>3
  <1>6. /\ <<a>> \in Seq(Pieces) /\ DataIn(<<a>>) = 0 /\ CreditIn(<<a>>) = 0
        /\ <<d>> \in Seq(Pieces) /\ DataIn(<<d>>) = 0 /\ CreditIn(<<d>>) = 0
        /\ <<u>> \in Seq(Pieces) /\ DataIn(<<u>>) = 0 /\ CreditIn(<<u>>) = m
    BY <1>4, <1>5
  <1>7. ASSUME NEW w \in Seq(Pieces), DataIn(w) = 0, CreditIn(w) = 0
        PROVE  <<w>> \in Seq(Seq(Pieces)) /\ DataPieces(<<w>>) = 0 /\ Announced(<<w>>) = 0
    <2>1. Append(<<>>, w) = <<w>>
      OBVIOUS
    <2>2. /\ Append(<<>>, w) \in Seq(Seq(Pieces))
          /\ DataPieces(Append(<<>>, w)) = DataPieces(<<>>) + DataIn(w)
          /\ Announced(Append(<<>>, w)) = Announced(<<>>) + CreditIn(w)
      BY <1>1, WritesAppend
    <2> QED BY <1>2, <1>7, <2>1, <2>2
  <1>8. /\ <<<<a>>, <<u>>>> \in Seq(Seq(Pieces)) /\ DataPieces(<<<<a>>, <<u>>>>) = 0
        /\ Announced(<<<<a>>, <<u>>>>) = m
    <2> DEFINE w == <<a>>
               v == <<u>>
    <2>1. <<w>> \in Seq(Seq(Pieces)) /\ DataPieces(<<w>>) = 0 /\ Announced(<<w>>) = 0
      BY <1>6, <1>7
    <2>2. v \in Seq(Pieces) /\ DataIn(v) = 0 /\ CreditIn(v) = m
      BY <1>6
    <2> HIDE DEF w, v
    <2>3. Append(<<w>>, v) = <<w, v>>
      <3> DEFINE f == Append(<<w>>, v)
                 g == <<w, v>>
      <3>1. /\ w \in Seq(Pieces) /\ f \in Seq(Seq(Pieces)) /\ g \in Seq(Seq(Pieces))
        BY <1>6, <2>1, <2>2 DEF w
      <3>2. Len(f) = 2 /\ Len(g) = 2 /\ f[1] = w /\ f[2] = v /\ g[1] = w /\ g[2] = v
        BY <2>1, <2>2, <3>1
      <3> HIDE DEF f, g
      <3>3. Len(f) = Len(g) /\ \A i \in 1..Len(f) : f[i] = g[i]
        BY <3>2
      <3>4. f = g
        <4>1. f \in Seq(Seq(Pieces)) /\ g \in Seq(Seq(Pieces))
          BY <3>1
        <4> QED BY <3>3, <4>1, SeqEqual
      <3> QED BY <3>4 DEF f, g
    <2>4. /\ Append(<<w>>, v) \in Seq(Seq(Pieces))
          /\ DataPieces(Append(<<w>>, v)) = DataPieces(<<w>>) + DataIn(v)
          /\ Announced(Append(<<w>>, v)) = Announced(<<w>>) + CreditIn(v)
      BY <2>1, <2>2, WritesAppend
    <2>5. <<w, v>> \in Seq(Seq(Pieces)) /\ DataPieces(<<w, v>>) = 0 /\ Announced(<<w, v>>) = m
      <3>1. DataPieces(<<w, v>>) = 0 + 0 /\ Announced(<<w, v>>) = 0 + m
        BY <2>1, <2>2, <2>3, <2>4, Zenon
      <3>2. <<w, v>> \in Seq(Seq(Pieces))
        BY <2>3, <2>4, Zenon
      <3> QED BY <3>1, <3>2
    <2> QED BY <2>5 DEF w, v
  <1>9. /\ <<<<d>>>> \in Seq(Seq(Pieces)) /\ DataPieces(<<<<d>>>>) = 0
        /\ Announced(<<<<d>>>>) = 0
    BY <1>6, <1>7
  <1> QED BY <1>1, <1>2, <1>3, <1>8, <1>9 DEF a, d, u

\* The windows add up at the start.
LEMMA InitHolds == Init => DInv
  <1> SUFFICES ASSUME Init PROVE DInv
    OBVIOUS
  <1> DEFINE c == carrier["client"]
             v == carrier["server"]
             a == <<<<Piece("accept", 0)>>, <<Update(Window - FirstWindow)>>>>
             d == <<<<Piece("refuse", 0)>>>>
  <1>1. "client" \in Sides /\ "server" \in Sides /\ DOMAIN carrier = Sides
    BY DEF Init, Sides
  <1>2. \/ /\ c = [Fresh("client") EXCEPT !.created = "waiting"]
           /\ v = [Fresh("server") EXCEPT !.wire = a]
        \/ /\ c = [Fresh("client") EXCEPT !.created = "waiting"]
           /\ v = [Fresh("server") EXCEPT !.wire = d, !.created = "failed",
                     !.terminal = TRUE, !.why = "refused", !.reading = FALSE]
    BY DEF Init
  <1> HIDE DEF c, v, a, d
  <1> DEFINE fc == Fresh("client")
             fs == Fresh("server")
  <1>3. /\ DOMAIN fc = Fields
        /\ fc.queue = <<>> /\ fc.ctl = <<>> /\ fc.writes = <<>> /\ fc.wire = <<>>
        /\ fc.input = <<>> /\ fc.records = <<>> /\ fc.window = FirstWindow
        /\ fc.consumed = 0 /\ fc.owned = 0 /\ fc.returned = 0
        /\ fc.held = 0 /\ fc.opening = TRUE /\ fc.terminal = FALSE
        /\ fc.closing = FALSE /\ fc.receiving = FALSE /\ fc.sending = FALSE
        /\ fc.tx = "idle" /\ fc.rx = "idle" /\ fc.why = "none" /\ fc.next = 1
    BY DEF Fresh, Fields
  <1>4. /\ DOMAIN fs = Fields
        /\ fs.queue = <<>> /\ fs.ctl = <<>> /\ fs.writes = <<>> /\ fs.wire = <<>>
        /\ fs.input = <<>> /\ fs.records = <<>> /\ fs.window = FirstWindow
        /\ fs.consumed = 0 /\ fs.owned = 0 /\ fs.returned = 0
        /\ fs.held = 0 /\ fs.opening = FALSE /\ fs.terminal = FALSE
        /\ fs.closing = FALSE /\ fs.receiving = FALSE /\ fs.sending = FALSE
        /\ fs.tx = "idle" /\ fs.rx = "idle" /\ fs.why = "none" /\ fs.next = 1
    BY DEF Fresh, Fields
  <1> HIDE DEF fc, fs
  <1>5. c = [fc EXCEPT !.created = "waiting"]
    BY <1>2 DEF fc
  <1>6. /\ DOMAIN c = Fields
        /\ c.queue = <<>> /\ c.ctl = <<>> /\ c.writes = <<>> /\ c.wire = <<>>
        /\ c.input = <<>> /\ c.records = <<>> /\ c.window = FirstWindow
        /\ c.consumed = 0 /\ c.owned = 0 /\ c.returned = 0
        /\ c.held = 0 /\ c.opening = TRUE /\ c.terminal = FALSE
        /\ c.closing = FALSE /\ c.receiving = FALSE /\ c.sending = FALSE
        /\ c.tx = "idle" /\ c.rx = "idle" /\ c.why = "none" /\ c.next = 1
    BY <1>3, <1>5 DEF Fields
  <1>7. /\ <<>> \in Seq(Seq(Pieces)) /\ DataPieces(<<>>) = 0 /\ Announced(<<>>) = 0
        /\ a \in Seq(Seq(Pieces)) /\ DataPieces(a) = 0
        /\ Announced(a) = Window - FirstWindow
        /\ d \in Seq(Seq(Pieces)) /\ DataPieces(d) = 0 /\ Announced(d) = 0
    BY FirstWrites DEF a, d
  <1>8. /\ Window \in Nat /\ FirstWindow \in Nat /\ FirstWindow <= Window
    BY Limits
  <1>9. Good(c) /\ Sendable(c) = FirstWindow /\ Retained(c) = 0 /\ Share(c) = FirstWindow
    <2>1. Good(c) /\ Sendable(c) = FirstWindow + 0 /\ Retained(c) = 0
      BY <1>6, <1>7, FreshGood
    <2>2. Share(c) = FirstWindow
      BY <1>6 DEF Share
    <2> QED BY <1>8, <2>1, <2>2
  <1>10. /\ DOMAIN v = Fields
         /\ v.queue = <<>> /\ v.ctl = <<>> /\ v.writes = <<>>
         /\ v.input = <<>> /\ v.records = <<>> /\ v.window = FirstWindow
         /\ v.consumed = 0 /\ v.owned = 0 /\ v.returned = 0
         /\ v.held = 0 /\ v.opening = FALSE
         /\ v.closing = FALSE /\ v.receiving = FALSE /\ v.sending = FALSE
         /\ v.tx = "idle" /\ v.rx = "idle" /\ v.next = 1
         /\ \/ v.wire = a /\ v.terminal = FALSE /\ v.why = "none"
            \/ v.wire = d /\ v.terminal = TRUE /\ v.why = "refused"
    <2>1. CASE v = [fs EXCEPT !.wire = a]
      BY <1>4, <2>1 DEF Fields
    <2>2. CASE v = [fs EXCEPT !.wire = d, !.created = "failed",
                     !.terminal = TRUE, !.why = "refused", !.reading = FALSE]
      BY <1>4, <2>2 DEF Fields
    <2> QED BY <1>2, <2>1, <2>2 DEF fs
  <1>11. /\ Good(v) /\ Sendable(v) = FirstWindow /\ Share(v) = Window
         /\ ~v.terminal => Retained(v) = Window - FirstWindow
    <2>1. Good(v) /\ Sendable(v) = FirstWindow + DataPieces(v.wire)
          /\ Retained(v) = Announced(v.wire)
      <3>1. v.wire \in Seq(Seq(Pieces)) /\ v.why \in {"none", "refused"}
            /\ v.terminal \in BOOLEAN /\ v.opening \in BOOLEAN
        BY <1>7, <1>10
      <3> QED BY <1>10, <3>1, FreshGood
    <2>2. Share(v) = Window
      BY <1>10 DEF Share
    <2> QED BY <1>7, <1>8, <1>10, <2>1, <2>2
  <1>12. Balanced(c, v) /\ Balanced(v, c)
    BY <1>6, <1>8, <1>9, <1>11 DEF Balanced
  <1>13. \A s \in Sides : Good(carrier[s]) /\ Balanced(carrier[s], carrier[Peer(s)])
    BY <1>9, <1>11, <1>12 DEF Sides, Peer, c, v
  <1> QED BY <1>1, <1>13 DEF DInv

\* Every step of either end keeps the invariant.
LEMMA StepHolds ==
    ASSUME DInv, NEW s \in Sides, Step(s)
    PROVE  DInv'
  <1> DEFINE x == carrier[s]
  <1>1. Good(x) /\ DOMAIN x = Fields
    BY DEF DInv, Good, Typed
  <1>2. CASE Receive(s)
    <2>1. Keeps(x, BeginReceive(x))
      BY <1>1, <1>2, ReceiveKeeps DEF Receive
    <2> QED BY <1>2, <2>1, OneEnd DEF Receive
  <1>3. CASE Send(s)
    <2>1. Keeps(x, BeginSend(x))
      BY <1>1, <1>3, SendKeeps DEF Send
    <2> QED BY <1>3, <2>1, OneEnd DEF Send
  <1>4. CASE Release(s)
    <2> DEFINE y == RequestCredit([x EXCEPT !.held = @ - 1], RecordBytes)
    <2>1. x.held > 0 /\ Becomes(s, y)
      BY <1>4 DEF Release
    <2>2. Keeps(x, y)
      BY <1>1, <2>1, ReleaseKeeps
    <2> HIDE DEF y
    <2> QED BY <2>1, <2>2, OneEnd
  <1>5. CASE Cancel(s)
    <2> DEFINE m == [x EXCEPT !.cancelled = TRUE, !.stage = "cancelled"]
    <2>1. Becomes(s, m) \/ Becomes(s, NotifyControl(m))
      BY <1>5 DEF Cancel
    <2>2. Alike(x, m)
      <3> HIDE DEF x
      <3> QED BY <1>1 DEF Fields, Alike
    <2> HIDE DEF m
    <2>3. Keeps(x, m) /\ Good(m)
      BY <1>1, <2>2, AlikeKeeps DEF Keeps, Gains
    <2>4. Keeps(x, NotifyControl(m))
      BY <1>1, <2>3, NotifyKeeps, KeepsTrans
    <2>5. CASE Becomes(s, m)
      BY <2>3, <2>5, OneEnd
    <2>6. CASE Becomes(s, NotifyControl(m))
      BY <2>4, <2>6, OneEnd
    <2> QED BY <2>1, <2>5, <2>6
  <1>6. CASE Close(s)
    <2> DEFINE m == [x EXCEPT !.stage = "closed"]
    <2>1. Becomes(s, RequestTerminal(m))
      BY <1>6 DEF Close
    <2>2. Alike(x, m)
      <3> HIDE DEF x
      <3> QED BY <1>1 DEF Fields, Alike
    <2> HIDE DEF m
    <2>3. Keeps(x, m) /\ Good(m)
      BY <1>1, <2>2, AlikeKeeps DEF Keeps, Gains
    <2>4. Keeps(x, RequestTerminal(m))
      BY <1>1, <2>3, NotifyKeeps, KeepsTrans
    <2> QED BY <2>1, <2>4, OneEnd
  <1>7. CASE Control(s)
    <2>1. Keeps(x, SettleControl(x))
      BY <1>1, <1>7, ControlKeeps DEF Control
    <2> QED BY <1>7, <2>1, OneEnd DEF Control
  <1>8. CASE Read(s)
    BY <1>8, ReadStep
  <1>9. CASE ReadEnd(s)
    <2>1. Keeps(x, OnReadEnd(x))
      BY <1>1, ReadEndKeeps
    <2> QED BY <1>9, <2>1, OneEnd DEF ReadEnd
  <1>10. CASE Write(s)
    <2>1. Keeps(x, OnWrite(x, TRUE)) /\ Keeps(x, OnWrite(x, FALSE))
      BY <1>1, WriteKeeps
    <2>2. Becomes(s, OnWrite(x, TRUE)) \/ Becomes(s, OnWrite(x, FALSE))
      BY <1>10 DEF Write
    <2> QED BY <2>1, <2>2, OneEnd
  <1>11. CASE Deadline(s)
    <2>1. Keeps(x, FinishGracefulClose(x, FALSE))
      BY <1>1, FinishKeeps
    <2> QED BY <1>11, <2>1, OneEnd DEF Deadline
  <1> QED BY <1>2, <1>3, <1>4, <1>5, <1>6, <1>7, <1>8, <1>9, <1>10, <1>11 DEF Step

-----------------------------------------------------------------------------
(* The theorems. *)

\* The carrier's ledgers: at each end what is asked is pending or settled, the
\* credit owned covers what is buffered, handed out and handed back, and no check
\* of a ledger has failed; and between the ends every unit of window is in
\* exactly one place.
THEOREM CarrierLedgers == Spec => []DInv
  <1>1. Init => DInv
    BY InitHolds
  <1>2. DInv /\ [Next]_vars => DInv'
    <2> SUFFICES ASSUME DInv, [Next]_vars PROVE DInv'
      OBVIOUS
    <2>1. CASE Next
      BY <2>1, StepHolds DEF Next
    <2>2. CASE UNCHANGED vars
      BY <2>2 DEF vars, DInv
    <2> QED BY <2>1, <2>2
  <1> QED BY <1>1, <1>2, PTL DEF Spec

\* No handler of either end loses credit or makes any, in whatever order reads,
\* writes, releases, cancellations and closes come.
THEOREM CreditIsConserved == Spec => []CreditConserved
  <1>1. DInv => CreditConserved
    BY DEF DInv, Balanced, Share, CreditConserved
  <1> QED BY <1>1, CarrierLedgers, PTL

\* Every receive and every send of the session is settled once.
THEOREM OperationsSettleOnce == Spec => []SettledOnce
  <1>1. DInv => SettledOnce
    BY DEF DInv, Good, Asked, SettledOnce
  <1> QED BY <1>1, CarrierLedgers, PTL

\* No traffic of a conforming peer, and no order of releases, makes the checks
\* of parse_record_header, parse_record_payload, drain_tunnel_bytes or
\* return_credit fail, and what an end retains for its session stays within the
\* window it announced.
LedgersHold ==
    \A s \in Sides :
        LET x == carrier[s]
        IN  /\ x.why \notin {"overrun", "ledger"}
            /\ ~x.terminal /\ ~x.closing =>
                 Len(x.input) + RecordBytes * (Len(x.records) + x.held) + x.returned <= Window

\* The checks of the ledgers never fail and the window bounds what is retained.
THEOREM CarrierLedgersHold == Spec => []LedgersHold
  <1>1. DInv => LedgersHold
    <2> SUFFICES ASSUME DInv, NEW s \in Sides
                 PROVE  LET x == carrier[s]
                        IN  /\ x.why \notin {"overrun", "ledger"}
                            /\ ~x.terminal /\ ~x.closing =>
                                 Len(x.input) + RecordBytes * (Len(x.records) + x.held)
                                   + x.returned <= Window
      BY DEF LedgersHold
    <2> DEFINE x == carrier[s]
    <2>1. Good(x)
      BY DEF DInv
    <2> HIDE DEF x
    <2>2. /\ x.owned \in Nat /\ x.owned <= Window /\ x.input \in Seq(Pieces)
          /\ x.records \in Seq(Nat) /\ x.held \in Nat /\ x.returned \in Nat /\ Window \in Nat
      BY <2>1, Limits DEF Good, Typed
    <2>3. PICK k \in Nat :
            k = Len(x.input) + RecordBytes * (Len(x.records) + x.held) + x.returned
      <3>1. Len(x.input) \in Nat /\ Len(x.records) \in Nat
        BY <2>2
      <3>2. RecordBytes * (Len(x.records) + x.held) \in Nat
        BY <2>2, <3>1, Products
      <3> QED BY <2>2, <3>1, <3>2
    <2>4. ~x.terminal /\ ~x.closing => k <= Window
      <3>1. ~x.terminal /\ ~x.closing => x.owned >= k
        BY <2>1, <2>3 DEF Good, Covered
      <3> QED BY <2>2, <3>1
    <2> QED BY <2>1, <2>3, <2>4 DEF Good, Solvent, x
  <1> QED BY <1>1, CarrierLedgers, PTL
=============================================================================

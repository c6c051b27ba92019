------------------------- MODULE FlowControlProofs -------------------------
(***************************************************************************)
(* Proofs about FlowControl, for every set of streams, every record size   *)
(* and every scene of limits: the session's accounting never fails, and    *)
(* its windows are CreditWindows.                                          *)
(*                                                                         *)
(* One failed check ends the session, so every window has to be right for  *)
(* any to be: the invariant FInv is the ledger of the connection window    *)
(* and of all stream windows at once.  A handler is taken apart into what  *)
(* it does to the connection's ledger, to the ledger of its own stream and *)
(* to the others', which it leaves alone.                                  *)
(***************************************************************************)
EXTENDS FlowControl, SequenceTheorems, FiniteSetTheorems,
        WellFoundedInduction, TLAPS

-----------------------------------------------------------------------------
(* Induction over the natural numbers in the form the provers can use: for a *)
(* set of numbers instead of a predicate.                                    *)

\* A set with 0 that is closed under successor holds every natural number.
LEMMA NatSetInduction ==
  ASSUME NEW S, 0 \in S, \A n \in Nat : n \in S => n + 1 \in S
  PROVE  Nat \subseteq S
  <1> DEFINE T == Nat \ S
             R == OpToRel(<, Nat)
  <1>1. SUFFICES ASSUME T # {} PROVE FALSE
    OBVIOUS
  <1>2. IsWellFoundedOn(R, Nat)
    BY NatLessThanWellFounded
  <1>3. \A x, y \in Nat : x < y => <<x, y>> \in R
    BY DEF OpToRel
  <1>4. PICK x \in T : \A y \in T : ~ (<<y, x>> \in R)
    <2> HIDE DEF T, R
    <2>1. T \subseteq Nat BY DEF T
    <2> QED BY <1>1, <1>2, <2>1, WFMin
  <1> HIDE DEF R
  <1>5. x # 0 /\ x \in Nat
    OBVIOUS
  <1>6. x - 1 \in Nat /\ x - 1 < x
    BY <1>5
  <1>7. x - 1 \notin T
    BY <1>3, <1>4, <1>5, <1>6
  <1> QED BY <1>5, <1>6, <1>7

\* A set of natural numbers has a least one.
LEMMA LeastNumber ==
  ASSUME NEW S, S \subseteq Nat, S # {}
  PROVE  \E n \in S : \A m \in S : n <= m
  <1> DEFINE R == OpToRel(<, Nat)
  <1>1. IsWellFoundedOn(R, Nat)
    BY NatLessThanWellFounded
  <1>2. \A n, m \in Nat : n < m => <<n, m>> \in R
    BY DEF OpToRel
  <1>3. PICK n \in S : \A m \in S : ~(<<m, n>> \in R)
    <2> HIDE DEF R
    <2> QED BY <1>1, WFMin
  <1> HIDE DEF R
  <1>4. ASSUME NEW m \in S PROVE n <= m
    <2>1. n \in Nat /\ m \in Nat /\ ~(<<m, n>> \in R)
      BY <1>3
    <2>2. ~(m < n)
      BY <1>2, <2>1
    <2> QED BY <2>1, <2>2
  <1> QED BY <1>3, <1>4

\* Induction up to a bound.
LEMMA UpTo ==
  ASSUME NEW S, NEW m \in Nat, 0 \in S,
         \A n \in Nat : n < m /\ n \in S => n + 1 \in S
  PROVE  \A n \in 0..m : n \in S
  <1> DEFINE T == {n \in Nat : n <= m => n \in S}
  <1>1. 0 \in T
    OBVIOUS
  <1>2. \A n \in Nat : n \in T => n + 1 \in T
    OBVIOUS
  <1>3. Nat \subseteq T
    <2> HIDE DEF T
    <2> QED BY <1>1, <1>2, NatSetInduction
  <1> QED BY <1>3

-----------------------------------------------------------------------------
(* What the sums over a queue and over the streams compute. *)

\* `g' holds the running totals of the first n numbers of v.
IsSum(v, n, g) ==
    /\ g \in [0..n -> Nat]
    /\ g[0] = 0
    /\ \A i \in 1..n : g[i] = g[i - 1] + v[i]

\* Running totals exist.
LEMMA SumExists ==
    ASSUME NEW n \in Nat, NEW v \in [1..n -> Nat]
    PROVE  \E g : IsSum(v, n, g)
  <1> DEFINE K == {m \in Nat : \E g : IsSum(v, m, g)}
  <1>1. 0 \in K
    <2>1. IsSum(v, 0, [i \in 0..0 |-> 0])
      BY DEF IsSum
    <2> QED BY <2>1
  <1>2. ASSUME NEW m \in Nat, m < n, m \in K PROVE m + 1 \in K
    <2>1. PICK g : IsSum(v, m, g)
      BY <1>2
    <2> DEFINE h == [i \in 0..(m + 1) |-> IF i <= m THEN g[i] ELSE g[m] + v[m + 1]]
    <2>2. v[m + 1] \in Nat /\ m + 1 \in 1..n
      BY <1>2
    <2>3. \A i \in 0..m : g[i] \in Nat
      BY <2>1 DEF IsSum
    <2>4. h \in [0..(m + 1) -> Nat] /\ h[0] = 0
      BY <2>1, <2>2, <2>3 DEF IsSum
    <2>5. ASSUME NEW i \in 1..(m + 1) PROVE h[i] = h[i - 1] + v[i]
      <3>1. CASE i <= m
        <4>1. g[i] = g[i - 1] + v[i]
          BY <2>1, <3>1 DEF IsSum
        <4> QED BY <3>1, <4>1
      <3>2. CASE i = m + 1
        <4>1. h[i] = g[m] + v[m + 1] /\ i - 1 = m /\ m \in 0..(m + 1) /\ m <= m
          BY <3>2
        <4> QED BY <3>2, <4>1
      <3> QED BY <3>1, <3>2
    <2> HIDE DEF h
    <2>6. IsSum(v, m + 1, h)
      BY <2>4, <2>5 DEF IsSum
    <2> QED BY <2>6
  <1>3. \A m \in 0..n : m \in K
    <2> HIDE DEF K
    <2> QED BY <1>1, <1>2, UpTo
  <1> QED BY <1>3

\* They are determined by the numbers.
LEMMA SumUnique ==
    ASSUME NEW n \in Nat, NEW v, NEW w, NEW g, NEW h, IsSum(v, n, g), IsSum(w, n, h),
           \A i \in 1..n : v[i] = w[i]
    PROVE  g[n] = h[n]
  <1> DEFINE K == {m \in Nat : g[m] = h[m]}
  <1>1. 0 \in K
    BY DEF IsSum
  <1>2. ASSUME NEW m \in Nat, m < n, m \in K PROVE m + 1 \in K
    <2>1. m + 1 \in 1..n /\ (m + 1) - 1 = m
      BY <1>2
    <2>2. g[m + 1] = g[m] + v[m + 1] /\ h[m + 1] = h[m] + w[m + 1]
      BY <2>1 DEF IsSum
    <2> QED BY <1>2, <2>1, <2>2
  <1>3. \A m \in 0..n : m \in K
    <2> HIDE DEF K
    <2> QED BY <1>1, <1>2, UpTo
  <1> QED BY <1>3

\* A number more at the end.
LEMMA SumLonger ==
    ASSUME NEW n \in Nat, NEW v \in [1..n -> Nat], NEW w \in [1..(n + 1) -> Nat],
           NEW g, NEW h, IsSum(v, n, g), IsSum(w, n + 1, h),
           \A i \in 1..n : w[i] = v[i]
    PROVE  h[n + 1] = g[n] + w[n + 1]
  <1>1. n + 1 \in 1..(n + 1) /\ (n + 1) - 1 = n
    OBVIOUS
  <1>2. h[n + 1] = h[n] + w[n + 1]
    BY <1>1 DEF IsSum
  <1> DEFINE f == [i \in 0..n |-> h[i]]
  <1>3. IsSum(w, n, f)
    BY DEF IsSum
  <1>4. f[n] = h[n]
    OBVIOUS
  <1> HIDE DEF f
  <1>5. f[n] = g[n]
    BY <1>3, SumUnique
  <1> QED BY <1>2, <1>4, <1>5

\* A number less at the beginning.
LEMMA SumShorter ==
    ASSUME NEW n \in Nat, NEW v \in [1..n -> Nat], NEW w \in [1..(n + 1) -> Nat],
           NEW g, NEW h, IsSum(v, n, g), IsSum(w, n + 1, h),
           v = [i \in 1..n |-> w[i + 1]]
    PROVE  h[n + 1] = g[n] + w[1]
  <1> DEFINE f == [i \in 0..(n + 1) |-> IF i = 0 THEN 0 ELSE w[1] + g[i - 1]]
  <1>0. w[1] \in Nat /\ \A i \in 0..n : g[i] \in Nat
    BY DEF IsSum
  <1>1. f \in [0..(n + 1) -> Nat] /\ f[0] = 0
    BY <1>0
  <1>2. ASSUME NEW i \in 1..(n + 1) PROVE f[i] = f[i - 1] + w[i]
    <2>1. CASE i = 1
      BY <1>0, <2>1 DEF IsSum
    <2>2. CASE i # 1
      <3>1. i - 1 \in 1..n /\ (i - 1) + 1 = i
        BY <2>2
      <3>2. g[i - 1] = g[(i - 1) - 1] + v[i - 1] /\ w[i] = v[i - 1]
        BY <3>1 DEF IsSum
      <3>3. f[i] = w[1] + g[i - 1] /\ f[i - 1] = w[1] + g[(i - 1) - 1]
        BY <3>1
      <3>4. g[(i - 1) - 1] \in Nat /\ v[i - 1] \in Nat
        BY <1>0, <3>1
      <3> HIDE DEF f
      <3> QED BY <1>0, <3>2, <3>3, <3>4
    <2> QED BY <2>1, <2>2
  <1>3. f[n + 1] = w[1] + g[n]
    OBVIOUS
  <1> HIDE DEF f
  <1>4. IsSum(w, n + 1, f)
    BY <1>1, <1>2 DEF IsSum
  <1>5. f[n + 1] = h[n + 1]
    BY <1>4, SumUnique
  <1>6. n \in 0..n
    OBVIOUS
  <1> QED BY <1>0, <1>3, <1>5, <1>6

\* What each record of a queue adds to BytesIn.
Weights(q, T) == [i \in 1..Len(q) |-> IF q[i] \in T THEN Size[q[i]] ELSE 0]

\* They are numbers.
LEMMA WeightsType ==
    ASSUME NEW q \in Seq(Streams), NEW T
    PROVE  Weights(q, T) \in [1..Len(q) -> Nat] /\ Len(q) \in Nat
  <1>1. Len(q) \in Nat /\ \A i \in 1..Len(q) : q[i] \in Streams
    OBVIOUS
  <1>2. \A s \in Streams : Size[s] \in Nat
    BY StreamsAssumption, FrameAssumption
  <1> QED BY <1>1, <1>2 DEF Weights

\* A function that adds up v from 0 on is the running total.
LEMMA SumIs ==
    ASSUME NEW n \in Nat, NEW v \in [1..n -> Nat], NEW f, NEW g, IsSum(v, n, g),
           \A i \in 0..n : f[i] = IF i = 0 THEN 0 ELSE f[i - 1] + v[i]
    PROVE  f[n] = g[n]
  <1> DEFINE K == {m \in Nat : f[m] = g[m]}
  <1>1. 0 \in K
    BY DEF IsSum
  <1>2. ASSUME NEW m \in Nat, m < n, m \in K PROVE m + 1 \in K
    <2>1. m + 1 \in 1..n /\ (m + 1) - 1 = m /\ m + 1 # 0 /\ m + 1 \in 0..n
      BY <1>2
    <2>2. g[m + 1] = g[m] + v[m + 1]
      BY <2>1 DEF IsSum
    <2>3. f[m + 1] = f[m] + v[m + 1]
      BY <2>1
    <2> QED BY <1>2, <2>2, <2>3
  <1> HIDE DEF K
  <1>3. \A m \in 0..n : m \in K
    BY <1>1, <1>2, UpTo
  <1> QED BY <1>3 DEF K

\* BytesIn adds them up.
LEMMA BytesInSum ==
    ASSUME NEW q \in Seq(Streams), NEW T
    PROVE  \E g : IsSum(Weights(q, T), Len(q), g) /\ BytesIn(q, T) = g[Len(q)]
  <1> DEFINE n == Len(q)
             P(f) == f = [i \in 0..n |-> IF i = 0 THEN 0
                                    ELSE f[i - 1] + IF q[i] \in T THEN Size[q[i]] ELSE 0]
             sum == CHOOSE f : P(f)
  <1>0. n \in Nat /\ Weights(q, T) \in [1..n -> Nat]
    BY WeightsType
  <1>1. PICK g : IsSum(Weights(q, T), n, g)
    BY <1>0, SumExists
  <1>2. P(g)
    <2>1. g = [i \in 0..n |-> g[i]]
      BY <1>1 DEF IsSum
    <2>2. \A i \in 0..n : g[i] = IF i = 0 THEN 0
                                    ELSE g[i - 1] + IF q[i] \in T THEN Size[q[i]] ELSE 0
      BY <1>0, <1>1 DEF IsSum, Weights
    <2> QED BY <2>1, <2>2
  <1>3. P(sum)
    BY <1>2
  <1>4. BytesIn(q, T) = sum[n]
    BY DEF BytesIn
  <1> HIDE DEF sum
  <1>5. \A i \in 0..n : sum[i] = IF i = 0 THEN 0 ELSE sum[i - 1] + Weights(q, T)[i]
    <2>1. \A i \in 0..n : sum[i] = IF i = 0 THEN 0
                                ELSE sum[i - 1] + IF q[i] \in T THEN Size[q[i]] ELSE 0
      BY <1>3
    <2>2. \A i \in 0..n : i # 0 => Weights(q, T)[i] = IF q[i] \in T THEN Size[q[i]] ELSE 0
      BY <1>0 DEF Weights
    <2> QED BY <2>1, <2>2
  <1>6. sum[n] = g[n]
    BY <1>0, <1>1, <1>5, SumIs
  <1> QED BY <1>1, <1>4, <1>6

\* A record added to a queue adds its bytes.
LEMMA BytesInAppend ==
    ASSUME NEW q \in Seq(Streams), NEW s \in Streams, NEW T
    PROVE  /\ BytesIn(q, T) \in Nat
           /\ Append(q, s) \in Seq(Streams)
           /\ BytesIn(Append(q, s), T) = BytesIn(q, T) + IF s \in T THEN Size[s] ELSE 0
  <1> DEFINE r == Append(q, s)
  <1>1. /\ r \in Seq(Streams) /\ Len(r) = Len(q) + 1 /\ r[Len(q) + 1] = s
        /\ \A i \in 1..Len(q) : r[i] = q[i]
    BY AppendProperties
  <1> HIDE DEF r
  <1>2. /\ Weights(q, T) \in [1..Len(q) -> Nat] /\ Len(q) \in Nat
        /\ Weights(r, T) \in [1..(Len(q) + 1) -> Nat]
    BY <1>1, WeightsType
  <1>3. /\ \A i \in 1..Len(q) : Weights(r, T)[i] = Weights(q, T)[i]
        /\ Weights(r, T)[Len(q) + 1] = IF s \in T THEN Size[s] ELSE 0
    BY <1>1, <1>2 DEF Weights
  <1>4. PICK g : IsSum(Weights(q, T), Len(q), g) /\ BytesIn(q, T) = g[Len(q)]
    BY BytesInSum
  <1>5. PICK h : IsSum(Weights(r, T), Len(r), h) /\ BytesIn(r, T) = h[Len(r)]
    BY <1>1, BytesInSum
  <1>6. h[Len(q) + 1] = g[Len(q)] + Weights(r, T)[Len(q) + 1]
    <2> DEFINE n == Len(q)
               v == Weights(q, T)
               w == Weights(r, T)
    <2>1. IsSum(w, n + 1, h)
      BY <1>1, <1>5
    <2>2. /\ n \in Nat /\ v \in [1..n -> Nat] /\ w \in [1..(n + 1) -> Nat]
          /\ IsSum(v, n, g) /\ \A i \in 1..n : w[i] = v[i]
      BY <1>2, <1>3, <1>4
    <2> HIDE DEF n, v, w
    <2>3. h[n + 1] = g[n] + w[n + 1]
      BY <2>1, <2>2, SumLonger
    <2> QED BY <2>3 DEF n, v, w
  <1>7. g[Len(q)] \in Nat
    BY <1>2, <1>4 DEF IsSum
  <1> QED BY <1>1, <1>3, <1>4, <1>5, <1>6, <1>7 DEF r

\* A record taken from a queue takes its bytes.
LEMMA BytesInTail ==
    ASSUME NEW q \in Seq(Streams), q # <<>>, NEW T
    PROVE  /\ Head(q) \in Streams
           /\ Tail(q) \in Seq(Streams)
           /\ BytesIn(Tail(q), T) \in Nat
           /\ BytesIn(q, T) = BytesIn(Tail(q), T) + IF Head(q) \in T THEN Size[Head(q)] ELSE 0
  <1> DEFINE r == Tail(q)
             s == Head(q)
  <1>1. /\ r \in Seq(Streams) /\ Len(q) = Len(r) + 1 /\ q[1] = s /\ s \in Streams
        /\ \A i \in 1..Len(r) : r[i] = q[i + 1]
    BY HeadTailProperties
  <1> HIDE DEF r, s
  <1>2. /\ Weights(r, T) \in [1..Len(r) -> Nat] /\ Len(r) \in Nat
        /\ Weights(q, T) \in [1..(Len(r) + 1) -> Nat]
    BY <1>1, WeightsType
  <1>3. /\ \A i \in 1..Len(r) : Weights(q, T)[i + 1] = Weights(r, T)[i]
        /\ Weights(q, T)[1] = IF s \in T THEN Size[s] ELSE 0
    BY <1>1, <1>2 DEF Weights
  <1>4. PICK g : IsSum(Weights(r, T), Len(r), g) /\ BytesIn(r, T) = g[Len(r)]
    BY <1>1, BytesInSum
  <1>5. PICK h : IsSum(Weights(q, T), Len(q), h) /\ BytesIn(q, T) = h[Len(q)]
    BY <1>1, BytesInSum
  <1>6. h[Len(r) + 1] = g[Len(r)] + Weights(q, T)[1]
    <2> DEFINE n == Len(r)
               v == Weights(r, T)
               w == Weights(q, T)
    <2>1. IsSum(w, n + 1, h)
      BY <1>1, <1>5
    <2>2. /\ n \in Nat /\ v \in [1..n -> Nat] /\ w \in [1..(n + 1) -> Nat]
          /\ IsSum(v, n, g) /\ v = [i \in 1..n |-> w[i + 1]]
      BY <1>2, <1>3, <1>4
    <2> HIDE DEF n, v, w
    <2>3. h[n + 1] = g[n] + w[1]
      BY <2>1, <2>2, SumShorter
    <2> QED BY <2>3 DEF n, v, w
  <1>7. g[Len(r)] \in Nat
    BY <1>2, <1>4 DEF IsSum
  <1> QED BY <1>1, <1>3, <1>4, <1>5, <1>6, <1>7 DEF r, s

\* An empty queue has none.
LEMMA BytesInEmpty ==
    ASSUME NEW T
    PROVE  BytesIn(<<>>, T) = 0
  <1>1. <<>> \in Seq(Streams) /\ Len(<<>>) = 0
    OBVIOUS
  <1>2. PICK g : IsSum(Weights(<<>>, T), Len(<<>>), g) /\ BytesIn(<<>>, T) = g[Len(<<>>)]
    BY <1>1, BytesInSum
  <1> QED BY <1>1, <1>2 DEF IsSum

\* Credit updates on the wire or deferred.
Updates == [to : Streams \cup {Connection}, increment : Nat]

\* What each update of a queue adds to CreditFor.
Shares(q, to) == [i \in 1..Len(q) |-> IF q[i].to = to THEN q[i].increment ELSE 0]

\* They are numbers.
LEMMA SharesType ==
    ASSUME NEW q \in Seq(Updates), NEW to
    PROVE  Shares(q, to) \in [1..Len(q) -> Nat] /\ Len(q) \in Nat
  <1>1. Len(q) \in Nat /\ \A i \in 1..Len(q) : q[i] \in Updates
    OBVIOUS
  <1>2. \A u \in Updates : u.increment \in Nat
    BY DEF Updates
  <1> QED BY <1>1, <1>2 DEF Shares

\* CreditFor adds them up.
LEMMA CreditForSum ==
    ASSUME NEW q \in Seq(Updates), NEW to
    PROVE  \E g : IsSum(Shares(q, to), Len(q), g) /\ CreditFor(q, to) = g[Len(q)]
  <1> DEFINE n == Len(q)
             P(f) == f = [i \in 0..n |-> IF i = 0 THEN 0
                                    ELSE f[i - 1] + IF q[i].to = to THEN q[i].increment ELSE 0]
             sum == CHOOSE f : P(f)
  <1>0. n \in Nat /\ Shares(q, to) \in [1..n -> Nat]
    BY SharesType
  <1>1. PICK g : IsSum(Shares(q, to), n, g)
    BY <1>0, SumExists
  <1>2. P(g)
    <2>1. g = [i \in 0..n |-> g[i]]
      BY <1>1 DEF IsSum
    <2>2. \A i \in 0..n : g[i] = IF i = 0 THEN 0
                                    ELSE g[i - 1] + IF q[i].to = to THEN q[i].increment ELSE 0
      BY <1>0, <1>1 DEF IsSum, Shares
    <2> QED BY <2>1, <2>2
  <1>3. P(sum)
    BY <1>2
  <1>4. CreditFor(q, to) = sum[n]
    BY DEF CreditFor
  <1> HIDE DEF sum
  <1>5. \A i \in 0..n : sum[i] = IF i = 0 THEN 0 ELSE sum[i - 1] + Shares(q, to)[i]
    <2>1. \A i \in 0..n : sum[i] = IF i = 0 THEN 0
                                ELSE sum[i - 1] + IF q[i].to = to THEN q[i].increment ELSE 0
      BY <1>3
    <2>2. \A i \in 0..n : i # 0 => Shares(q, to)[i] = IF q[i].to = to THEN q[i].increment ELSE 0
      BY <1>0 DEF Shares
    <2> QED BY <2>1, <2>2
  <1>6. sum[n] = g[n]
    BY <1>0, <1>1, <1>5, SumIs
  <1> QED BY <1>1, <1>4, <1>6

\* A update added to a queue adds its credit.
LEMMA CreditForAppend ==
    ASSUME NEW q \in Seq(Updates), NEW s \in Updates, NEW to
    PROVE  /\ CreditFor(q, to) \in Nat
           /\ Append(q, s) \in Seq(Updates)
           /\ CreditFor(Append(q, s), to) = CreditFor(q, to) + IF s.to = to THEN s.increment ELSE 0
  <1> DEFINE r == Append(q, s)
  <1>1. /\ r \in Seq(Updates) /\ Len(r) = Len(q) + 1 /\ r[Len(q) + 1] = s
        /\ \A i \in 1..Len(q) : r[i] = q[i]
    BY AppendProperties
  <1> HIDE DEF r
  <1>2. /\ Shares(q, to) \in [1..Len(q) -> Nat] /\ Len(q) \in Nat
        /\ Shares(r, to) \in [1..(Len(q) + 1) -> Nat]
    BY <1>1, SharesType
  <1>3. /\ \A i \in 1..Len(q) : Shares(r, to)[i] = Shares(q, to)[i]
        /\ Shares(r, to)[Len(q) + 1] = IF s.to = to THEN s.increment ELSE 0
    BY <1>1, <1>2 DEF Shares
  <1>4. PICK g : IsSum(Shares(q, to), Len(q), g) /\ CreditFor(q, to) = g[Len(q)]
    BY CreditForSum
  <1>5. PICK h : IsSum(Shares(r, to), Len(r), h) /\ CreditFor(r, to) = h[Len(r)]
    BY <1>1, CreditForSum
  <1>6. h[Len(q) + 1] = g[Len(q)] + Shares(r, to)[Len(q) + 1]
    <2> DEFINE n == Len(q)
               v == Shares(q, to)
               w == Shares(r, to)
    <2>1. IsSum(w, n + 1, h)
      BY <1>1, <1>5
    <2>2. /\ n \in Nat /\ v \in [1..n -> Nat] /\ w \in [1..(n + 1) -> Nat]
          /\ IsSum(v, n, g) /\ \A i \in 1..n : w[i] = v[i]
      BY <1>2, <1>3, <1>4
    <2> HIDE DEF n, v, w
    <2>3. h[n + 1] = g[n] + w[n + 1]
      BY <2>1, <2>2, SumLonger
    <2> QED BY <2>3 DEF n, v, w
  <1>7. g[Len(q)] \in Nat
    BY <1>2, <1>4 DEF IsSum
  <1> QED BY <1>1, <1>3, <1>4, <1>5, <1>6, <1>7 DEF r

\* A update taken from a queue takes its credit.
LEMMA CreditForTail ==
    ASSUME NEW q \in Seq(Updates), q # <<>>, NEW to
    PROVE  /\ Head(q) \in Updates
           /\ Tail(q) \in Seq(Updates)
           /\ CreditFor(Tail(q), to) \in Nat
           /\ CreditFor(q, to) = CreditFor(Tail(q), to) + IF Head(q).to = to THEN Head(q).increment ELSE 0
  <1> DEFINE r == Tail(q)
             s == Head(q)
  <1>1. /\ r \in Seq(Updates) /\ Len(q) = Len(r) + 1 /\ q[1] = s /\ s \in Updates
        /\ \A i \in 1..Len(r) : r[i] = q[i + 1]
    BY HeadTailProperties
  <1> HIDE DEF r, s
  <1>2. /\ Shares(r, to) \in [1..Len(r) -> Nat] /\ Len(r) \in Nat
        /\ Shares(q, to) \in [1..(Len(r) + 1) -> Nat]
    BY <1>1, SharesType
  <1>3. /\ \A i \in 1..Len(r) : Shares(q, to)[i + 1] = Shares(r, to)[i]
        /\ Shares(q, to)[1] = IF s.to = to THEN s.increment ELSE 0
    BY <1>1, <1>2 DEF Shares
  <1>4. PICK g : IsSum(Shares(r, to), Len(r), g) /\ CreditFor(r, to) = g[Len(r)]
    BY <1>1, CreditForSum
  <1>5. PICK h : IsSum(Shares(q, to), Len(q), h) /\ CreditFor(q, to) = h[Len(q)]
    BY <1>1, CreditForSum
  <1>6. h[Len(r) + 1] = g[Len(r)] + Shares(q, to)[1]
    <2> DEFINE n == Len(r)
               v == Shares(r, to)
               w == Shares(q, to)
    <2>1. IsSum(w, n + 1, h)
      BY <1>1, <1>5
    <2>2. /\ n \in Nat /\ v \in [1..n -> Nat] /\ w \in [1..(n + 1) -> Nat]
          /\ IsSum(v, n, g) /\ v = [i \in 1..n |-> w[i + 1]]
      BY <1>2, <1>3, <1>4
    <2> HIDE DEF n, v, w
    <2>3. h[n + 1] = g[n] + w[1]
      BY <2>1, <2>2, SumShorter
    <2> QED BY <2>3 DEF n, v, w
  <1>7. g[Len(r)] \in Nat
    BY <1>2, <1>4 DEF IsSum
  <1> QED BY <1>1, <1>3, <1>4, <1>5, <1>6, <1>7 DEF r, s

\* An empty queue has none.
LEMMA CreditForEmpty ==
    ASSUME NEW to
    PROVE  CreditFor(<<>>, to) = 0
  <1>1. <<>> \in Seq(Updates) /\ Len(<<>>) = 0
    OBVIOUS
  <1>2. PICK g : IsSum(Shares(<<>>, to), Len(<<>>), g) /\ CreditFor(<<>>, to) = g[Len(<<>>)]
    BY <1>1, CreditForSum
  <1> QED BY <1>1, <1>2 DEF IsSum

\* The updates of a queue that go to one window.
Positions(q, to) == {i \in DOMAIN q : q[i].to = to}

\* A new update adds one position to its own window.
LEMMA PositionsAppend ==
    ASSUME NEW q \in Seq(Updates), NEW u \in Updates, NEW to
    PROVE  /\ Cardinality(Positions(q, to)) \in Nat
           /\ Cardinality(Positions(Append(q, u), to)) =
                Cardinality(Positions(q, to)) + IF u.to = to THEN 1 ELSE 0
  <1> DEFINE r == Append(q, u)
             n == Len(q)
  <1>1. /\ DOMAIN r = 1..(n + 1) /\ r[n + 1] = u /\ DOMAIN q = 1..n /\ n \in Nat
        /\ \A i \in 1..n : r[i] = q[i]
    BY AppendProperties
  <1> HIDE DEF r, n
  <1>2. IsFiniteSet(Positions(q, to)) /\ n + 1 \notin Positions(q, to)
    <2>1. Positions(q, to) \in SUBSET (1..n)
      BY <1>1 DEF Positions
    <2>2. IsFiniteSet(1..n)
      BY <1>1, FS_Interval
    <2>3. IsFiniteSet(Positions(q, to))
      BY <2>1, <2>2, FS_Subset
    <2> QED BY <1>1, <2>1, <2>3
  <1>3. Cardinality(Positions(q, to)) \in Nat
    BY <1>2, FS_CardinalityType
  <1>4. CASE u.to = to
    <2>1. Positions(r, to) = Positions(q, to) \cup {n + 1}
      BY <1>1, <1>4 DEF Positions
    <2>2. Cardinality(Positions(q, to) \cup {n + 1}) = Cardinality(Positions(q, to)) + 1
      BY <1>2, FS_AddElement
    <2> QED BY <1>3, <1>4, <2>1, <2>2 DEF r
  <1>5. CASE u.to # to
    <2>1. Positions(r, to) = Positions(q, to)
      BY <1>1, <1>5 DEF Positions
    <2> QED BY <1>3, <1>5, <2>1 DEF r
  <1> QED BY <1>4, <1>5

\* The update that leaves takes one position of its own window away.
LEMMA PositionsTail ==
    ASSUME NEW q \in Seq(Updates), q # <<>>, NEW to
    PROVE  /\ Cardinality(Positions(Tail(q), to)) \in Nat
           /\ Cardinality(Positions(q, to)) =
                Cardinality(Positions(Tail(q), to)) + IF Head(q).to = to THEN 1 ELSE 0
  <1> DEFINE r == Tail(q)
             n == Len(r)
             V == Positions(r, to)
             U == Positions(q, to)
  <1>1. /\ DOMAIN r = 1..n /\ q[1] = Head(q) /\ DOMAIN q = 1..(n + 1) /\ n \in Nat
        /\ \A i \in 1..n : r[i] = q[i + 1]
    BY HeadTailProperties
  <1> HIDE DEF r, n
  <1>2. IsFiniteSet(V) /\ IsFiniteSet(U)
    <2>1. V \in SUBSET (1..n) /\ U \in SUBSET (1..(n + 1))
      BY <1>1 DEF Positions
    <2>2. IsFiniteSet(1..n) /\ IsFiniteSet(1..(n + 1))
      BY <1>1, FS_Interval
    <2> QED BY <2>1, <2>2, FS_Subset
  <1>3. Cardinality(V) \in Nat /\ Cardinality(U) \in Nat
    BY <1>2, FS_CardinalityType
  <1>4. Cardinality(U \ {1}) = Cardinality(V)
    <2> DEFINE f == [i \in V |-> i + 1]
               Y == U \ {1}
    <2>1. \A i \in V : i \in 1..n /\ i + 1 \in Y
      BY <1>1 DEF Positions
    <2>2. f \in [V -> Y] /\ \A i, j \in V : f[i] = f[j] => i = j
      BY <2>1
    <2>3. ASSUME NEW j \in Y PROVE \E i \in V : f[i] = j
      <3>1. j \in 1..(n + 1) /\ j # 1 /\ q[j].to = to
        BY <1>1 DEF Positions
      <3>2. j - 1 \in 1..n /\ (j - 1) + 1 = j
        BY <1>1, <3>1
      <3>3. j - 1 \in V
        BY <1>1, <3>1, <3>2 DEF Positions
      <3> QED BY <3>2, <3>3
    <2> HIDE DEF f, Y, V
    <2>4. ExistsBijection(V, Y)
      BY <2>2, <2>3 DEF ExistsBijection, Bijection, Injection, Surjection, IsInjective
    <2>5. Cardinality(Y) = Cardinality(V)
      BY <1>2, <2>4, FS_Bijection
    <2> QED BY <2>5 DEF Y
  <1>5. Cardinality(U \ {1}) = IF 1 \in U THEN Cardinality(U) - 1 ELSE Cardinality(U)
    BY <1>2, FS_RemoveElement
  <1>6. 1 \in U <=> Head(q).to = to
    BY <1>1 DEF Positions
  <1> HIDE DEF U, V
  <1>7. Cardinality(U) = Cardinality(V) + IF Head(q).to = to THEN 1 ELSE 0
    BY <1>3, <1>4, <1>5, <1>6
  <1> QED BY <1>3, <1>7 DEF U, V, r

\* The fold that TotalHeld is: what every set T of streams holds, from what
\* a picked stream holds and what the rest does.
Pick(T) == CHOOSE x \in T : TRUE
Tot(f) == MapThenSumSet(LAMBDA t : f[t], Streams)
FoldBody(f, h, T) == IF T = {} THEN 0 ELSE f[Pick(T)] + h[T \ {Pick(T)}]
IsFold(f, h, X) == h = [T \in X |-> FoldBody(f, h, T)]

\* A total is the value that the fold over all sets of streams has at Streams.
LEMMA TotIs ==
    ASSUME NEW f
    PROVE  Tot(f) = (CHOOSE h : IsFold(f, h, SUBSET Streams))[Streams]
  BY DEF Tot, MapThenSumSet, MapThenFoldSet, IsFold, FoldBody, Pick

\* TotalHeld is such a total.
LEMMA TotalHeldIs == TotalHeld = Tot(held)
  BY DEF TotalHeld, Tot, MapThenSumSet, MapThenFoldSet

\* So it is after a step.
LEMMA TotalHeldNext == TotalHeld' = Tot(held')
  BY DEF TotalHeld, Tot, MapThenSumSet, MapThenFoldSet

\* The sets of at most n streams.
Small(n) == {T \in SUBSET Streams : Cardinality(T) <= n}

\* A set without the element Pick takes is smaller.
LEMMA PickLess ==
    ASSUME NEW T \in SUBSET Streams, T # {}, IsFiniteSet(Streams)
    PROVE  /\ Pick(T) \in T /\ T \ {Pick(T)} \in SUBSET Streams
           /\ Cardinality(T) \in Nat /\ Cardinality(T \ {Pick(T)}) \in Nat
           /\ Cardinality(T \ {Pick(T)}) = Cardinality(T) - 1
  <1>1. Pick(T) \in T
    BY DEF Pick
  <1>2. IsFiniteSet(T)
    BY FS_Subset
  <1>3. IsFiniteSet(T \ {Pick(T)}) /\ Cardinality(T \ {Pick(T)}) = Cardinality(T) - 1
    BY <1>1, <1>2, FS_RemoveElement
  <1> QED BY <1>1, <1>2, <1>3, FS_CardinalityType

\* The fold exists.
LEMMA FoldExists ==
    ASSUME NEW f, IsFiniteSet(Streams)
    PROVE  \E h : IsFold(f, h, SUBSET Streams)
  <1> DEFINE K == {n \in Nat : \E h : IsFold(f, h, Small(n))}
  <1>0. \A T \in SUBSET Streams :
          /\ IsFiniteSet(T) /\ Cardinality(T) \in Nat
          /\ Cardinality(T) = 0 <=> T = {}
          /\ Cardinality(T) <= Cardinality(Streams)
    BY FS_Subset, FS_CardinalityType, FS_EmptySet
  <1>1. 0 \in K
    <2> DEFINE h == [T \in Small(0) |-> 0]
    <2>1. ASSUME NEW T \in Small(0) PROVE FoldBody(f, h, T) = 0
      <3>1. T \in SUBSET Streams /\ Cardinality(T) <= 0
        BY DEF Small
      <3>2. Cardinality(T) \in Nat
        BY <1>0, <3>1
      <3>3. Cardinality(T) = 0
        BY <3>1, <3>2
      <3>4. T = {}
        BY <1>0, <3>1, <3>3
      <3> QED BY <3>4 DEF FoldBody
    <2>2. IsFold(f, h, Small(0))
      BY <2>1 DEF IsFold
    <2> QED BY <2>2
  <1>2. ASSUME NEW n \in Nat, n \in K PROVE n + 1 \in K
    <2>1. PICK g : IsFold(f, g, Small(n))
      BY <1>2
    <2>2. \A T \in Small(n) : g[T] = FoldBody(f, g, T)
      BY <2>1 DEF IsFold
    <2> DEFINE h == [T \in Small(n + 1) |-> FoldBody(f, g, T)]
    <2>3. ASSUME NEW T \in Small(n) PROVE T \in Small(n + 1)
      <3>1. T \in SUBSET Streams /\ Cardinality(T) <= n
        BY DEF Small
      <3>2. Cardinality(T) \in Nat
        BY <1>0, <3>1
      <3> QED BY <3>1, <3>2 DEF Small
    <2>4. \A T \in Small(n) : h[T] = g[T]
      BY <2>2, <2>3
    <2>5. ASSUME NEW T \in Small(n + 1) PROVE h[T] = FoldBody(f, h, T)
      <3>1. h[T] = FoldBody(f, g, T)
        OBVIOUS
      <3>2. T # {} => T \ {Pick(T)} \in Small(n)
        BY <1>0, PickLess DEF Small
      <3> HIDE DEF h
      <3> QED BY <2>4, <3>1, <3>2 DEF FoldBody
    <2>6. h = [T \in Small(n + 1) |-> FoldBody(f, h, T)]
      <3>1. h = [T \in Small(n + 1) |-> h[T]]
        OBVIOUS
      <3> HIDE DEF h
      <3> QED BY <2>5, <3>1
    <2> HIDE DEF h
    <2> QED BY <2>6 DEF IsFold
  <1>3. Nat \subseteq K
    <2> HIDE DEF K
    <2> QED BY <1>1, <1>2, NatSetInduction
  <1>4. Cardinality(Streams) \in Nat /\ Small(Cardinality(Streams)) = SUBSET Streams
    <2>1. Streams \in SUBSET Streams
      OBVIOUS
    <2>2. Cardinality(Streams) \in Nat
      BY <1>0, <2>1
    <2>3. \A T \in SUBSET Streams : Cardinality(T) <= Cardinality(Streams)
      BY <1>0
    <2> QED BY <2>2, <2>3 DEF Small
  <1> QED BY <1>3, <1>4

\* One number of a sum changes: the sum changes by as much.
LEMMA TotChange ==
    ASSUME IsFiniteSet(Streams), NEW f \in [Streams -> Nat], NEW g \in [Streams -> Nat],
           NEW s \in Streams, \A t \in Streams : t # s => g[t] = f[t]
    PROVE  /\ Tot(f) \in Nat /\ Tot(g) \in Nat
           /\ Tot(f) >= f[s]
           /\ Tot(g) - g[s] = Tot(f) - f[s]
  <1> DEFINE F == CHOOSE h : IsFold(f, h, SUBSET Streams)
             G == CHOOSE h : IsFold(g, h, SUBSET Streams)
             P(T) == /\ F[T] \in Nat /\ G[T] \in Nat
                     /\ s \in T => F[T] >= f[s] /\ G[T] - g[s] = F[T] - f[s]
                     /\ s \notin T => G[T] = F[T]
             K == {n \in Nat : \A T \in SUBSET Streams : Cardinality(T) = n => P(T)}
  <1>1. Tot(f) = F[Streams] /\ Tot(g) = G[Streams]
    BY TotIs
  <1>2. IsFold(f, F, SUBSET Streams) /\ IsFold(g, G, SUBSET Streams)
    BY FoldExists
  <1> HIDE DEF F, G
  <1>3. \A T \in SUBSET Streams : F[T] = FoldBody(f, F, T) /\ G[T] = FoldBody(g, G, T)
    BY <1>2 DEF IsFold
  <1>4. \A T \in SUBSET Streams :
          /\ IsFiniteSet(T) /\ Cardinality(T) \in Nat
          /\ Cardinality(T) = 0 <=> T = {}
    BY FS_Subset, FS_CardinalityType, FS_EmptySet
  <1>5. 0 \in K
    <2>1. F[{}] = 0 /\ G[{}] = 0
      BY <1>3 DEF FoldBody
    <2>2. ASSUME NEW T \in SUBSET Streams, Cardinality(T) = 0 PROVE P(T)
      <3>1. T = {}
        BY <1>4, <2>2
      <3> QED BY <2>1, <3>1
    <2> QED BY <2>2
  <1>6. ASSUME NEW n \in Nat, n \in K PROVE n + 1 \in K
    <2> SUFFICES ASSUME NEW T \in SUBSET Streams, Cardinality(T) = n + 1 PROVE P(T)
      OBVIOUS
    <2>1. T # {}
      BY <1>4
    <2> DEFINE x == Pick(T)
               U == T \ {x}
    <2>2. x \in T /\ U \in SUBSET Streams /\ Cardinality(U) = n
      BY <2>1, PickLess
    <2>3. F[T] = f[x] + F[U] /\ G[T] = g[x] + G[U]
      BY <1>3, <2>1 DEF FoldBody
    <2>4. P(U)
      BY <1>6, <2>2
    <2>5. /\ f[x] \in Nat /\ g[x] \in Nat /\ f[s] \in Nat /\ g[s] \in Nat
          /\ x # s => g[x] = f[x]
      BY <2>2
    <2>6. (s \in T <=> s \in U \/ s = x) /\ ~(s \in U /\ s = x)
      BY <2>2
    <2> HIDE DEF x, U
    <2>7. CASE s = x
      BY <2>3, <2>4, <2>5, <2>6, <2>7
    <2>8. CASE s # x
      BY <2>3, <2>4, <2>5, <2>6, <2>8
    <2> QED BY <2>7, <2>8
  <1>7. Nat \subseteq K
    <2> HIDE DEF K
    <2> QED BY <1>5, <1>6, NatSetInduction
  <1>8. P(Streams)
    <2>1. Streams \in SUBSET Streams
      OBVIOUS
    <2>2. Cardinality(Streams) \in Nat
      BY <1>4, <2>1
    <2>3. Cardinality(Streams) \in K
      BY <1>7, <2>2
    <2> HIDE DEF P
    <2> QED BY <2>1, <2>3
  <1> QED BY <1>1, <1>8

\* The sum of zeros.
LEMMA TotZero ==
    ASSUME IsFiniteSet(Streams), NEW f, \A t \in Streams : f[t] = 0
    PROVE  Tot(f) = 0
  <1> DEFINE F == CHOOSE h : IsFold(f, h, SUBSET Streams)
             K == {n \in Nat : \A T \in SUBSET Streams : Cardinality(T) = n => F[T] = 0}
  <1>1. Tot(f) = F[Streams]
    BY TotIs
  <1>2. IsFold(f, F, SUBSET Streams)
    BY FoldExists
  <1> HIDE DEF F
  <1>3. \A T \in SUBSET Streams : F[T] = FoldBody(f, F, T)
    BY <1>2 DEF IsFold
  <1>4. \A T \in SUBSET Streams :
          /\ IsFiniteSet(T) /\ Cardinality(T) \in Nat
          /\ Cardinality(T) = 0 <=> T = {}
    BY FS_Subset, FS_CardinalityType, FS_EmptySet
  <1>5. 0 \in K
    <2>1. F[{}] = 0
      BY <1>3 DEF FoldBody
    <2>2. ASSUME NEW T \in SUBSET Streams, Cardinality(T) = 0 PROVE F[T] = 0
      <3>1. T = {}
        BY <1>4, <2>2
      <3> QED BY <2>1, <3>1
    <2> QED BY <2>2
  <1>6. ASSUME NEW n \in Nat, n \in K PROVE n + 1 \in K
    <2> SUFFICES ASSUME NEW T \in SUBSET Streams, Cardinality(T) = n + 1 PROVE F[T] = 0
      OBVIOUS
    <2>1. T # {}
      BY <1>4
    <2>2. /\ Pick(T) \in T /\ T \ {Pick(T)} \in SUBSET Streams
          /\ Cardinality(T \ {Pick(T)}) = n
      BY <2>1, PickLess
    <2>3. F[T] = f[Pick(T)] + F[T \ {Pick(T)}]
      BY <1>3, <2>1 DEF FoldBody
    <2> QED BY <1>6, <2>2, <2>3
  <1>7. Nat \subseteq K
    <2> HIDE DEF K
    <2> QED BY <1>5, <1>6, NatSetInduction
  <1>8. F[Streams] = 0
    <2>1. Streams \in SUBSET Streams
      OBVIOUS
    <2>2. Cardinality(Streams) \in Nat
      BY <1>4, <2>1
    <2>3. Cardinality(Streams) \in K
      BY <1>7, <2>2
    <2> QED BY <2>1, <2>3
  <1> QED BY <1>1, <1>8

-----------------------------------------------------------------------------
(* What the operators of ReceiveWindow do to a window. *)

\* What of a window is not in the application's hands.
Outside(w) == w.inbound + w.granting + w.owed + w.unreturned

\* Every operator on a window keeps what is outside it and its size in step,
\* and neither touches what the peer was granted nor what is being granted.
Balanced(w, r) ==
    /\ r \in Window
    /\ r.size - Outside(r) = w.size - Outside(w)
    /\ r.inbound = w.inbound
    /\ r.granting = w.granting
    /\ r.size >= w.size

\* Growth is never negative and stays within the maximum (grow_window_locked).
LEMMA GrowthBounds ==
    ASSUME NEW w \in Window, NEW max \in Nat, w.size <= max, NEW fast \in BOOLEAN
    PROVE  /\ Growth(w, max, fast) \in Nat
           /\ w.size + Growth(w, max, fast) <= max
  BY DEF Growth, Least, Window

\* collect_stream_credit_locked moves consumed bytes and growth to owed.
LEMMA CollectBalanced ==
    ASSUME NEW w \in Window, NEW max \in Nat, w.size <= max, NEW packet,
           NEW fast \in BOOLEAN
    PROVE  /\ Balanced(w, CollectStream(w, packet, max, fast))
           /\ CollectStream(w, packet, max, fast).size <= max
           /\ CollectStream(w, packet, max, fast).queued = w.queued
  <1> DEFINE g == Growth(w, max, fast)
  <1>1. g \in Nat /\ w.size + g <= max
    BY GrowthBounds
  <1> HIDE DEF g
  <1>2. CASE CollectDue(w, packet, max)
    <2>1. CollectStream(w, packet, max, fast) =
            [w EXCEPT !.owed = @ + w.unreturned + g, !.unreturned = 0,
                      !.size = @ + g]
      BY <1>2 DEF CollectStream, g
    <2> DEFINE r == CollectStream(w, packet, max, fast)
    <2>2. /\ r \in Window
          /\ r.owed = w.owed + w.unreturned + g /\ r.unreturned = 0
          /\ r.size = w.size + g /\ r.inbound = w.inbound
          /\ r.granting = w.granting /\ r.queued = w.queued
      <3> DEFINE a == w.owed + w.unreturned + g
                 c == w.size + g
      <3>1. a \in Nat /\ c \in Nat
        BY <1>1 DEF Window
      <3>2. r = [w EXCEPT !.owed = a, !.unreturned = 0, !.size = c]
        BY <2>1
      <3>3. a = w.owed + w.unreturned + g /\ c = w.size + g
        OBVIOUS
      <3> HIDE DEF a, c, r
      <3> QED BY <3>1, <3>2, <3>3 DEF Window
    <2> HIDE DEF r
    <2>3. Balanced(w, r) /\ r.size <= max /\ r.queued = w.queued
      BY <1>1, <2>2 DEF Balanced, Outside, Window
    <2> QED BY <2>3 DEF r
  <1>3. CASE ~CollectDue(w, packet, max)
    <2>1. CollectStream(w, packet, max, fast) = w
      BY <1>3 DEF CollectStream
    <2> QED BY <2>1 DEF Balanced, Outside, Window
  <1> QED BY <1>2, <1>3

\* Raising the connection window to one and a half stream windows owes the
\* difference to the peer.
LEMMA RaiseBalanced ==
    ASSUME NEW w \in Window, NEW max \in Nat, w.size <= max, NEW size \in Nat
    PROVE  /\ Balanced(w, RaiseFloor(w, size, max))
           /\ RaiseFloor(w, size, max).size <= max
           /\ RaiseFloor(w, size, max).queued = w.queued
  <1> DEFINE floor == Least(size + size \div 2, max)
  <1>1. floor \in Nat /\ floor <= max
    BY DEF Least
  <1>2. RaiseFloor(w, size, max) =
          IF floor > w.size
          THEN [w EXCEPT !.owed = @ + floor - w.size, !.size = floor]
          ELSE w
    BY DEF RaiseFloor
  <1> HIDE DEF floor
  <1> DEFINE r == RaiseFloor(w, size, max)
  <1>3. CASE floor > w.size
    <2>1. /\ r \in Window
          /\ r.owed = w.owed + floor - w.size /\ r.size = floor
          /\ r.unreturned = w.unreturned /\ r.inbound = w.inbound
          /\ r.granting = w.granting /\ r.queued = w.queued
      <3> DEFINE a == w.owed + floor - w.size
      <3>1. a \in Nat
        BY <1>1, <1>3 DEF Window
      <3>2. r = [w EXCEPT !.owed = a, !.size = floor]
        BY <1>2, <1>3
      <3>3. a = w.owed + floor - w.size
        OBVIOUS
      <3> HIDE DEF a, r
      <3> QED BY <1>1, <3>1, <3>2, <3>3 DEF Window
    <2> HIDE DEF r
    <2>2. Balanced(w, r) /\ r.size <= max /\ r.queued = w.queued
      BY <1>1, <1>3, <2>1 DEF Balanced, Outside, Window
    <2> QED BY <2>2 DEF r
  <1>4. CASE ~(floor > w.size)
    <2>1. r = w
      BY <1>2, <1>4
    <2> QED BY <2>1 DEF Balanced, Outside, Window
  <1> QED BY <1>3, <1>4

\* take_connection_credit_locked adds the growth and, perhaps, what was
\* consumed, to what is owed.
LEMMA TakeBalanced ==
    ASSUME NEW w \in Window, NEW max \in Nat, NEW growth \in Nat,
           w.size + growth <= max, NEW due \in BOOLEAN
    PROVE  /\ Balanced(w, TakeConnection(w, due, growth))
           /\ TakeConnection(w, due, growth).size <= max
           /\ TakeConnection(w, due, growth).queued = w.queued
  <1> DEFINE r == TakeConnection(w, due, growth)
             grown == [w EXCEPT !.owed = @ + growth, !.size = @ + growth]
             taken == [grown EXCEPT !.owed = @ + w.unreturned, !.unreturned = 0]
  <1>1. r = taken \/ r = grown
    BY DEF TakeConnection
  <1>2. /\ grown \in Window
        /\ grown.owed = w.owed + growth /\ grown.size = w.size + growth
        /\ grown.unreturned = w.unreturned /\ grown.inbound = w.inbound
        /\ grown.granting = w.granting /\ grown.queued = w.queued
    <2> DEFINE a == w.owed + growth
               c == w.size + growth
    <2>1. a \in Nat /\ c \in Nat
      BY DEF Window
    <2>2. grown = [w EXCEPT !.owed = a, !.size = c]
      OBVIOUS
    <2>3. a = w.owed + growth /\ c = w.size + growth
      OBVIOUS
    <2> HIDE DEF a, c, grown
    <2> QED BY <2>1, <2>2, <2>3 DEF Window
  <1> HIDE DEF grown
  <1>3. /\ taken \in Window
        /\ taken.owed = w.owed + growth + w.unreturned
        /\ taken.size = w.size + growth
        /\ taken.unreturned = 0 /\ taken.inbound = w.inbound
        /\ taken.granting = w.granting /\ taken.queued = w.queued
    <2> DEFINE a == grown.owed + w.unreturned
    <2>1. a \in Nat
      BY <1>2 DEF Window
    <2>2. taken = [grown EXCEPT !.owed = a, !.unreturned = 0]
      OBVIOUS
    <2>3. a = w.owed + growth + w.unreturned
      BY <1>2
    <2> HIDE DEF a, taken
    <2> QED BY <1>2, <2>1, <2>2, <2>3 DEF Window
  <1> HIDE DEF taken, r
  <1>4. Balanced(w, r) /\ r.size <= max /\ r.queued = w.queued
    BY <1>1, <1>2, <1>3 DEF Balanced, Outside, Window
  <1> QED BY <1>4 DEF r

\* complete_control_locked on the connection.
LEMMA CompleteBalanced ==
    ASSUME NEW w \in Window, NEW max \in Nat, w.size <= max, w.queued # 0,
           NEW fast \in BOOLEAN
    PROVE  /\ Balanced(w, CompleteConnection(w, max, fast))
           /\ CompleteConnection(w, max, fast).size <= max
           /\ CompleteConnection(w, max, fast).queued = w.queued - 1
  <1> DEFINE freed == [w EXCEPT !.queued = @ - 1]
             due == ConnectionDue(freed, max)
             g == IF due THEN Growth(freed, max, fast) ELSE 0
  <1>1. /\ freed \in Window /\ freed.size = w.size /\ freed.queued = w.queued - 1
        /\ Balanced(w, freed)
    BY DEF Window, Balanced, Outside
  <1>2. g \in Nat /\ freed.size + g <= max
    BY <1>1, GrowthBounds DEF Window
  <1>3. due \in BOOLEAN
    BY DEF ConnectionDue
  <1>4. CompleteConnection(w, max, fast) = TakeConnection(freed, due, g)
    BY DEF CompleteConnection
  <1> HIDE DEF freed, due, g
  <1>5. Balanced(freed, TakeConnection(freed, due, g))
        /\ TakeConnection(freed, due, g).size <= max
        /\ TakeConnection(freed, due, g).queued = freed.queued
    BY <1>1, <1>2, <1>3, TakeBalanced
  <1> QED BY <1>1, <1>4, <1>5 DEF Balanced, Outside, Window

\* The connection half of return_receive_credit: `bytes' more are outside the
\* application, and nothing else changes the balance.
LEMMA ReturnBalanced ==
    ASSUME NEW w \in Window, NEW max \in Nat, w.size <= max, NEW bytes \in Nat,
           NEW fast \in BOOLEAN
    PROVE  LET r == ReturnConnection(w, bytes, max, fast)
           IN  /\ r \in Window
               /\ r.size - Outside(r) = w.size - Outside(w) - bytes
               /\ r.inbound = w.inbound
               /\ r.granting = w.granting
               /\ r.size >= w.size
               /\ r.size <= max
               /\ r.queued = w.queued
  <1> DEFINE returned == [w EXCEPT !.unreturned = @ + bytes]
             due == ConnectionDue(returned, max)
             g == IF due /\ GrantSlotFree(returned)
                  THEN Growth(returned, max, fast) ELSE 0
  <1>1. /\ returned \in Window
        /\ returned.size = w.size
        /\ returned.inbound = w.inbound
        /\ returned.granting = w.granting
        /\ returned.queued = w.queued
        /\ Outside(returned) = Outside(w) + bytes
    BY DEF Window, Outside
  <1>2. g \in Nat /\ returned.size + g <= max
    BY <1>1, GrowthBounds DEF Window
  <1>3. due \in BOOLEAN
    BY DEF ConnectionDue
  <1>4. ReturnConnection(w, bytes, max, fast) = TakeConnection(returned, due, g)
    BY DEF ReturnConnection
  <1> HIDE DEF returned, due, g
  <1>5. /\ Balanced(returned, TakeConnection(returned, due, g))
        /\ TakeConnection(returned, due, g).size <= max
        /\ TakeConnection(returned, due, g).queued = returned.queued
    BY ZenonT(60), <1>1, <1>2, <1>3, TakeBalanced
  <1> QED BY <1>1, <1>4, <1>5 DEF Balanced, Outside, Window

\* An arriving record uses up inbound credit and nothing else.
LEMMA ChargeEffect ==
    ASSUME NEW w \in Window, NEW n \in Nat, n <= w.inbound
    PROVE  /\ Charge(w, n) \in Window
           /\ Charge(w, n).inbound = w.inbound - n
           /\ Charge(w, n).size = w.size
           /\ Charge(w, n).granting = w.granting
           /\ Charge(w, n).queued = w.queued
           /\ Outside(Charge(w, n)) = Outside(w) - n
  BY DEF Charge, Window, Outside

\* A credit record takes everything owed, and a slot.
LEMMA ReserveEffect ==
    ASSUME NEW w \in Window
    PROVE  /\ Reserve(w) \in Window
           /\ Reserve(w).size = w.size /\ Reserve(w).inbound = w.inbound
           /\ Reserve(w).granting = w.granting + w.owed
           /\ Reserve(w).owed = 0 /\ Reserve(w).unreturned = w.unreturned
           /\ Reserve(w).queued = w.queued + 1
  <1> DEFINE r == Reserve(w)
             g == w.granting + w.owed
             q == w.queued + 1
  <1>1. g \in Nat /\ q \in Nat /\ g = w.granting + w.owed /\ q = w.queued + 1
    BY DEF Window
  <1>2. r = [w EXCEPT !.granting = g, !.owed = 0, !.queued = q]
    BY DEF Reserve
  <1> HIDE DEF r, g, q
  <1>3. /\ r \in Window
        /\ r.size = w.size /\ r.inbound = w.inbound
        /\ r.granting = w.granting + w.owed
        /\ r.owed = 0 /\ r.unreturned = w.unreturned
        /\ r.queued = w.queued + 1
    BY <1>1, <1>2 DEF Window
  <1> QED BY <1>1, <1>3 DEF r

\* Its admission moves the increment to what the peer has.
LEMMA AdmitEffect ==
    ASSUME NEW w \in Window, NEW n \in Nat, n <= w.granting
    PROVE  /\ Admit(w, n) \in Window
           /\ Admit(w, n).size = w.size /\ Admit(w, n).inbound = w.inbound + n
           /\ Admit(w, n).granting = w.granting - n
           /\ Admit(w, n).owed = w.owed /\ Admit(w, n).unreturned = w.unreturned
           /\ Admit(w, n).queued = w.queued
  <1> DEFINE r == Admit(w, n)
             g == w.granting - n
             i == w.inbound + n
  <1>1. g \in Nat /\ i \in Nat /\ g = w.granting - n /\ i = w.inbound + n
    BY DEF Window
  <1>2. r = [w EXCEPT !.granting = g, !.inbound = i]
    BY DEF Admit
  <1> HIDE DEF r, g, i
  <1>3. /\ r \in Window
        /\ r.size = w.size /\ r.inbound = w.inbound + n
        /\ r.granting = w.granting - n
        /\ r.owed = w.owed /\ r.unreturned = w.unreturned
        /\ r.queued = w.queued
    BY <1>1, <1>2 DEF Window
  <1> QED BY <1>1, <1>3 DEF r

\* A dropped one gives its slot back.
LEMMA DropEffect ==
    ASSUME NEW w \in Window, NEW n \in Nat, n <= w.granting, w.queued # 0
    PROVE  /\ DropGrant(w, n) \in Window
           /\ DropGrant(w, n).size = w.size /\ DropGrant(w, n).inbound = w.inbound
           /\ DropGrant(w, n).granting = w.granting - n
           /\ DropGrant(w, n).queued = w.queued - 1
  <1> DEFINE r == DropGrant(w, n)
             g == w.granting - n
             q == w.queued - 1
  <1>1. g \in Nat /\ q \in Nat /\ g = w.granting - n /\ q = w.queued - 1
    BY DEF Window
  <1>2. r = [w EXCEPT !.queued = q, !.granting = g]
    BY DEF DropGrant
  <1> HIDE DEF r, g, q
  <1>3. /\ r \in Window
        /\ r.size = w.size /\ r.inbound = w.inbound
        /\ r.granting = w.granting - n
        /\ r.queued = w.queued - 1
    BY <1>1, <1>2 DEF Window
  <1> QED BY <1>1, <1>3 DEF r

-----------------------------------------------------------------------------
(* The inductive invariant. *)

\* What the sender may use, has used and will be given is part of what the
\* receiver counts as granted; every byte of the window is accounted for; what
\* a rotation holds back is what is being granted.
Balance(live, w, h, o, p, f, g, d, u, max) ==
    /\ w.inbound >= o + p + f + g
    /\ IF live THEN w.size = Outside(w) + h
               ELSE w.size >= w.inbound + w.granting + h
    /\ w.size <= max
    /\ w.granting = d
    /\ w.queued >= u

\* The ledger of the connection window: all streams together.
ConnectionLedger ==
    Balance(TRUE, conn, TotalHeld, outConn, BytesIn(parked, Streams),
            BytesIn(flight, Streams), CreditFor(credits, Connection),
            CreditFor(deferred, Connection),
            Cardinality(Positions(deferred, Connection)),
            scene.connection.maximum)

\* The ledger of one stream's window.
StreamLedger(s) ==
    Balance(~closed[s], win[s], held[s], out[s], BytesIn(parked, {s}),
            BytesIn(flight, {s}), CreditFor(credits, s), CreditFor(deferred, s),
            Cardinality(Positions(deferred, s)), scene.stream.maximum)

\* The most that a window may ever be.
Limit(k, to) == IF to = Connection THEN k.connection.maximum ELSE k.stream.maximum

\* Every credit update carries credit, and no more than its window may have.
UpdatesOK(q, k) ==
    /\ q \in Seq(Updates)
    /\ \A i \in 1..Len(q) : q[i].increment >= 1 /\ q[i].increment <= Limit(k, q[i].to)

\* The inductive invariant of the session.
FInv ==
    /\ TypeOK
    /\ ~failed
    /\ UpdatesOK(deferred, scene)
    /\ UpdatesOK(credits, scene)
    /\ ConnectionLedger
    /\ \A s \in Streams : StreamLedger(s)

\* What a step has to be for the connection window.
ConnectionStep ==
    \A k \in Scenes : scene = k =>
        \/ UNCHANGED ConnectionWindow(k)!cvars
        \/ ConnectionWindow(k)!Next

\* The same for a stream's window.
StreamStep(s) ==
    \A k \in Scenes : scene = k =>
        \/ UNCHANGED StreamWindow(k, s)!cvars
        \/ StreamWindow(k, s)!Next

\* Unsent counts the deferred updates of a window.
LEMMA UnsentIs ==
    ASSUME NEW to
    PROVE  Unsent(to) = Cardinality(Positions(deferred, to))
  BY DEF Unsent, Positions

\* The limits of a scene.
LEMMA SceneLimits ==
    ASSUME NEW k \in Scenes
    PROVE  /\ k.stream.initial \in Nat \ {0} /\ k.stream.maximum \in Nat
           /\ k.connection.initial \in Nat \ {0} /\ k.connection.maximum \in Nat
           /\ MaxCredit \in Nat
           /\ k.stream.initial <= k.stream.maximum
           /\ k.connection.initial <= k.connection.maximum
           /\ k.stream.maximum <= k.connection.maximum
           /\ k.connection.maximum <= MaxCredit
           /\ k.todo \in [Streams -> Nat]
  BY ScenesAssumption DEF SceneSet, Limits

\* The sums over a queue of records are numbers.
LEMMA BytesType ==
    ASSUME NEW q \in Seq(Streams), NEW T
    PROVE  BytesIn(q, T) \in Nat
  <1>1. PICK g : IsSum(Weights(q, T), Len(q), g) /\ BytesIn(q, T) = g[Len(q)]
    BY BytesInSum
  <1>2. Len(q) \in Nat
    OBVIOUS
  <1> QED BY <1>1, <1>2 DEF IsSum

\* So are those over a queue of credit updates.
LEMMA CreditType ==
    ASSUME NEW q \in Seq(Updates), NEW to
    PROVE  CreditFor(q, to) \in Nat /\ Cardinality(Positions(q, to)) \in Nat
  <1>1. PICK g : IsSum(Shares(q, to), Len(q), g) /\ CreditFor(q, to) = g[Len(q)]
    BY CreditForSum
  <1>2. Len(q) \in Nat
    OBVIOUS
  <1>3. CreditFor(q, to) \in Nat
    BY <1>1, <1>2 DEF IsSum
  <1>4. Positions(q, to) \in SUBSET (1..Len(q)) /\ IsFiniteSet(1..Len(q))
    <2>1. DOMAIN q = 1..Len(q)
      OBVIOUS
    <2>2. IsFiniteSet(1..Len(q))
      BY <1>2, FS_Interval
    <2> QED BY <2>1, <2>2 DEF Positions
  <1>5. IsFiniteSet(Positions(q, to))
    BY <1>4, FS_Subset
  <1> QED BY <1>3, <1>5, FS_CardinalityType

\* What all streams hold is at least what one holds.
LEMMA HeldType ==
    ASSUME held \in [Streams -> Nat]
    PROVE  TotalHeld \in Nat /\ \A s \in Streams : held[s] <= TotalHeld
  <1>1. IsFiniteSet(Streams)
    BY StreamsAssumption
  <1>2. ASSUME NEW s \in Streams PROVE Tot(held) \in Nat /\ held[s] <= Tot(held)
    <2> DEFINE f == held
    <2>1. f \in [Streams -> Nat] /\ \A t \in Streams : t # s => f[t] = f[t]
      OBVIOUS
    <2>2. Tot(f) \in Nat /\ Tot(f) >= f[s]
      <3> HIDE DEF f
      <3> QED BY <1>1, <2>1, TotChange
    <2> QED BY <2>2
  <1>3. CASE Streams = {}
    <2>1. Tot(held) = 0
      BY <1>1, <1>3, TotZero
    <2> QED BY <1>3, <2>1, TotalHeldIs
  <1>4. CASE Streams # {}
    BY <1>2, <1>4, TotalHeldIs
  <1> QED BY <1>3, <1>4

\* The state of the connection window, in numbers.
LEMMA ConnectionKnown ==
    ASSUME FInv
    PROVE  /\ conn \in Window
           /\ conn.size \in Nat /\ conn.inbound \in Nat /\ conn.unreturned \in Nat
           /\ conn.owed \in Nat /\ conn.granting \in Nat /\ conn.queued \in Nat
           /\ TotalHeld \in Nat /\ outConn \in Nat
           /\ BytesIn(parked, Streams) \in Nat /\ BytesIn(flight, Streams) \in Nat
           /\ CreditFor(credits, Connection) \in Nat
           /\ CreditFor(deferred, Connection) \in Nat
           /\ Cardinality(Positions(deferred, Connection)) \in Nat
           /\ scene \in Scenes /\ scene.connection.maximum \in Nat
           /\ MaxCredit \in Nat /\ scene.connection.maximum <= MaxCredit
           /\ conn.inbound >= outConn + BytesIn(parked, Streams)
                              + BytesIn(flight, Streams) + CreditFor(credits, Connection)
           /\ conn.size = conn.inbound + conn.granting + conn.owed + conn.unreturned
                          + TotalHeld
           /\ conn.size <= scene.connection.maximum
           /\ conn.granting = CreditFor(deferred, Connection)
           /\ conn.queued >= Cardinality(Positions(deferred, Connection))
  <1>1. /\ conn \in Window /\ outConn \in Nat /\ scene \in Scenes
        /\ parked \in Seq(Streams) /\ flight \in Seq(Streams)
        /\ held \in [Streams -> Nat]
        /\ deferred \in Seq(Updates) /\ credits \in Seq(Updates)
    BY DEF FInv, TypeOK, UpdatesOK
  <1>2. /\ conn.size \in Nat /\ conn.inbound \in Nat /\ conn.unreturned \in Nat
        /\ conn.owed \in Nat /\ conn.granting \in Nat /\ conn.queued \in Nat
    BY <1>1 DEF Window
  <1>3. /\ TotalHeld \in Nat
        /\ BytesIn(parked, Streams) \in Nat /\ BytesIn(flight, Streams) \in Nat
        /\ CreditFor(credits, Connection) \in Nat
        /\ CreditFor(deferred, Connection) \in Nat
        /\ Cardinality(Positions(deferred, Connection)) \in Nat
    BY <1>1, HeldType, BytesType, CreditType
  <1>4. scene.connection.maximum \in Nat /\ MaxCredit \in Nat
        /\ scene.connection.maximum <= MaxCredit
    BY <1>1, SceneLimits
  <1>5. ConnectionLedger
    BY DEF FInv
  <1> QED BY <1>1, <1>2, <1>3, <1>4, <1>5 DEF ConnectionLedger, Balance, Outside

\* The state of a stream's window, in numbers.
LEMMA StreamKnown ==
    ASSUME FInv, NEW s \in Streams
    PROVE  /\ win[s] \in Window
           /\ win[s].size \in Nat /\ win[s].inbound \in Nat /\ win[s].unreturned \in Nat
           /\ win[s].owed \in Nat /\ win[s].granting \in Nat /\ win[s].queued \in Nat
           /\ held[s] \in Nat /\ out[s] \in Nat
           /\ BytesIn(parked, {s}) \in Nat /\ BytesIn(flight, {s}) \in Nat
           /\ CreditFor(credits, s) \in Nat
           /\ CreditFor(deferred, s) \in Nat
           /\ Cardinality(Positions(deferred, s)) \in Nat
           /\ scene \in Scenes /\ scene.stream.maximum \in Nat
           /\ MaxCredit \in Nat /\ scene.stream.maximum <= MaxCredit
           /\ scene.stream.maximum <= scene.connection.maximum
           /\ closed[s] \in BOOLEAN
           /\ win[s].inbound >= out[s] + BytesIn(parked, {s})
                              + BytesIn(flight, {s}) + CreditFor(credits, s)
           /\ ~closed[s] => win[s].size = win[s].inbound + win[s].granting + win[s].owed
                                          + win[s].unreturned + held[s]
           /\ win[s].size >= win[s].inbound + win[s].granting + held[s]
           /\ win[s].size <= scene.stream.maximum
           /\ win[s].granting = CreditFor(deferred, s)
           /\ win[s].queued >= Cardinality(Positions(deferred, s))
  <1>1. /\ win[s] \in Window /\ out[s] \in Nat /\ scene \in Scenes
        /\ parked \in Seq(Streams) /\ flight \in Seq(Streams)
        /\ held[s] \in Nat /\ closed[s] \in BOOLEAN
        /\ deferred \in Seq(Updates) /\ credits \in Seq(Updates)
    BY DEF FInv, TypeOK, UpdatesOK
  <1>2. /\ win[s].size \in Nat /\ win[s].inbound \in Nat /\ win[s].unreturned \in Nat
        /\ win[s].owed \in Nat /\ win[s].granting \in Nat /\ win[s].queued \in Nat
    BY <1>1 DEF Window
  <1>3. /\ BytesIn(parked, {s}) \in Nat /\ BytesIn(flight, {s}) \in Nat
        /\ CreditFor(credits, s) \in Nat /\ CreditFor(deferred, s) \in Nat
        /\ Cardinality(Positions(deferred, s)) \in Nat
    BY <1>1, BytesType, CreditType
  <1>4. scene.stream.maximum \in Nat /\ MaxCredit \in Nat
        /\ scene.stream.maximum <= MaxCredit
        /\ scene.stream.maximum <= scene.connection.maximum
    BY <1>1, SceneLimits
  <1>5. StreamLedger(s)
    BY DEF FInv
  <1>6. /\ win[s].inbound >= out[s] + BytesIn(parked, {s})
                             + BytesIn(flight, {s}) + CreditFor(credits, s)
        /\ win[s].size <= scene.stream.maximum
        /\ win[s].granting = CreditFor(deferred, s)
        /\ win[s].queued >= Cardinality(Positions(deferred, s))
    BY <1>5 DEF StreamLedger, Balance
  <1>7. CASE closed[s]
    <2>1. win[s].size >= win[s].inbound + win[s].granting + held[s]
      BY <1>5, <1>7 DEF StreamLedger, Balance
    <2> QED BY <1>1, <1>2, <1>3, <1>4, <1>6, <1>7, <2>1
  <1>8. CASE ~closed[s]
    <2>1. win[s].size = Outside(win[s]) + held[s]
      BY <1>5, <1>8 DEF StreamLedger, Balance
    <2>2. win[s].size = win[s].inbound + win[s].granting + win[s].owed
                        + win[s].unreturned + held[s]
      BY <1>1, <1>2, <2>1 DEF Outside
    <2>3. win[s].size >= win[s].inbound + win[s].granting + held[s]
      <3>1. held[s] \in Nat
        BY <1>1
      <3> QED BY <1>2, <2>2, <3>1
    <2> QED BY <1>1, <1>2, <1>3, <1>4, <1>6, <1>8, <2>2, <2>3
  <1> QED BY <1>7, <1>8

\* A window that a step leaves alone.
LEMMA ConnectionFrame ==
    ASSUME FInv, conn' = conn, TotalHeld' = TotalHeld, outConn' = outConn,
           BytesIn(parked, Streams)' = BytesIn(parked, Streams),
           BytesIn(flight, Streams)' = BytesIn(flight, Streams),
           CreditFor(credits, Connection)' = CreditFor(credits, Connection),
           CreditFor(deferred, Connection)' = CreditFor(deferred, Connection),
           Cardinality(Positions(deferred, Connection))' =
               Cardinality(Positions(deferred, Connection)),
           scene' = scene, failed' = failed
    PROVE  ConnectionLedger' /\ ConnectionStep
  <1>1. ConnectionLedger
    BY DEF FInv
  <1>2. ConnectionLedger'
    BY <1>1 DEF ConnectionLedger
  <1>3. ConnectionStep
    BY DEF ConnectionStep, ConnectionWindow!cvars
  <1> QED BY <1>2, <1>3

\* So does one that leaves every part of a stream's ledger as it is.
LEMMA StreamFrame ==
    ASSUME FInv, NEW s \in Streams, win'[s] = win[s], closed'[s] = closed[s],
           held'[s] = held[s], out'[s] = out[s],
           BytesIn(parked, {s})' = BytesIn(parked, {s}),
           BytesIn(flight, {s})' = BytesIn(flight, {s}),
           CreditFor(credits, s)' = CreditFor(credits, s),
           CreditFor(deferred, s)' = CreditFor(deferred, s),
           Cardinality(Positions(deferred, s))' = Cardinality(Positions(deferred, s)),
           scene' = scene, failed' = failed
    PROVE  StreamLedger(s)' /\ StreamStep(s)
  <1>1. StreamLedger(s)
    BY DEF FInv
  <1>2. StreamLedger(s)'
    BY <1>1 DEF StreamLedger
  <1>3. StreamStep(s)
    BY DEF StreamStep, StreamWindow!cvars
  <1> QED BY <1>2, <1>3

\* Credit that the sender moves about stays within what it was granted.
LEMMA SenderBalance ==
    ASSUME NEW l, NEW w, NEW h, NEW o \in Nat, NEW p \in Nat, NEW f \in Nat,
           NEW g \in Nat, NEW d, NEW u, NEW max,
           NEW o2 \in Nat, NEW p2 \in Nat, NEW f2 \in Nat, NEW g2 \in Nat,
           w.inbound \in Nat, Balance(l, w, h, o, p, f, g, d, u, max),
           o2 + p2 + f2 + g2 <= o + p + f + g
    PROVE  Balance(l, w, h, o2, p2, f2, g2, d, u, max)
  <1>1. w.inbound >= o2 + p2 + f2 + g2
    BY DEF Balance
  <1> QED BY <1>1 DEF Balance

\* The same for the session's state.
LEMMA ConnectionSender ==
    ASSUME FInv, conn' = conn, TotalHeld' = TotalHeld, scene' = scene,
           deferred' = deferred,
           outConn' \in Nat, BytesIn(parked, Streams)' \in Nat,
           BytesIn(flight, Streams)' \in Nat, CreditFor(credits, Connection)' \in Nat,
           outConn' + BytesIn(parked, Streams)' + BytesIn(flight, Streams)'
             + CreditFor(credits, Connection)' <=
           outConn + BytesIn(parked, Streams) + BytesIn(flight, Streams)
             + CreditFor(credits, Connection)
    PROVE  ConnectionLedger'
  <1>1. ConnectionLedger
    BY DEF FInv
  <1>2. /\ CreditFor(deferred, Connection)' = CreditFor(deferred, Connection)
        /\ Cardinality(Positions(deferred, Connection))' = Cardinality(Positions(deferred, Connection))
    OBVIOUS
  <1> DEFINE d == CreditFor(deferred, Connection)
             u == Cardinality(Positions(deferred, Connection))
             o2 == outConn'
             p2 == BytesIn(parked, Streams)'
             f2 == BytesIn(flight, Streams)'
             g2 == CreditFor(credits, Connection)'
  <1>3. Balance(TRUE, conn, TotalHeld, outConn, BytesIn(parked, Streams), BytesIn(flight, Streams),
                CreditFor(credits, Connection), d, u, scene.connection.maximum)
    BY <1>1 DEF ConnectionLedger
  <1>4. o2 \in Nat /\ p2 \in Nat /\ f2 \in Nat /\ g2 \in Nat
        /\ o2 + p2 + f2 + g2 <= outConn + BytesIn(parked, Streams) + BytesIn(flight, Streams)
                                  + CreditFor(credits, Connection)
    OBVIOUS
  <1> HIDE DEF d, u, o2, p2, f2, g2
  <1>5. Balance(TRUE, conn, TotalHeld, o2, p2, f2, g2, d, u, scene.connection.maximum)
    BY <1>3, <1>4, ConnectionKnown, SenderBalance
  <1> QED BY <1>2, <1>5 DEF ConnectionLedger, d, u, o2, p2, f2, g2

\* Nor can the stream's.
LEMMA StreamSender ==
    ASSUME FInv, NEW s \in Streams, win'[s] = win[s], held'[s] = held[s],
           closed'[s] = closed[s], scene' = scene, deferred' = deferred,
           out'[s] \in Nat, BytesIn(parked, {s})' \in Nat,
           BytesIn(flight, {s})' \in Nat, CreditFor(credits, s)' \in Nat,
           out'[s] + BytesIn(parked, {s})' + BytesIn(flight, {s})'
             + CreditFor(credits, s)' <=
           out[s] + BytesIn(parked, {s}) + BytesIn(flight, {s}) + CreditFor(credits, s)
    PROVE  StreamLedger(s)'
  <1>1. StreamLedger(s)
    BY DEF FInv
  <1>2. /\ CreditFor(deferred, s)' = CreditFor(deferred, s)
        /\ Cardinality(Positions(deferred, s))' = Cardinality(Positions(deferred, s))
    OBVIOUS
  <1> DEFINE d == CreditFor(deferred, s)
             u == Cardinality(Positions(deferred, s))
             o2 == out'[s]
             p2 == BytesIn(parked, {s})'
             f2 == BytesIn(flight, {s})'
             g2 == CreditFor(credits, s)'
  <1>3. Balance(~closed[s], win[s], held[s], out[s], BytesIn(parked, {s}), BytesIn(flight, {s}),
                CreditFor(credits, s), d, u, scene.stream.maximum)
    BY <1>1 DEF StreamLedger
  <1>4. o2 \in Nat /\ p2 \in Nat /\ f2 \in Nat /\ g2 \in Nat
        /\ o2 + p2 + f2 + g2 <= out[s] + BytesIn(parked, {s}) + BytesIn(flight, {s})
                                  + CreditFor(credits, s)
    OBVIOUS
  <1> HIDE DEF d, u, o2, p2, f2, g2
  <1>5. Balance(~closed[s], win[s], held[s], o2, p2, f2, g2, d, u, scene.stream.maximum)
    BY <1>3, <1>4, StreamKnown, SenderBalance
  <1> QED BY <1>2, <1>5 DEF StreamLedger, d, u, o2, p2, f2, g2

-----------------------------------------------------------------------------
(* Reaching the steps of the abstract window. *)

\* The sender's steps.
LEMMA ConnectionSends ==
    ASSUME FInv, NEW n \in 1..MaxFrame,
           \A k \in Scenes : scene = k =>
              \/ ConnectionWindow(k)!Spend(n)
              \/ ConnectionWindow(k)!Transmit(n)
              \/ ConnectionWindow(k)!TakeBack(n)
    PROVE  ConnectionStep
  <1>1. ~failed
    BY DEF FInv
  <1> QED BY <1>1 DEF ConnectionStep, ConnectionWindow!Next, ConnectionWindow!Sender,
                      ConnectionWindow!Bytes

\* The same for a stream's window.
LEMMA StreamSends ==
    ASSUME FInv, NEW s \in Streams, NEW n \in 1..MaxFrame,
           \A k \in Scenes : scene = k =>
              \/ StreamWindow(k, s)!Spend(n)
              \/ StreamWindow(k, s)!Transmit(n)
              \/ StreamWindow(k, s)!TakeBack(n)
    PROVE  StreamStep(s)
  <1>1. ~failed
    BY DEF FInv
  <1> QED BY <1>1 DEF StreamStep, StreamWindow!Next, StreamWindow!Sender,
                      StreamWindow!Bytes

-----------------------------------------------------------------------------
(* The sender. *)

\* The scheduler picks a stream that is ready.
LEMMA TurnIsReady ==
    ASSUME Ready # {}
    PROVE  Turn \in Ready
  <1> DEFINE later == {s \in Ready : s > cursor}
  <1>1. Ready \subseteq Nat
    BY StreamsAssumption DEF Ready
  <1>2. ASSUME NEW S, S \subseteq Ready, S # {} PROVE Min(S) \in S
    <2>1. S \subseteq Nat
      BY <1>1, <1>2
    <2>2. \E n \in S : \A m \in S : n <= m
      BY <1>2, <2>1, LeastNumber
    <2> QED BY <2>2 DEF Min
  <1>3. later \subseteq Ready
    OBVIOUS
  <1>4. Turn = IF later # {} THEN Min(later) ELSE Min(Ready)
    BY DEF Turn
  <1> HIDE DEF later
  <1> QED BY <1>2, <1>3, <1>4

\* One record of stream s joins a queue.
LEMMA Joined ==
    ASSUME NEW q \in Seq(Streams), NEW s \in Streams
    PROVE  /\ Append(q, s) \in Seq(Streams)
           /\ BytesIn(Append(q, s), Streams) = BytesIn(q, Streams) + Size[s]
           /\ BytesIn(Append(q, s), {s}) = BytesIn(q, {s}) + Size[s]
           /\ \A t \in Streams : t # s => BytesIn(Append(q, s), {t}) = BytesIn(q, {t})
  <1>1. \A T : /\ BytesIn(q, T) \in Nat
               /\ BytesIn(Append(q, s), T) = BytesIn(q, T) + IF s \in T THEN Size[s] ELSE 0
    BY BytesInAppend
  <1>2. Append(q, s) \in Seq(Streams)
    BY BytesInAppend
  <1>3. ASSUME NEW t \in Streams, t # s PROVE BytesIn(Append(q, s), {t}) = BytesIn(q, {t})
    <2>1. s \notin {t}
      BY <1>3
    <2>2. BytesIn(Append(q, s), {t}) = BytesIn(q, {t}) + 0
      BY <1>1, <2>1
    <2> QED BY <1>1, <2>2
  <1> QED BY <1>1, <1>2, <1>3

\* The first record of a queue leaves it.
LEMMA Left ==
    ASSUME NEW q \in Seq(Streams), q # <<>>, NEW s, s = Head(q)
    PROVE  /\ s \in Streams
           /\ Tail(q) \in Seq(Streams)
           /\ Size[s] \in 1..MaxFrame
           /\ BytesIn(Tail(q), Streams) \in Nat /\ BytesIn(Tail(q), {s}) \in Nat
           /\ BytesIn(q, Streams) = BytesIn(Tail(q), Streams) + Size[s]
           /\ BytesIn(q, {s}) = BytesIn(Tail(q), {s}) + Size[s]
           /\ \A t \in Streams : t # s => BytesIn(Tail(q), {t}) = BytesIn(q, {t})
  <1>1. \A T : /\ BytesIn(Tail(q), T) \in Nat
               /\ BytesIn(q, T) = BytesIn(Tail(q), T) + IF s \in T THEN Size[s] ELSE 0
    BY BytesInTail
  <1>2. s \in Streams /\ Tail(q) \in Seq(Streams)
    BY BytesInTail
  <1>3. ASSUME NEW t \in Streams, t # s PROVE BytesIn(Tail(q), {t}) = BytesIn(q, {t})
    <2>1. s \notin {t}
      BY <1>3
    <2>2. BytesIn(q, {t}) = BytesIn(Tail(q), {t}) + 0
      BY <1>1, <2>1
    <2> QED BY <1>1, <2>2
  <1>4. Size[s] \in 1..MaxFrame
    BY <1>2, StreamsAssumption
  <1> QED BY <1>1, <1>2, <1>3, <1>4

\* drain_pending_writes takes the record's credit from both windows.
LEMMA PublishWindows ==
    ASSUME FInv, Publish
    PROVE  /\ ConnectionLedger' /\ ConnectionStep
           /\ \A t \in Streams : StreamLedger(t)' /\ StreamStep(t)
  <1>1. PICK s \in Streams : s = Turn /\ Size[s] <= out[s]
    BY TurnIsReady DEF Publish, Ready
  <1>2. /\ parked \in Seq(Streams) /\ flight \in Seq(Streams) /\ out \in [Streams -> Nat]
    BY DEF FInv, TypeOK
  <1>3. /\ Size[s] <= outConn /\ outConn' = outConn - Size[s]
        /\ out' = [out EXCEPT ![s] = @ - Size[s]]
        /\ \/ parked' = Append(parked, s) /\ flight' = flight
           \/ flight' = Append(flight, s) /\ parked' = parked
        /\ conn' = conn /\ win' = win /\ held' = held /\ closed' = closed
        /\ deferred' = deferred /\ credits' = credits /\ scene' = scene
        /\ failed' = failed
    BY <1>1 DEF Publish, recvVars
  <1>4. PICK n \in 1..MaxFrame : n = Size[s]
    BY StreamsAssumption
  <1>5. n \in Nat /\ MaxFrame \in Nat
    BY FrameAssumption
  <1>6. TotalHeld' = TotalHeld
    BY <1>3, TotalHeldIs, TotalHeldNext
  <1>7. \/ /\ BytesIn(parked, Streams)' = BytesIn(parked, Streams) + n
           /\ BytesIn(parked, {s})' = BytesIn(parked, {s}) + n
           /\ BytesIn(flight, Streams)' = BytesIn(flight, Streams)
           /\ BytesIn(flight, {s})' = BytesIn(flight, {s})
        \/ /\ BytesIn(flight, Streams)' = BytesIn(flight, Streams) + n
           /\ BytesIn(flight, {s})' = BytesIn(flight, {s}) + n
           /\ BytesIn(parked, Streams)' = BytesIn(parked, Streams)
           /\ BytesIn(parked, {s})' = BytesIn(parked, {s})
    BY ZenonT(60), <1>2, <1>3, <1>4, Joined
  <1>8. /\ CreditFor(credits, Connection)' = CreditFor(credits, Connection)
        /\ CreditFor(deferred, Connection)' = CreditFor(deferred, Connection)
        /\ Cardinality(Positions(deferred, Connection))' = Cardinality(Positions(deferred, Connection))
    BY <1>3
  <1>9. ConnectionLedger'
    <2>0. n <= outConn /\ outConn' = outConn - n
      BY <1>3, <1>4
    <2>1. /\ outConn' \in Nat /\ BytesIn(parked, Streams)' \in Nat
          /\ BytesIn(flight, Streams)' \in Nat /\ CreditFor(credits, Connection)' \in Nat
          /\ outConn' + BytesIn(parked, Streams)' + BytesIn(flight, Streams)'
               + CreditFor(credits, Connection)' <=
             outConn + BytesIn(parked, Streams) + BytesIn(flight, Streams)
               + CreditFor(credits, Connection)
      BY <1>5, <1>7, <1>8, <2>0, ConnectionKnown
    <2> QED BY <1>3, <1>6, <2>1, ConnectionSender
  <1>10. ConnectionStep
    <2>1. ASSUME NEW k \in Scenes PROVE ConnectionWindow(k)!Spend(n)
      BY <1>3, <1>4, <1>6, <1>7, <1>8 DEF ConnectionWindow!Spend
    <2> QED BY <2>1, ConnectionSends
  <1>11. ASSUME NEW t \in Streams PROVE StreamLedger(t)' /\ StreamStep(t)
    <2>1. CASE t = s
      <3>1. /\ CreditFor(credits, s)' = CreditFor(credits, s)
            /\ CreditFor(deferred, s)' = CreditFor(deferred, s)
            /\ Cardinality(Positions(deferred, s))' = Cardinality(Positions(deferred, s))
            /\ out'[s] = out[s] - n /\ win'[s] = win[s] /\ held'[s] = held[s]
            /\ closed'[s] = closed[s]
        BY <1>2, <1>3, <1>4
      <3>3. StreamLedger(s)'
        <4>1. /\ out'[s] \in Nat /\ BytesIn(parked, {s})' \in Nat
              /\ BytesIn(flight, {s})' \in Nat /\ CreditFor(credits, s)' \in Nat
              /\ out'[s] + BytesIn(parked, {s})' + BytesIn(flight, {s})'
                   + CreditFor(credits, s)' <=
                 out[s] + BytesIn(parked, {s}) + BytesIn(flight, {s}) + CreditFor(credits, s)
          BY <1>1, <1>4, <1>5, <1>7, <3>1, StreamKnown
        <4> QED BY <1>3, <3>1, <4>1, StreamSender
      <3>4. ASSUME NEW k \in Scenes PROVE StreamWindow(k, s)!Spend(n)
        BY <1>1, <1>3, <1>4, <1>7, <3>1 DEF StreamWindow!Spend
      <3> QED BY <2>1, <3>3, <3>4, StreamSends
    <2>2. CASE t # s
      <3>1. /\ BytesIn(parked, {t})' = BytesIn(parked, {t})
            /\ BytesIn(flight, {t})' = BytesIn(flight, {t})
        <4>1. CASE parked' = Append(parked, s) /\ flight' = flight
          BY <1>2, <2>2, <4>1, Joined
        <4>2. CASE flight' = Append(flight, s) /\ parked' = parked
          BY <1>2, <2>2, <4>2, Joined
        <4> QED BY <1>3, <4>1, <4>2
      <3>2. /\ CreditFor(credits, t)' = CreditFor(credits, t)
            /\ CreditFor(deferred, t)' = CreditFor(deferred, t)
            /\ Cardinality(Positions(deferred, t))' = Cardinality(Positions(deferred, t))
            /\ out'[t] = out[t] /\ win'[t] = win[t] /\ held'[t] = held[t]
            /\ closed'[t] = closed[t]
        BY <1>2, <1>3, <2>2
      <3> QED BY <1>3, <3>1, <3>2, StreamFrame
    <2> QED BY <2>1, <2>2
  <1> QED BY <1>9, <1>10, <1>11


\* A credit update joins a queue.
LEMMA UpdateJoined ==
    ASSUME NEW q, NEW k, UpdatesOK(q, k), NEW u \in Updates, u.increment >= 1,
           u.increment <= Limit(k, u.to)
    PROVE  /\ UpdatesOK(Append(q, u), k)
           /\ CreditFor(Append(q, u), u.to) = CreditFor(q, u.to) + u.increment
           /\ Cardinality(Positions(Append(q, u), u.to)) =
                Cardinality(Positions(q, u.to)) + 1
           /\ \A to : to # u.to =>
                /\ CreditFor(Append(q, u), to) = CreditFor(q, to)
                /\ Cardinality(Positions(Append(q, u), to)) = Cardinality(Positions(q, to))
  <1>1. q \in Seq(Updates)
    BY DEF UpdatesOK
  <1>2. \A to : /\ CreditFor(q, to) \in Nat
                /\ CreditFor(Append(q, u), to) =
                     CreditFor(q, to) + IF u.to = to THEN u.increment ELSE 0
    BY <1>1, CreditForAppend
  <1>3. \A to : /\ Cardinality(Positions(q, to)) \in Nat
                /\ Cardinality(Positions(Append(q, u), to)) =
                     Cardinality(Positions(q, to)) + IF u.to = to THEN 1 ELSE 0
    BY <1>1, PositionsAppend
  <1>4. UpdatesOK(Append(q, u), k)
    <2>1. /\ Append(q, u) \in Seq(Updates) /\ Len(Append(q, u)) = Len(q) + 1
          /\ Append(q, u)[Len(q) + 1] = u /\ Len(q) \in Nat
          /\ \A i \in 1..Len(q) : Append(q, u)[i] = q[i]
      BY <1>1, AppendProperties
    <2>2. ASSUME NEW i \in 1..Len(Append(q, u))
          PROVE  Append(q, u)[i].increment >= 1
                 /\ Append(q, u)[i].increment <= Limit(k, Append(q, u)[i].to)
      <3>1. CASE i \in 1..Len(q)
        BY <2>1, <3>1 DEF UpdatesOK
      <3>2. CASE i = Len(q) + 1
        BY <2>1, <3>2
      <3> QED BY <2>1, <3>1, <3>2
    <2> QED BY <2>1, <2>2 DEF UpdatesOK
  <1>5. ASSUME NEW to, to # u.to
        PROVE  /\ CreditFor(Append(q, u), to) = CreditFor(q, to)
               /\ Cardinality(Positions(Append(q, u), to)) = Cardinality(Positions(q, to))
    <2>1. /\ CreditFor(Append(q, u), to) = CreditFor(q, to) + 0
          /\ Cardinality(Positions(Append(q, u), to)) = Cardinality(Positions(q, to)) + 0
      BY <1>2, <1>3, <1>5
    <2> QED BY <1>2, <1>3, <2>1
  <1> QED BY <1>2, <1>3, <1>4, <1>5

\* The first credit update leaves a queue.
LEMMA UpdateLeft ==
    ASSUME NEW q, NEW k, UpdatesOK(q, k), q # <<>>, NEW u, u = Head(q)
    PROVE  /\ u \in Updates /\ u.increment \in Nat /\ u.increment >= 1
           /\ u.increment <= Limit(k, u.to)
           /\ u.to \in Streams \cup {Connection}
           /\ UpdatesOK(Tail(q), k)
           /\ CreditFor(Tail(q), u.to) \in Nat
           /\ CreditFor(q, u.to) = CreditFor(Tail(q), u.to) + u.increment
           /\ Cardinality(Positions(Tail(q), u.to)) \in Nat
           /\ Cardinality(Positions(q, u.to)) = Cardinality(Positions(Tail(q), u.to)) + 1
           /\ \A to : to # u.to =>
                /\ CreditFor(Tail(q), to) = CreditFor(q, to)
                /\ Cardinality(Positions(Tail(q), to)) = Cardinality(Positions(q, to))
  <1>1. q \in Seq(Updates)
    BY DEF UpdatesOK
  <1>2. \A to : /\ CreditFor(Tail(q), to) \in Nat
                /\ CreditFor(q, to) =
                     CreditFor(Tail(q), to) + IF u.to = to THEN u.increment ELSE 0
    BY <1>1, CreditForTail
  <1>3. \A to : /\ Cardinality(Positions(Tail(q), to)) \in Nat
                /\ Cardinality(Positions(q, to)) =
                     Cardinality(Positions(Tail(q), to)) + IF u.to = to THEN 1 ELSE 0
    BY <1>1, PositionsTail
  <1>4. UpdatesOK(Tail(q), k) /\ u \in Updates /\ u.increment >= 1 /\ u.increment <= Limit(k, u.to)
    <2>1. /\ Tail(q) \in Seq(Updates) /\ Len(q) = Len(Tail(q)) + 1
          /\ u \in Updates /\ q[1] = u /\ Len(Tail(q)) \in Nat
          /\ \A i \in 1..Len(Tail(q)) : Tail(q)[i] = q[i + 1]
      BY <1>1, HeadTailProperties
    <2>2. ASSUME NEW i \in 1..Len(Tail(q))
          PROVE  Tail(q)[i].increment >= 1
                 /\ Tail(q)[i].increment <= Limit(k, Tail(q)[i].to)
      <3>1. i + 1 \in 1..Len(q) /\ Tail(q)[i] = q[i + 1]
        BY <2>1
      <3> QED BY <3>1 DEF UpdatesOK
    <2>3. 1 \in 1..Len(q)
      BY <2>1
    <2> QED BY <2>1, <2>2, <2>3 DEF UpdatesOK
  <1>5. ASSUME NEW to, to # u.to
        PROVE  /\ CreditFor(Tail(q), to) = CreditFor(q, to)
               /\ Cardinality(Positions(Tail(q), to)) = Cardinality(Positions(q, to))
    <2>1. /\ CreditFor(q, to) = CreditFor(Tail(q), to) + 0
          /\ Cardinality(Positions(q, to)) = Cardinality(Positions(Tail(q), to)) + 0
      BY <1>2, <1>3, <1>5
    <2> QED BY <1>2, <1>3, <2>1
  <1>6. u.increment \in Nat /\ u.to \in Streams \cup {Connection}
    BY <1>4 DEF Updates
  <1> QED BY <1>2, <1>3, <1>4, <1>5, <1>6

\* A record that leaves a queue is of no other stream.
LEMMA LeftOther ==
    ASSUME NEW q \in Seq(Streams), q # <<>>, NEW t \in Streams, t # Head(q)
    PROVE  BytesIn(Tail(q), {t}) = BytesIn(q, {t})
  <1>1. PICK s : s = Head(q)
    OBVIOUS
  <1>2. BytesIn(Tail(q), {t}) \in Nat
        /\ BytesIn(q, {t}) = BytesIn(Tail(q), {t}) + IF s \in {t} THEN Size[s] ELSE 0
    BY <1>1, BytesInTail
  <1> QED BY <1>1, <1>2

\* flush_deferred_records sends the record that waited, or takes it back.
LEMMA FlushDataWindows ==
    ASSUME FInv, FlushData
    PROVE  /\ ConnectionLedger' /\ ConnectionStep
           /\ \A t \in Streams : StreamLedger(t)' /\ StreamStep(t)
  <1>1. PICK s : s = Head(parked)
    OBVIOUS
  <1>2. /\ parked \in Seq(Streams) /\ flight \in Seq(Streams) /\ out \in [Streams -> Nat]
        /\ parked # <<>> /\ dead \in [Streams -> BOOLEAN]
    BY DEF FInv, TypeOK, FlushData
  <1>3. /\ parked' = Tail(parked)
        /\ IF dead[s] THEN outConn' = outConn + Size[s] /\ flight' = flight
           ELSE flight' = Append(flight, s) /\ outConn' = outConn
        /\ conn' = conn /\ win' = win /\ held' = held /\ closed' = closed
        /\ deferred' = deferred /\ credits' = credits /\ scene' = scene
        /\ failed' = failed /\ out' = out
    BY <1>1 DEF FlushData, recvVars
  <1>4. s \in Streams
    BY <1>1, <1>2, Left
  <1>5. PICK n \in 1..MaxFrame : n = Size[s]
    BY <1>4, StreamsAssumption
  <1>6. n \in Nat /\ MaxFrame \in Nat
    BY FrameAssumption
  <1>7. TotalHeld' = TotalHeld
    BY <1>3, TotalHeldIs, TotalHeldNext
  <1>8. /\ BytesIn(parked, Streams)' \in Nat /\ BytesIn(parked, {s})' \in Nat
        /\ BytesIn(parked, Streams) = BytesIn(parked, Streams)' + n
        /\ BytesIn(parked, {s}) = BytesIn(parked, {s})' + n
        /\ \A t \in Streams : t # s => BytesIn(parked, {t})' = BytesIn(parked, {t})
    <2>1. /\ BytesIn(Tail(parked), Streams) \in Nat /\ BytesIn(Tail(parked), {s}) \in Nat
          /\ BytesIn(parked, Streams) = BytesIn(Tail(parked), Streams) + n
          /\ BytesIn(parked, {s}) = BytesIn(Tail(parked), {s}) + n
          /\ \A t \in Streams : t # s => BytesIn(Tail(parked), {t}) = BytesIn(parked, {t})
      <3>1. /\ BytesIn(Tail(parked), Streams) \in Nat /\ BytesIn(Tail(parked), {s}) \in Nat
            /\ BytesIn(parked, Streams) = BytesIn(Tail(parked), Streams) + Size[s]
            /\ BytesIn(parked, {s}) = BytesIn(Tail(parked), {s}) + Size[s]
        BY <1>1, <1>2, Left
      <3>2. ASSUME NEW t \in Streams, t # s
            PROVE  BytesIn(Tail(parked), {t}) = BytesIn(parked, {t})
        BY <1>1, <1>2, <3>2, LeftOther
      <3> QED BY <1>5, <3>1, <3>2
    <2>2. parked' = Tail(parked)
      BY <1>3
    <2> QED BY <2>1, <2>2
  <1>9. CASE dead[s]
    <2>1. /\ outConn' = outConn + n /\ flight' = flight
          /\ BytesIn(flight, Streams)' = BytesIn(flight, Streams)
          /\ CreditFor(credits, Connection)' = CreditFor(credits, Connection)
      BY <1>3, <1>5, <1>9
    <2>2. ConnectionLedger'
      <3>1. /\ outConn' \in Nat /\ BytesIn(parked, Streams)' \in Nat
            /\ BytesIn(flight, Streams)' \in Nat /\ CreditFor(credits, Connection)' \in Nat
            /\ outConn' + BytesIn(parked, Streams)' + BytesIn(flight, Streams)'
                 + CreditFor(credits, Connection)' <=
               outConn + BytesIn(parked, Streams) + BytesIn(flight, Streams)
                 + CreditFor(credits, Connection)
        BY <1>6, <1>8, <2>1, ConnectionKnown
      <3> QED BY <1>3, <1>7, <3>1, ConnectionSender
    <2>3. ConnectionStep
      <3>1. n <= BytesIn(parked, Streams) /\ BytesIn(parked, Streams)' = BytesIn(parked, Streams) - n
        BY <1>6, <1>8, ConnectionKnown
      <3>2. ASSUME NEW k \in Scenes PROVE ConnectionWindow(k)!TakeBack(n)
        BY <1>3, <1>7, <2>1, <3>1 DEF ConnectionWindow!TakeBack
      <3> QED BY <3>2, ConnectionSends
    <2>4. ASSUME NEW t \in Streams PROVE StreamLedger(t)' /\ StreamStep(t)
      <3>1. /\ CreditFor(credits, t)' = CreditFor(credits, t)
            /\ CreditFor(deferred, t)' = CreditFor(deferred, t)
            /\ Cardinality(Positions(deferred, t))' = Cardinality(Positions(deferred, t))
            /\ BytesIn(flight, {t})' = BytesIn(flight, {t})
            /\ out'[t] = out[t] /\ win'[t] = win[t] /\ held'[t] = held[t]
            /\ closed'[t] = closed[t]
        BY <1>3, <2>1
      <3>2. CASE t = s
        <4>1. /\ out'[s] \in Nat /\ BytesIn(parked, {s})' \in Nat
              /\ BytesIn(flight, {s})' \in Nat /\ CreditFor(credits, s)' \in Nat
              /\ out'[s] + BytesIn(parked, {s})' + BytesIn(flight, {s})'
                   + CreditFor(credits, s)' <=
                 out[s] + BytesIn(parked, {s}) + BytesIn(flight, {s}) + CreditFor(credits, s)
              /\ n <= BytesIn(parked, {s}) /\ BytesIn(parked, {s})' = BytesIn(parked, {s}) - n
          BY <1>4, <1>6, <1>8, <3>1, <3>2, StreamKnown
        <4>2. StreamLedger(s)'
          BY <1>3, <1>4, <3>1, <3>2, <4>1, StreamSender
        <4>3. ASSUME NEW k \in Scenes PROVE StreamWindow(k, s)!TakeBack(n)
          BY <1>3, <3>1, <3>2, <4>1 DEF StreamWindow!TakeBack
        <4> QED BY <1>4, <3>2, <4>2, <4>3, StreamSends
      <3>3. CASE t # s
        BY <1>3, <1>8, <3>1, <3>3, StreamFrame
      <3> QED BY <3>2, <3>3
    <2> QED BY <2>2, <2>3, <2>4
  <1>10. CASE ~dead[s]
    <2>1. /\ outConn' = outConn /\ flight' = Append(flight, s)
          /\ CreditFor(credits, Connection)' = CreditFor(credits, Connection)
      BY <1>3, <1>10
    <2>2. /\ BytesIn(flight, Streams)' = BytesIn(flight, Streams) + n
          /\ BytesIn(flight, {s})' = BytesIn(flight, {s}) + n
          /\ \A t \in Streams : t # s => BytesIn(flight, {t})' = BytesIn(flight, {t})
      BY <1>2, <1>4, <1>5, <2>1, Joined
    <2>3. ConnectionLedger'
      <3>1. /\ outConn' \in Nat /\ BytesIn(parked, Streams)' \in Nat
            /\ BytesIn(flight, Streams)' \in Nat /\ CreditFor(credits, Connection)' \in Nat
            /\ outConn' + BytesIn(parked, Streams)' + BytesIn(flight, Streams)'
                 + CreditFor(credits, Connection)' <=
               outConn + BytesIn(parked, Streams) + BytesIn(flight, Streams)
                 + CreditFor(credits, Connection)
        <4>1. outConn' = outConn /\ CreditFor(credits, Connection)' = CreditFor(credits, Connection)
          BY <2>1
        <4>2. BytesIn(flight, Streams)' = BytesIn(flight, Streams) + n
          BY <2>2
        <4>3. /\ BytesIn(parked, Streams)' \in Nat
              /\ BytesIn(parked, Streams) = BytesIn(parked, Streams)' + n
          BY <1>8
        <4> QED BY <1>6, <4>1, <4>2, <4>3, ConnectionKnown
      <3> QED BY <1>3, <1>7, <3>1, ConnectionSender
    <2>4. ConnectionStep
      <3>1. n <= BytesIn(parked, Streams) /\ BytesIn(parked, Streams)' = BytesIn(parked, Streams) - n
        BY <1>6, <1>8, ConnectionKnown
      <3>2. ASSUME NEW k \in Scenes PROVE ConnectionWindow(k)!Transmit(n)
        BY <1>3, <1>7, <2>1, <2>2, <3>1 DEF ConnectionWindow!Transmit
      <3> QED BY <3>2, ConnectionSends
    <2>5. ASSUME NEW t \in Streams PROVE StreamLedger(t)' /\ StreamStep(t)
      <3>1. /\ CreditFor(credits, t)' = CreditFor(credits, t)
            /\ CreditFor(deferred, t)' = CreditFor(deferred, t)
            /\ Cardinality(Positions(deferred, t))' = Cardinality(Positions(deferred, t))
            /\ out'[t] = out[t] /\ win'[t] = win[t] /\ held'[t] = held[t]
            /\ closed'[t] = closed[t]
        BY <1>3
      <3>2. CASE t = s
        <4>1. /\ out'[s] \in Nat /\ BytesIn(parked, {s})' \in Nat
              /\ BytesIn(flight, {s})' \in Nat /\ CreditFor(credits, s)' \in Nat
              /\ out'[s] + BytesIn(parked, {s})' + BytesIn(flight, {s})'
                   + CreditFor(credits, s)' <=
                 out[s] + BytesIn(parked, {s}) + BytesIn(flight, {s}) + CreditFor(credits, s)
              /\ n <= BytesIn(parked, {s}) /\ BytesIn(parked, {s})' = BytesIn(parked, {s}) - n
          BY <1>4, <1>6, <1>8, <2>2, <3>1, <3>2, StreamKnown
        <4>2. StreamLedger(s)'
          BY <1>3, <1>4, <3>1, <3>2, <4>1, StreamSender
        <4>3. ASSUME NEW k \in Scenes PROVE StreamWindow(k, s)!Transmit(n)
          BY <1>3, <2>2, <3>1, <3>2, <4>1 DEF StreamWindow!Transmit
        <4> QED BY <1>4, <3>2, <4>2, <4>3, StreamSends
      <3>3. CASE t # s
        BY <1>3, <1>8, <2>2, <3>1, <3>3, StreamFrame
      <3> QED BY <3>2, <3>3
    <2> QED BY <2>3, <2>4, <2>5
  <1> QED BY <1>9, <1>10

\* A step that touches no window.
LEMMA NoWindow ==
    ASSUME FInv, UNCHANGED <<conn, win, held, closed, outConn, out, parked, flight,
                             deferred, credits, scene, failed>>
    PROVE  /\ ConnectionLedger' /\ ConnectionStep
           /\ \A t \in Streams : StreamLedger(t)' /\ StreamStep(t)
  <1>1. TotalHeld' = TotalHeld
    BY TotalHeldIs, TotalHeldNext
  <1>2. ConnectionLedger' /\ ConnectionStep
    BY <1>1, ConnectionFrame
  <1>3. ASSUME NEW t \in Streams PROVE StreamLedger(t)' /\ StreamStep(t)
    BY StreamFrame
  <1> QED BY <1>2, <1>3

\* An update reaches the sender: it never overflows the sender's credit.
LEMMA ReceiveCreditWindows ==
    ASSUME FInv, ReceiveCredit
    PROVE  /\ failed' = failed
           /\ ConnectionLedger' /\ ConnectionStep
           /\ \A t \in Streams : StreamLedger(t)' /\ StreamStep(t)
           /\ UpdatesOK(credits, scene)'
           /\ outConn' \in Nat /\ out' \in [Streams -> Nat]
  <1>1. PICK u : u = Head(credits)
    OBVIOUS
  <1>2. PICK n : n = u.increment
    OBVIOUS
  <1>3. /\ UpdatesOK(credits, scene) /\ credits # <<>> /\ outConn \in Nat
        /\ out \in [Streams -> Nat] /\ scene \in Scenes /\ ~failed
    BY DEF FInv, TypeOK, ReceiveCredit
  <1>4. /\ credits' = Tail(credits)
        /\ conn' = conn /\ win' = win /\ held' = held /\ closed' = closed
        /\ deferred' = deferred /\ parked' = parked /\ flight' = flight
        /\ scene' = scene
    BY DEF ReceiveCredit, recvVars
  <1>5. /\ n \in Nat /\ n >= 1 /\ n <= Limit(scene, u.to)
        /\ u.to \in Streams \cup {Connection}
        /\ CreditFor(credits, u.to)' \in Nat
        /\ CreditFor(credits, u.to) = CreditFor(credits, u.to)' + n
        /\ \A to : to # u.to => CreditFor(credits, to)' = CreditFor(credits, to)
    BY ZenonT(60), <1>1, <1>2, <1>3, <1>4, UpdateLeft
  <1>6. UpdatesOK(credits, scene)'
    BY <1>3, <1>4, UpdateLeft
  <1>7. TotalHeld' = TotalHeld
    BY <1>4, TotalHeldIs, TotalHeldNext
  <1>8. Connection \notin Streams
    BY StreamsAssumption DEF Connection
  <1>9. CASE u.to = Connection
    <2>1. n <= MaxCredit - outConn
      <3>1. CreditFor(credits, Connection) >= n
        BY <1>5, <1>9
      <3> QED BY <1>5, <3>1, ConnectionKnown
    <2>2. outConn' = outConn + n /\ out' = out /\ failed' = failed
      <3>1. ~(n > MaxCredit - outConn)
        BY <1>3, <1>5, <2>1, ConnectionKnown
      <3> QED BY <1>1, <1>2, <1>9, <3>1 DEF ReceiveCredit
    <2>3. /\ BytesIn(parked, Streams)' = BytesIn(parked, Streams)
          /\ BytesIn(flight, Streams)' = BytesIn(flight, Streams)
          /\ CreditFor(credits, Connection)' \in Nat
          /\ CreditFor(credits, Connection) = CreditFor(credits, Connection)' + n
      BY <1>4, <1>5, <1>9
    <2>4. ConnectionLedger'
      <3>1. /\ outConn' \in Nat /\ BytesIn(parked, Streams)' \in Nat
            /\ BytesIn(flight, Streams)' \in Nat /\ CreditFor(credits, Connection)' \in Nat
            /\ outConn' + BytesIn(parked, Streams)' + BytesIn(flight, Streams)'
                 + CreditFor(credits, Connection)' <=
               outConn + BytesIn(parked, Streams) + BytesIn(flight, Streams)
                 + CreditFor(credits, Connection)
        BY <1>5, <2>2, <2>3, ConnectionKnown
      <3> QED BY <1>4, <1>7, <3>1, ConnectionSender
    <2>5. ConnectionStep
      <3>1. /\ n <= CreditFor(credits, Connection)
            /\ CreditFor(credits, Connection)' = CreditFor(credits, Connection) - n
        BY <1>5, <2>3, ConnectionKnown
      <3>2. ASSUME NEW k \in Scenes PROVE ConnectionWindow(k)!ReceiveGrant(n)
        BY <1>4, <1>7, <2>1, <2>2, <2>3, <3>1 DEF ConnectionWindow!ReceiveGrant
      <3>3. n \in 1..scene.connection.maximum
        BY <1>5, <1>9, ConnectionKnown DEF Limit
      <3> QED BY <1>3, <3>2, <3>3 DEF ConnectionStep, ConnectionWindow!Next,
                                      ConnectionWindow!Sender
    <2>6. ASSUME NEW t \in Streams PROVE StreamLedger(t)' /\ StreamStep(t)
      <3>1. CreditFor(credits, t)' = CreditFor(credits, t)
        BY <1>5, <1>8, <1>9
      <3> QED BY <1>4, <2>2, <3>1, StreamFrame
    <2> QED BY <1>3, <1>5, <1>6, <2>2, <2>4, <2>5, <2>6
  <1>10. CASE u.to # Connection
    <2>0. PICK s \in Streams : s = u.to
      BY <1>5, <1>10
    <2>1. n <= MaxCredit - out[s]
      <3>1. CreditFor(credits, s)' \in Nat /\ CreditFor(credits, s) = CreditFor(credits, s)' + n
        BY <1>5, <2>0
      <3>2. CreditFor(credits, s) >= n
        BY <1>5, <3>1
      <3>3. /\ win[s].size \in Nat /\ win[s].inbound \in Nat /\ win[s].granting \in Nat
            /\ held[s] \in Nat /\ out[s] \in Nat /\ CreditFor(credits, s) \in Nat
            /\ BytesIn(parked, {s}) \in Nat /\ BytesIn(flight, {s}) \in Nat
            /\ scene.stream.maximum \in Nat /\ MaxCredit \in Nat
            /\ scene.stream.maximum <= MaxCredit
        BY StreamKnown
      <3>4. /\ win[s].inbound >= out[s] + BytesIn(parked, {s}) + BytesIn(flight, {s})
                                 + CreditFor(credits, s)
            /\ win[s].size >= win[s].inbound + win[s].granting + held[s]
            /\ win[s].size <= scene.stream.maximum
        BY StreamKnown
      <3>5. n \in Nat
        BY <1>5
      <3> QED BY <3>2, <3>3, <3>4, <3>5
    <2>2. outConn' = outConn /\ out' = [out EXCEPT ![s] = @ + n] /\ failed' = failed
      <3>1. ~(n > MaxCredit - out[s])
        <4>1. out[s] \in Nat /\ MaxCredit \in Nat /\ n \in Nat
          BY <1>5, StreamKnown
        <4> QED BY <2>1, <4>1
      <3> QED BY <1>1, <1>2, <1>10, <2>0, <3>1 DEF ReceiveCredit
    <2>3. ConnectionLedger' /\ ConnectionStep
      <3>1. CreditFor(credits, Connection)' = CreditFor(credits, Connection)
        BY <1>5, <1>10
      <3> QED BY <1>4, <1>7, <2>2, <3>1, ConnectionFrame
    <2>4. /\ BytesIn(parked, {s})' = BytesIn(parked, {s})
          /\ BytesIn(flight, {s})' = BytesIn(flight, {s})
          /\ CreditFor(credits, s)' \in Nat
          /\ CreditFor(credits, s) = CreditFor(credits, s)' + n
          /\ out'[s] = out[s] + n
      BY <1>3, <1>4, <1>5, <2>0, <2>2
    <2>5. StreamLedger(s)'
      <3>1. /\ out'[s] \in Nat /\ BytesIn(parked, {s})' \in Nat
            /\ BytesIn(flight, {s})' \in Nat /\ CreditFor(credits, s)' \in Nat
            /\ out'[s] + BytesIn(parked, {s})' + BytesIn(flight, {s})'
                 + CreditFor(credits, s)' <=
               out[s] + BytesIn(parked, {s}) + BytesIn(flight, {s}) + CreditFor(credits, s)
        BY <1>5, <2>4, StreamKnown
      <3> QED BY <1>4, <3>1, StreamSender
    <2>6. StreamStep(s)
      <3>1. /\ n <= CreditFor(credits, s)
            /\ CreditFor(credits, s)' = CreditFor(credits, s) - n
        BY <1>5, <2>4, StreamKnown
      <3>2. ASSUME NEW k \in Scenes PROVE StreamWindow(k, s)!ReceiveGrant(n)
        BY <1>4, <2>1, <2>2, <2>4, <3>1 DEF StreamWindow!ReceiveGrant
      <3>3. n \in 1..scene.stream.maximum
        BY <1>5, <1>10, StreamKnown DEF Limit
      <3> QED BY <1>3, <3>2, <3>3 DEF StreamStep, StreamWindow!Next, StreamWindow!Sender
    <2>7. ASSUME NEW t \in Streams, t # s PROVE StreamLedger(t)' /\ StreamStep(t)
      <3>1. CreditFor(credits, t)' = CreditFor(credits, t) /\ out'[t] = out[t]
        BY <1>3, <1>5, <2>0, <2>2, <2>7
      <3> QED BY <1>4, <2>2, <3>1, StreamFrame
    <2>8. out' \in [Streams -> Nat]
      BY <1>3, <1>5, <2>2
    <2> QED BY <1>3, <1>6, <2>2, <2>3, <2>5, <2>6, <2>7, <2>8
  <1> QED BY <1>9, <1>10

-----------------------------------------------------------------------------
(* The operators of a window are the same in every instance. *)

\* Those of the connection window.
LEMMA ConnectionOperators ==
    ASSUME NEW k, NEW w, NEW n, NEW max, NEW fast, NEW due, NEW g
    PROVE  /\ ConnectionWindow(k)!OpenWindow(n) = OpenWindow(n)
           /\ ConnectionWindow(k)!Charge(w, n) = Charge(w, n)
           /\ ConnectionWindow(k)!TakeConnection(w, due, g) = TakeConnection(w, due, g)
           /\ ConnectionWindow(k)!ReturnConnection(w, n, max, fast) =
                ReturnConnection(w, n, max, fast)
           /\ ConnectionWindow(k)!CompleteConnection(w, max, fast) =
                CompleteConnection(w, max, fast)
           /\ ConnectionWindow(k)!CanReturn(w, n) = CanReturn(w, n)
           /\ ConnectionWindow(k)!RaiseFloor(w, n, max) = RaiseFloor(w, n, max)
           /\ ConnectionWindow(k)!GrantSlotFree(w) = GrantSlotFree(w)
           /\ ConnectionWindow(k)!Reserve(w) = Reserve(w)
           /\ ConnectionWindow(k)!Admit(w, n) = Admit(w, n)
           /\ ConnectionWindow(k)!AdmitAllowed(w, n) = AdmitAllowed(w, n)
  <1>1. ConnectionWindow(k)!ReturnConnection(w, n, max, fast) =
          ReturnConnection(w, n, max, fast)
    BY DEF ConnectionWindow!ReturnConnection, ReturnConnection,
           ConnectionWindow!GrantSlotFree, GrantSlotFree,
           ConnectionWindow!TakeConnection, TakeConnection,
           ConnectionWindow!Growth, Growth, ConnectionWindow!ConnectionDue, ConnectionDue,
           ConnectionWindow!ReturnThreshold, ReturnThreshold,
           ConnectionWindow!WholePackets, WholePackets, ConnectionWindow!Least, Least
  <1>2. ConnectionWindow(k)!CompleteConnection(w, max, fast) =
          CompleteConnection(w, max, fast)
    BY DEF ConnectionWindow!CompleteConnection, CompleteConnection,
           ConnectionWindow!GrantSlotFree, GrantSlotFree,
           ConnectionWindow!TakeConnection, TakeConnection,
           ConnectionWindow!Growth, Growth, ConnectionWindow!ConnectionDue, ConnectionDue,
           ConnectionWindow!ReturnThreshold, ReturnThreshold,
           ConnectionWindow!WholePackets, WholePackets, ConnectionWindow!Least, Least
  <1>3. /\ ConnectionWindow(k)!OpenWindow(n) = OpenWindow(n)
        /\ ConnectionWindow(k)!Charge(w, n) = Charge(w, n)
        /\ ConnectionWindow(k)!TakeConnection(w, due, g) = TakeConnection(w, due, g)
    BY DEF ConnectionWindow!OpenWindow, OpenWindow, ConnectionWindow!Charge, Charge,
           ConnectionWindow!TakeConnection, TakeConnection,
           ConnectionWindow!GrantSlotFree, GrantSlotFree
  <1>4. /\ ConnectionWindow(k)!CanReturn(w, n) = CanReturn(w, n)
        /\ ConnectionWindow(k)!RaiseFloor(w, n, max) = RaiseFloor(w, n, max)
        /\ ConnectionWindow(k)!GrantSlotFree(w) = GrantSlotFree(w)
        /\ ConnectionWindow(k)!Reserve(w) = Reserve(w)
        /\ ConnectionWindow(k)!Admit(w, n) = Admit(w, n)
        /\ ConnectionWindow(k)!AdmitAllowed(w, n) = AdmitAllowed(w, n)
    BY DEF ConnectionWindow!CanReturn, CanReturn, ConnectionWindow!RaiseFloor, RaiseFloor,
           ConnectionWindow!Least, Least, ConnectionWindow!GrantSlotFree, GrantSlotFree,
           ConnectionWindow!Reserve, Reserve, ConnectionWindow!Admit, Admit,
           ConnectionWindow!AdmitAllowed, AdmitAllowed
  <1> QED BY <1>1, <1>2, <1>3, <1>4

\* Those of a stream's window.
LEMMA StreamOperators ==
    ASSUME NEW k, NEW s, NEW w, NEW n, NEW max, NEW fast, NEW packet
    PROVE  /\ StreamWindow(k, s)!OpenWindow(n) = OpenWindow(n)
           /\ StreamWindow(k, s)!Charge(w, n) = Charge(w, n)
           /\ StreamWindow(k, s)!CollectStream(w, packet, max, fast) =
                CollectStream(w, packet, max, fast)
           /\ StreamWindow(k, s)!CompleteStream(w, packet, max, fast) =
                CompleteStream(w, packet, max, fast)
           /\ StreamWindow(k, s)!CanReturn(w, n) = CanReturn(w, n)
           /\ StreamWindow(k, s)!RaiseFloor(w, n, max) = RaiseFloor(w, n, max)
           /\ StreamWindow(k, s)!GrantSlotFree(w) = GrantSlotFree(w)
           /\ StreamWindow(k, s)!Reserve(w) = Reserve(w)
           /\ StreamWindow(k, s)!Admit(w, n) = Admit(w, n)
           /\ StreamWindow(k, s)!AdmitAllowed(w, n) = AdmitAllowed(w, n)
           /\ StreamWindow(k, s)!DropGrant(w, n) = DropGrant(w, n)
  <1>1. StreamWindow(k, s)!CollectStream(w, packet, max, fast) =
          CollectStream(w, packet, max, fast)
    BY DEF StreamWindow!CollectStream, CollectStream, StreamWindow!CollectDue, CollectDue,
           StreamWindow!GrantSlotFree, GrantSlotFree, StreamWindow!Growth, Growth,
           StreamWindow!ReturnThreshold, ReturnThreshold,
           StreamWindow!WholePackets, WholePackets, StreamWindow!Least, Least
  <1>2. StreamWindow(k, s)!CompleteStream(w, packet, max, fast) =
          CompleteStream(w, packet, max, fast)
    BY DEF StreamWindow!CompleteStream, CompleteStream,
           StreamWindow!CollectStream, CollectStream, StreamWindow!CollectDue, CollectDue,
           StreamWindow!GrantSlotFree, GrantSlotFree, StreamWindow!Growth, Growth,
           StreamWindow!ReturnThreshold, ReturnThreshold,
           StreamWindow!WholePackets, WholePackets, StreamWindow!Least, Least
  <1>3. /\ StreamWindow(k, s)!OpenWindow(n) = OpenWindow(n)
        /\ StreamWindow(k, s)!Charge(w, n) = Charge(w, n)
        /\ StreamWindow(k, s)!CanReturn(w, n) = CanReturn(w, n)
        /\ StreamWindow(k, s)!DropGrant(w, n) = DropGrant(w, n)
    BY DEF StreamWindow!OpenWindow, OpenWindow, StreamWindow!Charge, Charge,
           StreamWindow!CanReturn, CanReturn, StreamWindow!DropGrant, DropGrant
  <1>4. /\ StreamWindow(k, s)!RaiseFloor(w, n, max) = RaiseFloor(w, n, max)
        /\ StreamWindow(k, s)!GrantSlotFree(w) = GrantSlotFree(w)
        /\ StreamWindow(k, s)!Reserve(w) = Reserve(w)
        /\ StreamWindow(k, s)!Admit(w, n) = Admit(w, n)
        /\ StreamWindow(k, s)!AdmitAllowed(w, n) = AdmitAllowed(w, n)
    BY DEF StreamWindow!RaiseFloor, RaiseFloor, StreamWindow!Least, Least,
           StreamWindow!GrantSlotFree, GrantSlotFree, StreamWindow!Reserve, Reserve,
           StreamWindow!Admit, Admit, StreamWindow!AdmitAllowed, AdmitAllowed
  <1> QED BY <1>1, <1>2, <1>3, <1>4

\* A step of the receiver is a step of the window.
LEMMA ConnectionReceives ==
    ASSUME FInv, \A k \in Scenes : scene = k => ConnectionWindow(k)!Receiver
    PROVE  ConnectionStep
  <1>1. ~failed
    BY DEF FInv
  <1> QED BY <1>1 DEF ConnectionStep, ConnectionWindow!Next

\* The same for a stream's window.
LEMMA StreamReceives ==
    ASSUME FInv, NEW s \in Streams,
           \A k \in Scenes : scene = k => StreamWindow(k, s)!Receiver
    PROVE  StreamStep(s)
  <1>1. ~failed
    BY DEF FInv
  <1> QED BY <1>1 DEF StreamStep, StreamWindow!Next

\* One stream holds more or less than before.
LEMMA HeldChanges ==
    ASSUME FInv, NEW s \in Streams, NEW h \in Nat, held' = [held EXCEPT ![s] = h]
    PROVE  /\ held' \in [Streams -> Nat]
           /\ TotalHeld' \in Nat
           /\ TotalHeld' - h = TotalHeld - held[s]
           /\ held'[s] = h
           /\ \A t \in Streams : t # s => held'[t] = held[t]
  <1>1. held \in [Streams -> Nat] /\ IsFiniteSet(Streams)
    BY StreamsAssumption DEF FInv, TypeOK
  <1>2. PICK f, g : f = held /\ g = held'
    OBVIOUS
  <1>3. /\ f \in [Streams -> Nat] /\ g \in [Streams -> Nat] /\ g[s] = h
        /\ \A t \in Streams : t # s => g[t] = f[t]
    BY <1>1, <1>2
  <1>4. /\ Tot(f) \in Nat /\ Tot(g) \in Nat /\ Tot(g) - g[s] = Tot(f) - f[s]
    BY <1>1, <1>3, TotChange
  <1>5. TotalHeld = Tot(f) /\ TotalHeld' = Tot(g)
    BY <1>2, TotalHeldIs, TotalHeldNext
  <1> QED BY <1>2, <1>3, <1>4, <1>5

\* What is outside a stream's window, and what its application holds.
LEMMA StreamOutside ==
    ASSUME FInv, NEW s \in Streams
    PROVE  /\ Outside(win[s]) \in Nat
           /\ ~closed[s] => win[s].size = Outside(win[s]) + held[s]
  <1>1. /\ win[s].size \in Nat /\ win[s].inbound \in Nat /\ win[s].unreturned \in Nat
        /\ win[s].owed \in Nat /\ win[s].granting \in Nat
        /\ ~closed[s] => win[s].size = win[s].inbound + win[s].granting + win[s].owed
                                          + win[s].unreturned + held[s]
    BY StreamKnown
  <1> QED BY <1>1 DEF Outside

\* The ledgers after a step, from their parts.
LEMMA ConnectionLedgerNext ==
    ASSUME conn'.inbound >= outConn' + BytesIn(parked, Streams)' + BytesIn(flight, Streams)'
                            + CreditFor(credits, Connection)',
           conn'.size = Outside(conn)' + TotalHeld',
           conn'.size <= scene.connection.maximum, scene' = scene,
           conn'.granting = CreditFor(deferred, Connection)',
           conn'.queued >= Cardinality(Positions(deferred, Connection))'
    PROVE  ConnectionLedger'
  BY DEF ConnectionLedger, Balance

\* The same for a stream's ledger.
LEMMA StreamLedgerNext ==
    ASSUME NEW s \in Streams,
           win'[s].inbound >= out'[s] + BytesIn(parked, {s})' + BytesIn(flight, {s})'
                              + CreditFor(credits, s)',
           IF ~closed'[s] THEN win'[s].size = Outside(win[s])' + held'[s]
                          ELSE win'[s].size >= win'[s].inbound + win'[s].granting + held'[s],
           win'[s].size <= scene.stream.maximum, scene' = scene,
           win'[s].granting = CreditFor(deferred, s)',
           win'[s].queued >= Cardinality(Positions(deferred, s))'
    PROVE  StreamLedger(s)'
  BY DEF StreamLedger, Balance

\* process_application_data never finds more than was granted.
LEMMA DeliverWindows ==
    ASSUME FInv, Deliver
    PROVE  /\ failed' = failed
           /\ ConnectionLedger' /\ ConnectionStep
           /\ \A t \in Streams : StreamLedger(t)' /\ StreamStep(t)
           /\ conn' \in Window /\ win' \in [Streams -> Window]
           /\ held' \in [Streams -> Nat] /\ largest' \in [Streams -> 0..MaxFrame]
  <1>1. PICK s : s = Head(flight)
    OBVIOUS
  <1>2. /\ flight \in Seq(Streams) /\ flight # <<>> /\ win \in [Streams -> Window]
        /\ closed \in [Streams -> BOOLEAN] /\ held \in [Streams -> Nat]
        /\ largest \in [Streams -> 0..MaxFrame]
    BY DEF FInv, TypeOK, Deliver
  <1>3. /\ flight' = Tail(flight) /\ closed' = closed /\ deferred' = deferred
        /\ credits' = credits /\ scene' = scene /\ out' = out /\ outConn' = outConn
        /\ parked' = parked
    BY DEF Deliver, sendVars, recvVars
  <1>4. s \in Streams
    BY <1>1, <1>2, Left
  <1>5. PICK n \in 1..MaxFrame : n = Size[s]
    BY <1>4, StreamsAssumption
  <1>6. n \in Nat /\ MaxFrame \in Nat /\ n >= 1
    BY FrameAssumption
  <1>7. /\ BytesIn(flight, Streams)' \in Nat /\ BytesIn(flight, {s})' \in Nat
        /\ BytesIn(flight, Streams) = BytesIn(flight, Streams)' + n
        /\ BytesIn(flight, {s}) = BytesIn(flight, {s})' + n
    <2>1. /\ BytesIn(Tail(flight), Streams) \in Nat /\ BytesIn(Tail(flight), {s}) \in Nat
          /\ BytesIn(flight, Streams) = BytesIn(Tail(flight), Streams) + Size[s]
          /\ BytesIn(flight, {s}) = BytesIn(Tail(flight), {s}) + Size[s]
      BY <1>1, <1>2, Left
    <2>2. flight' = Tail(flight)
      BY <1>3
    <2> QED BY <1>5, <2>1, <2>2
  <1>8. ASSUME NEW t \in Streams, t # s
        PROVE  BytesIn(flight, {t})' = BytesIn(flight, {t})
    <2>1. BytesIn(Tail(flight), {t}) = BytesIn(flight, {t})
      BY <1>1, <1>2, <1>8, LeftOther
    <2> QED BY <1>3, <2>1
  <1>9. /\ CreditFor(credits, Connection)' = CreditFor(credits, Connection)
        /\ CreditFor(deferred, Connection)' = CreditFor(deferred, Connection)
        /\ Cardinality(Positions(deferred, Connection))' = Cardinality(Positions(deferred, Connection))
        /\ BytesIn(parked, Streams)' = BytesIn(parked, Streams)
    BY <1>3
  <1>10. n <= win[s].inbound /\ n <= conn.inbound
    <2>1. n <= conn.inbound
      BY <1>6, <1>7, ConnectionKnown
    <2>2. /\ win[s].inbound \in Nat /\ out[s] \in Nat /\ BytesIn(parked, {s}) \in Nat
          /\ CreditFor(credits, s) \in Nat
          /\ win[s].inbound >= out[s] + BytesIn(parked, {s}) + BytesIn(flight, {s})
                               + CreditFor(credits, s)
      BY <1>4, StreamKnown
    <2> QED BY <1>6, <1>7, <2>1, <2>2
  <1>11. PICK c : c = Charge(conn, n)
    OBVIOUS
  <1>12. /\ c \in Window /\ c.inbound = conn.inbound - n /\ c.size = conn.size
         /\ c.granting = conn.granting /\ c.queued = conn.queued
         /\ Outside(c) = Outside(conn) - n
    BY <1>6, <1>10, <1>11, ChargeEffect, ConnectionKnown
  <1>13. Outside(conn) \in Nat /\ conn.size = Outside(conn) + TotalHeld
    BY ConnectionKnown DEF Outside
  <1>14. CanReturn(c, n)
    <2>1. Outside(c) + n <= c.size
      BY <1>6, <1>12, <1>13, ConnectionKnown
    <2> QED BY <2>1 DEF CanReturn, Outside
  <1>15. /\ failed' = failed
         /\ win' = [win EXCEPT ![s] = Charge(@, n)]
         /\ largest' = NotePacket(s)
         /\ IF closed[s]
            THEN /\ \E fast \in BOOLEAN :
                       conn' = ReturnConnection(c, n, scene.connection.maximum, fast)
                 /\ held' = held
            ELSE /\ conn' = TakeConnection(c, FALSE, 0)
                 /\ held' = [held EXCEPT ![s] = @ + n]
    <2>0. win[s].inbound \in Nat /\ conn.inbound \in Nat
      BY <1>4, ConnectionKnown, StreamKnown
    <2>1. ~(n > win[s].inbound) /\ ~(n > conn.inbound)
      BY <1>6, <1>10, <2>0
    <2> QED BY <1>1, <1>5, <1>11, <1>14, <2>1 DEF Deliver
  <1>16. PICK x \in {0, n} :
              /\ closed[s] => x = 0
              /\ ~closed[s] => x = n
    BY <1>2, <1>4
  <1>17. /\ held' \in [Streams -> Nat] /\ TotalHeld' \in Nat
         /\ TotalHeld' = TotalHeld + x /\ held'[s] = held[s] + x
         /\ \A t \in Streams : t # s => held'[t] = held[t]
    <2>0. TotalHeld \in Nat /\ held[s] \in Nat
      BY <1>4, ConnectionKnown, StreamKnown
    <2>1. CASE closed[s]
      <3>1. held' = held
        BY <1>15, <2>1
      <3>2. TotalHeld' = TotalHeld
        BY <3>1, TotalHeldIs, TotalHeldNext
      <3> QED BY <1>2, <1>16, <2>0, <2>1, <3>1, <3>2
    <2>2. CASE ~closed[s]
      <3>1. PICK h \in Nat : h = held[s] + n
        BY <1>6, <2>0
      <3>2. held' = [held EXCEPT ![s] = h]
        BY <1>15, <2>2, <3>1
      <3>3. /\ held' \in [Streams -> Nat] /\ TotalHeld' \in Nat
            /\ TotalHeld' - h = TotalHeld - held[s] /\ held'[s] = h
        BY <1>4, <3>2, HeldChanges
      <3>4. \A t \in Streams : t # s => held'[t] = held[t]
        BY <1>2, <3>2
      <3>5. TotalHeld' = TotalHeld + n
        BY <1>6, <2>0, <3>1, <3>3
      <3> QED BY <1>16, <2>2, <3>1, <3>3, <3>4, <3>5
    <2> QED BY <1>2, <1>4, <2>1, <2>2
  <1>18. /\ conn' \in Window /\ conn'.inbound = conn.inbound - n
         /\ conn'.size - Outside(conn)' = conn.size - Outside(conn) + x
         /\ conn'.size <= scene.connection.maximum
         /\ conn'.granting = conn.granting /\ conn'.queued = conn.queued
    <2>0. PICK max \in Nat : max = scene.connection.maximum /\ conn.size <= max
      BY ConnectionKnown
    <2>1. c.size <= max /\ c.size + 0 <= max
      BY <1>12, <2>0, ConnectionKnown
    <2>2. Outside(c) \in Nat /\ c.size \in Nat /\ conn.size \in Nat
      <3>1. Outside(c) \in Nat /\ c.size \in Nat
        BY <1>12 DEF Outside, Window
      <3> QED BY <3>1, ConnectionKnown
    <2>3. CASE closed[s]
      <3>1. PICK fast \in BOOLEAN : conn' = ReturnConnection(c, n, max, fast)
        BY <1>15, <2>0, <2>3
      <3>2. PICK r : r = ReturnConnection(c, n, max, fast)
        OBVIOUS
      <3>3. /\ r \in Window /\ r.inbound = c.inbound /\ r.granting = c.granting
            /\ r.queued = c.queued /\ r.size <= max
            /\ r.size - Outside(r) = c.size - Outside(c) - n
        BY <1>6, <1>12, <2>1, <3>2, ReturnBalanced
      <3>4. r.size - Outside(r) = conn.size - Outside(conn) + x
        BY <1>6, <1>12, <1>13, <1>16, <2>2, <2>3, <3>3
      <3>5. conn' = r
        BY <3>1, <3>2
      <3> QED BY <1>12, <2>0, <3>3, <3>4, <3>5
    <2>4. CASE ~closed[s]
      <3>1. conn' = TakeConnection(c, FALSE, 0)
        BY <1>15, <2>4
      <3>2. PICK r : r = TakeConnection(c, FALSE, 0)
        OBVIOUS
      <3>3. Balanced(c, r) /\ r.size <= max /\ r.queued = c.queued
        BY <1>12, <2>1, <3>2, TakeBalanced
      <3>4. /\ r \in Window /\ r.inbound = c.inbound /\ r.granting = c.granting
            /\ r.size - Outside(r) = c.size - Outside(c)
        BY <3>3 DEF Balanced
      <3>5. r.size - Outside(r) = conn.size - Outside(conn) + x
        BY <1>6, <1>12, <1>13, <1>16, <2>2, <2>4, <3>4
      <3>6. conn' = r
        BY <3>1, <3>2
      <3> QED BY <1>12, <2>0, <3>3, <3>4, <3>5, <3>6
    <2> QED BY <1>2, <1>4, <2>3, <2>4
  <1>19. ConnectionLedger'
    <2>1. /\ conn'.inbound \in Nat /\ conn'.size \in Nat /\ Outside(conn)' \in Nat
      BY <1>18 DEF Window, Outside
    <2>2. conn'.inbound >= outConn' + BytesIn(parked, Streams)' + BytesIn(flight, Streams)'
                           + CreditFor(credits, Connection)'
      <3>1. outConn' = outConn /\ conn'.inbound = conn.inbound - n
        BY <1>3, <1>18
      <3> QED BY <1>6, <1>7, <1>9, <3>1, ConnectionKnown
    <2>3. conn'.size = Outside(conn)' + TotalHeld'
      <3>1. /\ TotalHeld' = TotalHeld + x /\ x \in Nat /\ TotalHeld \in Nat
            /\ conn'.size - Outside(conn)' = conn.size - Outside(conn) + x
        BY <1>6, <1>17, <1>18, ConnectionKnown
      <3>2. conn.size \in Nat
        BY ConnectionKnown
      <3> QED BY <1>13, <2>1, <3>1, <3>2
    <2>4. /\ conn'.granting = CreditFor(deferred, Connection)'
          /\ conn'.queued >= Cardinality(Positions(deferred, Connection))'
      BY <1>9, <1>18, ConnectionKnown
    <2> QED BY <1>3, <1>18, <2>2, <2>3, <2>4, ConnectionLedgerNext
  <1>20. ConnectionStep
    <2>1. /\ n <= BytesIn(flight, Streams)
          /\ BytesIn(flight, Streams)' = BytesIn(flight, Streams) - n
      BY <1>6, <1>7
    <2>2. ASSUME NEW k \in Scenes, scene = k PROVE ConnectionWindow(k)!Receiver
      <3>1. CASE closed[s]
        <4>1. PICK fast \in BOOLEAN :
                 conn' = ReturnConnection(c, n, k.connection.maximum, fast)
          BY <1>15, <2>2, <3>1
        <4>2. TotalHeld' = TotalHeld
          BY <1>16, <1>17, <3>1, ConnectionKnown
        <4>3. ConnectionWindow(k)!Charge(conn, n) = c
          BY <1>11, ConnectionOperators
        <4>4. ConnectionWindow(k)!MayReturn(c, n)
          BY <1>14, ConnectionOperators DEF ConnectionWindow!MayReturn
        <4>5. ConnectionWindow(k)!Returned(c, n, 0, fast) = conn'
          BY <4>1, ConnectionOperators DEF ConnectionWindow!Returned
        <4>6. ConnectionWindow(k)!Discard(n, fast)
          BY <1>3, <1>9, <1>10, <1>15, <2>1, <4>2, <4>3, <4>4, <4>5
          DEF ConnectionWindow!Discard
        <4> QED BY <4>6 DEF ConnectionWindow!Receiver, ConnectionWindow!Bytes
      <3>2. CASE ~closed[s]
        <4>1. conn' = TakeConnection(c, FALSE, 0) /\ TotalHeld' = TotalHeld + n
          BY <1>15, <1>16, <1>17, <3>2
        <4>2. ConnectionWindow(k)!Charge(conn, n) = c
          BY <1>11, ConnectionOperators
        <4>3. ConnectionWindow(k)!TakeConnection(c, FALSE, 0) = conn'
          BY <4>1, ConnectionOperators
        <4>4. ConnectionWindow(k)!Arrive(n)
          BY <1>3, <1>9, <1>10, <1>15, <2>1, <4>1, <4>2, <4>3 DEF ConnectionWindow!Arrive
        <4> QED BY <4>4 DEF ConnectionWindow!Receiver, ConnectionWindow!Bytes
      <3> QED BY <3>1, <3>2
    <2> QED BY <2>2, ConnectionReceives
  <1>21. PICK r : r = Charge(win[s], n)
    OBVIOUS
  <1>22. /\ r \in Window /\ r.inbound = win[s].inbound - n /\ r.size = win[s].size
         /\ r.granting = win[s].granting /\ r.queued = win[s].queued
         /\ Outside(r) = Outside(win[s]) - n
    BY <1>2, <1>4, <1>6, <1>10, <1>21, ChargeEffect
  <1>23. win' = [win EXCEPT ![s] = r] /\ win'[s] = r /\ win' \in [Streams -> Window]
    BY <1>2, <1>4, <1>15, <1>21, <1>22
  <1>24. /\ CreditFor(credits, s)' = CreditFor(credits, s)
         /\ CreditFor(deferred, s)' = CreditFor(deferred, s)
         /\ Cardinality(Positions(deferred, s))' = Cardinality(Positions(deferred, s))
         /\ BytesIn(parked, {s})' = BytesIn(parked, {s}) /\ out'[s] = out[s]
         /\ closed'[s] = closed[s]
    BY <1>3
  <1>25. StreamLedger(s)'
    <2>1. win'[s].inbound >= out'[s] + BytesIn(parked, {s})' + BytesIn(flight, {s})'
                             + CreditFor(credits, s)'
      <3>1. win'[s].inbound = win[s].inbound - n
        BY <1>22, <1>23
      <3>2. /\ win[s].inbound \in Nat /\ out[s] \in Nat /\ BytesIn(parked, {s}) \in Nat
            /\ CreditFor(credits, s) \in Nat
            /\ win[s].inbound >= out[s] + BytesIn(parked, {s}) + BytesIn(flight, {s})
                               + CreditFor(credits, s)
        BY <1>4, StreamKnown
      <3>3. /\ CreditFor(credits, s)' = CreditFor(credits, s)
            /\ BytesIn(parked, {s})' = BytesIn(parked, {s}) /\ out'[s] = out[s]
        BY <1>24
      <3> QED BY <1>6, <1>7, <3>1, <3>2, <3>3
    <2>2. IF ~closed'[s] THEN win'[s].size = Outside(win[s])' + held'[s]
          ELSE win'[s].size >= win'[s].inbound + win'[s].granting + held'[s]
      <3>1. CASE closed[s]
        <4>1. /\ win[s].size \in Nat /\ win[s].inbound \in Nat /\ win[s].granting \in Nat
              /\ held[s] \in Nat
              /\ win[s].size >= win[s].inbound + win[s].granting + held[s]
          BY <1>4, StreamKnown
        <4>2. /\ win'[s].size = win[s].size /\ win'[s].inbound = win[s].inbound - n
              /\ win'[s].granting = win[s].granting /\ held'[s] = held[s] + 0
          BY <1>16, <1>17, <1>22, <1>23, <3>1
        <4>3. win'[s].size >= win'[s].inbound + win'[s].granting + held'[s]
          BY <1>6, <4>1, <4>2
        <4> QED BY <1>24, <3>1, <4>3
      <3>2. CASE ~closed[s]
        <4>1. /\ win[s].size \in Nat /\ Outside(win[s]) \in Nat /\ held[s] \in Nat
              /\ win[s].size = Outside(win[s]) + held[s]
          BY <1>4, <3>2, StreamKnown, StreamOutside
        <4>2. /\ win'[s].size = win[s].size /\ Outside(win[s])' = Outside(win[s]) - n
              /\ held'[s] = held[s] + n
          BY <1>16, <1>17, <1>22, <1>23, <3>2
        <4>3. win'[s].size = Outside(win[s])' + held'[s]
          BY <1>6, <4>1, <4>2
        <4> QED BY <1>24, <3>2, <4>3
      <3> QED BY <3>1, <3>2
    <2>3. /\ win'[s].size <= scene.stream.maximum
          /\ win'[s].granting = CreditFor(deferred, s)'
          /\ win'[s].queued >= Cardinality(Positions(deferred, s))'
      BY <1>4, <1>22, <1>23, <1>24, StreamKnown
    <2> QED BY <1>3, <1>4, <2>1, <2>2, <2>3, StreamLedgerNext
  <1>26. StreamStep(s)
    <2>1. /\ n <= BytesIn(flight, {s})
          /\ BytesIn(flight, {s})' = BytesIn(flight, {s}) - n
      BY <1>6, <1>7
    <2>2. ASSUME NEW k \in Scenes PROVE StreamWindow(k, s)!Receiver
      <3>1. CASE closed[s]
        <4>1. held'[s] = held[s]
          BY <1>15, <3>1
        <4>2. StreamWindow(k, s)!Charge(win[s], n) = win'[s]
          BY <1>21, <1>23, StreamOperators
        <4>3. StreamWindow(k, s)!MayReturn(win'[s], n)
          BY <3>1 DEF StreamWindow!MayReturn
        <4>4. StreamWindow(k, s)!Returned(win'[s], n, 0, TRUE) = win'[s]
          BY <3>1 DEF StreamWindow!Returned
        <4>5. StreamWindow(k, s)!Discard(n, TRUE)
          BY <1>10, <1>15, <1>24, <2>1, <3>1, <4>1, <4>2, <4>3, <4>4
          DEF StreamWindow!Discard
        <4> QED BY <4>5 DEF StreamWindow!Receiver, StreamWindow!Bytes
      <3>2. CASE ~closed[s]
        <4>1. held'[s] = held[s] + n
          BY <1>16, <1>17, <3>2
        <4>2. StreamWindow(k, s)!Charge(win[s], n) = win'[s]
          BY <1>21, <1>23, StreamOperators
        <4>3. StreamWindow(k, s)!Arrive(n)
          BY <1>10, <1>15, <1>24, <2>1, <3>2, <4>1, <4>2 DEF StreamWindow!Arrive
        <4> QED BY <4>3 DEF StreamWindow!Receiver, StreamWindow!Bytes
      <3> QED BY <3>1, <3>2
    <2> QED BY <1>4, <2>2, StreamReceives
  <1>27. ASSUME NEW t \in Streams, t # s PROVE StreamLedger(t)' /\ StreamStep(t)
    <2>1. /\ win'[t] = win[t] /\ closed'[t] = closed[t] /\ out'[t] = out[t]
          /\ BytesIn(parked, {t})' = BytesIn(parked, {t})
          /\ CreditFor(credits, t)' = CreditFor(credits, t)
          /\ CreditFor(deferred, t)' = CreditFor(deferred, t)
          /\ Cardinality(Positions(deferred, t))' = Cardinality(Positions(deferred, t))
      BY <1>2, <1>3, <1>23, <1>27
    <2>2. held'[t] = held[t] /\ BytesIn(flight, {t})' = BytesIn(flight, {t})
      BY <1>8, <1>17, <1>27
    <2> QED BY <1>3, <1>15, <2>1, <2>2, StreamFrame
  <1>28. largest' \in [Streams -> 0..MaxFrame]
    <2>1. Size[s] \in 0..MaxFrame
      BY <1>5, <1>6
    <2> QED BY <1>2, <1>15, <2>1 DEF NotePacket
  <1> QED BY <1>15, <1>17, <1>18, <1>19, <1>20, <1>23, <1>25, <1>26, <1>27, <1>28

\* A window that is raised to nothing stays as it is.
LEMMA RaiseZero ==
    ASSUME NEW w \in Window, NEW max \in Nat
    PROVE  RaiseFloor(w, 0, max) = w
  <1>1. w.size \in Nat
    BY DEF Window
  <1>2. 0 + 0 \div 2 = 0
    OBVIOUS
  <1>3. ~(Least(0 + 0 \div 2, max) > w.size)
    BY <1>1, <1>2 DEF Least
  <1> QED BY <1>3 DEF RaiseFloor

\* A stream's growth raises the connection window to a floor.
LEMMA RaisedIs ==
    ASSUME FInv, NEW s \in Streams, NEW w \in Window, w.size <= scene.stream.maximum,
           NEW fast \in BOOLEAN
    PROVE  \E floor \in 0..scene.connection.maximum :
               Raised(conn, w, s, fast) = RaiseFloor(conn, floor, scene.connection.maximum)
  <1>1. PICK max \in Nat, cmax \in Nat :
            /\ max = scene.stream.maximum /\ cmax = scene.connection.maximum
            /\ max <= cmax
    BY ConnectionKnown, StreamKnown
  <1>2. CASE CollectDue(w, largest[s], scene.stream.maximum)
    <2>1. PICK r : r = CollectStream(w, largest[s], max, fast)
      OBVIOUS
    <2>2. r \in Window /\ r.size <= max
      BY <1>1, <2>1, CollectBalanced DEF Balanced
    <2>3. r.size \in 0..cmax
      BY <1>1, <2>2 DEF Window
    <2>4. Raised(conn, w, s, fast) = RaiseFloor(conn, r.size, cmax)
      BY <1>1, <1>2, <2>1 DEF Raised, Collect
    <2> QED BY <1>1, <2>3, <2>4
  <1>3. CASE ~CollectDue(w, largest[s], scene.stream.maximum)
    <2>1. Raised(conn, w, s, fast) = conn
      BY <1>3 DEF Raised
    <2>2. conn = RaiseFloor(conn, 0, cmax)
      BY <1>1, RaiseZero, ConnectionKnown
    <2>3. 0 \in 0..cmax
      BY <1>1
    <2> QED BY <1>1, <2>1, <2>2, <2>3
  <1> QED BY <1>2, <1>3

\* return_receive_credit never finds more outside than the window has.
LEMMA ConsumeWindows ==
    ASSUME FInv, NEW s \in Streams, Consume(s)
    PROVE  /\ failed' = failed
           /\ ConnectionLedger' /\ ConnectionStep
           /\ \A t \in Streams : StreamLedger(t)' /\ StreamStep(t)
           /\ conn' \in Window /\ win' \in [Streams -> Window]
           /\ held' \in [Streams -> Nat]
  <1>1. PICK n \in 1..MaxFrame : n = Size[s]
    BY StreamsAssumption
  <1>2. n \in Nat /\ n >= 1
    BY FrameAssumption
  <1>3. /\ win \in [Streams -> Window] /\ closed \in [Streams -> BOOLEAN]
        /\ held \in [Streams -> Nat] /\ largest \in [Streams -> 0..MaxFrame]
    BY DEF FInv, TypeOK
  <1>4. /\ n <= held[s] /\ held' = [held EXCEPT ![s] = @ - n]
        /\ flight' = flight /\ closed' = closed /\ deferred' = deferred
        /\ credits' = credits /\ scene' = scene /\ out' = out /\ outConn' = outConn
        /\ parked' = parked /\ largest' = largest
    <2>1. held[s] >= n
      BY <1>1 DEF Consume
    <2>2. n <= held[s]
      BY <1>2, <1>3, <2>1
    <2> QED BY <1>1, <2>2 DEF Consume, sendVars
  <1>5. PICK h \in Nat : h = held[s] - n
    BY <1>2, <1>3, <1>4
  <1>6. /\ held' \in [Streams -> Nat] /\ held'[s] = h /\ TotalHeld' \in Nat
        /\ TotalHeld' = TotalHeld - n
        /\ \A t \in Streams : t # s => held'[t] = held[t]
    <2>1. held' = [held EXCEPT ![s] = h]
      BY <1>4, <1>5
    <2>2. /\ held' \in [Streams -> Nat] /\ TotalHeld' \in Nat
          /\ TotalHeld' - h = TotalHeld - held[s] /\ held'[s] = h
      BY <2>1, HeldChanges
    <2>3. TotalHeld \in Nat /\ held[s] \in Nat
      BY ConnectionKnown, StreamKnown
    <2>4. TotalHeld' = TotalHeld - n
      BY <1>2, <1>5, <2>2, <2>3
    <2> QED BY <1>3, <2>1, <2>2, <2>4
  <1>7. /\ Outside(conn) \in Nat /\ conn.size = Outside(conn) + TotalHeld
        /\ n <= TotalHeld /\ TotalHeld \in Nat /\ conn.size \in Nat
    <2>1. Outside(conn) \in Nat /\ conn.size = Outside(conn) + TotalHeld
      BY ConnectionKnown DEF Outside
    <2>2. TotalHeld \in Nat /\ conn.size \in Nat
      BY ConnectionKnown
    <2>3. n <= TotalHeld
      BY <1>2, <1>6, <2>2
    <2> QED BY <2>1, <2>2, <2>3
  <1>8. CanReturn(conn, n)
    <2>1. Outside(conn) + n <= conn.size
      BY <1>2, <1>7
    <2> QED BY <2>1 DEF CanReturn, Outside
  <1>9. ~closed[s] => CanReturn(win[s], n)
    <2>1. /\ Outside(win[s]) \in Nat /\ win[s].size \in Nat /\ held[s] \in Nat
          /\ ~closed[s] => win[s].size = Outside(win[s]) + held[s]
      BY StreamOutside, StreamKnown
    <2>2. ~closed[s] => Outside(win[s]) + n <= win[s].size
      BY <1>2, <1>4, <2>1
    <2> QED BY <2>2 DEF CanReturn, Outside
  <1>10. PICK used : used = [win[s] EXCEPT !.unreturned = @ + n]
    OBVIOUS
  <1>11. /\ used \in Window /\ used.size = win[s].size /\ used.inbound = win[s].inbound
         /\ used.granting = win[s].granting /\ used.queued = win[s].queued
         /\ Outside(used) = Outside(win[s]) + n
    BY <1>2, <1>3, <1>10 DEF Window, Outside
  <1>12. /\ failed' = failed
         /\ \E fast, fastConn \in BOOLEAN :
              /\ win' = IF closed[s] THEN win
                        ELSE [win EXCEPT ![s] = Collect(used, s, fast)]
              /\ conn' = ReturnConnection(
                            IF closed[s] THEN conn ELSE Raised(conn, used, s, fast),
                            n, scene.connection.maximum, fastConn)
    BY <1>1, <1>8, <1>9, <1>10 DEF Consume
  <1>13. PICK fast \in BOOLEAN, fastConn \in BOOLEAN :
              /\ win' = IF closed[s] THEN win
                        ELSE [win EXCEPT ![s] = Collect(used, s, fast)]
              /\ conn' = ReturnConnection(
                            IF closed[s] THEN conn ELSE Raised(conn, used, s, fast),
                            n, scene.connection.maximum, fastConn)
    BY <1>12
  <1>14. PICK cmax \in Nat, max \in Nat :
              /\ cmax = scene.connection.maximum /\ conn.size <= cmax
              /\ max = scene.stream.maximum /\ win[s].size <= max
    BY ConnectionKnown, StreamKnown
  <1>15. PICK floor \in 0..cmax :
              conn' = ReturnConnection(RaiseFloor(conn, floor, cmax), n, cmax, fastConn)
    <2>1. CASE closed[s]
      <3>1. RaiseFloor(conn, 0, cmax) = conn
        BY RaiseZero, ConnectionKnown
      <3>2. conn' = ReturnConnection(conn, n, cmax, fastConn)
        BY <1>13, <1>14, <2>1
      <3>3. 0 \in 0..cmax
        BY <1>14
      <3> QED BY <3>1, <3>2, <3>3
    <2>2. CASE ~closed[s]
      <3>1. conn' = ReturnConnection(Raised(conn, used, s, fast), n, cmax, fastConn)
        BY <1>13, <1>14, <2>2
      <3>2. used.size <= scene.stream.maximum
        BY <1>11, <1>14
      <3>3. PICK floor \in 0..cmax : Raised(conn, used, s, fast) = RaiseFloor(conn, floor, cmax)
        BY <1>11, <1>14, <3>2, RaisedIs
      <3> QED BY <3>1, <3>3
    <2> QED BY <2>1, <2>2
  <1>16. PICK c : c = RaiseFloor(conn, floor, cmax)
    OBVIOUS
  <1>17. Balanced(conn, c) /\ c.size <= cmax /\ c.queued = conn.queued
    BY <1>14, <1>16, RaiseBalanced, ConnectionKnown
  <1>18. PICK r : r = ReturnConnection(c, n, cmax, fastConn)
    OBVIOUS
  <1>19. /\ c \in Window /\ c.inbound = conn.inbound /\ c.granting = conn.granting
         /\ c.size - Outside(c) = conn.size - Outside(conn)
    BY <1>17 DEF Balanced
  <1>20. /\ r \in Window /\ r.inbound = c.inbound /\ r.granting = c.granting
         /\ r.queued = c.queued /\ r.size <= cmax
         /\ r.size - Outside(r) = c.size - Outside(c) - n
    <2>1. c.size <= cmax /\ c \in Window /\ cmax \in Nat /\ n \in Nat
      BY <1>2, <1>17, <1>19
    <2> QED BY <1>18, <2>1, ReturnBalanced
  <1>21. conn' = r
    BY <1>15, <1>16, <1>18
  <1>22. ConnectionLedger'
    <2>1. conn'.size = Outside(conn)' + TotalHeld'
      <3>1. /\ r.size \in Nat /\ Outside(r) \in Nat /\ c.size \in Nat /\ Outside(c) \in Nat
        BY <1>19, <1>20 DEF Window, Outside
      <3>2. r.size - Outside(r) = TotalHeld - n
        BY <1>2, <1>7, <1>19, <1>20, <3>1
      <3>3. r.size = Outside(r) + TotalHeld'
        BY <1>2, <1>6, <1>7, <3>1, <3>2
      <3> QED BY <1>21, <3>3
    <2>2. /\ CreditFor(credits, Connection)' = CreditFor(credits, Connection)
          /\ CreditFor(deferred, Connection)' = CreditFor(deferred, Connection)
          /\ Cardinality(Positions(deferred, Connection))' = Cardinality(Positions(deferred, Connection))
          /\ BytesIn(parked, Streams)' = BytesIn(parked, Streams)
          /\ BytesIn(flight, Streams)' = BytesIn(flight, Streams)
          /\ outConn' = outConn
      BY <1>4
    <2>3. /\ conn'.inbound = conn.inbound /\ conn'.granting = conn.granting
          /\ conn'.queued = conn.queued /\ conn'.size <= scene.connection.maximum
      BY <1>14, <1>17, <1>19, <1>20, <1>21
    <2>4. /\ conn'.inbound >= outConn' + BytesIn(parked, Streams)' + BytesIn(flight, Streams)'
                              + CreditFor(credits, Connection)'
          /\ conn'.granting = CreditFor(deferred, Connection)'
          /\ conn'.queued >= Cardinality(Positions(deferred, Connection))'
      BY <2>2, <2>3, ConnectionKnown
    <2> QED BY <1>4, <2>1, <2>3, <2>4, ConnectionLedgerNext
  <1>23. ConnectionStep
    <2>1. ASSUME NEW k \in Scenes, scene = k PROVE ConnectionWindow(k)!Receiver
      <3>1. /\ CreditFor(credits, Connection)' = CreditFor(credits, Connection)
            /\ BytesIn(parked, Streams)' = BytesIn(parked, Streams)
            /\ BytesIn(flight, Streams)' = BytesIn(flight, Streams)
            /\ outConn' = outConn
        BY <1>4
      <3>2. ConnectionWindow(k)!RaiseFloor(conn, floor, k.connection.maximum) = c
        BY <1>14, <1>16, <2>1, ConnectionOperators
      <3>3. ConnectionWindow(k)!Returned(c, n, 0, fastConn) = conn'
        BY <1>14, <1>18, <1>21, <2>1, ConnectionOperators DEF ConnectionWindow!Returned
      <3>4. ConnectionWindow(k)!MayReturn(conn, n)
        BY <1>8, ConnectionOperators DEF ConnectionWindow!MayReturn
      <3>5. ConnectionWindow(k)!Consume(n, 0, fastConn, floor)
        BY <1>6, <1>7, <1>12, <3>1, <3>2, <3>3, <3>4 DEF ConnectionWindow!Consume
      <3>6. floor \in ConnectionWindow(k)!Floors
        BY <1>14, <2>1 DEF ConnectionWindow!Floors
      <3>7. 0 \in 0..MaxFrame
        BY FrameAssumption
      <3> QED BY <3>5, <3>6, <3>7 DEF ConnectionWindow!Receiver, ConnectionWindow!Bytes
    <2> QED BY <2>1, ConnectionReceives
  <1>24. PICK w : w = IF closed[s] THEN win[s] ELSE Collect(used, s, fast)
    OBVIOUS
  <1>25. /\ w \in Window /\ w.size <= max /\ w.inbound = win[s].inbound
         /\ w.granting = win[s].granting /\ w.queued = win[s].queued
         /\ ~closed[s] => w.size - Outside(w) = win[s].size - Outside(win[s]) - n
         /\ closed[s] => w = win[s]
    <2>1. CASE closed[s]
      BY <1>3, <1>14, <1>24, <2>1
    <2>2. CASE ~closed[s]
      <3>1. used.size <= max
        BY <1>11, <1>14
      <3>2. w = CollectStream(used, largest[s], max, fast)
        BY <1>14, <1>24, <2>2 DEF Collect
      <3>3. Balanced(used, w) /\ w.size <= max /\ w.queued = used.queued
        BY <1>11, <3>1, <3>2, CollectBalanced
      <3>4. /\ w \in Window /\ w.inbound = used.inbound /\ w.granting = used.granting
            /\ w.size - Outside(w) = used.size - Outside(used)
        BY <3>3 DEF Balanced
      <3>5. Outside(win[s]) \in Nat /\ win[s].size \in Nat
        BY StreamOutside, StreamKnown
      <3>6. w.size - Outside(w) = win[s].size - Outside(win[s]) - n
        BY <1>2, <1>11, <3>4, <3>5
      <3> QED BY <1>11, <2>2, <3>3, <3>4, <3>6
    <2> QED BY <2>1, <2>2
  <1>26. win' \in [Streams -> Window] /\ win'[s] = w
         /\ \A t \in Streams : t # s => win'[t] = win[t]
    BY <1>3, <1>13, <1>24, <1>25
  <1>27. /\ CreditFor(credits, s)' = CreditFor(credits, s)
         /\ CreditFor(deferred, s)' = CreditFor(deferred, s)
         /\ Cardinality(Positions(deferred, s))' = Cardinality(Positions(deferred, s))
         /\ BytesIn(parked, {s})' = BytesIn(parked, {s})
         /\ BytesIn(flight, {s})' = BytesIn(flight, {s})
         /\ out'[s] = out[s] /\ closed'[s] = closed[s]
    BY <1>4
  <1>28. StreamLedger(s)'
    <2>1. /\ win'[s].inbound = win[s].inbound /\ win'[s].granting = win[s].granting
          /\ win'[s].queued = win[s].queued /\ win'[s].size <= scene.stream.maximum
      BY <1>14, <1>25, <1>26
    <2>2. /\ win'[s].inbound >= out'[s] + BytesIn(parked, {s})' + BytesIn(flight, {s})'
                                + CreditFor(credits, s)'
          /\ win'[s].granting = CreditFor(deferred, s)'
          /\ win'[s].queued >= Cardinality(Positions(deferred, s))'
      BY <1>27, <2>1, StreamKnown
    <2>3. IF ~closed'[s] THEN win'[s].size = Outside(win[s])' + held'[s]
          ELSE win'[s].size >= win'[s].inbound + win'[s].granting + held'[s]
      <3>1. CASE closed[s]
        <4>1. /\ win[s].size \in Nat /\ win[s].inbound \in Nat /\ win[s].granting \in Nat
              /\ held[s] \in Nat
              /\ win[s].size >= win[s].inbound + win[s].granting + held[s]
          BY StreamKnown
        <4>2. win'[s].size = win[s].size /\ held'[s] = held[s] - n
          BY <1>5, <1>6, <1>25, <1>26, <3>1
        <4>3. win'[s].size >= win'[s].inbound + win'[s].granting + held'[s]
          BY <1>2, <2>1, <4>1, <4>2
        <4> QED BY <1>27, <3>1, <4>3
      <3>2. CASE ~closed[s]
        <4>1. /\ win[s].size \in Nat /\ Outside(win[s]) \in Nat /\ held[s] \in Nat
              /\ win[s].size = Outside(win[s]) + held[s]
          BY <3>2, StreamKnown, StreamOutside
        <4>2. w.size \in Nat /\ Outside(w) \in Nat
          BY <1>25 DEF Window, Outside
        <4>3. /\ w.size - Outside(w) = win[s].size - Outside(win[s]) - n
              /\ held'[s] = held[s] - n
          BY <1>5, <1>6, <1>25, <3>2
        <4>4. w.size = Outside(w) + held'[s]
          BY <1>2, <4>1, <4>2, <4>3
        <4> QED BY <1>26, <1>27, <3>2, <4>4
      <3> QED BY <3>1, <3>2
    <2> QED BY <1>4, <2>1, <2>2, <2>3, StreamLedgerNext
  <1>29. StreamStep(s)
    <2>1. ASSUME NEW k \in Scenes, scene = k PROVE StreamWindow(k, s)!Receiver
      <3>1. StreamWindow(k, s)!RaiseFloor(win[s], 0, k.stream.maximum) = win[s]
        <4>1. win[s] \in Window /\ k.stream.maximum \in Nat
          BY <1>3, <1>14, <2>1
        <4>2. RaiseFloor(win[s], 0, k.stream.maximum) = win[s]
          BY <4>1, RaiseZero
        <4> QED BY <4>2, StreamOperators
      <3>2. StreamWindow(k, s)!Returned(win[s], n, largest[s], fast) = win'[s]
        <4>1. CASE closed[s]
          BY <1>25, <1>26, <4>1 DEF StreamWindow!Returned
        <4>2. CASE ~closed[s]
          <5>1. win'[s] = CollectStream(used, largest[s], k.stream.maximum, fast)
            BY <1>24, <1>26, <2>1, <4>2 DEF Collect
          <5>2. StreamWindow(k, s)!CollectStream(used, largest[s], k.stream.maximum, fast)
                  = win'[s]
            BY <5>1, StreamOperators
          <5> QED BY <1>10, <4>2, <5>2 DEF StreamWindow!Returned
        <4> QED BY <4>1, <4>2
      <3>3. StreamWindow(k, s)!MayReturn(win[s], n)
        BY <1>9, StreamOperators DEF StreamWindow!MayReturn
      <3>4. StreamWindow(k, s)!Consume(n, largest[s], fast, 0)
        BY <1>4, <1>5, <1>6, <1>12, <1>27, <3>1, <3>2, <3>3 DEF StreamWindow!Consume
      <3>5. 0 \in StreamWindow(k, s)!Floors
        BY DEF StreamWindow!Floors
      <3>6. largest[s] \in 0..MaxFrame
        BY <1>3
      <3> QED BY <3>4, <3>5, <3>6 DEF StreamWindow!Receiver, StreamWindow!Bytes
    <2> QED BY <2>1, StreamReceives
  <1>30. ASSUME NEW t \in Streams, t # s PROVE StreamLedger(t)' /\ StreamStep(t)
    <2>1. /\ closed'[t] = closed[t] /\ out'[t] = out[t]
          /\ BytesIn(parked, {t})' = BytesIn(parked, {t})
          /\ BytesIn(flight, {t})' = BytesIn(flight, {t})
          /\ CreditFor(credits, t)' = CreditFor(credits, t)
          /\ CreditFor(deferred, t)' = CreditFor(deferred, t)
          /\ Cardinality(Positions(deferred, t))' = Cardinality(Positions(deferred, t))
      BY <1>4
    <2>2. held'[t] = held[t] /\ win'[t] = win[t]
      BY <1>6, <1>26, <1>30
    <2> QED BY <1>4, <1>12, <2>1, <2>2, StreamFrame
  <1> QED BY <1>6, <1>12, <1>20, <1>21, <1>22, <1>23, <1>26, <1>28, <1>29, <1>30

\* remove_stream forgets what the stream owed.
LEMMA CloseWindows ==
    ASSUME FInv, NEW s \in Streams, CloseStream(s)
    PROVE  /\ failed' = failed
           /\ ConnectionLedger' /\ ConnectionStep
           /\ \A t \in Streams : StreamLedger(t)' /\ StreamStep(t)
           /\ win' \in [Streams -> Window]
  <1>1. /\ win \in [Streams -> Window] /\ closed \in [Streams -> BOOLEAN]
    BY DEF FInv, TypeOK
  <1>2. /\ ~closed[s] /\ closed' = [closed EXCEPT ![s] = TRUE] /\ conn' = conn
        /\ held' = held /\ flight' = flight /\ deferred' = deferred
        /\ credits' = credits /\ scene' = scene /\ out' = out /\ outConn' = outConn
        /\ parked' = parked /\ failed' = failed
    BY DEF CloseStream, sendVars
  <1>3. PICK w : w = [win[s] EXCEPT !.owed = 0, !.unreturned = 0]
    OBVIOUS
  <1>4. /\ w \in Window /\ w.size = win[s].size /\ w.inbound = win[s].inbound
        /\ w.granting = win[s].granting /\ w.queued = win[s].queued
    BY <1>1, <1>3 DEF Window
  <1>5. win' = [win EXCEPT ![s] = w]
    <2>1. win' = [win EXCEPT ![s].owed = 0, ![s].unreturned = 0]
      BY DEF CloseStream
    <2> QED BY <1>1, <1>3, <2>1
  <1>6. win' \in [Streams -> Window] /\ win'[s] = w
        /\ \A t \in Streams : t # s => win'[t] = win[t] /\ closed'[t] = closed[t]
    BY <1>1, <1>2, <1>4, <1>5
  <1>7. TotalHeld' = TotalHeld
    BY <1>2, TotalHeldIs, TotalHeldNext
  <1>8. ConnectionLedger' /\ ConnectionStep
    BY <1>2, <1>7, ConnectionFrame
  <1>9. /\ CreditFor(credits, s)' = CreditFor(credits, s)
        /\ CreditFor(deferred, s)' = CreditFor(deferred, s)
        /\ Cardinality(Positions(deferred, s))' = Cardinality(Positions(deferred, s))
        /\ BytesIn(parked, {s})' = BytesIn(parked, {s})
        /\ BytesIn(flight, {s})' = BytesIn(flight, {s})
        /\ out'[s] = out[s] /\ held'[s] = held[s] /\ closed'[s]
    BY <1>1, <1>2
  <1>10. StreamLedger(s)'
    <2>1. /\ win'[s].inbound = win[s].inbound /\ win'[s].granting = win[s].granting
          /\ win'[s].queued = win[s].queued /\ win'[s].size = win[s].size
      BY <1>4, <1>6
    <2>2. /\ win'[s].inbound >= out'[s] + BytesIn(parked, {s})' + BytesIn(flight, {s})'
                                + CreditFor(credits, s)'
          /\ win'[s].granting = CreditFor(deferred, s)'
          /\ win'[s].queued >= Cardinality(Positions(deferred, s))'
          /\ win'[s].size >= win'[s].inbound + win'[s].granting + held'[s]
          /\ win'[s].size <= scene.stream.maximum
      BY <1>9, <2>1, StreamKnown
    <2> QED BY <1>2, <1>9, <2>2, StreamLedgerNext
  <1>11. StreamStep(s)
    <2>1. ASSUME NEW k \in Scenes PROVE StreamWindow(k, s)!Close
      BY <1>2, <1>3, <1>6, <1>9 DEF StreamWindow!Close
    <2> QED BY <2>1, StreamReceives DEF StreamWindow!Receiver
  <1>12. ASSUME NEW t \in Streams, t # s PROVE StreamLedger(t)' /\ StreamStep(t)
    <2>1. /\ held'[t] = held[t] /\ out'[t] = out[t]
          /\ BytesIn(parked, {t})' = BytesIn(parked, {t})
          /\ BytesIn(flight, {t})' = BytesIn(flight, {t})
          /\ CreditFor(credits, t)' = CreditFor(credits, t)
          /\ CreditFor(deferred, t)' = CreditFor(deferred, t)
          /\ Cardinality(Positions(deferred, t))' = Cardinality(Positions(deferred, t))
      BY <1>2
    <2>2. win'[t] = win[t] /\ closed'[t] = closed[t]
      BY <1>6, <1>12
    <2> QED BY <1>2, <2>1, <2>2, StreamFrame
  <1> QED BY <1>2, <1>6, <1>8, <1>10, <1>11, <1>12

\* A credit record that drain_owed_controls queues, or defers, fits its window.
LEMMA GrantedEffect ==
    ASSUME NEW w \in Window, Outside(w) <= w.size
    PROVE  /\ GrantFits(w) /\ AdmitAllowed(Reserve(w), w.owed)
           /\ Granted(w) \in Window /\ Granted(w).size = w.size
           /\ Outside(Granted(w)) = Outside(w) /\ Granted(w).queued = w.queued + 1
           /\ barred["receiver"] => /\ Granted(w).inbound = w.inbound
                                    /\ Granted(w).granting = w.granting + w.owed
           /\ ~barred["receiver"] => /\ Granted(w).inbound = w.inbound + w.owed
                                     /\ Granted(w).granting = w.granting
  <1>1. /\ w.size \in Nat /\ w.inbound \in Nat /\ w.unreturned \in Nat
        /\ w.owed \in Nat /\ w.granting \in Nat /\ w.queued \in Nat
    BY DEF Window
  <1>2. w.inbound + w.granting + w.owed + w.unreturned <= w.size
    BY DEF Outside
  <1>3. PICK r : r = Reserve(w)
    OBVIOUS
  <1>4. /\ r \in Window /\ r.size = w.size /\ r.inbound = w.inbound
        /\ r.granting = w.granting + w.owed /\ r.owed = 0
        /\ r.unreturned = w.unreturned /\ r.queued = w.queued + 1
    BY <1>3, ReserveEffect
  <1>5. w.owed <= r.granting /\ r.inbound <= r.size /\ w.owed <= r.size - r.inbound
    BY <1>1, <1>2, <1>4
  <1>6. AdmitAllowed(r, w.owed)
    BY <1>5 DEF AdmitAllowed
  <1>7. PICK a : a = Admit(r, w.owed)
    OBVIOUS
  <1>8. /\ a \in Window /\ a.size = r.size /\ a.inbound = r.inbound + w.owed
        /\ a.granting = r.granting - w.owed /\ a.owed = r.owed
        /\ a.unreturned = r.unreturned /\ a.queued = r.queued
    BY <1>1, <1>4, <1>5, <1>7, AdmitEffect
  <1>9. a.granting = w.granting /\ a.inbound = w.inbound + w.owed
    BY <1>1, <1>4, <1>8
  <1>10. Outside(r) = Outside(w)
    BY <1>1, <1>4 DEF Outside
  <1>11. Outside(a) = Outside(w)
    BY <1>1, <1>4, <1>8, <1>9 DEF Outside
  <1>12. Granted(w) = IF barred["receiver"] THEN r ELSE a
    BY <1>3, <1>7 DEF Granted
  <1>13. CASE barred["receiver"]
    BY <1>3, <1>4, <1>6, <1>10, <1>12, <1>13 DEF GrantFits
  <1>14. CASE ~barred["receiver"]
    BY <1>3, <1>4, <1>6, <1>8, <1>9, <1>11, <1>12, <1>14 DEF GrantFits
  <1> QED BY <1>13, <1>14

\* The record joins one of the two queues.
LEMMA QueueEffect ==
    ASSUME FInv, NEW to \in Streams \cup {Connection}, NEW w \in Window, w.owed # 0,
           w.owed <= Limit(scene, to), Queue(to, w), scene' = scene
    PROVE  /\ UpdatesOK(deferred, scene)' /\ UpdatesOK(credits, scene)'
           /\ barred["receiver"] =>
                /\ CreditFor(credits, to)' = CreditFor(credits, to)
                /\ CreditFor(deferred, to)' = CreditFor(deferred, to) + w.owed
                /\ Cardinality(Positions(deferred, to))' =
                     Cardinality(Positions(deferred, to)) + 1
           /\ ~barred["receiver"] =>
                /\ CreditFor(credits, to)' = CreditFor(credits, to) + w.owed
                /\ CreditFor(deferred, to)' = CreditFor(deferred, to)
                /\ Cardinality(Positions(deferred, to))' = Cardinality(Positions(deferred, to))
           /\ \A t : t # to =>
                /\ CreditFor(credits, t)' = CreditFor(credits, t)
                /\ CreditFor(deferred, t)' = CreditFor(deferred, t)
                /\ Cardinality(Positions(deferred, t))' = Cardinality(Positions(deferred, t))
  <1>1. w.owed \in Nat /\ w.owed >= 1
    BY DEF Window
  <1>2. PICK u \in Updates : u = [to |-> to, increment |-> w.owed]
    BY <1>1 DEF Updates
  <1>3. u.to = to /\ u.increment = w.owed
    BY <1>2
  <1>4. UpdatesOK(deferred, scene) /\ UpdatesOK(credits, scene)
    BY DEF FInv
  <1>5. CASE barred["receiver"]
    <2>1. deferred' = Append(deferred, u) /\ credits' = credits
      BY <1>2, <1>5 DEF Queue
    <2>2. /\ UpdatesOK(Append(deferred, u), scene)
          /\ CreditFor(Append(deferred, u), to) = CreditFor(deferred, to) + w.owed
          /\ Cardinality(Positions(Append(deferred, u), to)) =
               Cardinality(Positions(deferred, to)) + 1
      BY <1>1, <1>3, <1>4, UpdateJoined
    <2>3. \A t : t # to =>
            /\ CreditFor(Append(deferred, u), t) = CreditFor(deferred, t)
            /\ Cardinality(Positions(Append(deferred, u), t)) =
                 Cardinality(Positions(deferred, t))
      BY <1>1, <1>3, <1>4, UpdateJoined
    <2> QED BY <1>4, <1>5, <2>1, <2>2, <2>3
  <1>6. CASE ~barred["receiver"]
    <2>1. credits' = Append(credits, u) /\ deferred' = deferred
      BY <1>2, <1>6 DEF Queue
    <2>2. /\ UpdatesOK(Append(credits, u), scene)
          /\ CreditFor(Append(credits, u), to) = CreditFor(credits, to) + w.owed
      BY <1>1, <1>3, <1>4, UpdateJoined
    <2>3. \A t : t # to => CreditFor(Append(credits, u), t) = CreditFor(credits, t)
      BY <1>1, <1>3, <1>4, UpdateJoined
    <2> QED BY <1>4, <1>6, <2>1, <2>2, <2>3
  <1> QED BY <1>5, <1>6

\* What the connection window owes fits a credit record.
LEMMA GrantConnectionWindows ==
    ASSUME FInv, GrantConnection
    PROVE  /\ failed' = failed
           /\ ConnectionLedger' /\ ConnectionStep
           /\ \A t \in Streams : StreamLedger(t)' /\ StreamStep(t)
           /\ conn' \in Window
           /\ UpdatesOK(deferred, scene)' /\ UpdatesOK(credits, scene)'
  <1>1. conn \in Window /\ conn.owed # 0 /\ GrantSlotFree(conn)
    BY DEF FInv, TypeOK, GrantConnection, OwesGrant
  <1>2. /\ Outside(conn) \in Nat /\ conn.size = Outside(conn) + TotalHeld
        /\ Outside(conn) <= conn.size
    BY ConnectionKnown DEF Outside
  <1>3. /\ GrantFits(conn) /\ AdmitAllowed(Reserve(conn), conn.owed)
        /\ Granted(conn) \in Window /\ Granted(conn).size = conn.size
        /\ Outside(Granted(conn)) = Outside(conn) /\ Granted(conn).queued = conn.queued + 1
        /\ barred["receiver"] => /\ Granted(conn).inbound = conn.inbound
                                 /\ Granted(conn).granting = conn.granting + conn.owed
        /\ ~barred["receiver"] => /\ Granted(conn).inbound = conn.inbound + conn.owed
                                  /\ Granted(conn).granting = conn.granting
    BY <1>1, <1>2, GrantedEffect
  <1>4. /\ conn' = Granted(conn) /\ Queue(Connection, conn) /\ failed' = failed
        /\ win' = win /\ held' = held /\ closed' = closed /\ flight' = flight
        /\ parked' = parked /\ out' = out /\ outConn' = outConn /\ scene' = scene
    BY <1>3 DEF GrantConnection, sendVars
  <1>5. conn.owed <= Limit(scene, Connection) /\ conn.owed >= 1
    <2>1. conn.owed <= scene.connection.maximum /\ conn.owed >= 1
      BY <1>1, ConnectionKnown
    <2> QED BY <2>1 DEF Limit
  <1>6. /\ UpdatesOK(deferred, scene)' /\ UpdatesOK(credits, scene)'
        /\ barred["receiver"] =>
             /\ CreditFor(credits, Connection)' = CreditFor(credits, Connection)
             /\ CreditFor(deferred, Connection)' = CreditFor(deferred, Connection) + conn.owed
             /\ Cardinality(Positions(deferred, Connection))' =
                  Cardinality(Positions(deferred, Connection)) + 1
        /\ ~barred["receiver"] =>
             /\ CreditFor(credits, Connection)' = CreditFor(credits, Connection) + conn.owed
             /\ CreditFor(deferred, Connection)' = CreditFor(deferred, Connection)
             /\ Cardinality(Positions(deferred, Connection))' =
                  Cardinality(Positions(deferred, Connection))
    BY <1>1, <1>4, <1>5, QueueEffect
  <1>7. \A t : t # Connection =>
             /\ CreditFor(credits, t)' = CreditFor(credits, t)
             /\ CreditFor(deferred, t)' = CreditFor(deferred, t)
             /\ Cardinality(Positions(deferred, t))' = Cardinality(Positions(deferred, t))
    BY <1>1, <1>4, <1>5, QueueEffect
  <1>8. TotalHeld' = TotalHeld
    BY <1>4, TotalHeldIs, TotalHeldNext
  <1>9. /\ conn'.size = conn.size /\ Outside(conn)' = Outside(conn)
        /\ conn'.queued = conn.queued + 1 /\ conn' \in Window
        /\ BytesIn(parked, Streams)' = BytesIn(parked, Streams)
        /\ BytesIn(flight, Streams)' = BytesIn(flight, Streams)
        /\ outConn' = outConn
    BY <1>3, <1>4
  <1>10. ASSUME NEW t \in Streams PROVE StreamLedger(t)' /\ StreamStep(t)
    <2>1. t # Connection
      BY StreamsAssumption DEF Connection
    <2>2. /\ CreditFor(credits, t)' = CreditFor(credits, t)
          /\ CreditFor(deferred, t)' = CreditFor(deferred, t)
          /\ Cardinality(Positions(deferred, t))' = Cardinality(Positions(deferred, t))
      BY <1>7, <2>1
    <2> QED BY <1>4, <2>2, StreamFrame
  <1>11. CASE barred["receiver"]
    <2>1. conn'.inbound = conn.inbound /\ conn'.granting = conn.granting + conn.owed
      BY <1>3, <1>4, <1>11
    <2>2. /\ CreditFor(credits, Connection)' = CreditFor(credits, Connection)
          /\ CreditFor(deferred, Connection)' = CreditFor(deferred, Connection) + conn.owed
          /\ Cardinality(Positions(deferred, Connection))' =
               Cardinality(Positions(deferred, Connection)) + 1
      BY <1>6, <1>11
    <2>3. ConnectionLedger'
      <3>1. /\ conn'.inbound >= outConn' + BytesIn(parked, Streams)'
                                + BytesIn(flight, Streams)' + CreditFor(credits, Connection)'
            /\ conn'.granting = CreditFor(deferred, Connection)'
            /\ conn'.queued >= Cardinality(Positions(deferred, Connection))'
            /\ conn'.size <= scene.connection.maximum
        BY <1>9, <2>1, <2>2, ConnectionKnown
      <3> QED BY <1>2, <1>4, <1>8, <1>9, <3>1, ConnectionLedgerNext
    <2>4. ASSUME NEW k \in Scenes PROVE ConnectionWindow(k)!DeferGrant
      <3>1. conn' = Reserve(conn)
        BY <1>4, <1>11 DEF Granted
      <3>2. ConnectionWindow(k)!Reserve(conn) = conn'
        BY <3>1, ConnectionOperators
      <3>3. ConnectionWindow(k)!GrantSlotFree(conn)
        BY <1>1, ConnectionOperators
      <3> QED BY <1>1, <1>4, <1>8, <1>9, <2>2, <3>2, <3>3
              DEF ConnectionWindow!DeferGrant, ConnectionWindow!GrantOwed
    <2>5. ConnectionStep
      BY <2>4, ConnectionReceives DEF ConnectionWindow!Receiver
    <2> QED BY <1>4, <1>6, <1>9, <1>10, <2>3, <2>5
  <1>12. CASE ~barred["receiver"]
    <2>1. conn'.inbound = conn.inbound + conn.owed /\ conn'.granting = conn.granting
      BY <1>3, <1>4, <1>12
    <2>2. /\ CreditFor(credits, Connection)' = CreditFor(credits, Connection) + conn.owed
          /\ CreditFor(deferred, Connection)' = CreditFor(deferred, Connection)
          /\ Cardinality(Positions(deferred, Connection))' =
               Cardinality(Positions(deferred, Connection))
      BY <1>6, <1>12
    <2>3. ConnectionLedger'
      <3>1. /\ conn'.inbound >= outConn' + BytesIn(parked, Streams)'
                                + BytesIn(flight, Streams)' + CreditFor(credits, Connection)'
            /\ conn'.granting = CreditFor(deferred, Connection)'
            /\ conn'.queued >= Cardinality(Positions(deferred, Connection))'
            /\ conn'.size <= scene.connection.maximum
        BY <1>9, <2>1, <2>2, ConnectionKnown
      <3> QED BY <1>2, <1>4, <1>8, <1>9, <3>1, ConnectionLedgerNext
    <2>4. ASSUME NEW k \in Scenes PROVE ConnectionWindow(k)!Grant
      <3>1. conn' = Admit(Reserve(conn), conn.owed)
        BY <1>4, <1>12 DEF Granted
      <3>2. ConnectionWindow(k)!Reserve(conn) = Reserve(conn)
        BY ConnectionOperators
      <3>3. /\ ConnectionWindow(k)!GrantSlotFree(conn)
            /\ ConnectionWindow(k)!AdmitAllowed(Reserve(conn), conn.owed)
            /\ ConnectionWindow(k)!Admit(Reserve(conn), conn.owed) = conn'
        BY <1>1, <1>3, <3>1, ConnectionOperators
      <3> QED BY <1>1, <1>4, <1>8, <1>9, <2>2, <3>2, <3>3
              DEF ConnectionWindow!Grant, ConnectionWindow!GrantOwed
    <2>5. ConnectionStep
      BY <2>4, ConnectionReceives DEF ConnectionWindow!Receiver
    <2> QED BY <1>4, <1>6, <1>9, <1>10, <2>3, <2>5
  <1> QED BY <1>11, <1>12

\* So does what a stream's window owes.
LEMMA GrantStreamWindows ==
    ASSUME FInv, NEW s \in Streams, GrantStream(s)
    PROVE  /\ failed' = failed
           /\ ConnectionLedger' /\ ConnectionStep
           /\ \A t \in Streams : StreamLedger(t)' /\ StreamStep(t)
           /\ win' \in [Streams -> Window]
           /\ UpdatesOK(deferred, scene)' /\ UpdatesOK(credits, scene)'
  <1>1. /\ win \in [Streams -> Window] /\ win[s].owed # 0 /\ GrantSlotFree(win[s])
        /\ ~closed[s]
    BY DEF FInv, TypeOK, GrantStream, OwesGrant
  <1>2. PICK w : w = win[s]
    OBVIOUS
  <1>3. /\ w \in Window /\ Outside(w) \in Nat /\ w.size = Outside(w) + held[s]
        /\ Outside(w) <= w.size
    <2>1. /\ w \in Window /\ Outside(w) \in Nat /\ w.size = Outside(w) + held[s]
          /\ held[s] \in Nat
      BY <1>1, <1>2, StreamKnown, StreamOutside
    <2> QED BY <2>1
  <1>4. PICK g : g = Granted(w)
    OBVIOUS
  <1>5. /\ GrantFits(w) /\ AdmitAllowed(Reserve(w), w.owed)
        /\ g \in Window /\ g.size = w.size
        /\ Outside(g) = Outside(w) /\ g.queued = w.queued + 1
        /\ barred["receiver"] => g.inbound = w.inbound /\ g.granting = w.granting + w.owed
        /\ ~barred["receiver"] => g.inbound = w.inbound + w.owed /\ g.granting = w.granting
    BY <1>3, <1>4, GrantedEffect
  <1>6. /\ win' = [win EXCEPT ![s] = g] /\ Queue(s, w) /\ failed' = failed
        /\ conn' = conn /\ held' = held /\ closed' = closed /\ flight' = flight
        /\ parked' = parked /\ out' = out /\ outConn' = outConn /\ scene' = scene
    BY <1>2, <1>4, <1>5 DEF GrantStream, sendVars
  <1>7. win' \in [Streams -> Window] /\ win'[s] = g
        /\ \A t \in Streams : t # s => win'[t] = win[t]
    BY <1>1, <1>5, <1>6
  <1>8. s # Connection
    BY StreamsAssumption DEF Connection
  <1>9. /\ w.size \in Nat /\ w.inbound \in Nat /\ w.unreturned \in Nat
        /\ w.owed \in Nat /\ w.granting \in Nat /\ w.queued \in Nat
        /\ held[s] \in Nat /\ scene.stream.maximum \in Nat
        /\ w.size = w.inbound + w.granting + w.owed + w.unreturned + held[s]
        /\ w.size <= scene.stream.maximum
    BY <1>1, <1>2, StreamKnown
  <1>10. w.owed # 0 /\ w.owed <= Limit(scene, s)
    <2>1. w.owed <= scene.stream.maximum
      BY <1>9
    <2> QED BY <1>1, <1>2, <1>8, <2>1 DEF Limit
  <1>11. /\ UpdatesOK(deferred, scene)' /\ UpdatesOK(credits, scene)'
         /\ barred["receiver"] =>
              /\ CreditFor(credits, s)' = CreditFor(credits, s)
              /\ CreditFor(deferred, s)' = CreditFor(deferred, s) + w.owed
              /\ Cardinality(Positions(deferred, s))' = Cardinality(Positions(deferred, s)) + 1
         /\ ~barred["receiver"] =>
              /\ CreditFor(credits, s)' = CreditFor(credits, s) + w.owed
              /\ CreditFor(deferred, s)' = CreditFor(deferred, s)
              /\ Cardinality(Positions(deferred, s))' = Cardinality(Positions(deferred, s))
    BY <1>3, <1>6, <1>10, QueueEffect
  <1>12. \A t : t # s =>
              /\ CreditFor(credits, t)' = CreditFor(credits, t)
              /\ CreditFor(deferred, t)' = CreditFor(deferred, t)
              /\ Cardinality(Positions(deferred, t))' = Cardinality(Positions(deferred, t))
    BY <1>3, <1>6, <1>10, QueueEffect
  <1>13. TotalHeld' = TotalHeld
    BY <1>6, TotalHeldIs, TotalHeldNext
  <1>14. ConnectionLedger' /\ ConnectionStep
    <2>1. /\ CreditFor(credits, Connection)' = CreditFor(credits, Connection)
          /\ CreditFor(deferred, Connection)' = CreditFor(deferred, Connection)
          /\ Cardinality(Positions(deferred, Connection))' =
               Cardinality(Positions(deferred, Connection))
      BY <1>8, <1>12
    <2> QED BY <1>6, <1>13, <2>1, ConnectionFrame
  <1>15. /\ BytesIn(parked, {s})' = BytesIn(parked, {s})
         /\ BytesIn(flight, {s})' = BytesIn(flight, {s})
         /\ out'[s] = out[s] /\ held'[s] = held[s] /\ closed'[s] = closed[s]
    BY <1>6
  <1>16. ASSUME NEW t \in Streams, t # s PROVE StreamLedger(t)' /\ StreamStep(t)
    <2>1. /\ CreditFor(credits, t)' = CreditFor(credits, t)
          /\ CreditFor(deferred, t)' = CreditFor(deferred, t)
          /\ Cardinality(Positions(deferred, t))' = Cardinality(Positions(deferred, t))
      BY <1>12, <1>16
    <2>2. win'[t] = win[t] /\ closed'[t] = closed[t] /\ out'[t] = out[t] /\ held'[t] = held[t]
      BY <1>6, <1>7, <1>16
    <2> QED BY <1>6, <2>1, <2>2, StreamFrame
  <1>17. /\ win[s].inbound >= out[s] + BytesIn(parked, {s}) + BytesIn(flight, {s})
                              + CreditFor(credits, s)
         /\ win[s].granting = CreditFor(deferred, s)
         /\ win[s].queued >= Cardinality(Positions(deferred, s))
         /\ out[s] \in Nat /\ BytesIn(parked, {s}) \in Nat /\ BytesIn(flight, {s}) \in Nat
         /\ CreditFor(credits, s) \in Nat /\ CreditFor(deferred, s) \in Nat
         /\ Cardinality(Positions(deferred, s)) \in Nat
    BY StreamKnown
  <1>18. IF ~closed'[s] THEN win'[s].size = Outside(win[s])' + held'[s]
         ELSE win'[s].size >= win'[s].inbound + win'[s].granting + held'[s]
    BY <1>1, <1>3, <1>5, <1>7, <1>15
  <1>19. CASE barred["receiver"]
    <2>1. /\ win'[s].inbound = win[s].inbound /\ win'[s].granting = win[s].granting + w.owed
          /\ win'[s].queued = win[s].queued + 1 /\ win'[s].size = w.size
      BY <1>2, <1>5, <1>7, <1>19
    <2>2. /\ CreditFor(credits, s)' = CreditFor(credits, s)
          /\ CreditFor(deferred, s)' = CreditFor(deferred, s) + w.owed
          /\ Cardinality(Positions(deferred, s))' = Cardinality(Positions(deferred, s)) + 1
      BY <1>11, <1>19
    <2>3. StreamLedger(s)'
      <3>1. /\ win'[s].inbound >= out'[s] + BytesIn(parked, {s})' + BytesIn(flight, {s})'
                                  + CreditFor(credits, s)'
            /\ win'[s].granting = CreditFor(deferred, s)'
            /\ win'[s].size <= scene.stream.maximum
        BY <1>9, <1>15, <1>17, <2>1, <2>2
      <3>2. win'[s].queued >= Cardinality(Positions(deferred, s))'
        BY <1>2, <1>9, <1>17, <2>1, <2>2
      <3> QED BY <1>6, <1>18, <3>1, <3>2, StreamLedgerNext
    <2>4. ASSUME NEW k \in Scenes PROVE StreamWindow(k, s)!DeferGrant
      <3>1. win'[s] = Reserve(win[s])
        BY <1>2, <1>4, <1>7, <1>19 DEF Granted
      <3>2. StreamWindow(k, s)!Reserve(win[s]) = win'[s]
        BY <3>1, StreamOperators
      <3>3. StreamWindow(k, s)!GrantSlotFree(win[s])
        BY <1>1, StreamOperators
      <3> QED BY <1>1, <1>6, <1>15, <2>2, <3>2, <3>3
              DEF StreamWindow!DeferGrant, StreamWindow!GrantOwed
    <2>5. StreamStep(s)
      BY <2>4, StreamReceives DEF StreamWindow!Receiver
    <2> QED BY <1>6, <1>7, <1>11, <1>14, <1>16, <2>3, <2>5
  <1>20. CASE ~barred["receiver"]
    <2>1. /\ win'[s].inbound = win[s].inbound + w.owed /\ win'[s].granting = win[s].granting
          /\ win'[s].queued = win[s].queued + 1 /\ win'[s].size = w.size
      BY <1>2, <1>5, <1>7, <1>20
    <2>2. /\ CreditFor(credits, s)' = CreditFor(credits, s) + w.owed
          /\ CreditFor(deferred, s)' = CreditFor(deferred, s)
          /\ Cardinality(Positions(deferred, s))' = Cardinality(Positions(deferred, s))
      BY <1>11, <1>20
    <2>3. StreamLedger(s)'
      <3>1. /\ win'[s].inbound >= out'[s] + BytesIn(parked, {s})' + BytesIn(flight, {s})'
                                  + CreditFor(credits, s)'
            /\ win'[s].granting = CreditFor(deferred, s)'
            /\ win'[s].size <= scene.stream.maximum
        BY <1>2, <1>9, <1>15, <1>17, <2>1, <2>2
      <3>2. win'[s].queued >= Cardinality(Positions(deferred, s))'
        BY <1>2, <1>9, <1>17, <2>1, <2>2
      <3> QED BY <1>6, <1>18, <3>1, <3>2, StreamLedgerNext
    <2>4. ASSUME NEW k \in Scenes PROVE StreamWindow(k, s)!Grant
      <3>1. win'[s] = Admit(Reserve(win[s]), win[s].owed)
        BY <1>2, <1>4, <1>7, <1>20 DEF Granted
      <3>2. StreamWindow(k, s)!Reserve(win[s]) = Reserve(win[s])
        BY StreamOperators
      <3>3. /\ StreamWindow(k, s)!GrantSlotFree(win[s])
            /\ StreamWindow(k, s)!AdmitAllowed(Reserve(win[s]), win[s].owed)
            /\ StreamWindow(k, s)!Admit(Reserve(win[s]), win[s].owed) = win'[s]
        BY <1>1, <1>2, <1>5, <3>1, StreamOperators
      <3> QED BY <1>1, <1>2, <1>6, <1>15, <2>2, <3>2, <3>3
              DEF StreamWindow!Grant, StreamWindow!GrantOwed
    <2>5. StreamStep(s)
      BY <2>4, StreamReceives DEF StreamWindow!Receiver
    <2> QED BY <1>6, <1>7, <1>11, <1>14, <1>16, <2>3, <2>5
  <1> QED BY <1>19, <1>20

\* A deferred grant fits its window when the rotation lets it go, or its stream
\* has closed and it is dropped.
LEMMA FlushCreditWindows ==
    ASSUME FInv, FlushCredit
    PROVE  /\ failed' = failed
           /\ ConnectionLedger' /\ ConnectionStep
           /\ \A t \in Streams : StreamLedger(t)' /\ StreamStep(t)
           /\ conn' \in Window /\ win' \in [Streams -> Window]
           /\ UpdatesOK(deferred, scene)' /\ UpdatesOK(credits, scene)'
  <1>1. PICK u : u = Head(deferred)
    OBVIOUS
  <1>2. PICK n : n = u.increment
    OBVIOUS
  <1>3. /\ UpdatesOK(deferred, scene) /\ UpdatesOK(credits, scene) /\ deferred # <<>>
        /\ win \in [Streams -> Window] /\ conn \in Window /\ ~failed
        /\ closed \in [Streams -> BOOLEAN]
    BY DEF FInv, TypeOK, FlushCredit
  <1>4. /\ deferred' = Tail(deferred) /\ held' = held /\ closed' = closed
        /\ flight' = flight /\ parked' = parked /\ out' = out /\ outConn' = outConn
        /\ scene' = scene
    BY DEF FlushCredit, sendVars
  <1>5. /\ n \in Nat /\ n >= 1 /\ n <= Limit(scene, u.to)
        /\ u \in Updates /\ u.to \in Streams \cup {Connection}
        /\ CreditFor(deferred, u.to)' \in Nat
        /\ CreditFor(deferred, u.to) = CreditFor(deferred, u.to)' + n
        /\ Cardinality(Positions(deferred, u.to))' \in Nat
        /\ Cardinality(Positions(deferred, u.to)) = Cardinality(Positions(deferred, u.to))' + 1
    BY <1>1, <1>2, <1>3, <1>4, UpdateLeft
  <1>6. \A to : to # u.to =>
             /\ CreditFor(deferred, to)' = CreditFor(deferred, to)
             /\ Cardinality(Positions(deferred, to))' = Cardinality(Positions(deferred, to))
    <2>1. \A to : to # u.to =>
             /\ CreditFor(Tail(deferred), to) = CreditFor(deferred, to)
             /\ Cardinality(Positions(Tail(deferred), to)) = Cardinality(Positions(deferred, to))
      BY ZenonT(60), <1>1, <1>3, UpdateLeft
    <2>2. deferred' = Tail(deferred)
      BY <1>4
    <2> QED BY <2>1, <2>2
  <1>7. UpdatesOK(deferred, scene)'
    BY <1>3, <1>4, UpdateLeft
  <1>8. ASSUME credits' = Append(credits, u)
        PROVE  /\ UpdatesOK(credits, scene)'
               /\ CreditFor(credits, u.to)' = CreditFor(credits, u.to) + n
               /\ \A to : to # u.to => CreditFor(credits, to)' = CreditFor(credits, to)
    <2>1. /\ UpdatesOK(Append(credits, u), scene)
          /\ CreditFor(Append(credits, u), u.to) = CreditFor(credits, u.to) + n
      BY <1>2, <1>3, <1>5, UpdateJoined
    <2>2. \A to : to # u.to => CreditFor(Append(credits, u), to) = CreditFor(credits, to)
      BY <1>2, <1>3, <1>5, UpdateJoined
    <2> QED BY <1>4, <1>8, <2>1, <2>2
  <1>9. TotalHeld' = TotalHeld
    BY <1>4, TotalHeldIs, TotalHeldNext
  <1>10. CASE u.to = Connection
    <2>1. /\ n <= conn.granting /\ conn.inbound <= conn.size /\ n <= conn.size - conn.inbound
      <3>1. conn.granting >= n
        BY <1>5, <1>10, ConnectionKnown
      <3> QED BY <1>5, <3>1, ConnectionKnown
    <2>2. AdmitAllowed(conn, n)
      BY <2>1 DEF AdmitAllowed
    <2>3. /\ credits' = Append(credits, u) /\ failed' = failed /\ conn' = Admit(conn, n)
          /\ win' = win
      BY <1>1, <1>2, <1>10, <2>2 DEF FlushCredit
    <2>4. PICK r : r = Admit(conn, n)
      OBVIOUS
    <2>5. /\ r \in Window /\ r.size = conn.size /\ r.inbound = conn.inbound + n
          /\ r.granting = conn.granting - n /\ r.owed = conn.owed
          /\ r.unreturned = conn.unreturned /\ r.queued = conn.queued
      BY <1>3, <1>5, <2>1, <2>4, AdmitEffect
    <2>6. conn' = r
      BY <2>3, <2>4
    <2>7. /\ BytesIn(parked, Streams)' = BytesIn(parked, Streams)
          /\ BytesIn(flight, Streams)' = BytesIn(flight, Streams)
          /\ outConn' = outConn
          /\ CreditFor(credits, Connection)' = CreditFor(credits, Connection) + n
      BY <1>4, <1>8, <1>10, <2>3
    <2>8. ConnectionLedger'
      <3>1. conn'.inbound >= outConn' + BytesIn(parked, Streams)'
                                + BytesIn(flight, Streams)' + CreditFor(credits, Connection)'
        BY <1>5, <2>5, <2>6, <2>7, ConnectionKnown
      <3>2. conn'.size <= scene.connection.maximum
        BY <2>5, <2>6, ConnectionKnown
      <3>3. conn'.granting = CreditFor(deferred, Connection)'
        BY <1>5, <1>10, <2>5, <2>6, ConnectionKnown
      <3>4. conn'.queued >= Cardinality(Positions(deferred, Connection))'
        BY <1>5, <1>10, <2>5, <2>6, ConnectionKnown
      <3>5. conn'.size = Outside(conn)' + TotalHeld'
        <4>1. r.size = r.inbound + r.granting + r.owed + r.unreturned + TotalHeld
          BY <1>5, <2>5, ConnectionKnown
        <4> QED BY <1>9, <2>6, <4>1 DEF Outside
      <3> QED BY <1>4, <3>1, <3>2, <3>3, <3>4, <3>5, ConnectionLedgerNext
    <2>9. ConnectionStep
      <3>1. ASSUME NEW k \in Scenes, scene = k PROVE ConnectionWindow(k)!Receiver
        <4>1. ConnectionWindow(k)!AdmitAllowed(conn, n)
              /\ ConnectionWindow(k)!Admit(conn, n) = conn'
          BY <2>2, <2>3, ConnectionOperators
        <4>2. ConnectionWindow(k)!FlushGrant(n)
          BY <1>9, <2>1, <2>3, <2>7, <4>1 DEF ConnectionWindow!FlushGrant
        <4>3. n \in 1..k.connection.maximum
          BY <1>5, <1>10, <3>1, SceneLimits DEF Limit
        <4> QED BY <4>2, <4>3 DEF ConnectionWindow!Receiver
      <3> QED BY <3>1, ConnectionReceives
    <2>10. ASSUME NEW t \in Streams PROVE StreamLedger(t)' /\ StreamStep(t)
      <3>1. t # u.to
        BY <1>10, StreamsAssumption DEF Connection
      <3>2. /\ CreditFor(credits, t)' = CreditFor(credits, t)
            /\ CreditFor(deferred, t)' = CreditFor(deferred, t)
            /\ Cardinality(Positions(deferred, t))' = Cardinality(Positions(deferred, t))
        BY <1>6, <1>8, <2>3, <3>1
      <3> QED BY <1>4, <2>3, <3>2, StreamFrame
    <2> QED BY <1>3, <1>7, <1>8, <2>3, <2>5, <2>6, <2>8, <2>9, <2>10
  <1>11. CASE u.to # Connection
    <2>1. PICK s \in Streams : s = u.to
      BY <1>5, <1>11
    <2>2. /\ CreditFor(deferred, s)' \in Nat
          /\ CreditFor(deferred, s) = CreditFor(deferred, s)' + n
          /\ Cardinality(Positions(deferred, s))' \in Nat
          /\ Cardinality(Positions(deferred, s)) = Cardinality(Positions(deferred, s))' + 1
      BY <1>5, <2>1
    <2>3. /\ win[s] \in Window /\ win[s].size \in Nat /\ win[s].inbound \in Nat
          /\ win[s].granting \in Nat /\ win[s].queued \in Nat /\ held[s] \in Nat
          /\ win[s].unreturned \in Nat /\ win[s].owed \in Nat
          /\ win[s].size >= win[s].inbound + win[s].granting + held[s]
          /\ win[s].size <= scene.stream.maximum
          /\ win[s].granting = CreditFor(deferred, s)
          /\ win[s].queued >= Cardinality(Positions(deferred, s))
          /\ out[s] \in Nat /\ BytesIn(parked, {s}) \in Nat /\ BytesIn(flight, {s}) \in Nat
          /\ CreditFor(credits, s) \in Nat
      BY StreamKnown
    <2>4. win[s].inbound >= out[s] + BytesIn(parked, {s}) + BytesIn(flight, {s})
                            + CreditFor(credits, s)
      BY StreamKnown
    <2>5. /\ n \in Nat /\ n >= 1 /\ n <= win[s].granting /\ win[s].queued # 0
          /\ win[s].inbound <= win[s].size
          /\ n <= win[s].size - win[s].inbound
      BY <1>5, <2>2, <2>3
    <2>6. /\ BytesIn(parked, {s})' = BytesIn(parked, {s})
          /\ BytesIn(flight, {s})' = BytesIn(flight, {s})
          /\ out'[s] = out[s] /\ held'[s] = held[s] /\ closed'[s] = closed[s]
      BY <1>4
    <2>7. n \in 1..scene.stream.maximum
      BY <1>5, <1>11, StreamKnown DEF Limit
    <2>8. CASE closed[s]
      <3>1. /\ win' = [win EXCEPT ![s] = DropGrant(win[s], n)] /\ conn' = conn
            /\ credits' = credits /\ failed' = failed
        BY <1>1, <1>2, <1>11, <2>1, <2>8 DEF FlushCredit
      <3>2. PICK r : r = DropGrant(win[s], n)
        OBVIOUS
      <3>3. /\ r \in Window /\ r.size = win[s].size /\ r.inbound = win[s].inbound
            /\ r.granting = win[s].granting - n /\ r.queued = win[s].queued - 1
        BY <2>3, <2>5, <3>2, DropEffect
      <3>4. win' \in [Streams -> Window] /\ win'[s] = r
            /\ \A t \in Streams : t # s => win'[t] = win[t]
        BY <1>3, <3>1, <3>2, <3>3
      <3>5. StreamLedger(s)'
        <4>1. CreditFor(credits, s)' = CreditFor(credits, s)
          BY <3>1
        <4>2. /\ win'[s].inbound >= out'[s] + BytesIn(parked, {s})' + BytesIn(flight, {s})'
                                    + CreditFor(credits, s)'
              /\ win'[s].size <= scene.stream.maximum
          BY <2>3, <2>4, <2>6, <3>3, <3>4, <4>1
        <4>3. win'[s].granting = CreditFor(deferred, s)'
          BY <2>2, <2>3, <2>5, <3>3, <3>4
        <4>4. win'[s].queued >= Cardinality(Positions(deferred, s))'
          BY <2>2, <2>3, <3>3, <3>4
        <4>5. r.size >= r.inbound + r.granting + held[s]
          BY <2>3, <2>5, <3>3
        <4>6. win'[s].size >= win'[s].inbound + win'[s].granting + held'[s] /\ closed'[s]
          BY <2>6, <2>8, <3>4, <4>5
        <4> QED BY <1>4, <4>2, <4>3, <4>4, <4>6, StreamLedgerNext
      <3>6. StreamStep(s)
        <4>1. ASSUME NEW k \in Scenes, scene = k PROVE StreamWindow(k, s)!Receiver
          <5>1. StreamWindow(k, s)!DropGrant(win[s], n) = win'[s]
            BY <3>2, <3>4, StreamOperators
          <5>2. CreditFor(credits, s)' = CreditFor(credits, s)
            BY <3>1
          <5>3. StreamWindow(k, s)!DropDeferredGrant(n)
            BY <2>5, <2>6, <2>8, <3>1, <5>1, <5>2 DEF StreamWindow!DropDeferredGrant
          <5> QED BY <2>7, <4>1, <5>3 DEF StreamWindow!Receiver
        <4> QED BY <4>1, StreamReceives
      <3>7. ConnectionLedger' /\ ConnectionStep
        <4>1. /\ CreditFor(credits, Connection)' = CreditFor(credits, Connection)
              /\ CreditFor(deferred, Connection)' = CreditFor(deferred, Connection)
              /\ Cardinality(Positions(deferred, Connection))' =
                   Cardinality(Positions(deferred, Connection))
          BY <1>6, <1>11, <3>1
        <4> QED BY <1>4, <1>9, <3>1, <4>1, ConnectionFrame
      <3>8. ASSUME NEW t \in Streams, t # s PROVE StreamLedger(t)' /\ StreamStep(t)
        <4>1. /\ CreditFor(credits, t)' = CreditFor(credits, t)
              /\ CreditFor(deferred, t)' = CreditFor(deferred, t)
              /\ Cardinality(Positions(deferred, t))' = Cardinality(Positions(deferred, t))
          BY <1>6, <2>1, <3>1, <3>8
        <4>2. win'[t] = win[t] /\ closed'[t] = closed[t] /\ out'[t] = out[t]
              /\ held'[t] = held[t]
          BY <1>4, <3>4, <3>8
        <4> QED BY <1>4, <3>1, <4>1, <4>2, StreamFrame
      <3>9. UpdatesOK(credits, scene)'
        BY <1>3, <1>4, <3>1
      <3> QED BY <1>3, <1>7, <3>1, <3>4, <3>5, <3>6, <3>7, <3>8, <3>9
    <2>9. CASE ~closed[s]
      <3>1. AdmitAllowed(win[s], n)
        BY <2>5 DEF AdmitAllowed
      <3>2. /\ win' = [win EXCEPT ![s] = Admit(win[s], n)] /\ conn' = conn
            /\ credits' = Append(credits, u) /\ failed' = failed
        BY <1>1, <1>2, <1>11, <2>1, <2>9, <3>1 DEF FlushCredit
      <3>3. PICK r : r = Admit(win[s], n)
        OBVIOUS
      <3>4. /\ r \in Window /\ r.size = win[s].size /\ r.inbound = win[s].inbound + n
            /\ r.granting = win[s].granting - n /\ r.owed = win[s].owed
            /\ r.unreturned = win[s].unreturned /\ r.queued = win[s].queued
        BY <2>3, <2>5, <3>3, AdmitEffect
      <3>5. win' \in [Streams -> Window] /\ win'[s] = r
            /\ \A t \in Streams : t # s => win'[t] = win[t]
        BY <1>3, <3>2, <3>3, <3>4
      <3>6. CreditFor(credits, s)' = CreditFor(credits, s) + n
        BY <1>8, <2>1, <3>2
      <3>7. StreamLedger(s)'
        <4>1. win'[s].inbound >= out'[s] + BytesIn(parked, {s})' + BytesIn(flight, {s})'
                                    + CreditFor(credits, s)'
          <5>1. win'[s].inbound = win[s].inbound + n
            BY <3>4, <3>5
          <5> QED BY <2>3, <2>4, <2>5, <2>6, <3>6, <5>1
        <4>2. win'[s].size <= scene.stream.maximum
          BY <2>3, <3>4, <3>5
        <4>3. win'[s].granting = CreditFor(deferred, s)'
          BY <2>2, <2>3, <2>5, <3>4, <3>5
        <4>4. win'[s].queued >= Cardinality(Positions(deferred, s))'
          BY <2>2, <2>3, <3>4, <3>5
        <4>5. win[s].size = win[s].inbound + win[s].granting + win[s].owed
                            + win[s].unreturned + held[s]
          BY <2>9, StreamKnown
        <4>6. r.size = r.inbound + r.granting + r.owed + r.unreturned + held[s]
          BY <2>3, <2>5, <3>4, <4>5
        <4>7. win'[s].size = Outside(win[s])' + held'[s] /\ ~closed'[s]
          BY <2>6, <2>9, <3>5, <4>6 DEF Outside
        <4> QED BY <1>4, <4>1, <4>2, <4>3, <4>4, <4>7, StreamLedgerNext
      <3>8. StreamStep(s)
        <4>1. ASSUME NEW k \in Scenes, scene = k PROVE StreamWindow(k, s)!Receiver
          <5>1. /\ StreamWindow(k, s)!Admit(win[s], n) = win'[s]
                /\ StreamWindow(k, s)!AdmitAllowed(win[s], n)
            BY <3>1, <3>3, <3>5, StreamOperators
          <5>2. StreamWindow(k, s)!FlushGrant(n)
            BY <2>5, <2>6, <3>2, <3>6, <5>1 DEF StreamWindow!FlushGrant
          <5> QED BY <2>7, <4>1, <5>2 DEF StreamWindow!Receiver
        <4> QED BY <4>1, StreamReceives
      <3>9. ConnectionLedger' /\ ConnectionStep
        <4>1. /\ CreditFor(credits, Connection)' = CreditFor(credits, Connection)
              /\ CreditFor(deferred, Connection)' = CreditFor(deferred, Connection)
              /\ Cardinality(Positions(deferred, Connection))' =
                   Cardinality(Positions(deferred, Connection))
          BY <1>6, <1>8, <1>11, <3>2
        <4> QED BY <1>4, <1>9, <3>2, <4>1, ConnectionFrame
      <3>10. ASSUME NEW t \in Streams, t # s PROVE StreamLedger(t)' /\ StreamStep(t)
        <4>1. /\ CreditFor(credits, t)' = CreditFor(credits, t)
              /\ CreditFor(deferred, t)' = CreditFor(deferred, t)
              /\ Cardinality(Positions(deferred, t))' = Cardinality(Positions(deferred, t))
          BY <1>6, <1>8, <2>1, <3>2, <3>10
        <4>2. win'[t] = win[t] /\ closed'[t] = closed[t] /\ out'[t] = out[t]
              /\ held'[t] = held[t]
          BY <1>4, <3>5, <3>10
        <4> QED BY <1>4, <3>2, <4>1, <4>2, StreamFrame
      <3> QED BY <1>3, <1>7, <1>8, <3>2, <3>5, <3>7, <3>8, <3>9, <3>10
    <2> QED BY <1>3, <2>8, <2>9
  <1> QED BY <1>10, <1>11

\* complete_control_locked frees a slot of the connection window.
LEMMA ConnectionGrantSentWindows ==
    ASSUME FInv, ConnectionGrantSent
    PROVE  /\ failed' = failed
           /\ ConnectionLedger' /\ ConnectionStep
           /\ \A t \in Streams : StreamLedger(t)' /\ StreamStep(t)
           /\ conn' \in Window
  <1>1. /\ win' = win /\ held' = held /\ closed' = closed /\ deferred' = deferred
        /\ flight' = flight /\ credits' = credits /\ scene' = scene /\ failed' = failed
        /\ out' = out /\ outConn' = outConn /\ parked' = parked
        /\ conn.queued > Unsent(Connection)
    BY DEF ConnectionGrantSent, sendVars
  <1>2. PICK max \in Nat : max = scene.connection.maximum /\ conn.size <= max
    BY ConnectionKnown
  <1>3. PICK fast \in BOOLEAN : conn' = CompleteConnection(conn, max, fast)
    BY <1>2 DEF ConnectionGrantSent
  <1>4. PICK r : r = CompleteConnection(conn, max, fast)
    OBVIOUS
  <1>5. /\ conn.queued \in Nat /\ Cardinality(Positions(deferred, Connection)) \in Nat
        /\ conn.queued > Cardinality(Positions(deferred, Connection)) /\ conn \in Window
    BY <1>1, UnsentIs, ConnectionKnown
  <1>6. conn.queued # 0
    BY <1>5
  <1>7. Balanced(conn, r) /\ r.size <= max /\ r.queued = conn.queued - 1
    BY <1>2, <1>4, <1>5, <1>6, CompleteBalanced
  <1>8. /\ r \in Window /\ r.inbound = conn.inbound /\ r.granting = conn.granting
        /\ r.size - Outside(r) = conn.size - Outside(conn)
    BY <1>7 DEF Balanced
  <1>9. conn' = r
    BY <1>3, <1>4
  <1>10. TotalHeld' = TotalHeld
    BY <1>1, TotalHeldIs, TotalHeldNext
  <1>11. /\ CreditFor(credits, Connection)' = CreditFor(credits, Connection)
         /\ CreditFor(deferred, Connection)' = CreditFor(deferred, Connection)
         /\ Cardinality(Positions(deferred, Connection))' =
              Cardinality(Positions(deferred, Connection))
         /\ BytesIn(parked, Streams)' = BytesIn(parked, Streams)
         /\ BytesIn(flight, Streams)' = BytesIn(flight, Streams)
         /\ outConn' = outConn
    BY <1>1
  <1>12. ConnectionLedger'
    <2>1. conn'.size = Outside(conn)' + TotalHeld'
      <3>1. /\ Outside(conn) \in Nat /\ conn.size = Outside(conn) + TotalHeld
            /\ conn.size \in Nat /\ TotalHeld \in Nat
        BY ConnectionKnown DEF Outside
      <3>2. r.size \in Nat /\ Outside(r) \in Nat
        BY <1>8 DEF Window, Outside
      <3>3. r.size = Outside(r) + TotalHeld
        BY <1>8, <3>1, <3>2
      <3> QED BY <1>9, <1>10, <3>3
    <2>2. /\ conn'.inbound = conn.inbound /\ conn'.granting = conn.granting
          /\ conn'.queued = conn.queued - 1
      BY <1>7, <1>8, <1>9
    <2>3. /\ conn'.inbound >= outConn' + BytesIn(parked, Streams)' + BytesIn(flight, Streams)'
                              + CreditFor(credits, Connection)'
          /\ conn'.granting = CreditFor(deferred, Connection)'
      BY <1>11, <2>2, ConnectionKnown
    <2>4. conn'.queued >= Cardinality(Positions(deferred, Connection))'
      BY <1>5, <1>11, <2>2
    <2>5. conn'.size <= scene.connection.maximum
      BY <1>2, <1>7, <1>9
    <2> QED BY <1>1, <2>1, <2>3, <2>4, <2>5, ConnectionLedgerNext
  <1>13. ConnectionStep
    <2>1. ASSUME NEW k \in Scenes, scene = k PROVE ConnectionWindow(k)!Receiver
      <3>1. ConnectionWindow(k)!CompleteConnection(conn, k.connection.maximum, fast) = conn'
        BY <1>2, <1>3, <2>1, ConnectionOperators
      <3>2. ConnectionWindow(k)!GrantSent(0, fast)
        BY <1>1, <1>6, <1>10, <1>11, <3>1 DEF ConnectionWindow!GrantSent
      <3>3. 0 \in 0..MaxFrame
        BY FrameAssumption
      <3> QED BY <3>2, <3>3 DEF ConnectionWindow!Receiver
    <2> QED BY <2>1, ConnectionReceives
  <1>14. ASSUME NEW t \in Streams PROVE StreamLedger(t)' /\ StreamStep(t)
    BY <1>1, StreamFrame
  <1> QED BY <1>1, <1>8, <1>9, <1>12, <1>13, <1>14

\* Of a stream's window too; the stream's growth raises the connection window.
LEMMA StreamGrantSentWindows ==
    ASSUME FInv, NEW s \in Streams, StreamGrantSent(s)
    PROVE  /\ failed' = failed
           /\ ConnectionLedger' /\ ConnectionStep
           /\ \A t \in Streams : StreamLedger(t)' /\ StreamStep(t)
           /\ conn' \in Window /\ win' \in [Streams -> Window]
  <1>1. /\ held' = held /\ closed' = closed /\ deferred' = deferred
        /\ flight' = flight /\ credits' = credits /\ scene' = scene /\ failed' = failed
        /\ out' = out /\ outConn' = outConn /\ parked' = parked
        /\ win[s].queued > Unsent(s)
    BY DEF StreamGrantSent, sendVars
  <1>2. /\ win \in [Streams -> Window] /\ closed \in [Streams -> BOOLEAN]
        /\ largest \in [Streams -> 0..MaxFrame] /\ conn \in Window
    BY DEF FInv, TypeOK
  <1>3. PICK cmax \in Nat, max \in Nat :
            /\ cmax = scene.connection.maximum /\ conn.size <= cmax
            /\ max = scene.stream.maximum /\ win[s].size <= max
    BY ConnectionKnown, StreamKnown
  <1>4. /\ win[s].queued \in Nat /\ Cardinality(Positions(deferred, s)) \in Nat
        /\ win[s].queued > Cardinality(Positions(deferred, s)) /\ win[s] \in Window
    BY <1>1, UnsentIs, StreamKnown
  <1>5. PICK freed : freed = [win[s] EXCEPT !.queued = @ - 1]
    OBVIOUS
  <1>6. /\ freed \in Window /\ freed.size = win[s].size /\ freed.inbound = win[s].inbound
        /\ freed.granting = win[s].granting /\ freed.queued = win[s].queued - 1
        /\ Outside(freed) = Outside(win[s])
    <2>1. PICK q \in Nat : q = win[s].queued - 1
      BY <1>4
    <2>2. freed = [win[s] EXCEPT !.queued = q]
      BY <1>5, <2>1
    <2> QED BY <1>4, <2>1, <2>2 DEF Window, Outside
  <1>7. PICK fast \in BOOLEAN :
            IF closed[s] THEN win' = [win EXCEPT ![s] = freed] /\ conn' = conn
            ELSE /\ win' = [win EXCEPT ![s] = Collect(freed, s, fast)]
                 /\ conn' = Raised(conn, freed, s, fast)
    <2>1. CASE closed[s]
      <3>1. win' = [win EXCEPT ![s] = freed] /\ conn' = conn
        BY <1>5, <2>1 DEF StreamGrantSent
      <3> QED BY <2>1, <3>1
    <2>2. CASE ~closed[s]
      BY <1>5, <2>2 DEF StreamGrantSent
    <2> QED BY <2>1, <2>2
  <1>8. PICK floor \in 0..cmax : conn' = RaiseFloor(conn, floor, cmax)
    <2>1. CASE closed[s]
      <3>1. RaiseFloor(conn, 0, cmax) = conn
        BY <1>2, RaiseZero
      <3>2. 0 \in 0..cmax
        OBVIOUS
      <3> QED BY <1>7, <2>1, <3>1, <3>2
    <2>2. CASE ~closed[s]
      <3>1. freed.size <= scene.stream.maximum
        BY <1>3, <1>6
      <3>2. PICK floor \in 0..cmax : Raised(conn, freed, s, fast) = RaiseFloor(conn, floor, cmax)
        BY <1>3, <1>6, <3>1, RaisedIs
      <3> QED BY <1>7, <2>2, <3>2
    <2> QED BY <2>1, <2>2
  <1>9. PICK c : c = RaiseFloor(conn, floor, cmax)
    OBVIOUS
  <1>10. Balanced(conn, c) /\ c.size <= cmax /\ c.queued = conn.queued
    BY <1>2, <1>3, <1>9, RaiseBalanced
  <1>11. /\ c \in Window /\ c.inbound = conn.inbound /\ c.granting = conn.granting
         /\ c.size - Outside(c) = conn.size - Outside(conn)
    BY <1>10 DEF Balanced
  <1>12. conn' = c
    BY <1>8, <1>9
  <1>13. TotalHeld' = TotalHeld
    BY <1>1, TotalHeldIs, TotalHeldNext
  <1>14. /\ CreditFor(credits, Connection)' = CreditFor(credits, Connection)
         /\ CreditFor(deferred, Connection)' = CreditFor(deferred, Connection)
         /\ Cardinality(Positions(deferred, Connection))' =
              Cardinality(Positions(deferred, Connection))
         /\ BytesIn(parked, Streams)' = BytesIn(parked, Streams)
         /\ BytesIn(flight, Streams)' = BytesIn(flight, Streams)
         /\ outConn' = outConn
    BY <1>1
  <1>15. ConnectionLedger'
    <2>1. conn'.size = Outside(conn)' + TotalHeld'
      <3>1. /\ Outside(conn) \in Nat /\ conn.size = Outside(conn) + TotalHeld
            /\ conn.size \in Nat /\ TotalHeld \in Nat
        BY ConnectionKnown DEF Outside
      <3>2. c.size \in Nat /\ Outside(c) \in Nat
        BY <1>11 DEF Window, Outside
      <3>3. c.size = Outside(c) + TotalHeld
        BY <1>11, <3>1, <3>2
      <3> QED BY <1>12, <1>13, <3>3
    <2>2. /\ conn'.inbound = conn.inbound /\ conn'.granting = conn.granting
          /\ conn'.queued = conn.queued
      BY <1>10, <1>11, <1>12
    <2>3. /\ conn'.inbound >= outConn' + BytesIn(parked, Streams)' + BytesIn(flight, Streams)'
                              + CreditFor(credits, Connection)'
          /\ conn'.granting = CreditFor(deferred, Connection)'
          /\ conn'.queued >= Cardinality(Positions(deferred, Connection))'
      BY <1>14, <2>2, ConnectionKnown
    <2>4. conn'.size <= scene.connection.maximum
      BY <1>3, <1>10, <1>12
    <2> QED BY <1>1, <2>1, <2>3, <2>4, ConnectionLedgerNext
  <1>16. ConnectionStep
    <2>1. ASSUME NEW k \in Scenes, scene = k PROVE ConnectionWindow(k)!Receiver
      <3>1. ConnectionWindow(k)!RaiseFloor(conn, floor, k.connection.maximum) = conn'
        BY <1>3, <1>8, <2>1, ConnectionOperators
      <3>2. ConnectionWindow(k)!Raise(floor)
        BY <1>1, <1>13, <1>14, <3>1 DEF ConnectionWindow!Raise
      <3>3. floor \in ConnectionWindow(k)!Floors
        BY <1>3, <2>1 DEF ConnectionWindow!Floors
      <3> QED BY <3>2, <3>3 DEF ConnectionWindow!Receiver
    <2> QED BY <2>1, ConnectionReceives
  <1>17. PICK w : w = IF closed[s] THEN freed ELSE Collect(freed, s, fast)
    OBVIOUS
  <1>18. /\ w \in Window /\ w.size <= max /\ w.inbound = win[s].inbound
         /\ w.granting = win[s].granting /\ w.queued = win[s].queued - 1
         /\ ~closed[s] => w.size - Outside(w) = win[s].size - Outside(win[s])
         /\ closed[s] => w.size = win[s].size
    <2>1. CASE closed[s]
      BY <1>3, <1>6, <1>17, <2>1
    <2>2. CASE ~closed[s]
      <3>1. w = CollectStream(freed, largest[s], max, fast)
        BY <1>3, <1>17, <2>2 DEF Collect
      <3>2. freed.size <= max
        BY <1>3, <1>6
      <3>3. Balanced(freed, w) /\ w.size <= max /\ w.queued = freed.queued
        BY <1>6, <3>1, <3>2, CollectBalanced
      <3>4. /\ w \in Window /\ w.inbound = freed.inbound /\ w.granting = freed.granting
            /\ w.size - Outside(w) = freed.size - Outside(freed)
        BY <3>3 DEF Balanced
      <3> QED BY <1>6, <2>2, <3>3, <3>4
    <2> QED BY <2>1, <2>2
  <1>19. win' \in [Streams -> Window] /\ win'[s] = w
         /\ \A t \in Streams : t # s => win'[t] = win[t]
    <2>1. win' = [win EXCEPT ![s] = w]
      BY <1>7, <1>17
    <2> QED BY <1>2, <1>18, <2>1
  <1>20. /\ CreditFor(credits, s)' = CreditFor(credits, s)
         /\ CreditFor(deferred, s)' = CreditFor(deferred, s)
         /\ Cardinality(Positions(deferred, s))' = Cardinality(Positions(deferred, s))
         /\ BytesIn(parked, {s})' = BytesIn(parked, {s})
         /\ BytesIn(flight, {s})' = BytesIn(flight, {s})
         /\ out'[s] = out[s] /\ held'[s] = held[s] /\ closed'[s] = closed[s]
    BY <1>1
  <1>21. StreamLedger(s)'
    <2>1. /\ win'[s].inbound = win[s].inbound /\ win'[s].granting = win[s].granting
          /\ win'[s].queued = win[s].queued - 1 /\ win'[s].size <= scene.stream.maximum
      BY <1>3, <1>18, <1>19
    <2>2. /\ win'[s].inbound >= out'[s] + BytesIn(parked, {s})' + BytesIn(flight, {s})'
                                + CreditFor(credits, s)'
          /\ win'[s].granting = CreditFor(deferred, s)'
      BY <1>20, <2>1, StreamKnown
    <2>3. win'[s].queued >= Cardinality(Positions(deferred, s))'
      BY <1>4, <1>20, <2>1
    <2>4. IF ~closed'[s] THEN win'[s].size = Outside(win[s])' + held'[s]
          ELSE win'[s].size >= win'[s].inbound + win'[s].granting + held'[s]
      <3>1. CASE closed[s]
        <4>1. win'[s].size = win[s].size
          BY <1>18, <1>19, <3>1
        <4>2. win'[s].size >= win'[s].inbound + win'[s].granting + held'[s]
          BY <1>20, <2>1, <4>1, StreamKnown
        <4> QED BY <1>20, <3>1, <4>2
      <3>2. CASE ~closed[s]
        <4>1. /\ win[s].size \in Nat /\ Outside(win[s]) \in Nat /\ held[s] \in Nat
              /\ win[s].size = Outside(win[s]) + held[s]
          BY <3>2, StreamKnown, StreamOutside
        <4>2. w.size \in Nat /\ Outside(w) \in Nat
          BY <1>18 DEF Window, Outside
        <4>3. w.size - Outside(w) = win[s].size - Outside(win[s])
          BY <1>18, <3>2
        <4>4. w.size = Outside(w) + held[s]
          BY <4>1, <4>2, <4>3
        <4> QED BY <1>19, <1>20, <3>2, <4>4
      <3> QED BY <3>1, <3>2
    <2> QED BY <1>1, <2>1, <2>2, <2>3, <2>4, StreamLedgerNext
  <1>22. StreamStep(s)
    <2>1. ASSUME NEW k \in Scenes, scene = k PROVE StreamWindow(k, s)!Receiver
      <3>0. win[s].queued # 0
        BY <1>4
      <3>1. StreamWindow(k, s)!GrantSent(largest[s], fast)
        <4>1. CASE closed[s]
          <5>1. win'[s] = [win[s] EXCEPT !.queued = @ - 1]
            BY <1>5, <1>17, <1>19, <4>1
          <5> QED BY <1>1, <1>20, <3>0, <4>1, <5>1 DEF StreamWindow!GrantSent
        <4>2. CASE ~closed[s]
          <5>1. win'[s] = CompleteStream(win[s], largest[s], k.stream.maximum, fast)
            BY <1>5, <1>17, <1>19, <2>1, <4>2 DEF Collect, CompleteStream
          <5>2. StreamWindow(k, s)!CompleteStream(win[s], largest[s], k.stream.maximum, fast)
                  = win'[s]
            BY <5>1, StreamOperators
          <5> QED BY <1>1, <1>20, <3>0, <4>2, <5>2 DEF StreamWindow!GrantSent
        <4> QED BY <4>1, <4>2
      <3>2. largest[s] \in 0..MaxFrame
        BY <1>2
      <3> QED BY <3>1, <3>2 DEF StreamWindow!Receiver
    <2> QED BY <2>1, StreamReceives
  <1>23. ASSUME NEW t \in Streams, t # s PROVE StreamLedger(t)' /\ StreamStep(t)
    <2>1. /\ closed'[t] = closed[t] /\ out'[t] = out[t] /\ held'[t] = held[t]
          /\ BytesIn(parked, {t})' = BytesIn(parked, {t})
          /\ BytesIn(flight, {t})' = BytesIn(flight, {t})
          /\ CreditFor(credits, t)' = CreditFor(credits, t)
          /\ CreditFor(deferred, t)' = CreditFor(deferred, t)
          /\ Cardinality(Positions(deferred, t))' = Cardinality(Positions(deferred, t))
      BY <1>1
    <2>2. win'[t] = win[t]
      BY <1>19, <1>23
    <2> QED BY <1>1, <2>1, <2>2, StreamFrame
  <1> QED BY <1>1, <1>11, <1>12, <1>15, <1>16, <1>19, <1>21, <1>22, <1>23

-----------------------------------------------------------------------------
(* The whole session. *)

\* What every step has to establish.
Accounted ==
    /\ FInv'
    /\ ConnectionStep
    /\ \A t \in Streams : StreamStep(t)

\* The invariant after a step, from its parts.
LEMMA AccountedFrom ==
    ASSUME FInv, TypeOK', failed' = failed,
           UpdatesOK(deferred, scene)', UpdatesOK(credits, scene)',
           ConnectionLedger' /\ ConnectionStep,
           \A t \in Streams : StreamLedger(t)' /\ StreamStep(t)
    PROVE  Accounted
  BY DEF FInv, Accounted

\* A step that leaves the queues of credit updates alone.
LEMMA SameUpdates ==
    ASSUME FInv, deferred' = deferred, credits' = credits, scene' = scene
    PROVE  UpdatesOK(deferred, scene)' /\ UpdatesOK(credits, scene)'
  BY DEF FInv

\* The sender's steps.
LEMMA SenderAccounted ==
    ASSUME FInv, Publish \/ FlushData \/ ReceiveCredit
                 \/ \E s \in Streams : SenderCloses(s)
    PROVE  Accounted
  <1>1. TypeOK
    BY DEF FInv
  <1>2. CASE Publish
    <2>1. PICK s \in Streams : s = Turn /\ Size[s] <= out[s] /\ todo[s] # 0
      BY <1>2, TurnIsReady DEF Publish, Ready
    <2>2. PICK n \in 1..MaxFrame : n = Size[s]
      BY StreamsAssumption
    <2>3. n \in Nat /\ n <= out[s] /\ n <= outConn
      BY <1>2, <2>1, <2>2, FrameAssumption DEF Publish
    <2>4. /\ todo' = [todo EXCEPT ![s] = @ - 1] /\ out' = [out EXCEPT ![s] = @ - n]
          /\ outConn' = outConn - n /\ cursor' = s
          /\ \/ parked' = Append(parked, s) /\ flight' = flight
             \/ flight' = Append(flight, s) /\ parked' = parked
          /\ UNCHANGED <<recvVars, dead, credits, barred, scene, failed>>
      BY <1>2, <2>1, <2>2 DEF Publish
    <2>5. parked' \in Seq(Streams) /\ flight' \in Seq(Streams)
      BY <1>1, <2>4, Joined DEF TypeOK
    <2>6. todo[s] - 1 \in Nat /\ out[s] - n \in Nat /\ outConn - n \in Nat
      <3>1. todo[s] \in Nat /\ out[s] \in Nat /\ outConn \in Nat
        BY <1>1 DEF TypeOK
      <3> QED BY <2>1, <2>3, <3>1
    <2>7. todo' \in [Streams -> Nat] /\ out' \in [Streams -> Nat] /\ outConn' \in Nat
      BY <1>1, <2>4, <2>6 DEF TypeOK
    <2>8. TypeOK'
      BY <1>1, <2>4, <2>5, <2>7 DEF TypeOK, recvVars
    <2>9. UpdatesOK(deferred, scene)' /\ UpdatesOK(credits, scene)'
      BY <2>4, SameUpdates DEF recvVars
    <2> QED BY <1>2, <2>4, <2>8, <2>9, PublishWindows, AccountedFrom
  <1>3. CASE FlushData
    <2>1. PICK s : s = Head(parked)
      OBVIOUS
    <2>2. parked \in Seq(Streams) /\ parked # <<>> /\ flight \in Seq(Streams)
      BY <1>1, <1>3 DEF TypeOK, FlushData
    <2>3. s \in Streams /\ Tail(parked) \in Seq(Streams) /\ Size[s] \in 1..MaxFrame
      BY <2>1, <2>2, Left
    <2>4. Append(flight, s) \in Seq(Streams)
      BY <2>2, <2>3, Joined
    <2>5. /\ parked' = Tail(parked)
          /\ \/ outConn' = outConn + Size[s] /\ flight' = flight
             \/ flight' = Append(flight, s) /\ outConn' = outConn
          /\ UNCHANGED <<recvVars, out, todo, dead, cursor, credits, barred, scene, failed>>
      BY <1>3, <2>1 DEF FlushData
    <2>6. outConn' \in Nat
      <3>1. outConn \in Nat /\ Size[s] \in Nat
        BY SMTT(30), <1>1, <2>3, FrameAssumption DEF TypeOK
      <3> QED BY <2>5, <3>1
    <2>7. TypeOK'
      BY <1>1, <2>2, <2>3, <2>4, <2>5, <2>6 DEF TypeOK, recvVars
    <2>8. UpdatesOK(deferred, scene)' /\ UpdatesOK(credits, scene)'
      BY <2>5, SameUpdates DEF recvVars
    <2> QED BY <1>3, <2>5, <2>7, <2>8, FlushDataWindows, AccountedFrom
  <1>4. CASE ReceiveCredit
    <2>1. /\ failed' = failed /\ outConn' \in Nat /\ out' \in [Streams -> Nat]
          /\ UpdatesOK(credits, scene)'
      BY <1>4, ReceiveCreditWindows
    <2>2. UNCHANGED <<recvVars, todo, dead, cursor, parked, flight, barred, scene>>
      BY <1>4 DEF ReceiveCredit
    <2>3. TypeOK'
      BY <1>1, <2>1, <2>2 DEF TypeOK, recvVars
    <2>4. UpdatesOK(deferred, scene)'
      BY <2>2 DEF recvVars, FInv
    <2> QED BY <1>4, <2>1, <2>3, <2>4, ReceiveCreditWindows, AccountedFrom
  <1>5. CASE \E s \in Streams : SenderCloses(s)
    <2>1. PICK s \in Streams : SenderCloses(s)
      BY <1>5
    <2>2. /\ dead' = [dead EXCEPT ![s] = TRUE] /\ todo' = [todo EXCEPT ![s] = 0]
          /\ UNCHANGED <<recvVars, outConn, out, cursor, parked, flight, credits,
                         barred, scene, failed>>
      BY <2>1 DEF SenderCloses
    <2>3. TypeOK'
      BY <1>1, <2>2 DEF TypeOK, recvVars
    <2>4. UpdatesOK(deferred, scene)' /\ UpdatesOK(credits, scene)'
      BY <2>2, SameUpdates DEF recvVars
    <2>5. UNCHANGED <<conn, win, held, closed, outConn, out, parked, flight,
                      deferred, credits, scene, failed>>
      BY <2>2 DEF recvVars
    <2> QED BY <2>3, <2>4, <2>5, NoWindow, AccountedFrom
  <1> QED BY <1>2, <1>3, <1>4, <1>5

\* The receiver's steps that take in, release or discard data.
LEMMA DataAccounted ==
    ASSUME FInv, Deliver \/ \E s \in Streams : Consume(s) \/ CloseStream(s)
    PROVE  Accounted
  <1>1. TypeOK
    BY DEF FInv
  <1>2. CASE Deliver
    <2>1. /\ failed' = failed /\ conn' \in Window /\ win' \in [Streams -> Window]
          /\ held' \in [Streams -> Nat] /\ largest' \in [Streams -> 0..MaxFrame]
      BY <1>2, DeliverWindows
    <2>2. /\ flight' = Tail(flight) /\ closed' = closed /\ deferred' = deferred
          /\ UNCHANGED <<sendVars, credits, barred, scene>>
      BY <1>2 DEF Deliver, recvVars
    <2>3. flight' \in Seq(Streams)
      <3>1. flight \in Seq(Streams) /\ flight # <<>>
        BY <1>1, <1>2 DEF TypeOK, Deliver
      <3>2. Tail(flight) \in Seq(Streams)
        BY <3>1, Left
      <3> QED BY <2>2, <3>2
    <2>4. TypeOK'
      BY <1>1, <2>1, <2>2, <2>3 DEF TypeOK, sendVars
    <2>5. UpdatesOK(deferred, scene)' /\ UpdatesOK(credits, scene)'
      BY <2>2, SameUpdates
    <2> QED BY <1>2, <2>1, <2>4, <2>5, DeliverWindows, AccountedFrom
  <1>3. ASSUME NEW s \in Streams, Consume(s) PROVE Accounted
    <2>1. /\ failed' = failed /\ conn' \in Window /\ win' \in [Streams -> Window]
          /\ held' \in [Streams -> Nat]
      BY <1>3, ConsumeWindows
    <2>2. UNCHANGED <<sendVars, largest, closed, deferred, flight, credits, barred, scene>>
      BY <1>3 DEF Consume
    <2>3. TypeOK'
      BY <1>1, <2>1, <2>2 DEF TypeOK, sendVars
    <2>4. UpdatesOK(deferred, scene)' /\ UpdatesOK(credits, scene)'
      BY <2>2, SameUpdates
    <2> QED BY <1>3, <2>1, <2>3, <2>4, ConsumeWindows, AccountedFrom
  <1>4. ASSUME NEW s \in Streams, CloseStream(s) PROVE Accounted
    <2>1. failed' = failed /\ win' \in [Streams -> Window]
      BY <1>4, CloseWindows
    <2>2. /\ closed' = [closed EXCEPT ![s] = TRUE]
          /\ UNCHANGED <<sendVars, conn, largest, held, deferred, flight, credits,
                         barred, scene>>
      BY <1>4 DEF CloseStream
    <2>3. TypeOK'
      BY <1>1, <2>1, <2>2 DEF TypeOK, sendVars
    <2>4. UpdatesOK(deferred, scene)' /\ UpdatesOK(credits, scene)'
      BY <2>2, SameUpdates
    <2> QED BY <1>4, <2>1, <2>3, <2>4, CloseWindows, AccountedFrom
  <1> QED BY <1>2, <1>3, <1>4

\* The receiver's steps that grant credit.
LEMMA CreditAccounted ==
    ASSUME FInv, \/ GrantConnection \/ FlushCredit \/ ConnectionGrantSent
                 \/ \E s \in Streams : GrantStream(s) \/ StreamGrantSent(s)
    PROVE  Accounted
  <1>1. TypeOK
    BY DEF FInv
  <1>2. CASE GrantConnection
    <2>1. failed' = failed /\ conn' \in Window
      BY <1>2, GrantConnectionWindows
    <2>2. UNCHANGED <<sendVars, win, largest, held, closed, flight, barred, scene>>
      BY <1>2 DEF GrantConnection
    <2>3. TypeOK'
      BY <1>1, <2>1, <2>2 DEF TypeOK, sendVars
    <2> QED BY <1>2, <2>3, GrantConnectionWindows, AccountedFrom
  <1>3. CASE FlushCredit
    <2>1. failed' = failed /\ conn' \in Window /\ win' \in [Streams -> Window]
      BY <1>3, FlushCreditWindows
    <2>2. UNCHANGED <<sendVars, largest, held, closed, flight, barred, scene>>
      BY <1>3 DEF FlushCredit
    <2>3. TypeOK'
      BY <1>1, <2>1, <2>2 DEF TypeOK, sendVars
    <2> QED BY <1>3, <2>3, FlushCreditWindows, AccountedFrom
  <1>4. CASE ConnectionGrantSent
    <2>1. failed' = failed /\ conn' \in Window
      BY <1>4, ConnectionGrantSentWindows
    <2>2. UNCHANGED <<sendVars, win, largest, held, closed, deferred, flight, credits,
                      barred, scene>>
      BY <1>4 DEF ConnectionGrantSent
    <2>3. TypeOK'
      BY <1>1, <2>1, <2>2 DEF TypeOK, sendVars
    <2>4. UpdatesOK(deferred, scene)' /\ UpdatesOK(credits, scene)'
      BY <2>2, SameUpdates
    <2> QED BY <1>4, <2>3, <2>4, ConnectionGrantSentWindows, AccountedFrom
  <1>5. ASSUME NEW s \in Streams, GrantStream(s) PROVE Accounted
    <2>1. failed' = failed /\ win' \in [Streams -> Window]
      BY <1>5, GrantStreamWindows
    <2>2. UNCHANGED <<sendVars, conn, largest, held, closed, flight, barred, scene>>
      BY <1>5 DEF GrantStream
    <2>3. TypeOK'
      BY <1>1, <2>1, <2>2 DEF TypeOK, sendVars
    <2> QED BY <1>5, <2>3, GrantStreamWindows, AccountedFrom
  <1>6. ASSUME NEW s \in Streams, StreamGrantSent(s) PROVE Accounted
    <2>1. failed' = failed /\ conn' \in Window /\ win' \in [Streams -> Window]
      BY <1>6, StreamGrantSentWindows
    <2>2. UNCHANGED <<sendVars, largest, held, closed, deferred, flight, credits,
                      barred, scene>>
      BY <1>6 DEF StreamGrantSent
    <2>3. TypeOK'
      BY <1>1, <2>1, <2>2 DEF TypeOK, sendVars
    <2>4. UpdatesOK(deferred, scene)' /\ UpdatesOK(credits, scene)'
      BY <2>2, SameUpdates
    <2> QED BY <1>6, <2>3, <2>4, StreamGrantSentWindows, AccountedFrom
  <1> QED BY <1>2, <1>3, <1>4, <1>5, <1>6

\* A rotation that begins or ends changes no window.
LEMMA RotationAccounted ==
    ASSUME FInv, NEW side \in {"sender", "receiver"}, Bar(side) \/ Unbar(side)
    PROVE  Accounted
  <1>1. TypeOK
    BY DEF FInv
  <1>2. /\ \E b \in BOOLEAN : barred' = [barred EXCEPT ![side] = b]
        /\ UNCHANGED <<sendVars, recvVars, flight, credits, scene, failed>>
    BY DEF Bar, Unbar
  <1>3. TypeOK'
    BY <1>1, <1>2 DEF TypeOK, sendVars, recvVars
  <1>4. UNCHANGED <<conn, win, held, closed, outConn, out, parked, flight,
                    deferred, credits, scene, failed>>
    BY <1>2 DEF sendVars, recvVars
  <1>5. UpdatesOK(deferred, scene)' /\ UpdatesOK(credits, scene)'
    BY <1>4, SameUpdates
  <1> QED BY <1>3, <1>4, <1>5, NoWindow, AccountedFrom

\* Every step of the session.
LEMMA NextAccounted ==
    ASSUME FInv, Next
    PROVE  Accounted
  <1>1. Progress \/ Elective
    BY DEF Next
  <1>2. scene \in SceneSet /\ Stalled \subseteq Streams
    BY ScenesAssumption, StreamsAssumption DEF FInv, TypeOK
  <1>3. scene.closing \subseteq Streams /\ scene.rotating \subseteq {"sender", "receiver"}
    BY <1>2 DEF SceneSet
  <1>4. CASE Progress
    BY <1>2, <1>4, SenderAccounted, DataAccounted, CreditAccounted DEF Progress
  <1>5. CASE Elective
    BY <1>2, <1>3, <1>5, DataAccounted, RotationAccounted DEF Elective
  <1> QED BY <1>1, <1>4, <1>5

\* A session that has just been opened.
LEMMA InitAccounted ==
    ASSUME Init
    PROVE  /\ FInv
           /\ \A k \in Scenes : scene = k => ConnectionWindow(k)!Init
           /\ \A k \in Scenes, s \in Streams : scene = k => StreamWindow(k, s)!Init
  <1>1. scene \in Scenes
    BY DEF Init
  <1>2. PICK ci \in Nat, cm \in Nat, si \in Nat, sm \in Nat :
            /\ ci = scene.connection.initial /\ cm = scene.connection.maximum
            /\ si = scene.stream.initial /\ sm = scene.stream.maximum
            /\ ci <= cm /\ si <= sm
    BY <1>1, SceneLimits
  <1>3. /\ conn = OpenWindow(ci) /\ win = [s \in Streams |-> OpenWindow(si)]
        /\ held = [s \in Streams |-> 0] /\ closed = [s \in Streams |-> FALSE]
        /\ out = [s \in Streams |-> 0] /\ outConn = 0 /\ failed = FALSE
        /\ parked = <<>> /\ flight = <<>> /\ deferred = <<>> /\ credits = <<>>
    BY <1>2 DEF Init
  <1>4. ASSUME NEW n \in Nat
        PROVE  /\ OpenWindow(n) \in Window /\ OpenWindow(n).size = n
               /\ OpenWindow(n).inbound = 0 /\ OpenWindow(n).granting = 0
               /\ OpenWindow(n).queued = 0 /\ Outside(OpenWindow(n)) = n
    BY DEF OpenWindow, Window, Outside
  <1>5. \A T : BytesIn(<<>>, T) = 0
    BY BytesInEmpty
  <1>6. \A to : CreditFor(<<>>, to) = 0 /\ Cardinality(Positions(<<>>, to)) = 0
    <2>1. ASSUME NEW to PROVE Positions(<<>>, to) = {}
      BY DEF Positions
    <2> QED BY <2>1, CreditForEmpty, FS_EmptySet
  <1>7. TotalHeld = 0
    <2>1. Tot(held) = 0
      <3>1. IsFiniteSet(Streams) /\ \A t \in Streams : held[t] = 0
        BY <1>3, StreamsAssumption
      <3> QED BY <3>1, TotZero
    <2> QED BY <2>1, TotalHeldIs
  <1>8. TypeOK
    <2>1. conn \in Window /\ win \in [Streams -> Window]
      BY <1>3, <1>4
    <2>2. /\ largest \in [Streams -> 0..MaxFrame] /\ todo \in [Streams -> Nat]
      <3>1. 0 \in 0..MaxFrame
        BY FrameAssumption
      <3>2. todo = scene.todo /\ largest = [s \in Streams |-> 0]
        BY DEF Init
      <3> QED BY <1>1, <3>1, <3>2, SceneLimits
    <2>3. parked \in Seq(Streams) /\ flight \in Seq(Streams)
      BY <1>3
    <2>4. /\ dead = [s \in Streams |-> FALSE] /\ cursor = 0
          /\ barred = [side \in {"sender", "receiver"} |-> FALSE]
      BY DEF Init
    <2> QED BY <1>1, <1>3, <2>1, <2>2, <2>3, <2>4 DEF TypeOK
  <1>9. UpdatesOK(deferred, scene) /\ UpdatesOK(credits, scene)
    BY <1>3 DEF UpdatesOK
  <1>10. ConnectionLedger
    <2>1. /\ BytesIn(parked, Streams) = 0 /\ BytesIn(flight, Streams) = 0
          /\ CreditFor(credits, Connection) = 0 /\ CreditFor(deferred, Connection) = 0
          /\ Cardinality(Positions(deferred, Connection)) = 0
      BY <1>3, <1>5, <1>6
    <2>2. /\ conn.size = ci /\ conn.inbound = 0 /\ conn.granting = 0 /\ conn.queued = 0
          /\ Outside(conn) = ci
      BY <1>3, <1>4
    <2> QED BY <1>2, <1>3, <1>7, <2>1, <2>2 DEF ConnectionLedger, Balance
  <1>11. ASSUME NEW s \in Streams PROVE StreamLedger(s)
    <2>1. /\ BytesIn(parked, {s}) = 0 /\ BytesIn(flight, {s}) = 0
          /\ CreditFor(credits, s) = 0 /\ CreditFor(deferred, s) = 0
          /\ Cardinality(Positions(deferred, s)) = 0
      BY <1>3, <1>5, <1>6
    <2>2. win[s] = OpenWindow(si) /\ held[s] = 0 /\ out[s] = 0 /\ ~closed[s]
      BY <1>3
    <2>3. /\ win[s].size = si /\ win[s].inbound = 0 /\ win[s].granting = 0
          /\ win[s].queued = 0 /\ Outside(win[s]) = si
      BY <1>4, <2>2
    <2> QED BY <1>2, <2>1, <2>2, <2>3 DEF StreamLedger, Balance
  <1>12. FInv
    BY <1>3, <1>8, <1>9, <1>10, <1>11 DEF FInv
  <1>13. ASSUME NEW k \in Scenes, scene = k PROVE ConnectionWindow(k)!Init
    <2>1. ConnectionWindow(k)!OpenWindow(k.connection.initial) = conn
      BY <1>2, <1>3, <1>13, ConnectionOperators
    <2>2. /\ BytesIn(parked, Streams) = 0 /\ BytesIn(flight, Streams) = 0
          /\ CreditFor(credits, Connection) = 0
      BY <1>3, <1>5, <1>6
    <2> QED BY <1>3, <1>7, <2>1, <2>2 DEF ConnectionWindow!Init
  <1>14. ASSUME NEW k \in Scenes, NEW s \in Streams, scene = k PROVE StreamWindow(k, s)!Init
    <2>1. StreamWindow(k, s)!OpenWindow(k.stream.initial) = win[s]
      BY <1>2, <1>3, <1>14, StreamOperators
    <2>2. /\ BytesIn(parked, {s}) = 0 /\ BytesIn(flight, {s}) = 0
          /\ CreditFor(credits, s) = 0
      BY <1>3, <1>5, <1>6
    <2>3. held[s] = 0 /\ out[s] = 0 /\ closed[s] = FALSE
      BY <1>3
    <2> QED BY <1>3, <2>1, <2>2, <2>3 DEF StreamWindow!Init
  <1> QED BY <1>12, <1>13, <1>14

\* A stuttering step.
LEMMA StutterAccounted ==
    ASSUME FInv, UNCHANGED fvars
    PROVE  FInv'
  <1>1. UNCHANGED <<conn, win, held, closed, outConn, out, parked, flight,
                    deferred, credits, scene, failed>>
    BY DEF fvars
  <1>2. TypeOK'
    BY DEF FInv, TypeOK, fvars
  <1>3. UpdatesOK(deferred, scene)' /\ UpdatesOK(credits, scene)'
    BY <1>1, SameUpdates
  <1>4. Accounted
    BY <1>1, <1>2, <1>3, NoWindow, AccountedFrom
  <1> QED BY <1>4 DEF Accounted

\* The session's ledger holds of every reachable state.
THEOREM SessionLedger == Spec => []FInv
  <1>1. Init => FInv
    BY InitAccounted
  <1>2. FInv /\ [Next]_fvars => FInv'
    BY NextAccounted, StutterAccounted DEF Accounted
  <1> QED BY <1>1, <1>2, PTL DEF Spec

\* For every set of streams, limits, writes, closes and rotations: none of the
\* engine's accounting checks fires between two peers that run it.
THEOREM SessionNeverFails == Spec => [](TypeOK /\ NeverFails)
  <1>1. FInv => TypeOK /\ NeverFails
    BY DEF FInv, NeverFails
  <1> QED BY <1>1, SessionLedger, PTL

\* The connection window of the session, shared by all of its streams, is a
\* CreditWindow: every handler of session_engine.cpp is a step of it or leaves
\* it alone.
THEOREM ConnectionRefines == Spec => ConnectionIsCreditWindow
  <1>1. Init => \A k \in Scenes : scene = k => ConnectionWindow(k)!Init
    BY InitAccounted
  <1>2. FInv /\ [Next]_fvars => [ConnectionStep]_fvars
    BY NextAccounted DEF Accounted
  <1>3. Spec => [][ConnectionStep]_fvars
    BY <1>2, SessionLedger, PTL DEF Spec
  <1> QED BY <1>1, <1>3, PTL DEF Spec, ConnectionIsCreditWindow, ConnectionStep

\* So is the window of every stream, until the receiver closes it.
THEOREM StreamsRefine == Spec => StreamsAreCreditWindows
  <1>1. Init => \A k \in Scenes, s \in Streams : scene = k => StreamWindow(k, s)!Init
    BY InitAccounted
  <1> DEFINE Step == \A k \in Scenes, s \in Streams : scene = k =>
                        \/ UNCHANGED StreamWindow(k, s)!cvars
                        \/ StreamWindow(k, s)!Next
  <1>2. FInv /\ [Next]_fvars => [Step]_fvars
    <2>1. ASSUME FInv, Next PROVE Step
      <3>1. \A t \in Streams : StreamStep(t)
        BY <2>1, NextAccounted DEF Accounted
      <3> QED BY <3>1 DEF StreamStep
    <2> QED BY <2>1
  <1>3. Spec => [][Step]_fvars
    BY <1>2, SessionLedger, PTL DEF Spec
  <1> QED BY <1>1, <1>3, PTL DEF Spec, StreamsAreCreditWindows

\* No schedule of writes, closes, rotations and stalled readers makes the peer
\* exceed max_connection_credit or max_stream_credit: the windows' growth never
\* outruns the bytes that are still in somebody's hands.
THEOREM SessionMemory == Spec => []MemoryBounded
  <1>1. ASSUME FInv PROVE MemoryBounded
    <2>1. TotalHeld + BytesIn(flight, Streams) + BytesIn(parked, Streams) + outConn
            <= scene.connection.maximum
      BY <1>1, ConnectionKnown
    <2>2. ASSUME NEW s \in Streams
          PROVE  held[s] + BytesIn(flight, {s}) + BytesIn(parked, {s}) + out[s]
                   <= scene.stream.maximum
      BY <1>1, StreamKnown
    <2> QED BY <2>1, <2>2 DEF MemoryBounded
  <1> QED BY <1>1, SessionLedger, PTL
=============================================================================

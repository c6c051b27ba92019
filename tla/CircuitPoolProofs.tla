-------------------------- MODULE CircuitPoolProofs --------------------------
(***************************************************************************)
(* Proofs about CircuitPool, for all lengths, attempts, capacities,        *)
(* requests and sessions.  A handler is a composition of functions on the  *)
(* pool's state, so the argument is too: every helper takes a Sound state  *)
(* to a Sound one and drops no request (Keeps), and what ends in a pump    *)
(* leaves no request waiting for nothing (Pending).                        *)
(***************************************************************************)
EXTENDS CircuitPool, SequenceTheorems, WellFoundedInduction, TLAPS

-----------------------------------------------------------------------------
(* Induction over the natural numbers in the form the provers can use: for a *)
(* set of numbers instead of a predicate.                                    *)

\* A set with 0 that is closed under successor holds every natural number.
LEMMA NatSetInduction ==
  ASSUME NEW S, 0 \in S, \A n \in Nat : n \in S => n + 1 \in S
  PROVE  Nat \subseteq S
  <1> DEFINE T == Nat \ S
             R == OpToRel(<, Nat)
  <1>1. SUFFICES ASSUME T # {} PROVE FALSE
    OBVIOUS
  <1>2. IsWellFoundedOn(R, Nat)
    BY NatLessThanWellFounded
  <1>3. \A x, y \in Nat : x < y => <<x, y>> \in R
    BY DEF OpToRel
  <1>4. PICK x \in T : \A y \in T : ~ (<<y, x>> \in R)
    <2> HIDE DEF T, R
    <2>1. T \subseteq Nat BY DEF T
    <2> QED BY <1>1, <1>2, <2>1, WFMin
  <1> HIDE DEF R
  <1>5. x # 0 /\ x \in Nat
    OBVIOUS
  <1>6. x - 1 \in Nat /\ x - 1 < x
    BY <1>5
  <1>7. x - 1 \notin T
    BY <1>3, <1>4, <1>5, <1>6
  <1> QED BY <1>5, <1>6, <1>7

\* Induction up to a bound.
LEMMA UpTo ==
  ASSUME NEW S, NEW m \in Nat, 0 \in S,
         \A n \in Nat : n < m /\ n \in S => n + 1 \in S
  PROVE  \A n \in 0..m : n \in S
  <1> DEFINE T == {n \in Nat : n <= m => n \in S}
  <1>1. 0 \in T
    OBVIOUS
  <1>2. \A n \in Nat : n \in T => n + 1 \in T
    OBVIOUS
  <1>3. Nat \subseteq T
    <2> HIDE DEF T
    <2> QED BY <1>1, <1>2, NatSetInduction
  <1> QED BY <1>3

-----------------------------------------------------------------------------
(* What Only computes. *)

OnlyBody(s, S, g, n) ==
    IF n = 0 THEN <<>>
    ELSE IF s[n] \in S THEN Append(g[n - 1], s[n])
    ELSE g[n - 1]

IsOnly(s, S, g, m) == g = [n \in 0..m |-> OnlyBody(s, S, g, n)]

\* The recursive definition inside Only has a solution for every length.
LEMMA OnlyExists ==
    ASSUME NEW s, NEW S, NEW m \in Nat
    PROVE  \E g : IsOnly(s, S, g, m)
  <1> DEFINE K == {k \in Nat : \E g : IsOnly(s, S, g, k)}
  <1>1. 0 \in K
    <2> DEFINE g == [i \in 0..0 |-> <<>>]
    <2>1. IsOnly(s, S, g, 0)
      BY DEF IsOnly, OnlyBody
    <2> QED BY <2>1
  <1>2. ASSUME NEW k \in Nat, k \in K PROVE k + 1 \in K
    <2>1. PICK g : IsOnly(s, S, g, k)
      BY <1>2
    <2> DEFINE h == [i \in 0..(k + 1) |-> IF i <= k THEN g[i] ELSE OnlyBody(s, S, g, i)]
    <2>2. \A i \in 0..k : g[i] = OnlyBody(s, S, g, i)
      BY <2>1 DEF IsOnly
    <2>3. ASSUME NEW i \in 0..(k + 1) PROVE h[i] = OnlyBody(s, S, h, i)
      <3>1. h[i] = OnlyBody(s, S, g, i)
        BY <2>2
      <3>2. i # 0 => h[i - 1] = g[i - 1]
        OBVIOUS
      <3> HIDE DEF h
      <3> QED BY <3>1, <3>2 DEF OnlyBody
    <2>4. h = [i \in 0..(k + 1) |-> OnlyBody(s, S, h, i)]
      <3>1. h = [i \in 0..(k + 1) |-> h[i]]
        OBVIOUS
      <3> HIDE DEF h
      <3> QED BY <2>3, <3>1
    <2> HIDE DEF h
    <2> QED BY <2>4 DEF IsOnly
  <1>3. Nat \subseteq K
    <2> HIDE DEF K
    <2> QED BY <1>1, <1>2, NatSetInduction
  <1> QED BY <1>3

\* Only keeps the elements that are in S, and nothing else.
LEMMA OnlyFacts ==
    ASSUME NEW T, NEW s \in Seq(T), NEW S
    PROVE  /\ Only(s, S) \in Seq(T)
           /\ ToSet(Only(s, S)) = ToSet(s) \cap S
  <1> DEFINE g == CHOOSE f : IsOnly(s, S, f, Len(s))
             P(n) == /\ g[n] \in Seq(T)
                     /\ ToSet(g[n]) = {s[i] : i \in 1..n} \cap S
             K == {n \in Nat : P(n)}
  <1>1. Only(s, S) = g[Len(s)]
    BY DEF Only, IsOnly, OnlyBody
  <1>2. IsOnly(s, S, g, Len(s))
    BY OnlyExists
  <1>3. \A n \in 0..Len(s) : g[n] = OnlyBody(s, S, g, n)
    <2> HIDE DEF g
    <2> QED BY <1>2 DEF IsOnly
  <1> HIDE DEF g
  <1>4. P(0)
    <2>1. g[0] = <<>>
      BY <1>3 DEF OnlyBody
    <2> QED BY <2>1 DEF ToSet
  <1>5. ASSUME NEW n \in Nat, n < Len(s), P(n) PROVE P(n + 1)
    <2>1. n + 1 \in 1..Len(s) /\ (n + 1) - 1 = n /\ s[n + 1] \in T
      BY <1>5
    <2>2. g[n + 1] = IF s[n + 1] \in S THEN Append(g[n], s[n + 1]) ELSE g[n]
      BY <1>3, <2>1 DEF OnlyBody
    <2>3. {s[i] : i \in 1..(n + 1)} = {s[i] : i \in 1..n} \cup {s[n + 1]}
      BY <2>1
    <2>4. ASSUME NEW q \in Seq(T), NEW e \in T
          PROVE  Append(q, e) \in Seq(T) /\ ToSet(Append(q, e)) = ToSet(q) \cup {e}
      <3>1. /\ Len(Append(q, e)) = Len(q) + 1 /\ Append(q, e)[Len(q) + 1] = e
            /\ \A i \in 1..Len(q) : Append(q, e)[i] = q[i]
            /\ Append(q, e) \in Seq(T)
        BY AppendProperties
      <3>2. DOMAIN q = 1..Len(q) /\ DOMAIN Append(q, e) = 1..(Len(q) + 1)
        BY <3>1
      <3> QED BY <3>1, <3>2 DEF ToSet
    <2> QED BY <1>5, <2>1, <2>2, <2>3, <2>4
  <1> HIDE DEF P
  <1>6. \A n \in 0..Len(s) : n \in K
    <2>1. 0 \in K /\ \A n \in Nat : n < Len(s) /\ n \in K => n + 1 \in K
      BY <1>4, <1>5
    <2> HIDE DEF K
    <2> QED BY <2>1, UpTo
  <1>7. P(Len(s))
    <2>1. Len(s) \in 0..Len(s)
      OBVIOUS
    <2> QED BY <1>6, <2>1
  <1>8. {s[i] : i \in 1..Len(s)} = ToSet(s)
    BY DEF ToSet
  <1> QED BY <1>1, <1>7, <1>8 DEF P

-----------------------------------------------------------------------------
(* The state inside a handler. *)

Views == {"idle", "fetching", "ready", "failed"}
Circuits == Seq(Entry)
Queue == Seq(Opens)
Builds == SUBSET Build
Fetches == SUBSET Generations
Tries == 0..(Attempts - 1)
InUse == 0..Hops
Proposals == 0..(Hops - 1)
Requests == SUBSET Opens

Typed ==
    [gen : Generations, session : BOOLEAN, view : Views, expired : BOOLEAN,
     chooser : BOOLEAN, entries : Circuits, waiters : Queue, building : BOOLEAN,
     ops : Builds, fetches : Fetches, attempts : Tries, current : InUse,
     accepted : InUse, proposal : Proposals, spareLater : BOOLEAN, posted : BOOLEAN,
     closed : BOOLEAN, told : Requests, handed : Requests]

\* The pool's type with its field sets named.
LEMMA TypedPool == PoolState = Typed
  BY DEF PoolState, Typed, Views, Circuits, Queue, Builds, Fetches, Tries, InUse,
         Proposals, Requests

\* What is being built is known, and belongs to the present session.
Owned(x) ==
    /\ ~x.closed => (x.building <=> \E op \in x.ops : op.gen = x.gen)
    /\ \A op, other \in x.ops : op.gen = other.gen => op = other
    /\ \A op \in x.ops : op.stage = "building" => op.gen = x.gen /\ ~x.closed
    /\ \A op \in x.ops : op.gen <= x.gen
    /\ \A e \in ToSet(x.entries) : e.gen = x.gen /\ ~x.closed

\* What the view says is there.
Backed(x) ==
    ~x.closed => /\ x.view = "ready" => x.chooser
                 /\ x.view = "fetching" => x.gen \in x.fetches

\* The shortest length allowed with an acceptance.
Least(accepted) == IF accepted = 0 THEN MinHops ELSE Min({MinHops, accepted})

\* The length in use is allowed; a proposal is not, and stands only while no
\* length is in use.  A probe is built for the configured length, any other
\* circuit for the length in use.
Chosen(x) ==
    /\ x.current # 0 => x.current >= Least(x.accepted)
    /\ x.proposal # 0 => x.current = 0 /\ x.proposal < Least(x.accepted)
    /\ \A op \in x.ops :
          op.gen = x.gen => op.len = IF op.probe THEN Hops ELSE x.current

Sound(x) == x \in Typed /\ Owned(x) /\ Backed(x) /\ Chosen(x)

\* Requests in the pool's hands.
Known(x) == ToSet(x.waiters) \cup x.told \cup x.handed

\* What no helper of a handler changes, and that it drops no request.
Keeps(x, y) ==
    /\ y.gen = x.gen /\ y.closed = x.closed /\ y.session = x.session
    /\ y.posted = x.posted /\ y.accepted = x.accepted
    /\ Known(x) \subseteq Known(y)
    /\ ToSet(y.waiters) \subseteq ToSet(x.waiters)

SameBuilds(x, y) ==
    /\ y.gen = x.gen /\ y.closed = x.closed /\ y.session = x.session
    /\ y.building = x.building /\ y.ops = x.ops
    /\ y.posted = x.posted
SameView(x, y) ==
    /\ y.view = x.view /\ y.chooser = x.chooser /\ y.fetches = x.fetches
    /\ y.expired = x.expired
SameLength(x, y) ==
    /\ y.current = x.current /\ y.accepted = x.accepted /\ y.proposal = x.proposal
SameQueue(x, y) ==
    /\ y.waiters = x.waiters /\ y.told = x.told /\ y.handed = x.handed

\* A request waits only for a view that is being fetched or a circuit.
Waits(x) ==
    x.waiters # <<>> => x.session /\ ~x.closed /\ x.view \in {"fetching", "ready"}

Pending(x) ==
    x.waiters # <<>> =>
        /\ x.session /\ ~x.closed
        /\ x.view = "fetching" \/ (x.view = "ready" /\ x.building)

\* An empty queue holds nothing.
LEMMA EmptyToSet == ToSet(<<>>) = {}
  BY DEF ToSet

\* What a queue holds are requests.
LEMMA QueueToSet ==
    ASSUME NEW q \in Queue
    PROVE  ToSet(q) \in Requests
  BY DEF Queue, Requests, ToSet

\* Helpers compose.
LEMMA KeepsTransitive ==
    ASSUME NEW x, NEW y, NEW z, Keeps(x, y), Keeps(y, z)
    PROVE  Keeps(x, z)
  <1> HIDE DEF Known
  <1> QED BY DEF Keeps

\* Doing nothing keeps everything.
LEMMA KeepsSelf == ASSUME NEW x PROVE Keeps(x, x)
  BY DEF Keeps

\* What FailWaiters changes.
LEMMA FailWaitersFacts ==
    ASSUME NEW x \in Typed, NEW y, y = FailWaiters(x)
    PROVE  /\ y \in Typed /\ SameBuilds(x, y) /\ SameView(x, y) /\ SameLength(x, y)
           /\ y.entries = x.entries /\ y.attempts = x.attempts
           /\ y.waiters = <<>> /\ y.told = x.told \cup ToSet(x.waiters)
           /\ y.handed = x.handed
  <1> DEFINE t == x.told \cup ToSet(x.waiters)
  <1>1. x.waiters \in Queue /\ x.told \in Requests
    BY DEF Typed
  <1>2. t \in Requests
    <2>1. ToSet(x.waiters) \in Requests
      BY <1>1, QueueToSet
    <2> QED BY <1>1, <2>1 DEF Requests
  <1>3. <<>> \in Queue
    BY DEF Queue
  <1>4. y = [x EXCEPT !.told = t, !.waiters = <<>>]
    BY DEF FailWaiters
  <1> HIDE DEF t
  <1>5. y \in Typed
    BY <1>2, <1>3, <1>4 DEF Typed
  <1>6. y.waiters = <<>> /\ y.told = t
    BY <1>4 DEF Typed
  <1>7. SameBuilds(x, y)
    BY <1>4 DEF Typed, SameBuilds
  <1>8. SameView(x, y)
    BY <1>4 DEF Typed, SameView
  <1>9. SameLength(x, y) /\ y.entries = x.entries /\ y.attempts = x.attempts
        /\ y.handed = x.handed
    BY <1>4 DEF Typed, SameLength
  <1> QED BY <1>5, <1>6, <1>7, <1>8, <1>9 DEF t

\* Failing every waiting request is sound, and leaves none.
LEMMA FailWaitersSound ==
    ASSUME NEW x, Sound(x), NEW y, y = FailWaiters(x)
    PROVE  /\ Sound(y) /\ Keeps(x, y) /\ y.waiters = <<>>
           /\ SameView(x, y) /\ SameBuilds(x, y) /\ SameLength(x, y)
  <1>0. x \in Typed
    BY DEF Sound
  <1>1. /\ y \in Typed /\ SameBuilds(x, y) /\ SameView(x, y) /\ SameLength(x, y)
        /\ y.entries = x.entries /\ y.attempts = x.attempts
        /\ y.waiters = <<>> /\ y.told = x.told \cup ToSet(x.waiters)
        /\ y.handed = x.handed
    BY <1>0, FailWaitersFacts
  <1>2. Owned(y) /\ Backed(y) /\ Chosen(y)
    BY <1>1 DEF Sound, Owned, Backed, Chosen, SameBuilds, SameView, SameLength
  <1>3. Keeps(x, y)
    BY <1>1, EmptyToSet DEF Keeps, Known, SameBuilds, SameLength
  <1> QED BY <1>1, <1>2, <1>3 DEF Sound

\* The assumptions on the constants, one by one.
LEMMA HopsFacts ==
    /\ Hops \in Nat /\ Hops >= 2 /\ Hops <= 3 /\ MinHops \in Nat /\ MinHops >= 1
    /\ MinHops <= Hops /\ Attempts \in Nat /\ Attempts >= 1
    /\ Capacity \in Nat /\ Capacity >= 1 /\ MaxSessions \in Nat
  BY PoolAssumption

\* What DiscardProposal changes: with no length in use, the configured one is.
LEMMA DiscardFacts ==
    ASSUME NEW x \in Typed, NEW y, y = DiscardProposal(x)
    PROVE  /\ y \in Typed /\ SameBuilds(x, y) /\ SameView(x, y) /\ SameQueue(x, y)
           /\ y.entries = x.entries /\ y.accepted = x.accepted
           /\ y.proposal = 0
           /\ y.current = IF x.current = 0 THEN Hops ELSE x.current
  <1>1. 0 \in Proposals /\ Hops \in InUse /\ 0 \in Tries
    BY HopsFacts DEF Proposals, InUse, Tries
  <1>2. CASE x.current # 0
    <2>1. y = [x EXCEPT !.proposal = 0]
      BY <1>2 DEF DiscardProposal
    <2>2. y \in Typed
      BY <1>1, <2>1 DEF Typed
    <2>3. SameBuilds(x, y)
      BY <2>1 DEF Typed, SameBuilds
    <2>4. SameView(x, y)
      BY <2>1 DEF Typed, SameView
    <2>5. /\ SameQueue(x, y) /\ y.entries = x.entries /\ y.accepted = x.accepted
          /\ y.proposal = 0 /\ y.current = x.current
      BY <2>1 DEF Typed, SameQueue
    <2> QED BY <1>2, <2>2, <2>3, <2>4, <2>5
  <1>3. CASE x.current = 0
    <2>1. y = [x EXCEPT !.proposal = 0, !.current = Hops, !.attempts = 0]
      BY <1>3 DEF DiscardProposal
    <2>2. y \in Typed
      BY <1>1, <2>1 DEF Typed
    <2>3. SameBuilds(x, y)
      BY <2>1 DEF Typed, SameBuilds
    <2>4. SameView(x, y)
      BY <2>1 DEF Typed, SameView
    <2>5. /\ SameQueue(x, y) /\ y.entries = x.entries /\ y.accepted = x.accepted
          /\ y.proposal = 0 /\ y.current = Hops
      BY <2>1 DEF Typed, SameQueue
    <2> QED BY <1>3, <2>2, <2>3, <2>4, <2>5
  <1> QED BY <1>2, <1>3

\* A circuit has two hops at least.
LEMMA BuildLength ==
    ASSUME NEW x \in Typed, NEW op \in x.ops
    PROVE  /\ op \in Build /\ op.len \in Nat /\ op.len >= 2 /\ op.len <= Hops
           /\ op.gen \in Nat
  <1>1. x.ops \in Builds
    BY DEF Typed
  <1>2. op \in Build
    BY <1>1 DEF Builds
  <1> QED BY <1>2, HopsFacts DEF Build, Lengths, Generations

\* The lesser of two integers.
LEMMA MinPair ==
    ASSUME NEW i \in Int, NEW j \in Int
    PROVE  Min({i, j}) \in Int /\ Min({i, j}) <= i /\ Min({i, j}) <= j
           /\ Min({i, j}) \in {i, j}
  <1> DEFINE S == {i, j}
  <1>1. \E n \in S : \A m \in S : n <= m
    <2>1. CASE i <= j
      BY <2>1
    <2>2. CASE j <= i
      BY <2>2
    <2> QED BY <2>1, <2>2
  <1>2. Min(S) \in S /\ \A m \in S : Min(S) <= m
    BY <1>1 DEF Min
  <1> QED BY <1>2

\* What the pool allows is a length, no longer than the configured one and, with
\* an acceptance, no longer than that.
LEMMA LeastFacts ==
    ASSUME NEW k \in InUse
    PROVE  /\ Least(k) \in Nat /\ Least(k) >= 1 /\ Least(k) <= Hops
           /\ k # 0 => Least(k) <= k
  <1>1. k \in Nat /\ MinHops \in Int /\ k \in Int
    BY HopsFacts DEF InUse
  <1>2. /\ Min({MinHops, k}) \in {MinHops, k}
        /\ Min({MinHops, k}) <= MinHops /\ Min({MinHops, k}) <= k
    BY <1>1, MinPair
  <1>3. k # 0 => Least(k) = Min({MinHops, k})
    BY DEF Least
  <1>4. k = 0 => Least(k) = MinHops
    BY DEF Least
  <1> QED BY <1>1, <1>2, <1>3, <1>4, HopsFacts

\* The pool's own name for it.
LEMMA AllowedIsLeast == ASSUME NEW x PROVE AllowedMin(x) = Least(x.accepted)
  BY DEF AllowedMin, Least

\* Discarding a proposal keeps the lengths consistent: no circuit is built for
\* a length that is not in use.
LEMMA DiscardChosen ==
    ASSUME NEW x \in Typed, Chosen(x), NEW y, y = DiscardProposal(x)
    PROVE  Chosen(y)
  <1>1. /\ SameBuilds(x, y) /\ y.accepted = x.accepted /\ y.proposal = 0
        /\ y.current = IF x.current = 0 THEN Hops ELSE x.current
    BY DiscardFacts
  <1>2. \A op \in y.ops : op.gen = y.gen => op.len = IF op.probe THEN Hops ELSE y.current
    BY <1>1, BuildLength DEF SameBuilds, Chosen
  <1>3. Least(x.accepted) <= Hops
    BY LeastFacts DEF Typed
  <1> QED BY <1>1, <1>2, <1>3 DEF Chosen

\* Discarding a proposal is sound.
LEMMA DiscardSound ==
    ASSUME NEW x, Sound(x), NEW y, y = DiscardProposal(x)
    PROVE  /\ Sound(y) /\ Keeps(x, y)
           /\ SameBuilds(x, y) /\ SameView(x, y) /\ SameQueue(x, y)
           /\ y.entries = x.entries
  <1>1. /\ y \in Typed /\ SameBuilds(x, y) /\ SameView(x, y) /\ SameQueue(x, y)
        /\ y.entries = x.entries /\ y.accepted = x.accepted
        /\ y.proposal = 0
    BY DiscardFacts DEF Sound
  <1>2. Owned(y) /\ Backed(y)
    BY <1>1 DEF Sound, Owned, Backed, SameBuilds, SameView
  <1>3. Chosen(y)
    BY DiscardChosen DEF Sound
  <1>4. Keeps(x, y)
    BY <1>1 DEF Keeps, Known, SameBuilds, SameQueue
  <1> QED BY <1>1, <1>2, <1>3, <1>4 DEF Sound

\* Fetching a view is sound, and the fetch of this session is under way.
LEMMA FetchViewSound ==
    ASSUME NEW x, Sound(x), NEW y, y = FetchView(x)
    PROVE  /\ Sound(y) /\ Keeps(x, y) /\ SameBuilds(x, y) /\ SameQueue(x, y)
           /\ y.view = "fetching"
  <1> DEFINE d == DiscardProposal(x)
             s == d.fetches \cup {x.gen}
  <1>1. Sound(d) /\ Keeps(x, d) /\ SameBuilds(x, d) /\ SameView(x, d) /\ SameQueue(x, d)
    BY DiscardSound
  <1>2. y = [d EXCEPT !.view = "fetching", !.fetches = @ \cup {x.gen}]
    BY DEF FetchView
  <1> HIDE DEF d
  <1>3. d \in Typed /\ "fetching" \in Views
    BY <1>1 DEF Sound, Views
  <1>4. s \in Fetches
    <2>1. d.fetches \in Fetches /\ d.gen \in Generations /\ d.gen = x.gen
      BY <1>1, <1>3 DEF Typed, SameBuilds
    <2> QED BY <2>1 DEF Fetches
  <1>5. y = [d EXCEPT !.view = "fetching", !.fetches = s]
    BY <1>2
  <1>6. x.gen \in s
    OBVIOUS
  <1> HIDE DEF s
  <1>7. y \in Typed
    BY <1>3, <1>4, <1>5 DEF Typed
  <1>8. SameBuilds(d, y)
    BY <1>3, <1>5 DEF Typed, SameBuilds
  <1>9. SameQueue(d, y) /\ y.entries = d.entries
    BY <1>3, <1>5 DEF Typed, SameQueue
  <1>10. SameLength(d, y)
    BY <1>3, <1>5 DEF Typed, SameLength
  <1>11. y.view = "fetching" /\ y.fetches = s
    BY <1>3, <1>5 DEF Typed
  <1>12. SameBuilds(x, y) /\ SameQueue(x, y)
    BY <1>1, <1>8, <1>9 DEF SameBuilds, SameQueue
  <1>13. Owned(y) /\ Chosen(y)
    BY <1>1, <1>8, <1>9, <1>10 DEF Sound, Owned, Chosen, SameBuilds, SameLength
  <1>14. Backed(y)
    BY <1>6, <1>11, <1>12 DEF Backed, SameBuilds
  <1>15. Keeps(x, y)
    BY <1>1, <1>8, <1>9, <1>10 DEF Keeps, Known, SameBuilds, SameQueue, SameLength
  <1> QED BY <1>7, <1>11, <1>12, <1>13, <1>14, <1>15 DEF Sound

-----------------------------------------------------------------------------
(* Serving the requests that wait. *)

\* The least element of a set of natural numbers.
LEMMA MinFacts ==
    ASSUME NEW S, S \subseteq Nat, S # {}
    PROVE  Min(S) \in S /\ \A n \in S : Min(S) <= n
  <1> DEFINE R == OpToRel(<, Nat)
  <1>1. IsWellFoundedOn(R, Nat)
    BY NatLessThanWellFounded
  <1>2. \A n, m \in Nat : n < m => <<n, m>> \in R
    BY DEF OpToRel
  <1>3. PICK n \in S : \A m \in S : ~(<<m, n>> \in R)
    <2> HIDE DEF R
    <2> QED BY <1>1, WFMin
  <1> HIDE DEF R
  <1>4. ASSUME NEW m \in S PROVE n <= m
    <2>1. n \in Nat /\ m \in Nat /\ ~(<<m, n>> \in R)
      BY <1>3
    <2>2. ~(m < n)
      BY <1>2, <2>1
    <2> QED BY <2>1, <2>2
  <1> QED BY <1>3, <1>4 DEF Min

\* What Append adds.
LEMMA AppendQueue ==
    ASSUME NEW T, NEW q \in Seq(T), NEW e \in T
    PROVE  /\ Append(q, e) \in Seq(T) /\ ToSet(Append(q, e)) = ToSet(q) \cup {e}
           /\ Append(q, e) # <<>>
  <1>1. /\ Len(Append(q, e)) = Len(q) + 1 /\ Append(q, e)[Len(q) + 1] = e
        /\ \A i \in 1..Len(q) : Append(q, e)[i] = q[i]
        /\ Append(q, e) \in Seq(T)
    BY AppendProperties
  <1>2. DOMAIN q = 1..Len(q) /\ DOMAIN Append(q, e) = 1..(Len(q) + 1)
    BY <1>1
  <1> QED BY <1>1, <1>2 DEF ToSet

\* What the loop has made of x when it served the first n waiters.
Served(x, z, blocked, n) ==
    /\ z \in Typed /\ SameBuilds(x, z) /\ SameView(x, z) /\ SameLength(x, z)
    /\ \A e \in ToSet(z.entries) : \E f \in ToSet(x.entries) : e.gen = f.gen
    /\ ToSet(z.waiters) \subseteq {x.waiters[i] : i \in 1..n}
    /\ {x.waiters[i] : i \in 1..n} \cup x.told \cup x.handed \subseteq Known(z)
    /\ blocked \in BOOLEAN
    /\ z.waiters # <<>> => blocked
    /\ blocked => x.current # 0 /\ x.current # 1

\* The circuit that takes a stream stays a circuit of its session.
LEMMA TakenFacts ==
    ASSUME NEW z \in Typed, NEW m \in DOMAIN z.entries, z.entries[m].streams < Capacity,
           NEW c, c = [z.entries EXCEPT ![m] = Taken(@)]
    PROVE  /\ c \in Circuits
           /\ \A e \in ToSet(c) : \E f \in ToSet(z.entries) : e.gen = f.gen
  <1>1. z.entries \in Seq(Entry)
    BY DEF Typed, Circuits
  <1>2. z.entries[m] \in Entry
    BY <1>1
  <1> DEFINE e == z.entries[m]
             t == Taken(e)
  <1>3. t \in Entry /\ t.gen = e.gen
    <2>1. e.streams + 1 \in 0..Capacity /\ "used" \in {"new", "used", "old"}
      BY <1>2, HopsFacts DEF Entry
    <2> DEFINE k == e.streams + 1
    <2>2. t = [e EXCEPT !.streams = k, !.age = "used"]
      BY DEF Taken
    <2> HIDE DEF k, t, e
    <2> QED BY <1>2, <2>1, <2>2 DEF Entry, k, e
  <1>4. c = [z.entries EXCEPT ![m] = t]
    OBVIOUS
  <1> HIDE DEF t
  <1>5. c \in Seq(Entry) /\ DOMAIN c = DOMAIN z.entries
    BY <1>1, <1>3, <1>4
  <1>6. \A i \in DOMAIN c : c[i].gen = z.entries[i].gen
    BY <1>3, <1>4, <1>5
  <1> QED BY <1>5, <1>6 DEF Circuits, ToSet

\* One turn of the loop.
LEMMA ServeOneServes ==
    ASSUME NEW x \in Typed, NEW n \in Nat, n < Len(x.waiters), NEW acc,
           Served(x, acc.x, acc.blocked, n),
           NEW r, r = ServeOne(acc, x.waiters[n + 1])
    PROVE  Served(x, r.x, r.blocked, n + 1)
  <1> DEFINE z == acc.x
             o == x.waiters[n + 1]
             first(k) == {x.waiters[i] : i \in 1..k}
             free == {i \in DOMAIN z.entries : Usable(z, z.entries[i])}
             waits == [z EXCEPT !.waiters = Append(@, o)]
             fails == [z EXCEPT !.told = @ \cup {o}]
             direct == [z EXCEPT !.handed = @ \cup {o}]
             through(i) == [z EXCEPT !.handed = @ \cup {o},
                                     !.entries = [z.entries EXCEPT ![i] = Taken(@)]]
  <1>1. x.waiters \in Seq(Opens) /\ o \in Opens
    <2>1. x.waiters \in Seq(Opens)
      BY DEF Typed, Queue
    <2>2. n + 1 \in 1..Len(x.waiters)
      BY <2>1
    <2> QED BY <2>1, <2>2
  <1>2. first(n + 1) = first(n) \cup {o}
    OBVIOUS
  <1>3. /\ z \in Typed /\ SameBuilds(x, z) /\ SameView(x, z) /\ SameLength(x, z)
        /\ \A e \in ToSet(z.entries) : \E f \in ToSet(x.entries) : e.gen = f.gen
        /\ ToSet(z.waiters) \subseteq first(n)
        /\ first(n) \cup x.told \cup x.handed \subseteq Known(z)
        /\ acc.blocked \in BOOLEAN
        /\ z.waiters # <<>> => acc.blocked
        /\ acc.blocked => x.current # 0 /\ x.current # 1
    BY DEF Served
  <1>4. z.current = x.current
    BY <1>3 DEF SameLength
  <1>5. \/ r = [x |-> waits, blocked |-> TRUE] /\ x.current # 0 /\ x.current # 1
        \/ r = [x |-> fails, blocked |-> FALSE] /\ ~acc.blocked
        \/ r = [x |-> direct, blocked |-> FALSE] /\ ~acc.blocked
        \/ r = [x |-> through(Min(free)), blocked |-> FALSE] /\ free # {} /\ ~acc.blocked
    BY <1>3, <1>4 DEF ServeOne
  <1> HIDE DEF o, first, z
  <1>6. CASE r = [x |-> waits, blocked |-> TRUE] /\ x.current # 0 /\ x.current # 1
    <2> DEFINE q == Append(z.waiters, o)
               y == r.x
    <2>1. z.waiters \in Seq(Opens)
      BY <1>3 DEF Typed, Queue
    <2>2. q \in Queue /\ ToSet(q) = ToSet(z.waiters) \cup {o}
      BY <1>1, <2>1, AppendQueue DEF Queue
    <2>3. y = [z EXCEPT !.waiters = q] /\ r.blocked = TRUE
      BY <1>6
    <2> HIDE DEF q, y
    <2>4. y \in Typed
      BY <1>3, <2>2, <2>3 DEF Typed
    <2>5. SameBuilds(z, y)
      BY <1>3, <2>3 DEF Typed, SameBuilds
    <2>6. SameView(z, y)
      BY <1>3, <2>3 DEF Typed, SameView
    <2>7. SameLength(z, y) /\ y.entries = z.entries
      BY <1>3, <2>3 DEF Typed, SameLength
    <2>8. y.waiters = q /\ y.told = z.told /\ y.handed = z.handed
      BY <1>3, <2>3 DEF Typed
    <2>9. SameBuilds(x, y) /\ SameView(x, y) /\ SameLength(x, y)
      BY <1>3, <2>5, <2>6, <2>7 DEF SameBuilds, SameView, SameLength
    <2>10. ToSet(y.waiters) \subseteq first(n + 1)
      BY <1>2, <1>3, <2>2, <2>8
    <2>11. first(n + 1) \cup x.told \cup x.handed \subseteq Known(y)
      BY <1>2, <1>3, <2>2, <2>8 DEF Known
    <2> QED BY <1>3, <1>6, <2>3, <2>4, <2>7, <2>9, <2>10, <2>11 DEF Served, first, y
  <1>7. CASE r = [x |-> fails, blocked |-> FALSE] /\ ~acc.blocked
    <2> DEFINE t == z.told \cup {o}
               y == r.x
    <2>1. t \in Requests
      <3>1. z.told \in Requests
        BY <1>3 DEF Typed
      <3> QED BY <1>1, <3>1 DEF Requests
    <2>2. y = [z EXCEPT !.told = t] /\ r.blocked = FALSE
      BY <1>7
    <2>3. o \in t /\ z.told \subseteq t
      OBVIOUS
    <2> HIDE DEF t, y
    <2>4. y \in Typed
      BY <1>3, <2>1, <2>2 DEF Typed
    <2>5. SameBuilds(z, y)
      BY <1>3, <2>2 DEF Typed, SameBuilds
    <2>6. SameView(z, y)
      BY <1>3, <2>2 DEF Typed, SameView
    <2>7. SameLength(z, y) /\ y.entries = z.entries
      BY <1>3, <2>2 DEF Typed, SameLength
    <2>8. y.waiters = z.waiters /\ y.told = t /\ y.handed = z.handed
      BY <1>3, <2>2 DEF Typed
    <2>9. SameBuilds(x, y) /\ SameView(x, y) /\ SameLength(x, y)
      BY <1>3, <2>5, <2>6, <2>7 DEF SameBuilds, SameView, SameLength
    <2>10. ToSet(y.waiters) \subseteq first(n + 1) /\ y.waiters = <<>>
      BY <1>2, <1>3, <1>7, <2>8
    <2>11. first(n + 1) \cup x.told \cup x.handed \subseteq Known(y)
      BY <1>2, <1>3, <2>3, <2>8 DEF Known
    <2> QED BY <1>3, <2>2, <2>4, <2>7, <2>9, <2>10, <2>11 DEF Served, first, y
  <1>8. CASE r = [x |-> direct, blocked |-> FALSE] /\ ~acc.blocked
    <2> DEFINE t == z.handed \cup {o}
               y == r.x
    <2>1. t \in Requests
      <3>1. z.handed \in Requests
        BY <1>3 DEF Typed
      <3> QED BY <1>1, <3>1 DEF Requests
    <2>2. y = [z EXCEPT !.handed = t] /\ r.blocked = FALSE
      BY <1>8
    <2>3. o \in t /\ z.handed \subseteq t
      OBVIOUS
    <2> HIDE DEF t, y
    <2>4. y \in Typed
      BY <1>3, <2>1, <2>2 DEF Typed
    <2>5. SameBuilds(z, y)
      BY <1>3, <2>2 DEF Typed, SameBuilds
    <2>6. SameView(z, y)
      BY <1>3, <2>2 DEF Typed, SameView
    <2>7. SameLength(z, y) /\ y.entries = z.entries
      BY <1>3, <2>2 DEF Typed, SameLength
    <2>8. y.waiters = z.waiters /\ y.handed = t /\ y.told = z.told
      BY <1>3, <2>2 DEF Typed
    <2>9. SameBuilds(x, y) /\ SameView(x, y) /\ SameLength(x, y)
      BY <1>3, <2>5, <2>6, <2>7 DEF SameBuilds, SameView, SameLength
    <2>10. ToSet(y.waiters) \subseteq first(n + 1) /\ y.waiters = <<>>
      BY <1>2, <1>3, <1>8, <2>8
    <2>11. first(n + 1) \cup x.told \cup x.handed \subseteq Known(y)
      BY <1>2, <1>3, <2>3, <2>8 DEF Known
    <2> QED BY <1>3, <2>2, <2>4, <2>7, <2>9, <2>10, <2>11 DEF Served, first, y
  <1>9. CASE r = [x |-> through(Min(free)), blocked |-> FALSE] /\ free # {} /\ ~acc.blocked
    <2> DEFINE t == z.handed \cup {o}
               y == r.x
               m == Min(free)
               c == [z.entries EXCEPT ![m] = Taken(@)]
    <2>1. t \in Requests
      <3>1. z.handed \in Requests
        BY <1>3 DEF Typed
      <3> QED BY <1>1, <3>1 DEF Requests
    <2>m. m \in DOMAIN z.entries /\ z.entries[m].streams < Capacity
      <3>1. z.entries \in Seq(Entry)
        BY <1>3 DEF Typed, Circuits
      <3>2. free \subseteq Nat
        BY <3>1
      <3> HIDE DEF free
      <3>3. m \in free
        BY <1>9, <3>2, MinFacts
      <3> HIDE DEF m
      <3> QED BY <3>3 DEF free, Usable
    <2>2. y = [z EXCEPT !.handed = t, !.entries = c] /\ r.blocked = FALSE
      BY <1>9
    <2>3. o \in t /\ z.handed \subseteq t
      OBVIOUS
    <2> HIDE DEF t, y, m
    <2>c. c \in Circuits /\ \A e \in ToSet(c) : \E f \in ToSet(z.entries) : e.gen = f.gen
      BY <1>3, <2>m, TakenFacts
    <2> HIDE DEF c
    <2>4. y \in Typed
      BY <1>3, <2>1, <2>2, <2>c DEF Typed
    <2>5. SameBuilds(z, y)
      BY <1>3, <2>2 DEF Typed, SameBuilds
    <2>6. SameView(z, y)
      BY <1>3, <2>2 DEF Typed, SameView
    <2>7. SameLength(z, y) /\ y.entries = c
      BY <1>3, <2>2 DEF Typed, SameLength
    <2>8. y.waiters = z.waiters /\ y.handed = t /\ y.told = z.told
      BY <1>3, <2>2 DEF Typed
    <2>9. SameBuilds(x, y) /\ SameView(x, y) /\ SameLength(x, y)
      BY <1>3, <2>5, <2>6, <2>7 DEF SameBuilds, SameView, SameLength
    <2>10. ToSet(y.waiters) \subseteq first(n + 1) /\ y.waiters = <<>>
      BY <1>2, <1>3, <1>9, <2>8
    <2>11. first(n + 1) \cup x.told \cup x.handed \subseteq Known(y)
      BY <1>2, <1>3, <2>3, <2>8 DEF Known
    <2>12. \A e \in ToSet(y.entries) : \E f \in ToSet(x.entries) : e.gen = f.gen
      BY <1>3, <2>c, <2>7
    <2> QED BY <2>2, <2>4, <2>9, <2>10, <2>11, <2>12 DEF Served, first, y
  <1> QED BY <1>5, <1>6, <1>7, <1>8, <1>9

ServeBody(x, g, n) ==
    IF n = 0 THEN [x |-> [x EXCEPT !.waiters = <<>>], blocked |-> FALSE]
    ELSE ServeOne(g[n - 1], x.waiters[n])

IsServing(x, g, m) == g = [n \in 0..m |-> ServeBody(x, g, n)]

\* The recursive definition inside ServeWaiters has a solution for every queue.
LEMMA ServingExists ==
    ASSUME NEW x, NEW m \in Nat
    PROVE  \E g : IsServing(x, g, m)
  <1> DEFINE K == {k \in Nat : \E g : IsServing(x, g, k)}
  <1>1. 0 \in K
    <2> DEFINE g == [i \in 0..0 |-> [x |-> [x EXCEPT !.waiters = <<>>], blocked |-> FALSE]]
    <2>1. IsServing(x, g, 0)
      BY DEF IsServing, ServeBody
    <2> QED BY <2>1
  <1>2. ASSUME NEW k \in Nat, k \in K PROVE k + 1 \in K
    <2>1. PICK g : IsServing(x, g, k)
      BY <1>2
    <2> DEFINE h == [i \in 0..(k + 1) |-> IF i <= k THEN g[i] ELSE ServeBody(x, g, i)]
    <2>2. \A i \in 0..k : g[i] = ServeBody(x, g, i)
      BY <2>1 DEF IsServing
    <2>3. ASSUME NEW i \in 0..(k + 1) PROVE h[i] = ServeBody(x, h, i)
      <3>1. h[i] = ServeBody(x, g, i)
        BY <2>2
      <3>2. i # 0 => h[i - 1] = g[i - 1]
        OBVIOUS
      <3> HIDE DEF h
      <3> QED BY <3>1, <3>2 DEF ServeBody
    <2>4. h = [i \in 0..(k + 1) |-> ServeBody(x, h, i)]
      <3>1. h = [i \in 0..(k + 1) |-> h[i]]
        OBVIOUS
      <3> HIDE DEF h
      <3> QED BY <2>3, <3>1
    <2> HIDE DEF h
    <2> QED BY <2>4 DEF IsServing
  <1>3. Nat \subseteq K
    <2> HIDE DEF K
    <2> QED BY <1>1, <1>2, NatSetInduction
  <1> QED BY <1>3

\* The whole loop.
LEMMA ServeWaitersServes ==
    ASSUME NEW x \in Typed
    PROVE  \E blocked : Served(x, ServeWaiters(x), blocked, Len(x.waiters))
  <1> DEFINE l == Len(x.waiters)
             g == CHOOSE f : IsServing(x, f, l)
             P(n) == Served(x, g[n].x, g[n].blocked, n)
             K == {n \in Nat : P(n)}
  <1>0. x.waiters \in Seq(Opens) /\ l \in Nat
    BY DEF Typed, Queue
  <1>1. ServeWaiters(x) = g[l].x
    BY DEF ServeWaiters, IsServing, ServeBody
  <1>2. IsServing(x, g, l)
    BY <1>0, ServingExists
  <1> HIDE DEF g, l
  <1>3. \A n \in 0..l : g[n] = ServeBody(x, g, n)
    BY <1>2 DEF IsServing
  <1>4. P(0)
    <2> DEFINE y == g[0].x
    <2>1. g[0] = [x |-> [x EXCEPT !.waiters = <<>>], blocked |-> FALSE]
      <3>1. 0 \in 0..l
        BY <1>0
      <3>2. g[0] = ServeBody(x, g, 0)
        BY <1>3, <3>1
      <3>3. ServeBody(x, g, 0) = [x |-> [x EXCEPT !.waiters = <<>>], blocked |-> FALSE]
        BY DEF ServeBody
      <3> QED BY <3>2, <3>3
    <2>2. y = [x EXCEPT !.waiters = <<>>] /\ g[0].blocked = FALSE
      BY <2>1
    <2>3. <<>> \in Queue
      BY DEF Queue
    <2> HIDE DEF y
    <2>4. y \in Typed
      BY <2>2, <2>3 DEF Typed
    <2>5. SameBuilds(x, y)
      BY <2>2 DEF Typed, SameBuilds
    <2>6. SameView(x, y)
      BY <2>2 DEF Typed, SameView
    <2>7. SameLength(x, y) /\ y.entries = x.entries
      BY <2>2 DEF Typed, SameLength
    <2>8. y.waiters = <<>> /\ y.told = x.told /\ y.handed = x.handed
      BY <2>2 DEF Typed
    <2>9. {x.waiters[i] : i \in 1..0} = {}
      OBVIOUS
    <2> QED BY <2>2, <2>4, <2>5, <2>6, <2>7, <2>8, <2>9, EmptyToSet DEF Served, Known, y
  <1>5. ASSUME NEW n \in Nat, n < l, P(n) PROVE P(n + 1)
    <2>1. n + 1 \in 0..l /\ n + 1 # 0 /\ (n + 1) - 1 = n
      BY <1>0, <1>5
    <2>2. g[n + 1] = ServeOne(g[n], x.waiters[n + 1])
      BY <1>3, <2>1 DEF ServeBody
    <2> QED BY <1>5, <2>2, ServeOneServes DEF l
  <1> HIDE DEF P
  <1>6. \A n \in 0..l : n \in K
    <2>1. 0 \in K /\ \A n \in Nat : n < l /\ n \in K => n + 1 \in K
      BY <1>4, <1>5
    <2> HIDE DEF K
    <2> QED BY <1>0, <2>1, UpTo
  <1>7. P(l)
    <2>1. l \in 0..l
      BY <1>0
    <2> QED BY <1>6, <2>1
  <1> QED BY <1>1, <1>7 DEF P, l

\* A request still waits only where circuits are used, at two hops or more.
LEMMA ServeWaitersSound ==
    ASSUME NEW x, Sound(x), NEW y, y = ServeWaiters(x)
    PROVE  /\ Sound(y) /\ Keeps(x, y) /\ SameBuilds(x, y) /\ SameView(x, y)
           /\ SameLength(x, y)
           /\ y.waiters # <<>> => y.current # 0 /\ y.current # 1
  <1>0. x \in Typed /\ x.waiters \in Seq(Opens)
    BY DEF Sound, Typed, Queue
  <1>1. PICK blocked : Served(x, y, blocked, Len(x.waiters))
    BY <1>0, ServeWaitersServes
  <1>2. {x.waiters[i] : i \in 1..Len(x.waiters)} = ToSet(x.waiters)
    BY <1>0 DEF ToSet
  <1>3. /\ y \in Typed /\ SameBuilds(x, y) /\ SameView(x, y) /\ SameLength(x, y)
        /\ \A e \in ToSet(y.entries) : \E f \in ToSet(x.entries) : e.gen = f.gen
        /\ ToSet(y.waiters) \subseteq ToSet(x.waiters)
        /\ Known(x) \subseteq Known(y)
        /\ y.waiters # <<>> => x.current # 0 /\ x.current # 1
    BY <1>1, <1>2 DEF Served, Known
  <1>4. Owned(y)
    BY <1>3 DEF Sound, Owned, SameBuilds
  <1>5. Backed(y) /\ Chosen(y)
    BY <1>3 DEF Sound, Backed, Chosen, SameBuilds, SameView, SameLength
  <1>6. Keeps(x, y)
    BY <1>3 DEF Keeps, SameBuilds, SameLength
  <1> QED BY <1>3, <1>4, <1>5, <1>6 DEF Sound, SameLength

\* The pump without its build.  Requests that were cancelled are answered, and
\* the others wait for a view or for a circuit of two hops or more.
ServedAll(z) ==
    /\ \A o \in ToSet(z.waiters) : ~req[o].cancelled
    /\ z.waiters # <<>> =>
          /\ z.session /\ ~z.closed
          /\ z.view = "fetching" \/ (z.view = "ready" /\ z.current \notin {0, 1})

\* Serve is sound and drops no request, whatever the view.
LEMMA ServeSound ==
    ASSUME NEW x, Sound(x), NEW z, z = Serve(x)
    PROVE  /\ Sound(z) /\ Keeps(x, z) /\ SameBuilds(x, z) /\ ServedAll(z)
           /\ z.view = "ready" => z.current = x.current
  <1> DEFINE live == Only(x.waiters, {o \in Opens : ~req[o].cancelled})
             open == Only(x.entries, {e \in ToSet(x.entries) : e.open})
             t == x.told \cup (ToSet(x.waiters) \ ToSet(live))
             y == [x EXCEPT !.entries = open, !.waiters = live, !.told = t]
  <1>0. x \in Typed /\ x.waiters \in Seq(Opens) /\ x.entries \in Seq(Entry)
    BY DEF Sound, Typed, Queue, Circuits
  <1>1. /\ live \in Seq(Opens)
        /\ ToSet(live) = ToSet(x.waiters) \cap {o \in Opens : ~req[o].cancelled}
    BY <1>0, OnlyFacts
  <1>2. open \in Seq(Entry) /\ ToSet(open) \subseteq ToSet(x.entries)
    <2>1. ToSet(open) = ToSet(x.entries) \cap {e \in ToSet(x.entries) : e.open}
      BY <1>0, OnlyFacts
    <2>2. open \in Seq(Entry)
      BY <1>0, OnlyFacts
    <2> QED BY <2>1, <2>2
  <1>3. z = IF x.closed THEN FailWaiters(x)
            ELSE IF live = <<>> /\ (~x.session \/ x.view = "failed") THEN y
            ELSE IF ~x.session \/ x.view = "failed" THEN FailWaiters(y)
            ELSE IF x.view = "idle" THEN FetchView(y)
            ELSE IF x.view = "fetching" THEN y
            ELSE ServeWaiters(y)
    BY DEF Serve
  <1>4. t \in Requests /\ live \in Queue /\ open \in Circuits
    <2>1. x.told \in Requests /\ ToSet(x.waiters) \in Requests
      BY <1>0, QueueToSet DEF Typed
    <2> QED BY <1>1, <1>2, <2>1 DEF Requests, Queue, Circuits
  <1>5. ToSet(x.waiters) \cup x.told \subseteq ToSet(live) \cup t
    OBVIOUS
  <1>6. y = [x EXCEPT !.entries = open, !.waiters = live, !.told = t]
    OBVIOUS
  <1>7. x.view \in Views
    BY <1>0 DEF Typed
  <1> HIDE DEF live, open, t, y
  <1>8. y \in Typed
    BY <1>0, <1>4, <1>6 DEF Typed
  <1>9. SameBuilds(x, y)
    BY <1>0, <1>6 DEF Typed, SameBuilds
  <1>10. SameView(x, y)
    BY <1>0, <1>6 DEF Typed, SameView
  <1>11. SameLength(x, y) /\ y.entries = open
    BY <1>0, <1>6 DEF Typed, SameLength
  <1>12. y.waiters = live /\ y.told = t /\ y.handed = x.handed
    BY <1>0, <1>6 DEF Typed
  <1>13. Sound(y)
    <2>1. Owned(y)
      BY <1>2, <1>9, <1>11 DEF Sound, Owned, SameBuilds
    <2>2. Backed(y) /\ Chosen(y)
      BY <1>9, <1>10, <1>11 DEF Sound, Backed, Chosen, SameBuilds, SameView, SameLength
    <2> QED BY <1>8, <2>1, <2>2 DEF Sound
  <1>14. Keeps(x, y)
    <2>1. Known(x) \subseteq Known(y)
      BY <1>5, <1>12 DEF Known
    <2>2. ToSet(y.waiters) \subseteq ToSet(x.waiters)
      BY <1>1, <1>12
    <2> QED BY <1>9, <1>11, <2>1, <2>2 DEF Keeps, SameBuilds, SameLength
  <1>15. \A o \in ToSet(y.waiters) : ~req[o].cancelled
    BY <1>1, <1>12
  <1>16. CASE x.closed
    <2>1. z = FailWaiters(x)
      BY <1>3, <1>16
    <2>2. /\ Sound(z) /\ Keeps(x, z) /\ z.waiters = <<>>
          /\ SameBuilds(x, z) /\ SameLength(x, z)
      BY <2>1, FailWaitersSound
    <2> QED BY <2>2, EmptyToSet DEF ServedAll, SameLength
  <1>17. CASE ~x.closed /\ live = <<>> /\ (~x.session \/ x.view = "failed")
    <2>1. z = y /\ y.waiters = <<>>
      BY <1>3, <1>12, <1>17
    <2> QED BY <1>9, <1>11, <1>13, <1>14, <2>1, EmptyToSet DEF ServedAll, SameLength
  <1>18. CASE ~x.closed /\ live # <<>> /\ (~x.session \/ x.view = "failed")
    <2>1. z = FailWaiters(y)
      BY <1>3, <1>18
    <2>2. /\ Sound(z) /\ Keeps(y, z) /\ z.waiters = <<>>
          /\ SameBuilds(y, z) /\ SameLength(y, z)
      BY <1>13, <2>1, FailWaitersSound
    <2>3. SameBuilds(x, z) /\ z.current = x.current
      BY <1>9, <1>11, <2>2 DEF SameBuilds, SameLength
    <2>4. Keeps(x, z)
      BY <1>14, <2>2, KeepsTransitive
    <2> QED BY <2>2, <2>3, <2>4, EmptyToSet DEF ServedAll
  <1>19. CASE ~x.closed /\ x.session /\ x.view = "idle"
    <2>1. z = FetchView(y)
      BY <1>3, <1>19
    <2>2. /\ Sound(z) /\ Keeps(y, z) /\ SameBuilds(y, z) /\ SameQueue(y, z)
          /\ z.view = "fetching"
      BY <1>13, <2>1, FetchViewSound
    <2>3. SameBuilds(x, z)
      BY <1>9, <2>2 DEF SameBuilds
    <2>4. Keeps(x, z)
      BY <1>14, <2>2, KeepsTransitive
    <2>5. ServedAll(z)
      BY <1>15, <1>19, <2>2, <2>3 DEF ServedAll, SameQueue, SameBuilds
    <2> QED BY <2>2, <2>3, <2>4, <2>5
  <1>20. CASE ~x.closed /\ x.session /\ x.view = "fetching"
    <2>1. z = y
      BY <1>3, <1>20
    <2>2. ServedAll(z)
      BY <1>9, <1>10, <1>15, <1>20, <2>1 DEF ServedAll, SameView, SameBuilds
    <2> QED BY <1>9, <1>11, <1>13, <1>14, <2>1, <2>2 DEF SameLength
  <1>21. CASE ~x.closed /\ x.session /\ x.view = "ready"
    <2>1. z = ServeWaiters(y)
      BY <1>3, <1>21
    <2>2. /\ Sound(z) /\ Keeps(y, z) /\ SameBuilds(y, z) /\ SameView(y, z)
          /\ SameLength(y, z)
          /\ z.waiters # <<>> => z.current # 0 /\ z.current # 1
      BY <1>13, <2>1, ServeWaitersSound
    <2>3. SameBuilds(x, z) /\ SameView(x, z) /\ z.current = x.current
      BY <1>9, <1>10, <1>11, <2>2 DEF SameBuilds, SameView, SameLength
    <2>4. Keeps(x, z)
      BY <1>14, <2>2, KeepsTransitive
    <2>5. ServedAll(z)
      BY <1>15, <1>21, <2>2, <2>3 DEF ServedAll, SameView, SameBuilds, Keeps
    <2> QED BY <2>2, <2>3, <2>4, <2>5
  <1> QED BY <1>7, <1>16, <1>17, <1>18, <1>19, <1>20, <1>21 DEF Views

-----------------------------------------------------------------------------
(* Starting a build, and what follows when a length fails. *)

\* A build begins soundly when none is under way.
LEMMA BeginBuildSound ==
    ASSUME NEW x, Sound(x), ~x.building, ~x.closed, NEW len \in Lengths,
           NEW probe \in BOOLEAN, len = IF probe THEN Hops ELSE x.current,
           NEW z, z = BeginBuild(x, len, probe)
    PROVE  /\ Sound(z) /\ Keeps(x, z) /\ SameView(x, z) /\ SameLength(x, z)
           /\ SameQueue(x, z) /\ z.building /\ z.session = x.session
           /\ z.closed = x.closed
  <1> DEFINE op == [stage |-> "opening", gen |-> x.gen, len |-> len, probe |-> probe]
             s == x.ops \cup {op}
  <1>0. x \in Typed
    BY DEF Sound
  <1>1. x.gen \in Generations /\ x.ops \in Builds
    BY <1>0 DEF Typed
  <1>2. s \in Builds
    <2>1. op \in Build
      BY <1>1 DEF Build
    <2> QED BY <1>1, <2>1 DEF Builds
  <1>3. z = [x EXCEPT !.building = TRUE, !.ops = s]
    BY DEF BeginBuild
  <1>4. op.gen = x.gen /\ op.stage = "opening" /\ op.probe = probe /\ op.len = len
    OBVIOUS
  <1>5. op \in s /\ \A o \in s : o = op \/ o \in x.ops
    OBVIOUS
  <1> HIDE DEF s, op
  <1>6. z \in Typed
    BY <1>0, <1>2, <1>3 DEF Typed
  <1>7. SameView(x, z)
    BY <1>0, <1>3 DEF Typed, SameView
  <1>8. SameLength(x, z) /\ SameQueue(x, z)
    BY <1>0, <1>3 DEF Typed, SameLength, SameQueue
  <1>9. /\ z.gen = x.gen /\ z.closed = x.closed /\ z.session = x.session
        /\ z.posted = x.posted /\ z.entries = x.entries /\ z.building = TRUE /\ z.ops = s
    BY <1>0, <1>3 DEF Typed
  <1>10. \A o \in x.ops : o.gen # x.gen
    BY DEF Sound, Owned
  <1>11. Owned(z)
    <2>1. z.building <=> \E o \in z.ops : o.gen = z.gen
      BY <1>4, <1>5, <1>9
    <2>2. \A o, other \in z.ops : o.gen = other.gen => o = other
      BY <1>4, <1>5, <1>9, <1>10 DEF Sound, Owned
    <2>3. \A o \in z.ops : o.stage = "building" => o.gen = z.gen /\ ~z.closed
      BY <1>4, <1>5, <1>9 DEF Sound, Owned
    <2>4. \A o \in z.ops : o.gen <= z.gen
      <3>1. x.gen <= x.gen
        BY <1>1, HopsFacts DEF Generations
      <3> QED BY <1>4, <1>5, <1>9, <3>1 DEF Sound, Owned
    <2>5. \A e \in ToSet(z.entries) : e.gen = z.gen /\ ~z.closed
      BY <1>9 DEF Sound, Owned
    <2> QED BY <2>1, <2>2, <2>3, <2>4, <2>5 DEF Owned
  <1>12. Backed(z)
    BY <1>7, <1>9 DEF Sound, Backed, SameView
  <1>13. Chosen(z)
    <2>1. \A o \in z.ops : o.gen = z.gen => o.len = IF o.probe THEN Hops ELSE z.current
      BY <1>4, <1>5, <1>8, <1>9 DEF Sound, Chosen, SameLength
    <2> QED BY <1>8, <2>1 DEF Sound, Chosen, SameLength
  <1>14. Keeps(x, z)
    BY <1>8, <1>9 DEF Keeps, Known, SameLength, SameQueue
  <1> QED BY <1>6, <1>7, <1>8, <1>9, <1>11, <1>12, <1>13, <1>14 DEF Sound

\* The greatest of at most two lengths.
LEMMA MaxFacts ==
    ASSUME NEW S, S \subseteq {1, 2}, S # {}
    PROVE  Max(S) \in S
  <1>1. \E n \in S : \A m \in S : n >= m
    <2>1. CASE 2 \in S
      <3>1. \A m \in S : 2 >= m
        OBVIOUS
      <3> QED BY <2>1, <3>1
    <2>2. CASE 2 \notin S
      <3>1. 1 \in S /\ \A m \in S : m = 1
        BY <2>2
      <3> QED BY <3>1
    <2> QED BY <2>1, <2>2
  <1> QED BY <1>1 DEF Max

\* A proposal is shorter than what is approved, with no length in use.
LEMMA ProposeSound ==
    ASSUME NEW x, Sound(x), x.current = 0, NEW a, NEW longest \in Int, longest < Hops,
           longest < Least(x.accepted),
           NEW z, z = Propose(x, a, longest)
    PROVE  /\ Sound(z) /\ Keeps(x, z) /\ SameView(x, z) /\ SameBuilds(x, z)
           /\ SameQueue(x, z)
  <1> DEFINE lengths == {l \in 1..longest : l = 1 \/ l \in a}
             able == x.chooser /\ x.view = "ready" /\ x.session /\ ~x.closed /\ ~x.expired
             p == IF able /\ lengths # {} THEN Max(lengths) ELSE 0
  <1>0. x \in Typed
    BY DEF Sound
  <1>1. z = [x EXCEPT !.proposal = p]
    BY DEF Propose
  <1>2. lengths \subseteq {1, 2} /\ lengths \subseteq 1..longest
    BY HopsFacts
  <1> HIDE DEF lengths, able
  <1>3. lengths # {} => Max(lengths) \in lengths
    BY <1>2, MaxFacts
  <1>4. p = 0 \/ p \in 1..longest
    BY <1>2, <1>3
  <1> HIDE DEF p
  <1>5. p \in Proposals /\ (p # 0 => p < Least(x.accepted))
    <2>1. Least(x.accepted) \in Nat
      BY <1>0, LeastFacts DEF Typed
    <2> QED BY <1>4, <2>1, HopsFacts DEF Proposals
  <1>6. z \in Typed
    BY <1>0, <1>1, <1>5 DEF Typed
  <1>7. SameBuilds(x, z)
    BY <1>0, <1>1 DEF Typed, SameBuilds
  <1>8. SameView(x, z) /\ SameQueue(x, z)
    BY <1>0, <1>1 DEF Typed, SameView, SameQueue
  <1>9. /\ z.entries = x.entries /\ z.current = x.current /\ z.accepted = x.accepted
        /\ z.proposal = p
    BY <1>0, <1>1 DEF Typed
  <1>10. Owned(z) /\ Backed(z)
    BY <1>7, <1>8, <1>9 DEF Sound, Owned, Backed, SameBuilds, SameView
  <1>11. Chosen(z)
    BY <1>5, <1>7, <1>9 DEF Sound, Chosen, SameBuilds
  <1>12. Keeps(x, z)
    BY <1>7, <1>8, <1>9 DEF Keeps, Known, SameBuilds, SameQueue
  <1> QED BY <1>6, <1>7, <1>8, <1>10, <1>11, <1>12 DEF Sound

\* A new length in use while nothing is being built.
LEMMA LengthSound ==
    ASSUME NEW x, Sound(x), ~x.building, ~x.closed, x.current \notin {0, 1},
           NEW len \in InUse, len # 0 => len >= Least(x.accepted),
           NEW y, y = [x EXCEPT !.attempts = 0, !.current = len]
    PROVE  /\ Sound(y) /\ Keeps(x, y) /\ SameView(x, y) /\ SameBuilds(x, y)
           /\ SameQueue(x, y) /\ y.current = len
  <1>0. x \in Typed /\ 0 \in Tries
    BY HopsFacts DEF Sound, Tries
  <1>1. y \in Typed
    BY <1>0 DEF Typed
  <1>2. SameBuilds(x, y)
    BY <1>0 DEF Typed, SameBuilds
  <1>3. SameView(x, y) /\ SameQueue(x, y)
    BY <1>0 DEF Typed, SameView, SameQueue
  <1>4. /\ y.entries = x.entries /\ y.current = len /\ y.accepted = x.accepted
        /\ y.proposal = x.proposal
    BY <1>0 DEF Typed
  <1>5. Owned(y) /\ Backed(y)
    BY <1>2, <1>3, <1>4 DEF Sound, Owned, Backed, SameBuilds, SameView
  <1>6. \A o \in y.ops : o.gen # y.gen
    BY <1>2 DEF Sound, Owned, SameBuilds
  <1>7. Chosen(y)
    BY <1>4, <1>6 DEF Sound, Chosen
  <1>8. Keeps(x, y)
    BY <1>2, <1>3, <1>4 DEF Keeps, Known, SameBuilds, SameQueue
  <1> QED BY <1>1, <1>2, <1>3, <1>4, <1>5, <1>7, <1>8 DEF Sound

\* A build that cannot be tried again at its length: a shorter approved one
\* takes over, or the waiting requests fail.
LEMMA LengthFailedSound ==
    ASSUME NEW x, Sound(x), Waits(x), ~x.building, ~x.closed,
           NEW len \in Lengths, len = x.current, NEW a,
           NEW z, z = LengthFailed(x, a, len)
    PROVE  Sound(z) /\ Keeps(x, z) /\ Pending(z)
  <1> DEFINE min == AllowedMin(x)
             approved == {l \in 1..(len - 1) : l >= min}
             taken == {l \in approved : l = 1 \/ l \in a \/ ~x.chooser}
             use == Max(taken)
             y == [x EXCEPT !.attempts = 0, !.current = use]
             n == [x EXCEPT !.attempts = 0, !.current = 0]
             longest == Min({len - 1, min - 1})
  <1>0. /\ len \in Nat /\ len >= 2 /\ len <= Hops /\ Hops <= 3 /\ Hops \in Nat
        /\ x \in Typed /\ Chosen(x)
    BY HopsFacts DEF Lengths, Sound
  <1>1. min \in Nat /\ min >= 1 /\ min = Least(x.accepted)
    BY <1>0, LeastFacts, AllowedIsLeast DEF Typed
  <1>2. z = IF taken = {} THEN FailWaiters(Propose(n, a, longest))
            ELSE IF use = 1 THEN Serve(y)
            ELSE IF x.chooser THEN BeginBuild(y, use, FALSE) ELSE y
    BY DEF LengthFailed
  <1> HIDE DEF min
  <1>3. CASE taken = {}
    <2>1. 0 \in InUse
      BY <1>0 DEF InUse
    <2>2. Sound(n) /\ Keeps(x, n) /\ n.current = 0
      <3>1. n = [x EXCEPT !.attempts = 0, !.current = 0]
        OBVIOUS
      <3>2. x.current \notin {0, 1}
        BY <1>0
      <3> HIDE DEF n
      <3> QED BY <2>1, <3>1, <3>2, LengthSound
    <2>3. longest \in Int /\ longest < Hops /\ longest < Least(n.accepted)
      <3>1. len - 1 \in Int /\ min - 1 \in Int
        BY <1>0, <1>1
      <3>2. longest \in Int /\ longest <= len - 1 /\ longest <= min - 1
        BY <3>1, MinPair
      <3>3. n.accepted = x.accepted
        BY <2>2 DEF Keeps
      <3> HIDE DEF longest, n
      <3> QED BY <1>0, <1>1, <3>2, <3>3
    <2> DEFINE p == Propose(n, a, longest)
    <2>4. z = FailWaiters(p)
      BY <1>2, <1>3
    <2> HIDE DEF n, longest
    <2>5. Sound(p) /\ Keeps(n, p)
      BY <2>2, <2>3, ProposeSound
    <2> HIDE DEF p
    <2>6. Sound(z) /\ Keeps(p, z) /\ z.waiters = <<>>
      BY <2>4, <2>5, FailWaitersSound
    <2>7. Keeps(x, z)
      BY <2>2, <2>5, <2>6, KeepsTransitive
    <2> QED BY <2>6, <2>7 DEF Pending
  <1>4. ASSUME taken # {}
        PROVE  /\ use \in 1..(len - 1) /\ use >= min
               /\ Sound(y) /\ Keeps(x, y) /\ SameView(x, y) /\ SameBuilds(x, y)
               /\ SameQueue(x, y) /\ y.current = use
    <2>1. taken \subseteq {1, 2} /\ taken \subseteq approved
      BY <1>0
    <2> HIDE DEF taken
    <2>2. use \in taken
      BY <1>4, <2>1, MaxFacts
    <2>3. use \in 1..(len - 1) /\ use >= min
      BY <2>1, <2>2
    <2> HIDE DEF use, approved
    <2>4. use \in InUse /\ use >= Least(x.accepted)
      BY <1>0, <1>1, <2>3 DEF InUse
    <2>5. x.current \notin {0, 1}
      BY <1>0
    <2> QED BY <2>3, <2>4, <2>5, LengthSound
  <1> HIDE DEF taken, y, use
  <1>5. CASE taken # {} /\ use = 1
    <2>1. z = Serve(y)
      BY <1>2, <1>5
    <2>2. /\ Sound(z) /\ Keeps(y, z) /\ ServedAll(z)
          /\ z.view = "ready" => z.current = y.current
      BY <1>4, <1>5, <2>1, ServeSound
    <2>3. Pending(z)
      BY <1>4, <1>5, <2>2 DEF ServedAll, Pending
    <2>4. Keeps(x, z)
      BY <1>4, <1>5, <2>2, KeepsTransitive
    <2> QED BY <2>2, <2>3, <2>4
  <1>6. CASE taken # {} /\ use # 1 /\ x.chooser
    <2>1. z = BeginBuild(y, use, FALSE)
      BY <1>2, <1>6
    <2>2. use \in Lengths
      BY <1>0, <1>4, <1>6 DEF Lengths
    <2>3. ~y.building /\ ~y.closed /\ use = y.current
      BY <1>4, <1>6 DEF SameBuilds
    <2> DEFINE probe == FALSE
    <2>p. probe \in BOOLEAN /\ ~probe /\ z = BeginBuild(y, use, probe)
      BY <2>1
    <2> HIDE DEF probe
    <2>4. /\ Sound(z) /\ Keeps(y, z) /\ SameView(y, z) /\ SameQueue(y, z)
          /\ z.building /\ z.session = y.session /\ z.closed = y.closed
      BY <1>4, <1>6, <2>p, <2>2, <2>3, BeginBuildSound
    <2>5. Pending(z)
      BY <1>4, <1>6, <2>4 DEF Waits, Pending, SameView, SameQueue, SameBuilds
    <2>6. Keeps(x, z)
      BY <1>4, <1>6, <2>4, KeepsTransitive
    <2> QED BY <2>4, <2>5, <2>6
  <1>7. CASE taken # {} /\ use # 1 /\ ~x.chooser
    <2>1. z = y
      BY <1>2, <1>7
    <2>2. x.view # "ready"
      BY <1>7 DEF Sound, Backed
    <2>3. Pending(z)
      BY <1>4, <1>7, <2>1, <2>2 DEF Waits, Pending, SameView, SameQueue, SameBuilds
    <2> QED BY <1>4, <1>7, <2>1, <2>3
  <1> QED BY <1>3, <1>5, <1>6, <1>7

\* A build, or the length below, or the failure of who waits.
LEMMA StartBuildSound ==
    ASSUME NEW x, Sound(x), Waits(x), ~x.building, ~x.closed,
           NEW len \in Lengths, len = x.current, NEW a,
           NEW z, z = StartBuild(x, a, len)
    PROVE  Sound(z) /\ Keeps(x, z) /\ Pending(z)
  <1>1. CASE ~x.chooser
    <2>1. z = x
      BY <1>1 DEF StartBuild
    <2>2. x.view # "ready"
      BY <1>1 DEF Sound, Backed
    <2> QED BY <2>1, <2>2, KeepsSelf DEF Waits, Pending
  <1>2. CASE x.chooser /\ len \in a
    <2>1. z = BeginBuild(x, len, FALSE)
      BY <1>2 DEF StartBuild
    <2> DEFINE probe == FALSE
    <2>p. probe \in BOOLEAN /\ ~probe /\ z = BeginBuild(x, len, probe)
      BY <2>1
    <2> HIDE DEF probe
    <2>2. /\ Sound(z) /\ Keeps(x, z) /\ SameView(x, z) /\ SameQueue(x, z)
          /\ z.building /\ z.session = x.session /\ z.closed = x.closed
      BY <2>p, BeginBuildSound
    <2>3. Pending(z)
      BY <2>2 DEF Waits, Pending, SameView, SameQueue
    <2> QED BY <2>2, <2>3
  <1>3. CASE x.chooser /\ len \notin a
    <2>1. z = LengthFailed(x, a, len)
      BY <1>3 DEF StartBuild
    <2> QED BY <2>1, LengthFailedSound
  <1> QED BY <1>1, <1>2, <1>3

\* A cancelled request that waits has its pump posted.
Answers(x) == \A o \in ToSet(x.waiters) : req[o].cancelled => x.posted

\* The pump leaves no request waiting for nothing.
LEMMA PumpSound ==
    ASSUME NEW x, Sound(x), NEW a, NEW z, z = Pump(x, a)
    PROVE  Sound(z) /\ Keeps(x, z) /\ Pending(z) /\ Answers(z)
  <1> DEFINE y == Serve(x)
  <1>1. z = IF BuildingNeeded(y) THEN StartBuild(y, a, y.current) ELSE y
    BY DEF Pump
  <1>2. Sound(y) /\ Keeps(x, y) /\ ServedAll(y)
    BY ServeSound
  <1> HIDE DEF y
  <1>3. y.current \in Nat /\ y.current <= Hops
    BY <1>2, HopsFacts DEF Sound, Typed, InUse
  <1>4. CASE BuildingNeeded(y)
    <2>1. z = StartBuild(y, a, y.current)
      BY <1>1, <1>4
    <2>2. /\ ~y.closed /\ y.session /\ y.view = "ready" /\ ~y.building
          /\ y.current \in Lengths
      BY <1>3, <1>4, HopsFacts DEF BuildingNeeded, Lengths
    <2>3. Waits(y)
      BY <2>2 DEF Waits
    <2>4. Sound(z) /\ Keeps(y, z) /\ Pending(z)
      BY <1>2, <2>1, <2>2, <2>3, StartBuildSound
    <2>5. Keeps(x, z)
      BY <1>2, <2>4, KeepsTransitive
    <2>6. Answers(z)
      BY <1>2, <2>4 DEF Keeps, ServedAll, Answers
    <2> QED BY <2>4, <2>5, <2>6
  <1>5. CASE ~BuildingNeeded(y)
    <2>1. z = y
      BY <1>1, <1>5
    <2>2. Pending(y)
      BY <1>2, <1>3, <1>5 DEF ServedAll, Pending, BuildingNeeded
    <2>3. Answers(y)
      BY <1>2 DEF ServedAll, Answers
    <2> QED BY <1>2, <2>1, <2>2, <2>3
  <1> QED BY <1>4, <1>5

\* Requests that a helper leaves waiting keep their posted pump.
LEMMA AnswersKept ==
    ASSUME NEW x, NEW z, Answers(x), Keeps(x, z)
    PROVE  Answers(z)
  BY DEF Answers, Keeps

-----------------------------------------------------------------------------
(* The end of a build. *)

\* A build of an earlier session ends without a trace.
LEMMA ForgetStale ==
    ASSUME NEW p, Sound(p), NEW op \in p.ops, op.gen # p.gen \/ p.closed,
           NEW x, x = [p EXCEPT !.ops = @ \ {op}]
    PROVE  /\ Sound(x) /\ Keeps(p, x) /\ SameQueue(p, x)
           /\ x.view = p.view /\ x.building = p.building
  <1> DEFINE s == p.ops \ {op}
  <1>0. p \in Typed
    BY DEF Sound
  <1>1. s \in Builds
    BY <1>0 DEF Typed, Builds
  <1>2. x = [p EXCEPT !.ops = s]
    OBVIOUS
  <1>3. \A o : o \in s <=> o \in p.ops /\ o # op
    OBVIOUS
  <1> HIDE DEF s
  <1>4. x \in Typed
    BY <1>0, <1>1, <1>2 DEF Typed
  <1>5. /\ x.gen = p.gen /\ x.closed = p.closed /\ x.session = p.session
        /\ x.posted = p.posted /\ x.entries = p.entries /\ x.building = p.building
        /\ x.ops = s
    BY <1>0, <1>2 DEF Typed
  <1>6. SameView(p, x) /\ SameLength(p, x) /\ SameQueue(p, x)
    BY <1>0, <1>2 DEF Typed, SameView, SameLength, SameQueue
  <1>7. Owned(x)
    <2>1. ~x.closed => (x.building <=> \E o \in x.ops : o.gen = x.gen)
      BY <1>3, <1>5 DEF Sound, Owned
    <2>2. /\ \A o, other \in x.ops : o.gen = other.gen => o = other
          /\ \A o \in x.ops : o.stage = "building" => o.gen = x.gen /\ ~x.closed
          /\ \A o \in x.ops : o.gen <= x.gen
          /\ \A e \in ToSet(x.entries) : e.gen = x.gen /\ ~x.closed
      BY <1>3, <1>5 DEF Sound, Owned
    <2> QED BY <2>1, <2>2 DEF Owned
  <1>8. Backed(x)
    BY <1>5, <1>6 DEF Sound, Backed, SameView
  <1>9. Chosen(x)
    BY <1>3, <1>5, <1>6 DEF Sound, Chosen, SameLength
  <1>10. Keeps(p, x)
    BY <1>5, <1>6 DEF Keeps, Known, SameLength, SameQueue
  <1> QED BY <1>4, <1>5, <1>6, <1>7, <1>8, <1>9, <1>10 DEF Sound, SameView

\* The build of this session ends: nothing is being built.
LEMMA EndBuild ==
    ASSUME NEW p, Sound(p), NEW op \in p.ops, op.gen = p.gen, ~p.closed,
           NEW x, x = [[p EXCEPT !.ops = @ \ {op}] EXCEPT !.building = FALSE]
    PROVE  /\ Sound(x) /\ Keeps(p, x) /\ SameQueue(p, x) /\ SameLength(p, x)
           /\ x.view = p.view /\ ~x.building
  <1> DEFINE s == p.ops \ {op}
  <1>0. p \in Typed
    BY DEF Sound
  <1>1. s \in Builds
    BY <1>0 DEF Typed, Builds
  <1>2. x = [p EXCEPT !.ops = s, !.building = FALSE]
    OBVIOUS
  <1>3. \A o : o \in s <=> o \in p.ops /\ o # op
    OBVIOUS
  <1> HIDE DEF s
  <1>4. x \in Typed
    BY <1>0, <1>1, <1>2 DEF Typed
  <1>5. /\ x.gen = p.gen /\ x.closed = p.closed /\ x.session = p.session
        /\ x.posted = p.posted /\ x.entries = p.entries /\ x.building = FALSE
        /\ x.ops = s
    BY <1>0, <1>2 DEF Typed
  <1>6. SameView(p, x) /\ SameLength(p, x) /\ SameQueue(p, x)
    BY <1>0, <1>2 DEF Typed, SameView, SameLength, SameQueue
  <1>7. Owned(x)
    <2>1. \A o \in s : o.gen # p.gen
      BY <1>3 DEF Sound, Owned
    <2>2. ~x.closed => (x.building <=> \E o \in x.ops : o.gen = x.gen)
      BY <1>5, <2>1
    <2>3. /\ \A o, other \in x.ops : o.gen = other.gen => o = other
          /\ \A o \in x.ops : o.stage = "building" => o.gen = x.gen /\ ~x.closed
          /\ \A o \in x.ops : o.gen <= x.gen
          /\ \A e \in ToSet(x.entries) : e.gen = x.gen /\ ~x.closed
      BY <1>3, <1>5 DEF Sound, Owned
    <2> QED BY <2>2, <2>3 DEF Owned
  <1>8. Backed(x)
    BY <1>5, <1>6 DEF Sound, Backed, SameView
  <1>9. Chosen(x)
    BY <1>3, <1>5, <1>6 DEF Sound, Chosen, SameLength
  <1>10. Keeps(p, x)
    BY <1>5, <1>6 DEF Keeps, Known, SameLength, SameQueue
  <1> QED BY <1>4, <1>5, <1>6, <1>7, <1>8, <1>9, <1>10 DEF Sound, SameView

\* Fields that decide nothing here.
LEMMA AttemptsSound ==
    ASSUME NEW x, Sound(x), NEW n \in Tries, NEW y, y = [x EXCEPT !.attempts = n]
    PROVE  /\ Sound(y) /\ Keeps(x, y) /\ SameQueue(x, y) /\ SameBuilds(x, y)
           /\ SameView(x, y) /\ SameLength(x, y) /\ y.entries = x.entries
  <1>0. x \in Typed
    BY DEF Sound
  <1>1. y \in Typed
    BY <1>0 DEF Typed
  <1>2. SameBuilds(x, y) /\ SameQueue(x, y)
    BY <1>0 DEF Typed, SameBuilds, SameQueue
  <1>3. SameView(x, y) /\ SameLength(x, y) /\ y.entries = x.entries
    BY <1>0 DEF Typed, SameView, SameLength
  <1>4. Owned(y) /\ Backed(y) /\ Chosen(y)
    BY <1>2, <1>3 DEF Sound, Owned, Backed, Chosen, SameBuilds, SameView, SameLength
  <1>5. Keeps(x, y)
    BY <1>2, <1>3 DEF Keeps, Known, SameBuilds, SameLength, SameQueue
  <1> QED BY <1>1, <1>2, <1>3, <1>4, <1>5 DEF Sound

\* The time of the next spare decides nothing here either.
LEMMA SpareSound ==
    ASSUME NEW x, Sound(x), NEW b \in BOOLEAN, NEW y, y = [x EXCEPT !.spareLater = b]
    PROVE  /\ Sound(y) /\ Keeps(x, y) /\ SameQueue(x, y) /\ SameBuilds(x, y)
           /\ SameView(x, y) /\ SameLength(x, y) /\ y.entries = x.entries
  <1>0. x \in Typed
    BY DEF Sound
  <1>1. y \in Typed
    BY <1>0 DEF Typed
  <1>2. SameBuilds(x, y) /\ SameQueue(x, y)
    BY <1>0 DEF Typed, SameBuilds, SameQueue
  <1>3. SameView(x, y) /\ SameLength(x, y) /\ y.entries = x.entries
    BY <1>0 DEF Typed, SameView, SameLength
  <1>4. Owned(y) /\ Backed(y) /\ Chosen(y)
    BY <1>2, <1>3 DEF Sound, Owned, Backed, Chosen, SameBuilds, SameView, SameLength
  <1>5. Keeps(x, y)
    BY <1>2, <1>3 DEF Keeps, Known, SameBuilds, SameLength, SameQueue
  <1> QED BY <1>1, <1>2, <1>3, <1>4, <1>5 DEF Sound

\* A failed build is tried again, at its length or a shorter one, or the
\* requests that wait fail.
LEMMA BuildFailedSound ==
    ASSUME NEW x, Sound(x), Waits(x), Answers(x), ~x.building, ~x.closed,
           NEW op \in Build, ~op.probe => op.len = x.current, NEW a,
           NEW z, z = BuildFailed(x, a, op)
    PROVE  Sound(z) /\ Keeps(x, z) /\ Pending(z) /\ Answers(z)
  <1>0. x \in Typed /\ op.len \in Lengths
    BY DEF Sound, Build
  <1>1. CASE op.probe
    <2>1. z = Pump(x, a)
      BY <1>1 DEF BuildFailed
    <2> QED BY <2>1, PumpSound
  <1>2. CASE ~op.probe /\ op.len = x.current /\ \E e \in ToSet(x.entries) : Usable(x, e)
    <2> DEFINE b == TRUE
               y == [x EXCEPT !.spareLater = b]
    <2>1. z = Pump(y, a) /\ b \in BOOLEAN
      BY <1>2 DEF BuildFailed
    <2>2. y = [x EXCEPT !.spareLater = b]
      OBVIOUS
    <2> HIDE DEF b, y
    <2>3. Sound(y) /\ Keeps(x, y)
      BY <2>1, <2>2, SpareSound
    <2>4. Sound(z) /\ Keeps(y, z) /\ Pending(z) /\ Answers(z)
      BY <2>1, <2>3, PumpSound
    <2>5. Keeps(x, z)
      BY <2>3, <2>4, KeepsTransitive
    <2> QED BY <2>4, <2>5
  <1>3. CASE /\ ~op.probe /\ ~(\E e \in ToSet(x.entries) : Usable(x, e))
             /\ x.attempts + 1 < Attempts
    <2> DEFINE n == x.attempts + 1
               y == [x EXCEPT !.attempts = n]
    <2>1. z = StartBuild(y, a, op.len)
      BY <1>3 DEF BuildFailed
    <2>2. n \in Tries
      BY <1>0, <1>3, HopsFacts DEF Typed, Tries
    <2>3. y = [x EXCEPT !.attempts = n]
      OBVIOUS
    <2> HIDE DEF n, y
    <2>4. /\ Sound(y) /\ Keeps(x, y) /\ SameQueue(x, y) /\ SameBuilds(x, y)
          /\ SameView(x, y) /\ SameLength(x, y)
      BY <2>2, <2>3, AttemptsSound
    <2>5. Waits(y) /\ ~y.building /\ ~y.closed /\ op.len = y.current
      BY <1>3, <2>4 DEF Waits, SameQueue, SameBuilds, SameView, SameLength
    <2>6. Sound(z) /\ Keeps(y, z) /\ Pending(z)
      BY <1>0, <2>1, <2>4, <2>5, StartBuildSound
    <2>7. Keeps(x, z)
      BY <2>4, <2>6, KeepsTransitive
    <2> QED BY <2>6, <2>7, AnswersKept
  <1>4. CASE /\ ~op.probe /\ ~(\E e \in ToSet(x.entries) : Usable(x, e))
             /\ ~(x.attempts + 1 < Attempts)
    <2>1. z = LengthFailed(x, a, op.len)
      BY <1>4 DEF BuildFailed
    <2>2. op.len = x.current
      BY <1>4
    <2>3. Sound(z) /\ Keeps(x, z) /\ Pending(z)
      BY <1>0, <2>1, <2>2, LengthFailedSound
    <2> QED BY <2>3, AnswersKept
  <1> QED BY <1>1, <1>2, <1>3, <1>4

\* A circuit of this session is kept.
LEMMA AddCircuitSound ==
    ASSUME NEW y, Sound(y), ~y.closed, NEW op \in Build, op.gen = y.gen,
           NEW w, w = [y EXCEPT !.entries = Append(@, NewEntry(op))]
    PROVE  Sound(w) /\ Keeps(y, w)
  <1> DEFINE e == NewEntry(op)
             c == Append(y.entries, e)
  <1>0. y \in Typed /\ y.entries \in Seq(Entry)
    BY DEF Sound, Typed, Circuits
  <1>1. e \in Entry /\ e.gen = op.gen
    BY HopsFacts DEF NewEntry, Build, Entry
  <1>2. w = [y EXCEPT !.entries = c]
    OBVIOUS
  <1> HIDE DEF e
  <1>3. c \in Circuits /\ ToSet(c) = ToSet(y.entries) \cup {e}
    BY <1>0, <1>1, AppendQueue DEF Circuits
  <1> HIDE DEF c
  <1>4. w \in Typed
    BY <1>0, <1>2, <1>3 DEF Typed
  <1>5. SameBuilds(y, w) /\ SameQueue(y, w)
    BY <1>0, <1>2 DEF Typed, SameBuilds, SameQueue
  <1>6. SameView(y, w) /\ SameLength(y, w) /\ w.entries = c
    BY <1>0, <1>2 DEF Typed, SameView, SameLength
  <1>7. Owned(w)
    BY <1>1, <1>3, <1>5, <1>6 DEF Sound, Owned, SameBuilds
  <1>8. Backed(w) /\ Chosen(w)
    BY <1>5, <1>6 DEF Sound, Backed, Chosen, SameBuilds, SameView, SameLength
  <1>9. Keeps(y, w)
    BY <1>5, <1>6 DEF Keeps, Known, SameBuilds, SameLength, SameQueue
  <1> QED BY <1>4, <1>7, <1>8, <1>9 DEF Sound

\* A probe that works puts the configured length in use and ends an acceptance.
LEMMA LongerSound ==
    ASSUME NEW x, Sound(x), ~x.building, ~x.closed, NEW len, len = Hops,
           NEW y, y = [x EXCEPT !.attempts = 0, !.current = len, !.accepted = 0,
                                !.proposal = 0]
    PROVE  Sound(y) /\ SameBuilds(x, y) /\ SameQueue(x, y)
  <1>0. /\ x \in Typed /\ 0 \in Tries /\ 0 \in InUse /\ 0 \in Proposals /\ len \in InUse
        /\ Least(0) <= len
    BY HopsFacts, LeastFacts DEF Sound, Tries, InUse, Proposals
  <1>1. y \in Typed
    BY <1>0 DEF Typed
  <1>2. SameBuilds(x, y) /\ SameQueue(x, y)
    BY <1>0 DEF Typed, SameBuilds, SameQueue
  <1>3. SameView(x, y) /\ y.entries = x.entries
    BY <1>0 DEF Typed, SameView
  <1>4. y.current = len /\ y.accepted = 0 /\ y.proposal = 0
    BY <1>0 DEF Typed
  <1>5. Owned(y) /\ Backed(y)
    BY <1>2, <1>3 DEF Sound, Owned, Backed, SameBuilds, SameView
  <1>6. \A o \in y.ops : o.gen # y.gen
    BY <1>2 DEF Sound, Owned, SameBuilds
  <1>7. Chosen(y)
    BY <1>0, <1>4, <1>6 DEF Chosen
  <1> QED BY <1>1, <1>2, <1>4, <1>5, <1>7 DEF Sound

\* A circuit is there: who waits is served, and a longer one ends an acceptance.
LEMMA BuiltSound ==
    ASSUME NEW x, Sound(x), ~x.building, ~x.closed,
           NEW op \in Build, op.gen = x.gen,
           op.len = IF op.probe THEN Hops ELSE x.current,
           NEW a, NEW z, z = Built(x, a, op)
    PROVE  Sound(z) /\ Pending(z) /\ Answers(z) /\ Known(x) \subseteq Known(z)
  <1> DEFINE longer == op.probe \/ op.len > x.current
             y == IF longer
                  THEN [x EXCEPT !.attempts = 0, !.current = op.len, !.accepted = 0,
                                 !.proposal = 0]
                  ELSE [x EXCEPT !.attempts = 0]
             w == [y EXCEPT !.entries = Append(@, NewEntry(op))]
  <1>0. 0 \in Tries
    BY HopsFacts DEF Tries
  <1>1. z = Pump(w, a)
    BY DEF Built
  <1>2. w = [y EXCEPT !.entries = Append(@, NewEntry(op))]
    OBVIOUS
  <1>3. Sound(y) /\ SameBuilds(x, y) /\ SameQueue(x, y)
    <2>1. CASE longer
      <3>1. y = [x EXCEPT !.attempts = 0, !.current = op.len, !.accepted = 0,
                          !.proposal = 0]
        BY <2>1
      <3>2. op.len = Hops
        <4>1. x.current \in Nat
          BY HopsFacts DEF Sound, Typed, InUse
        <4> QED BY <2>1, <4>1
      <3> HIDE DEF y, longer
      <3> QED BY <3>1, <3>2, LongerSound
    <2>2. CASE ~longer
      <3>1. y = [x EXCEPT !.attempts = 0]
        BY <2>2
      <3> HIDE DEF y, longer
      <3> QED BY <1>0, <3>1, AttemptsSound
    <2> QED BY <2>1, <2>2
  <1> HIDE DEF w, y, longer
  <1>4. ~y.closed /\ op.gen = y.gen
    BY <1>3 DEF SameBuilds
  <1>5. Sound(w) /\ Keeps(y, w)
    BY <1>2, <1>3, <1>4, AddCircuitSound
  <1>6. Sound(z) /\ Keeps(w, z) /\ Pending(z) /\ Answers(z)
    BY <1>1, <1>5, PumpSound
  <1>7. Known(x) = Known(y)
    BY <1>3 DEF Known, SameQueue
  <1> QED BY <1>3, <1>5, <1>6, <1>7 DEF Keeps

-----------------------------------------------------------------------------
(* The end of a handler. *)

Request == [state : {"new", "waiting", "handed", "settled"}, cancelled : BOOLEAN]

\* Every waiting request is in the queue.
Queued == \A o \in Opens : req[o].state = "waiting" => o \in ToSet(pool.waiters)

Between ==
    /\ req \in [Opens -> Request]
    /\ Sound(pool) /\ Pending(pool) /\ Answers(pool) /\ Queued

\* A handler that ends soundly and dropped no request leaves a sound pool.
LEMMA FinishBetween ==
    ASSUME req \in [Opens -> Request], Queued,
           NEW x, Sound(x), Pending(x), Answers(x),
           ToSet(pool.waiters) \subseteq Known(x), Finish(x)
    PROVE  Between' /\ pool'.accepted = x.accepted /\ pool'.current = x.current
  <1>0. x \in Typed /\ {} \in Requests
    BY DEF Sound, Requests
  <1>1. pool' = [x EXCEPT !.told = {}, !.handed = {}]
    BY DEF Finish
  <1>2. pool' \in Typed
    BY <1>0, <1>1 DEF Typed
  <1>3. SameBuilds(x, pool')
    BY <1>0, <1>1 DEF Typed, SameBuilds
  <1>4. SameView(x, pool') /\ SameLength(x, pool')
    BY <1>0, <1>1 DEF Typed, SameView, SameLength
  <1>5. pool'.waiters = x.waiters /\ pool'.entries = x.entries
    BY <1>0, <1>1 DEF Typed
  <1>6. Sound(pool')
    <2>1. Owned(pool') /\ Backed(pool') /\ Chosen(pool')
      BY <1>3, <1>4, <1>5 DEF Sound, Owned, Backed, Chosen, SameBuilds, SameView, SameLength
    <2> QED BY <1>2, <2>1 DEF Sound
  <1>7. Pending(pool')
    BY <1>3, <1>4, <1>5 DEF Pending, SameBuilds, SameView
  <1>8. /\ req' \in [Opens -> Request]
        /\ \A o \in Opens : /\ req'[o].cancelled = req[o].cancelled
                            /\ req'[o].state = "waiting" /\ o \notin ToSet(x.waiters) =>
                                 /\ o \notin x.told \cup x.handed
                                 /\ req[o].state = "waiting"
    <2> DEFINE f(o) == IF o \in x.told THEN [req[o] EXCEPT !.state = "settled"]
                 ELSE IF o \in x.handed THEN [req[o] EXCEPT !.state = "handed"]
                 ELSE IF o \in ToSet(x.waiters) THEN [req[o] EXCEPT !.state = "waiting"]
                 ELSE req[o]
    <2>1. req' = [o \in Opens |-> f(o)]
      BY DEF Finish
    <2>2. ASSUME NEW o \in Opens
          PROVE  /\ f(o) \in Request /\ f(o).cancelled = req[o].cancelled
                 /\ f(o).state = "waiting" /\ o \notin ToSet(x.waiters) =>
                                 /\ o \notin x.told \cup x.handed
                                 /\ req[o].state = "waiting"
      <3>1. req[o] \in Request
        OBVIOUS
      <3> DEFINE r == req[o]
      <3> HIDE DEF r
      <3>2. ASSUME NEW s \in {"new", "waiting", "handed", "settled"}
            PROVE  /\ [r EXCEPT !.state = s] \in Request
                   /\ [r EXCEPT !.state = s].cancelled = r.cancelled
                   /\ [r EXCEPT !.state = s].state = s
        BY <3>1 DEF Request, r
      <3>3. f(o) = IF o \in x.told THEN [r EXCEPT !.state = "settled"]
                 ELSE IF o \in x.handed THEN [r EXCEPT !.state = "handed"]
                 ELSE IF o \in ToSet(x.waiters) THEN [r EXCEPT !.state = "waiting"]
                 ELSE r
        BY DEF r
      <3> HIDE DEF f
      <3> QED BY <3>1, <3>2, <3>3 DEF r
    <2> HIDE DEF f
    <2> QED BY <2>1, <2>2
  <1>9. Queued'
    <2> SUFFICES ASSUME NEW o \in Opens, req'[o].state = "waiting"
                 PROVE  o \in ToSet(pool'.waiters)
      BY DEF Queued
    <2> QED BY <1>5, <1>8 DEF Queued, Known
  <1>10. Answers(pool)'
    <2>1. ToSet(x.waiters) \subseteq Opens
      BY <1>0, QueueToSet DEF Typed, Requests
    <2> QED BY <1>3, <1>5, <1>8, <2>1 DEF Answers, SameBuilds
  <1> QED BY <1>4, <1>6, <1>7, <1>8, <1>9, <1>10 DEF Between, SameLength

-----------------------------------------------------------------------------
(* The inductive invariant, and the actions that preserve it. *)

Inv == Between /\ consent \in 1..Hops

\* The same for the whole invariant.
LEMMA HandlerInv ==
    ASSUME Inv, NEW x, Sound(x), Pending(x), Answers(x),
           ToSet(pool.waiters) \subseteq Known(x), Finish(x), UNCHANGED consent
    PROVE  Inv'
  <1>1. Between'
    BY FinishBetween DEF Inv, Between
  <1> QED BY <1>1 DEF Inv

\* The same for a handler made of helpers only.
LEMMA KeptInv ==
    ASSUME Inv, NEW x, Sound(x), Pending(x), Answers(x), Keeps(pool, x),
           Finish(x), UNCHANGED consent
    PROVE  Inv'
  <1>1. ToSet(pool.waiters) \subseteq Known(x)
    BY DEF Keeps, Known
  <1> QED BY <1>1, HandlerInv

\* Posting a pump, or taking it.
LEMMA PostedSound ==
    ASSUME NEW x, Sound(x), NEW b \in BOOLEAN, NEW y, y = [x EXCEPT !.posted = b]
    PROVE  /\ Sound(y) /\ SameQueue(x, y) /\ SameView(x, y) /\ SameLength(x, y)
           /\ y.session = x.session /\ y.closed = x.closed /\ y.building = x.building
           /\ y.posted = b
  <1>0. x \in Typed
    BY DEF Sound
  <1>1. y \in Typed
    BY <1>0 DEF Typed
  <1>2. /\ y.gen = x.gen /\ y.closed = x.closed /\ y.session = x.session
        /\ y.building = x.building /\ y.ops = x.ops /\ y.entries = x.entries
        /\ y.posted = b
    BY <1>0 DEF Typed
  <1>3. SameView(x, y) /\ SameLength(x, y) /\ SameQueue(x, y)
    BY <1>0 DEF Typed, SameView, SameLength, SameQueue
  <1>4. Owned(y) /\ Backed(y) /\ Chosen(y)
    BY <1>2, <1>3 DEF Sound, Owned, Backed, Chosen, SameView, SameLength
  <1> QED BY <1>1, <1>2, <1>3, <1>4 DEF Sound

\* PostedPump preserves the invariant: it answers what its post promised.
LEMMA PostedPumpInv ==
    ASSUME Inv, NEW a, PostedPump(a)
    PROVE  Inv'
  <1> DEFINE b == FALSE
             y == [pool EXCEPT !.posted = b]
             z == Pump(y, a)
  <1>1. Finish(z) /\ UNCHANGED consent /\ b \in BOOLEAN
    BY DEF PostedPump
  <1>2. y = [pool EXCEPT !.posted = b] /\ Sound(pool)
    BY DEF Inv, Between
  <1> HIDE DEF b, y
  <1>3. Sound(y) /\ SameQueue(pool, y) /\ SameLength(pool, y)
    BY <1>1, <1>2, PostedSound
  <1>4. Sound(z) /\ Keeps(y, z) /\ Pending(z) /\ Answers(z)
    BY <1>3, PumpSound
  <1> HIDE DEF z
  <1>5. ToSet(pool.waiters) \subseteq Known(z) /\ z.accepted = pool.accepted
    BY <1>3, <1>4 DEF Keeps, Known, SameQueue, SameLength
  <1> QED BY <1>1, <1>4, <1>5, HandlerInv

\* Open preserves the invariant.
LEMMA OpenInv ==
    ASSUME Inv, NEW o \in Opens, NEW a, Open(o, a)
    PROVE  Inv'
  <1> DEFINE q == Append(pool.waiters, o)
             y == [pool EXCEPT !.waiters = q]
             z == Pump(y, a)
  <1>0. Sound(pool) /\ pool \in Typed /\ pool.waiters \in Seq(Opens)
    BY DEF Inv, Between, Sound, Typed, Queue
  <1>1. Finish(z) /\ UNCHANGED consent
    BY DEF Open
  <1>2. q \in Queue /\ ToSet(q) = ToSet(pool.waiters) \cup {o}
    BY <1>0, AppendQueue DEF Queue
  <1>3. y = [pool EXCEPT !.waiters = q]
    OBVIOUS
  <1> HIDE DEF q, y
  <1>4. y \in Typed
    BY <1>0, <1>2, <1>3 DEF Typed
  <1>5. SameBuilds(pool, y)
    BY <1>0, <1>3 DEF Typed, SameBuilds
  <1>6. SameView(pool, y) /\ SameLength(pool, y)
    BY <1>0, <1>3 DEF Typed, SameView, SameLength
  <1>7. y.waiters = q /\ y.entries = pool.entries
    BY <1>0, <1>3 DEF Typed
  <1>8. Owned(y) /\ Backed(y) /\ Chosen(y)
    BY <1>0, <1>5, <1>6, <1>7 DEF Sound, Owned, Backed, Chosen, SameBuilds, SameView, SameLength
  <1>9. Sound(z) /\ Keeps(y, z) /\ Pending(z) /\ Answers(z)
    BY <1>4, <1>8, PumpSound DEF Sound
  <1> HIDE DEF z
  <1>10. ToSet(pool.waiters) \subseteq Known(z) /\ z.accepted = pool.accepted
    BY <1>2, <1>6, <1>7, <1>9 DEF Keeps, Known, SameLength
  <1> QED BY <1>1, <1>9, <1>10, HandlerInv

\* Cancel preserves the invariant: the pump it posts answers the request.
LEMMA CancelInv ==
    ASSUME Inv, NEW o \in Opens, Cancel(o)
    PROVE  Inv'
  <1> DEFINE b == TRUE
  <1>1. pool' = [pool EXCEPT !.posted = b] /\ b \in BOOLEAN /\ Sound(pool)
    BY DEF Cancel, Inv, Between
  <1> HIDE DEF b
  <1>2. /\ Sound(pool') /\ SameQueue(pool, pool') /\ SameView(pool, pool')
        /\ SameLength(pool, pool')
        /\ pool'.session = pool.session /\ pool'.closed = pool.closed
        /\ pool'.building = pool.building /\ pool'.posted = b
    BY <1>1, PostedSound
  <1>3. Pending(pool')
    BY <1>2 DEF Inv, Between, Pending, SameQueue, SameView
  <1>4. Answers(pool)'
    BY <1>2 DEF Answers, b
  <1>5. /\ req' \in [Opens -> Request]
        /\ \A p \in Opens : req'[p].state = req[p].state
    <2>1. req \in [Opens -> Request] /\ req' = [req EXCEPT ![o].cancelled = TRUE]
      BY DEF Inv, Between, Cancel
    <2> QED BY <2>1 DEF Request
  <1>6. Queued'
    BY <1>2, <1>5 DEF Inv, Between, Queued, SameQueue
  <1>7. UNCHANGED consent /\ pool'.accepted = pool.accepted
    BY <1>2 DEF Cancel, SameLength
  <1> QED BY <1>2, <1>3, <1>4, <1>5, <1>6, <1>7 DEF Inv, Between

\* Delivered preserves the invariant.
LEMMA DeliveredInv ==
    ASSUME Inv, NEW o \in Opens, Delivered(o)
    PROVE  Inv'
  <1>1. pool' = pool /\ UNCHANGED consent
    BY DEF Delivered
  <1>2. /\ req' \in [Opens -> Request]
        /\ \A p \in Opens : /\ req'[p].state = "waiting" => req[p].state = "waiting"
                            /\ req'[p].cancelled = req[p].cancelled
    <2>1. req \in [Opens -> Request] /\ req' = [req EXCEPT ![o].state = "settled"]
      BY DEF Inv, Between, Delivered
    <2> QED BY <2>1 DEF Request
  <1>3. Queued'
    BY <1>1, <1>2 DEF Inv, Between, Queued
  <1>4. ToSet(pool.waiters) \subseteq Opens
    BY QueueToSet DEF Inv, Between, Sound, Typed, Requests
  <1>5. Answers(pool)'
    BY <1>1, <1>2, <1>4 DEF Inv, Between, Answers
  <1>6. Sound(pool') /\ Pending(pool')
    BY <1>1 DEF Inv, Between
  <1> QED BY <1>1, <1>2, <1>3, <1>5, <1>6 DEF Inv, Between

\* The answer of a fetch is taken off.
LEMMA FetchEnds ==
    ASSUME NEW p, Sound(p), NEW g, NEW x, x = [p EXCEPT !.fetches = @ \ {g}]
    PROVE  /\ x \in Typed /\ Owned(x) /\ Chosen(x) /\ SameBuilds(p, x) /\ SameQueue(p, x)
           /\ SameLength(p, x) /\ x.view = p.view /\ x.chooser = p.chooser
           /\ x.entries = p.entries
           /\ g # p.gen \/ p.closed => Sound(x) /\ Keeps(p, x)
  <1> DEFINE s == p.fetches \ {g}
  <1>0. p \in Typed
    BY DEF Sound
  <1>1. s \in Fetches
    BY <1>0 DEF Typed, Fetches
  <1>2. x = [p EXCEPT !.fetches = s]
    OBVIOUS
  <1>3. g # p.gen /\ p.gen \in p.fetches => p.gen \in s
    OBVIOUS
  <1> HIDE DEF s
  <1>4. x \in Typed
    BY <1>0, <1>1, <1>2 DEF Typed
  <1>5. SameBuilds(p, x) /\ SameQueue(p, x)
    BY <1>0, <1>2 DEF Typed, SameBuilds, SameQueue
  <1>6. /\ SameLength(p, x) /\ x.view = p.view /\ x.chooser = p.chooser
        /\ x.entries = p.entries /\ x.fetches = s
    BY <1>0, <1>2 DEF Typed, SameLength
  <1>7. Owned(x) /\ Chosen(x)
    BY <1>5, <1>6 DEF Sound, Owned, Chosen, SameBuilds, SameLength
  <1>8. g # p.gen \/ p.closed => Backed(x)
    BY <1>3, <1>5, <1>6 DEF Sound, Backed, SameBuilds
  <1>9. Keeps(p, x)
    BY <1>5, <1>6 DEF Keeps, Known, SameBuilds, SameLength, SameQueue
  <1> QED BY <1>4, <1>5, <1>6, <1>7, <1>8, <1>9 DEF Sound

\* An answered fetch whose view is not set yet.
LEMMA FetchedDiscards ==
    ASSUME NEW x \in Typed, Owned(x), Chosen(x), NEW d, d = DiscardProposal(x)
    PROVE  /\ d \in Typed /\ Owned(d) /\ Chosen(d) /\ SameBuilds(x, d) /\ SameQueue(x, d)
           /\ d.accepted = x.accepted /\ SameView(x, d)
  <1>1. /\ d \in Typed /\ SameBuilds(x, d) /\ SameView(x, d) /\ SameQueue(x, d)
        /\ d.entries = x.entries /\ d.accepted = x.accepted
    BY DiscardFacts
  <1>2. Owned(d)
    BY <1>1 DEF Owned, SameBuilds
  <1>3. Chosen(d)
    BY DiscardChosen
  <1> QED BY <1>1, <1>2, <1>3

\* ViewArrives preserves the invariant, for this session and an earlier one.
LEMMA ViewArrivesInv ==
    ASSUME Inv, NEW g \in pool.fetches, NEW a, ViewArrives(g, a)
    PROVE  Inv'
  <1> DEFINE x == [pool EXCEPT !.fetches = @ \ {g}]
             d == DiscardProposal(x)
             y == [d EXCEPT !.view = "ready", !.expired = FALSE, !.chooser = TRUE]
             z == Pump(y, a)
  <1>0. Sound(pool) /\ Pending(pool) /\ Answers(pool)
    BY DEF Inv, Between
  <1>1. Finish(IF Stale(g) THEN x ELSE z) /\ UNCHANGED consent
    BY DEF ViewArrives
  <1>2. /\ x = [pool EXCEPT !.fetches = @ \ {g}]
        /\ y = [d EXCEPT !.view = "ready", !.expired = FALSE, !.chooser = TRUE]
    OBVIOUS
  <1> HIDE DEF x
  <1>3. /\ x \in Typed /\ Owned(x) /\ Chosen(x) /\ SameBuilds(pool, x)
        /\ SameQueue(pool, x) /\ SameLength(pool, x) /\ x.view = pool.view
        /\ g # pool.gen \/ pool.closed => Sound(x) /\ Keeps(pool, x)
    BY <1>0, <1>2, FetchEnds
  <1>4. CASE Stale(g)
    <2>1. Sound(x) /\ Keeps(pool, x)
      BY <1>3, <1>4 DEF Stale
    <2>2. Pending(x)
      BY <1>0, <1>3 DEF Pending, SameQueue, SameBuilds
    <2>3. Answers(x)
      BY <1>0, <2>1, AnswersKept
    <2> QED BY <1>1, <1>4, <2>1, <2>2, <2>3, KeptInv
  <1>5. CASE ~Stale(g)
    <2>1. /\ d \in Typed /\ Owned(d) /\ Chosen(d) /\ SameBuilds(x, d)
          /\ SameQueue(x, d) /\ d.accepted = x.accepted
      BY <1>3, FetchedDiscards
    <2> HIDE DEF d, y
    <2>2. "ready" \in Views
      BY DEF Views
    <2>3. y \in Typed
      BY <1>2, <2>1, <2>2 DEF Typed
    <2>4. SameBuilds(d, y) /\ SameQueue(d, y)
      BY <1>2, <2>1 DEF Typed, SameBuilds, SameQueue
    <2>5. SameLength(d, y) /\ y.view = "ready" /\ y.chooser /\ y.entries = d.entries
      BY <1>2, <2>1 DEF Typed, SameLength
    <2>6. Owned(y) /\ Backed(y) /\ Chosen(y)
      BY <2>1, <2>4, <2>5 DEF Owned, Backed, Chosen, SameBuilds, SameLength
    <2>7. Sound(z) /\ Keeps(y, z) /\ Pending(z) /\ Answers(z)
      BY <2>3, <2>6, PumpSound DEF Sound
    <2> HIDE DEF z
    <2>8. ToSet(pool.waiters) \subseteq Known(z) /\ z.accepted = pool.accepted
      BY <1>3, <2>1, <2>4, <2>5, <2>7 DEF Keeps, Known, SameQueue, SameLength
    <2> QED BY <1>1, <1>5, <2>7, <2>8, HandlerInv
  <1> QED BY <1>4, <1>5

\* ViewFails preserves the invariant.
LEMMA ViewFailsInv ==
    ASSUME Inv, NEW g \in pool.fetches, ViewFails(g)
    PROVE  Inv'
  <1> DEFINE x == [pool EXCEPT !.fetches = @ \ {g}]
             d == DiscardProposal(x)
             y == [d EXCEPT !.view = "failed", !.chooser = FALSE]
             z == FailWaiters(y)
  <1>0. Sound(pool) /\ Pending(pool) /\ Answers(pool)
    BY DEF Inv, Between
  <1>1. Finish(IF Stale(g) THEN x ELSE z) /\ UNCHANGED consent
    BY DEF ViewFails
  <1>2. /\ x = [pool EXCEPT !.fetches = @ \ {g}]
        /\ y = [d EXCEPT !.view = "failed", !.chooser = FALSE]
    OBVIOUS
  <1> HIDE DEF x
  <1>3. /\ x \in Typed /\ Owned(x) /\ Chosen(x) /\ SameBuilds(pool, x)
        /\ SameQueue(pool, x) /\ SameLength(pool, x) /\ x.view = pool.view
        /\ g # pool.gen \/ pool.closed => Sound(x) /\ Keeps(pool, x)
    BY <1>0, <1>2, FetchEnds
  <1>4. CASE Stale(g)
    <2>1. Sound(x) /\ Keeps(pool, x)
      BY <1>3, <1>4 DEF Stale
    <2>2. Pending(x)
      BY <1>0, <1>3 DEF Pending, SameQueue, SameBuilds
    <2>3. Answers(x)
      BY <1>0, <2>1, AnswersKept
    <2> QED BY <1>1, <1>4, <2>1, <2>2, <2>3, KeptInv
  <1>5. CASE ~Stale(g)
    <2>1. /\ d \in Typed /\ Owned(d) /\ Chosen(d) /\ SameBuilds(x, d)
          /\ SameQueue(x, d) /\ d.accepted = x.accepted
      BY <1>3, FetchedDiscards
    <2> HIDE DEF d, y
    <2>2. "failed" \in Views
      BY DEF Views
    <2>3. y \in Typed
      BY <1>2, <2>1, <2>2 DEF Typed
    <2>4. SameBuilds(d, y) /\ SameQueue(d, y)
      BY <1>2, <2>1 DEF Typed, SameBuilds, SameQueue
    <2>5. SameLength(d, y) /\ y.view = "failed" /\ y.entries = d.entries
      BY <1>2, <2>1 DEF Typed, SameLength
    <2>6. Owned(y) /\ Backed(y) /\ Chosen(y)
      BY <2>1, <2>4, <2>5 DEF Owned, Backed, Chosen, SameBuilds, SameLength
    <2>7. Sound(z) /\ Keeps(y, z) /\ z.waiters = <<>>
      BY <2>3, <2>6, FailWaitersSound DEF Sound
    <2> HIDE DEF z
    <2>8. ToSet(pool.waiters) \subseteq Known(z) /\ z.accepted = pool.accepted
      BY <1>3, <2>1, <2>4, <2>5, <2>7 DEF Keeps, Known, SameQueue, SameLength
    <2>9. Pending(z) /\ Answers(z)
      BY <2>7, EmptyToSet DEF Pending, Answers
    <2> QED BY <1>1, <1>5, <2>7, <2>8, <2>9, HandlerInv
  <1> QED BY <1>4, <1>5

\* The end of a build that is not of the present session.
LEMMA StaleInv ==
    ASSUME Inv, NEW op \in pool.ops, Stale(op.gen),
           NEW x, x = [pool EXCEPT !.ops = @ \ {op}], Finish(x), UNCHANGED consent
    PROVE  Inv'
  <1>0. Sound(pool) /\ Pending(pool) /\ Answers(pool)
    BY DEF Inv, Between
  <1>1. /\ Sound(x) /\ Keeps(pool, x) /\ SameQueue(pool, x)
        /\ x.view = pool.view /\ x.building = pool.building
    BY <1>0, ForgetStale DEF Stale
  <1>2. Pending(x)
    BY <1>0, <1>1 DEF Pending, SameQueue, Keeps
  <1>3. Answers(x)
    BY <1>0, <1>1, AnswersKept
  <1> QED BY <1>1, <1>2, <1>3, KeptInv

\* BuildFails preserves the invariant.
LEMMA BuildFailsInv ==
    ASSUME Inv, NEW op \in pool.ops, NEW a, BuildFails(op, a)
    PROVE  Inv'
  <1> DEFINE x == [pool EXCEPT !.ops = @ \ {op}]
             w == [x EXCEPT !.building = FALSE]
             z == BuildFailed(w, a, op)
  <1>0. Sound(pool) /\ Pending(pool) /\ Answers(pool) /\ pool \in Typed
    BY DEF Inv, Between, Sound
  <1>1. Finish(IF Stale(op.gen) THEN x ELSE z) /\ UNCHANGED consent
    BY DEF BuildFails
  <1>2. CASE Stale(op.gen)
    <2>1. x = [pool EXCEPT !.ops = @ \ {op}] /\ Finish(x)
      BY <1>1, <1>2
    <2> HIDE DEF x
    <2> QED BY <1>1, <1>2, <2>1, StaleInv
  <1>3. CASE ~Stale(op.gen)
    <2>1. w = [[pool EXCEPT !.ops = @ \ {op}] EXCEPT !.building = FALSE]
      OBVIOUS
    <2>2. op.gen = pool.gen /\ ~pool.closed
      BY <1>3 DEF Stale
    <2> HIDE DEF x, w
    <2>3. /\ Sound(w) /\ Keeps(pool, w) /\ SameQueue(pool, w) /\ SameLength(pool, w)
          /\ w.view = pool.view /\ ~w.building
      BY <1>0, <2>1, <2>2, EndBuild
    <2>4. Waits(w) /\ ~w.closed
      BY <1>0, <2>2, <2>3 DEF Waits, Pending, SameQueue, Keeps
    <2>5. op \in Build /\ (~op.probe => op.len = w.current)
      <3>1. op \in Build
        BY <1>0, BuildLength
      <3>2. ~op.probe => op.len = pool.current
        BY <1>0, <2>2 DEF Sound, Chosen
      <3> QED BY <2>3, <3>1, <3>2 DEF SameLength
    <2>6. Answers(w)
      BY <1>0, <2>3, AnswersKept
    <2>7. Sound(z) /\ Keeps(w, z) /\ Pending(z) /\ Answers(z)
      BY <2>3, <2>4, <2>5, <2>6, BuildFailedSound
    <2> HIDE DEF z
    <2>8. Keeps(pool, z)
      BY <2>3, <2>7, KeepsTransitive
    <2> QED BY <1>1, <1>3, <2>7, <2>8, KeptInv
  <1> QED BY <1>2, <1>3

\* BuildSucceeds preserves the invariant.
LEMMA BuildSucceedsInv ==
    ASSUME Inv, NEW op \in pool.ops, NEW a, BuildSucceeds(op, a)
    PROVE  Inv'
  <1> DEFINE x == [pool EXCEPT !.ops = @ \ {op}]
             w == [x EXCEPT !.building = FALSE]
             z == Built(w, a, op)
  <1>0. Sound(pool) /\ Pending(pool) /\ Answers(pool) /\ pool \in Typed
    BY DEF Inv, Between, Sound
  <1>1. /\ Finish(IF Stale(op.gen) THEN x ELSE z)
        /\ consent' = IF Stale(op.gen) \/ op.len # Hops THEN consent ELSE NoConsent
    BY DEF BuildSucceeds
  <1>2. CASE Stale(op.gen)
    <2>1. x = [pool EXCEPT !.ops = @ \ {op}] /\ Finish(x) /\ UNCHANGED consent
      BY <1>1, <1>2
    <2> HIDE DEF x
    <2> QED BY <1>2, <2>1, StaleInv
  <1>3. CASE ~Stale(op.gen)
    <2>1. w = [[pool EXCEPT !.ops = @ \ {op}] EXCEPT !.building = FALSE]
      OBVIOUS
    <2>2. op.gen = pool.gen /\ ~pool.closed
      BY <1>3 DEF Stale
    <2> HIDE DEF x, w
    <2>3. /\ Sound(w) /\ Keeps(pool, w) /\ SameQueue(pool, w) /\ SameLength(pool, w)
          /\ w.view = pool.view /\ ~w.building
      BY <1>0, <2>1, <2>2, EndBuild
    <2>4. ~w.closed /\ op.gen = w.gen
      BY <2>2, <2>3 DEF Keeps
    <2>5. op \in Build /\ op.len = IF op.probe THEN Hops ELSE w.current
      BY <1>0, <2>2, <2>3, BuildLength DEF Sound, Chosen, SameLength
    <2>6. Sound(z) /\ Pending(z) /\ Answers(z) /\ Known(w) \subseteq Known(z)
      BY <2>3, <2>4, <2>5, BuiltSound
    <2> HIDE DEF z
    <2>7. Finish(z)
      BY <1>1, <1>3
    <2>8. ToSet(pool.waiters) \subseteq Known(z)
      BY <2>3, <2>6 DEF Known, SameQueue
    <2>9. Between'
      BY <2>6, <2>7, <2>8, FinishBetween DEF Inv, Between
    <2>10. consent' \in 1..Hops
      BY <1>1, HopsFacts DEF Inv, NoConsent
    <2> QED BY <2>9, <2>10 DEF Inv
  <1> QED BY <1>2, <1>3

\* A build moves on from its service's opening.
LEMMA OpenedSound ==
    ASSUME NEW p, Sound(p), NEW op \in p.ops, op.gen = p.gen, ~p.closed,
           NEW y, y = [[p EXCEPT !.ops = @ \ {op}]
                         EXCEPT !.ops = @ \cup {[op EXCEPT !.stage = "building"]}]
    PROVE  /\ Sound(y) /\ Keeps(p, y) /\ SameQueue(p, y) /\ SameView(p, y)
           /\ y.building = p.building
  <1> DEFINE n == [op EXCEPT !.stage = "building"]
             s == (p.ops \ {op}) \cup {n}
  <1>0. p \in Typed /\ op \in Build
    BY BuildLength DEF Sound
  <1>1. n \in Build /\ n.gen = op.gen /\ n.len = op.len /\ n.probe = op.probe
    BY <1>0 DEF Build
  <1>2. y = [p EXCEPT !.ops = s]
    BY <1>0 DEF Typed
  <1> HIDE DEF n
  <1>3. s \in Builds
    BY <1>0, <1>1 DEF Typed, Builds
  <1>4. n \in s /\ \A o \in s : o = n \/ (o \in p.ops /\ o # op)
    OBVIOUS
  <1> HIDE DEF s
  <1>5. y \in Typed
    BY <1>0, <1>2, <1>3 DEF Typed
  <1>6. /\ y.gen = p.gen /\ y.closed = p.closed /\ y.session = p.session
        /\ y.posted = p.posted /\ y.entries = p.entries /\ y.building = p.building
        /\ y.ops = s
    BY <1>0, <1>2 DEF Typed
  <1>7. SameView(p, y) /\ SameLength(p, y) /\ SameQueue(p, y)
    BY <1>0, <1>2 DEF Typed, SameView, SameLength, SameQueue
  <1>8. \A o \in p.ops : o # op => o.gen # op.gen
    BY DEF Sound, Owned
  <1>9. Owned(y)
    <2>1. y.building <=> \E o \in y.ops : o.gen = y.gen
      BY <1>1, <1>4, <1>6 DEF Sound, Owned
    <2>2. \A o, other \in y.ops : o.gen = other.gen => o = other
      BY <1>1, <1>4, <1>6, <1>8 DEF Sound, Owned
    <2>3. \A o \in y.ops : o.stage = "building" => o.gen = y.gen /\ ~y.closed
      BY <1>1, <1>4, <1>6 DEF Sound, Owned
    <2>4. \A o \in y.ops : o.gen <= y.gen
      BY <1>1, <1>4, <1>6 DEF Sound, Owned
    <2>5. \A e \in ToSet(y.entries) : e.gen = y.gen /\ ~y.closed
      BY <1>6 DEF Sound, Owned
    <2> QED BY <2>1, <2>2, <2>3, <2>4, <2>5 DEF Owned
  <1>10. Backed(y)
    BY <1>6, <1>7 DEF Sound, Backed, SameView
  <1>11. Chosen(y)
    <2>1. \A o \in y.ops : o.gen = y.gen => o.len = IF o.probe THEN Hops ELSE y.current
      BY <1>1, <1>4, <1>6, <1>7 DEF Sound, Chosen, SameLength
    <2> QED BY <1>7, <2>1 DEF Sound, Chosen, SameLength
  <1>12. Keeps(p, y)
    BY <1>6, <1>7 DEF Keeps, Known, SameLength, SameQueue
  <1> QED BY <1>5, <1>6, <1>7, <1>9, <1>10, <1>11, <1>12 DEF Sound

\* BuildOpens preserves the invariant.
LEMMA BuildOpensInv ==
    ASSUME Inv, NEW op \in pool.ops, BuildOpens(op)
    PROVE  Inv'
  <1> DEFINE x == [pool EXCEPT !.ops = @ \ {op}]
             y == [x EXCEPT !.ops = @ \cup {[op EXCEPT !.stage = "building"]}]
  <1>0. Sound(pool) /\ Pending(pool) /\ Answers(pool)
    BY DEF Inv, Between
  <1>1. Finish(IF Stale(op.gen) THEN x ELSE y) /\ UNCHANGED consent
    BY DEF BuildOpens
  <1>2. CASE Stale(op.gen)
    <2>1. x = [pool EXCEPT !.ops = @ \ {op}] /\ Finish(x)
      BY <1>1, <1>2
    <2> HIDE DEF x
    <2> QED BY <1>1, <1>2, <2>1, StaleInv
  <1>3. CASE ~Stale(op.gen)
    <2>1. y = [[pool EXCEPT !.ops = @ \ {op}]
                 EXCEPT !.ops = @ \cup {[op EXCEPT !.stage = "building"]}]
      OBVIOUS
    <2>2. op.gen = pool.gen /\ ~pool.closed
      BY <1>3 DEF Stale
    <2> HIDE DEF x, y
    <2>3. /\ Sound(y) /\ Keeps(pool, y) /\ SameQueue(pool, y) /\ SameView(pool, y)
          /\ y.building = pool.building
      BY <1>0, <2>1, <2>2, OpenedSound
    <2>4. Pending(y)
      BY <1>0, <2>3 DEF Pending, SameQueue, SameView, Keeps
    <2>5. Answers(y)
      BY <1>0, <2>3, AnswersKept
    <2> QED BY <1>1, <1>3, <2>3, <2>4, <2>5, KeptInv
  <1> QED BY <1>2, <1>3

\* Every circuit of c is of the session of one of d.
SameSessions(c, d) == \A e \in ToSet(c) : \E f \in ToSet(d) : e.gen = f.gen

\* Circuits change, but stay of their session; a pump may be posted.
LEMMA EntriesSound ==
    ASSUME NEW x, Sound(x), NEW y \in Typed, SameSessions(y.entries, x.entries),
           y.gen = x.gen, y.closed = x.closed, y.building = x.building, y.ops = x.ops,
           SameView(x, y), SameLength(x, y)
    PROVE  Sound(y)
  <1>1. Owned(y)
    BY DEF Sound, Owned, SameSessions
  <1>2. Backed(y) /\ Chosen(y)
    BY DEF Sound, Backed, Chosen, SameView, SameLength
  <1> QED BY <1>1, <1>2 DEF Sound

\* A step of the pool's own state that no request sees.
LEMMA QuietInv ==
    ASSUME Inv, Sound(pool'), SameQueue(pool, pool'), pool'.view = pool.view,
           pool'.session = pool.session, pool'.closed = pool.closed,
           pool'.building = pool.building, pool'.accepted = pool.accepted,
           pool.posted => pool'.posted, UNCHANGED <<req, consent>>
    PROVE  Inv'
  <1>1. Pending(pool')
    BY DEF Inv, Between, Pending, SameQueue
  <1>2. Answers(pool)' /\ Queued'
    BY DEF Inv, Between, Answers, Queued, SameQueue
  <1> QED BY <1>1, <1>2 DEF Inv, Between

\* A circuit that ended is still one of its session.
LEMMA EndedEntry ==
    ASSUME NEW e \in Entry
    PROVE  Ended(e) \in Entry /\ Ended(e).gen = e.gen
  <1> DEFINE y == Ended(e)
  <1>1. y = [e EXCEPT !.open = FALSE, !.streams = 0, !.age = "old", !.idle = FALSE]
    BY DEF Ended
  <1>2. 0 \in 0..Capacity
    BY HopsFacts
  <1> HIDE DEF y
  <1>3. y \in Entry /\ y.gen = e.gen
    BY <1>1, <1>2 DEF Entry
  <1> QED BY <1>3 DEF y

\* EntryChanges preserves the invariant.
LEMMA EntryChangesInv ==
    ASSUME Inv, NEW i \in DOMAIN pool.entries, EntryChanges(i)
    PROVE  Inv'
  <1> DEFINE e == pool.entries[i]
             entries(f) == [pool.entries EXCEPT ![i] = f]
  <1>0. Sound(pool) /\ pool \in Typed /\ pool.entries \in Seq(Entry)
    BY DEF Inv, Between, Sound, Typed, Circuits
  <1>1. e \in Entry /\ pool.posted \in BOOLEAN
    BY <1>0 DEF Typed
  <1>2. PICK f \in Entry, b \in BOOLEAN :
            /\ f.gen = e.gen /\ (pool.posted => b)
            /\ pool' = [pool EXCEPT !.entries = entries(f), !.posted = b]
    <2>1. CASE e.open /\ pool' = [pool EXCEPT !.entries = entries(Ended(e)), !.posted = TRUE]
      <3>1. Ended(e) \in Entry /\ Ended(e).gen = e.gen
        BY <1>1, EndedEntry
      <3> HIDE DEF e
      <3> QED BY <2>1, <3>1
    <2>2. CASE /\ e.open /\ e.streams > 0
               /\ pool' = [pool EXCEPT !.entries = entries([e EXCEPT !.streams = @ - 1])]
      <3> DEFINE f == [e EXCEPT !.streams = @ - 1]
      <3>1. f \in Entry /\ f.gen = e.gen
        <4> HIDE DEF e
        <4> QED BY <1>1, <2>2, HopsFacts DEF Entry
      <3>2. pool' = [pool EXCEPT !.entries = entries(f)]
        BY <2>2
      <3> HIDE DEF e, f, entries
      <3>3. pool' = [pool EXCEPT !.entries = entries(f), !.posted = pool.posted]
        BY <1>0, <3>2 DEF Typed
      <3> QED BY <1>1, <3>1, <3>3
    <2>3. CASE /\ e.age = "used"
               /\ pool' = [pool EXCEPT !.entries = entries([e EXCEPT !.age = "old"])]
      <3> DEFINE f == [e EXCEPT !.age = "old"]
      <3>1. f \in Entry /\ f.gen = e.gen
        <4> HIDE DEF e
        <4> QED BY <1>1, <2>3 DEF Entry
      <3>2. pool' = [pool EXCEPT !.entries = entries(f)]
        BY <2>3
      <3> HIDE DEF e, f, entries
      <3>3. pool' = [pool EXCEPT !.entries = entries(f), !.posted = pool.posted]
        BY <1>0, <3>2 DEF Typed
      <3> QED BY <1>1, <3>1, <3>3
    <2> QED BY <2>1, <2>2, <2>3 DEF EntryChanges
  <1> DEFINE c == entries(f)
  <1>3. /\ c \in Seq(Entry) /\ DOMAIN c = DOMAIN pool.entries
        /\ \A j \in DOMAIN c : c[j].gen = pool.entries[j].gen
    BY <1>0, <1>2
  <1>4. c \in Circuits /\ SameSessions(c, pool.entries)
    <2> HIDE DEF c
    <2> QED BY <1>3 DEF Circuits, SameSessions, ToSet
  <1> HIDE DEF c
  <1>5. pool' = [pool EXCEPT !.entries = c, !.posted = b]
    BY <1>2 DEF c
  <1>6. pool' \in Typed
    BY <1>0, <1>2, <1>4, <1>5 DEF Typed
  <1>7. SameQueue(pool, pool') /\ SameView(pool, pool')
    BY <1>0, <1>5 DEF Typed, SameQueue, SameView
  <1>8. /\ pool'.gen = pool.gen /\ pool'.session = pool.session
        /\ pool'.closed = pool.closed /\ pool'.building = pool.building
        /\ pool'.ops = pool.ops /\ pool'.entries = c /\ SameLength(pool, pool')
    BY <1>0, <1>5 DEF Typed, SameLength
  <1>9. pool.posted => pool'.posted
    BY <1>0, <1>2, <1>5 DEF Typed
  <1>10. Sound(pool')
    BY <1>0, <1>4, <1>6, <1>7, <1>8, EntriesSound
  <1>11. UNCHANGED <<req, consent>>
    BY DEF EntryChanges
  <1> QED BY <1>7, <1>8, <1>9, <1>10, <1>11, QuietInv DEF SameView, SameLength

\* TimePasses preserves the invariant.
LEMMA TimePassesInv ==
    ASSUME Inv, TimePasses
    PROVE  Inv'
  <1>0. Sound(pool) /\ pool \in Typed /\ UNCHANGED <<req, consent>>
    BY DEF Inv, Between, Sound, TimePasses
  <1>1. CASE pool' = [pool EXCEPT !.expired = TRUE]
    <2>1. pool' \in Typed
      BY <1>0, <1>1 DEF Typed
    <2>2. SameBuilds(pool, pool') /\ SameQueue(pool, pool')
      BY <1>0, <1>1 DEF Typed, SameBuilds, SameQueue
    <2>3. /\ pool'.view = pool.view /\ pool'.chooser = pool.chooser
          /\ pool'.fetches = pool.fetches /\ pool'.entries = pool.entries
          /\ SameLength(pool, pool')
      BY <1>0, <1>1 DEF Typed, SameLength
    <2>4. Owned(pool') /\ Backed(pool') /\ Chosen(pool')
      BY <1>0, <2>2, <2>3 DEF Sound, Owned, Backed, Chosen, SameBuilds, SameLength
    <2> QED BY <1>0, <2>1, <2>2, <2>3, <2>4, QuietInv DEF Sound, SameBuilds, SameLength
  <1>2. CASE pool' = [pool EXCEPT !.spareLater = FALSE]
    <2> DEFINE b == FALSE
    <2>1. pool' = [pool EXCEPT !.spareLater = b] /\ b \in BOOLEAN
      BY <1>2
    <2> HIDE DEF b
    <2>2. /\ Sound(pool') /\ SameQueue(pool, pool') /\ SameBuilds(pool, pool')
          /\ SameView(pool, pool') /\ SameLength(pool, pool')
      BY <1>0, <2>1, SpareSound
    <2> QED BY <1>0, <2>2, QuietInv DEF SameBuilds, SameView, SameLength
  <1> QED BY <1>1, <1>2 DEF TimePasses

-----------------------------------------------------------------------------
(* The tick, the user's acceptance, new sessions and the end. *)

\* Closing idle and rotated circuits is sound.
LEMMA MaintainEntriesSound ==
    ASSUME NEW x, Sound(x), NEW long \in BOOLEAN, NEW y, y = MaintainEntries(x, long)
    PROVE  /\ Sound(y) /\ SameQueue(x, y) /\ SameView(x, y) /\ SameLength(x, y)
           /\ y.session = x.session /\ y.closed = x.closed /\ y.building = x.building
  <1> DEFINE kept(i) == LET e == x.entries[i]
                   IN  e.open /\ e.streams = 0 /\ e.idle /\ e.age # "old" /\ e.len = x.current
             ends(i) == LET e == x.entries[i]
                   IN  /\ e.open /\ e.streams = 0
                       /\ \/ e.age = "old"
                          \/ e.idle /\ long /\ (kept(i) => \E j \in 1..(i - 1) : kept(j))
             next(i) == LET e == x.entries[i]
                   IN  IF ends(i) THEN Ended(e)
                       ELSE IF e.open THEN [e EXCEPT !.idle = e.streams = 0] ELSE e
             c == [i \in DOMAIN x.entries |-> next(i)]
             b == x.posted \/ \E i \in DOMAIN x.entries : ends(i)
  <1>0. x \in Typed /\ x.entries \in Seq(Entry) /\ x.posted \in BOOLEAN
    BY DEF Sound, Typed, Circuits
  <1>1. y = [x EXCEPT !.entries = c, !.posted = b]
    BY DEF MaintainEntries
  <1>2. b \in BOOLEAN
    <2> HIDE DEF ends
    <2> QED BY <1>0
  <1> HIDE DEF kept, b, ends
  <1>3. ASSUME NEW i \in DOMAIN x.entries
        PROVE  next(i) \in Entry /\ next(i).gen = x.entries[i].gen
    <2> DEFINE e == x.entries[i]
               k == e.streams = 0
               f == [e EXCEPT !.idle = k]
    <2>1. e \in Entry
      BY <1>0
    <2>2. next(i) = IF ends(i) THEN Ended(e) ELSE IF e.open THEN f ELSE e
      OBVIOUS
    <2>3. k \in BOOLEAN /\ f = [e EXCEPT !.idle = k]
      OBVIOUS
    <2> HIDE DEF e, k, f, next
    <2>4. f \in Entry /\ f.gen = e.gen
      BY <2>1, <2>3 DEF Entry
    <2>5. Ended(e) \in Entry /\ Ended(e).gen = e.gen
      BY <2>1, EndedEntry
    <2>6. next(i) \in Entry /\ next(i).gen = e.gen
      BY <2>1, <2>2, <2>4, <2>5
    <2> QED BY <2>6 DEF e
  <1> HIDE DEF next
  <1>4. /\ c \in Seq(Entry) /\ DOMAIN c = DOMAIN x.entries
        /\ \A j \in DOMAIN c : c[j].gen = x.entries[j].gen
    <2>1. DOMAIN x.entries = 1..Len(x.entries) /\ Len(x.entries) \in Nat
      BY <1>0
    <2>2. c \in [1..Len(x.entries) -> Entry]
      BY <1>3, <2>1
    <2>3. c \in Seq(Entry)
      BY <2>1, <2>2, IsASeq
    <2> QED BY <1>3, <2>3
  <1>5. c \in Circuits /\ SameSessions(c, x.entries)
    <2> HIDE DEF c
    <2> QED BY <1>4 DEF Circuits, SameSessions, ToSet
  <1> HIDE DEF c
  <1>6. y \in Typed
    BY <1>0, <1>1, <1>2, <1>5 DEF Typed
  <1>7. SameQueue(x, y) /\ SameView(x, y)
    BY <1>0, <1>1 DEF Typed, SameQueue, SameView
  <1>8. /\ y.gen = x.gen /\ y.session = x.session /\ y.closed = x.closed
        /\ y.building = x.building /\ y.ops = x.ops /\ y.entries = c
        /\ SameLength(x, y)
    BY <1>0, <1>1 DEF Typed, SameLength
  <1>9. Sound(y)
    BY <1>5, <1>6, <1>7, <1>8, EntriesSound
  <1> QED BY <1>7, <1>8, <1>9

\* Dropping a failed or expired view is sound; a pump must follow.
LEMMA RefreshViewSound ==
    ASSUME NEW x, Sound(x), NEW y, y = RefreshView(x)
    PROVE  /\ Sound(y) /\ SameQueue(x, y) /\ y.accepted = x.accepted
           /\ y.closed = x.closed /\ y.building = x.building
  <1>1. CASE y = x
    BY <1>1 DEF SameQueue
  <1>2. CASE y = [DiscardProposal(x) EXCEPT !.view = "idle", !.expired = FALSE]
    <2> DEFINE d == DiscardProposal(x)
    <2>1. y = [d EXCEPT !.view = "idle", !.expired = FALSE] /\ "idle" \in Views
      BY <1>2 DEF Views
    <2>2. Sound(d) /\ Keeps(x, d) /\ SameBuilds(x, d) /\ SameQueue(x, d)
      BY DiscardSound
    <2> HIDE DEF d
    <2>3. d \in Typed
      BY <2>2 DEF Sound
    <2>4. y \in Typed
      BY <2>1, <2>3 DEF Typed
    <2>5. SameBuilds(d, y) /\ SameQueue(d, y)
      BY <2>1, <2>3 DEF Typed, SameBuilds, SameQueue
    <2>6. SameLength(d, y) /\ y.entries = d.entries /\ y.view = "idle"
      BY <2>1, <2>3 DEF Typed, SameLength
    <2>7. Owned(y) /\ Backed(y) /\ Chosen(y)
      BY <2>2, <2>5, <2>6 DEF Sound, Owned, Backed, Chosen, SameBuilds, SameLength
    <2> QED BY <2>2, <2>4, <2>5, <2>6, <2>7 DEF Sound, SameQueue, SameBuilds, SameLength, Keeps
  <1> QED BY <1>1, <1>2 DEF RefreshView

\* A probe begins only while nothing is being built.
LEMMA ProbeSound ==
    ASSUME NEW x, Sound(x), ~x.closed, NEW a, NEW y, y = Probe(x, a)
    PROVE  Sound(y) /\ Keeps(x, y)
  <1>1. CASE y = x
    BY <1>1, KeepsSelf
  <1>2. CASE ~x.building /\ y = BeginBuild(x, Hops, TRUE)
    <2> DEFINE probe == TRUE
    <2>1. probe \in BOOLEAN /\ probe /\ y = BeginBuild(x, Hops, probe)
      BY <1>2
    <2> HIDE DEF probe
    <2>2. Hops \in Lengths
      BY HopsFacts DEF Lengths
    <2> QED BY <1>2, <2>1, <2>2, BeginBuildSound
  <1> QED BY <1>1, <1>2 DEF Probe

\* Maintain preserves the invariant.
LEMMA MaintainInv ==
    ASSUME Inv, NEW long \in BOOLEAN, NEW a, Maintain(long, a)
    PROVE  Inv'
  <1> DEFINE m == MaintainEntries(pool, long)
             r == RefreshView(m)
             p == Probe(r, a)
             z == Pump(p, a)
  <1>0. Sound(pool) /\ ~pool.closed /\ Finish(z) /\ UNCHANGED consent
    BY DEF Inv, Between, Maintain
  <1>1. Sound(m) /\ SameQueue(pool, m) /\ SameLength(pool, m) /\ m.closed = pool.closed
    BY <1>0, MaintainEntriesSound
  <1> HIDE DEF m
  <1>2. Sound(r) /\ SameQueue(m, r) /\ r.accepted = m.accepted /\ r.closed = m.closed
    BY <1>1, RefreshViewSound
  <1> HIDE DEF r
  <1>3. Sound(p) /\ Keeps(r, p)
    BY <1>0, <1>1, <1>2, ProbeSound
  <1> HIDE DEF p
  <1>4. Sound(z) /\ Keeps(p, z) /\ Pending(z) /\ Answers(z)
    BY <1>3, PumpSound
  <1> HIDE DEF z
  <1>5. ToSet(pool.waiters) \subseteq Known(z) /\ z.accepted = pool.accepted
    BY <1>1, <1>2, <1>3, <1>4 DEF Keeps, Known, SameQueue, SameLength
  <1> QED BY <1>0, <1>4, <1>5, HandlerInv

\* The accepted length takes over; only a probe may be under way then.
LEMMA AcceptedSound ==
    ASSUME NEW p, Sound(p), NEW len, len = p.proposal, len # 0,
           NEW x, x = [p EXCEPT !.accepted = len, !.current = len, !.proposal = 0,
                                !.attempts = 0]
    PROVE  Sound(x) /\ SameQueue(p, x)
  <1>0. p \in Typed /\ 0 \in Tries /\ 0 \in Proposals
    BY HopsFacts DEF Sound, Tries, Proposals
  <1>1. len \in InUse
    BY <1>0, HopsFacts DEF Typed, Proposals, InUse
  <1>2. x \in Typed
    BY <1>0, <1>1 DEF Typed
  <1>3. SameBuilds(p, x) /\ SameQueue(p, x)
    BY <1>0 DEF Typed, SameBuilds, SameQueue
  <1>4. SameView(p, x) /\ x.entries = p.entries
    BY <1>0 DEF Typed, SameView
  <1>5. x.accepted = len /\ x.current = len /\ x.proposal = 0
    BY <1>0 DEF Typed
  <1>6. Owned(x) /\ Backed(x)
    BY <1>3, <1>4 DEF Sound, Owned, Backed, SameBuilds, SameView
  <1>7. \A op \in p.ops : op.gen = p.gen => op.probe
    <2>1. p.current = 0
      BY DEF Sound, Chosen
    <2>2. \A op \in p.ops : op.len # 0
      BY <1>0, BuildLength
    <2> QED BY <2>1, <2>2 DEF Sound, Chosen
  <1>8. Chosen(x)
    <2>1. len >= Least(len)
      BY <1>1, LeastFacts, HopsFacts DEF InUse
    <2> QED BY <1>3, <1>5, <1>7, <2>1 DEF Sound, Chosen, SameBuilds
  <1> QED BY <1>2, <1>3, <1>5, <1>6, <1>8 DEF Sound

\* Accept preserves the invariant.
LEMMA AcceptInv ==
    ASSUME Inv, NEW len \in 1..(Hops - 1), Accept(len)
    PROVE  Inv'
  <1> DEFINE x == [pool EXCEPT !.accepted = len, !.current = len, !.proposal = 0,
                               !.attempts = 0]
  <1>0. Sound(pool) /\ Pending(pool) /\ Answers(pool)
    BY DEF Inv, Between
  <1>1. CASE ~ProposalCurrent(pool)
    <2> DEFINE d == DiscardProposal(pool)
    <2>1. Finish(d) /\ UNCHANGED consent
      BY <1>1 DEF Accept
    <2>2. /\ Sound(d) /\ Keeps(pool, d)
          /\ SameBuilds(pool, d) /\ SameView(pool, d) /\ SameQueue(pool, d)
      BY <1>0, DiscardSound
    <2> HIDE DEF d
    <2>3. Pending(d)
      BY <1>0, <2>2 DEF Pending, SameBuilds, SameView, SameQueue
    <2>4. Answers(d)
      BY <1>0, <2>2, AnswersKept
    <2> QED BY <2>1, <2>2, <2>3, <2>4, KeptInv
  <1>2. CASE ProposalCurrent(pool)
    <2>1. /\ pool.proposal = len /\ \E a \in Routes : Finish(Pump(x, a))
          /\ consent' = Min({consent, len})
      BY <1>2 DEF Accept
    <2>2. PICK a \in Routes : Finish(Pump(x, a))
      BY <2>1
    <2> DEFINE z == Pump(x, a)
    <2>3. x = [pool EXCEPT !.accepted = len, !.current = len, !.proposal = 0,
                           !.attempts = 0]
      OBVIOUS
    <2>4. len # 0 /\ len \in Int
      OBVIOUS
    <2> HIDE DEF x
    <2>5. Sound(x) /\ SameQueue(pool, x)
      BY <1>0, <2>1, <2>3, <2>4, AcceptedSound
    <2>6. Sound(z) /\ Keeps(x, z) /\ Pending(z) /\ Answers(z)
      BY <2>5, PumpSound
    <2>7. Finish(z)
      BY <2>2
    <2> HIDE DEF z
    <2>8. ToSet(pool.waiters) \subseteq Known(z)
      BY <2>5, <2>6 DEF Keeps, Known, SameQueue
    <2>9. Between'
      BY <2>6, <2>7, <2>8, FinishBetween DEF Inv, Between
    <2>10. consent \in Int /\ consent >= 1 /\ consent <= Hops
      BY HopsFacts DEF Inv
    <2>11. consent' \in {consent, len}
      BY <2>1, <2>4, <2>10, MinPair
    <2>12. consent' \in 1..Hops
      BY <2>10, <2>11, HopsFacts
    <2> QED BY <2>9, <2>12 DEF Inv
  <1> QED BY <1>1, <1>2

\* Closing the circuits and ending the one being built, for a new session or
\* for good: d no longer counts a build of its own.
LEMMA RetireSound ==
    ASSUME NEW d \in Typed, Chosen(d), Backed(d),
           \A op, other \in d.ops : op.gen = other.gen => op = other,
           \A op \in d.ops : op.gen <= d.gen,
           ~d.closed => ~d.building /\ \A op \in d.ops : op.gen # d.gen,
           NEW y, y = EndPending(CloseEntries(d))
    PROVE  /\ Sound(y) /\ SameQueue(d, y) /\ SameView(d, y) /\ SameLength(d, y)
           /\ y.closed = d.closed /\ y.session = d.session
  <1> DEFINE b == d.posted \/ \E e \in ToSet(d.entries) : e.open
             s == {op \in d.ops : op.stage # "building"}
             c == [d EXCEPT !.posted = b, !.entries = <<>>]
  <1>1. y = EndPending(c) /\ c = [d EXCEPT !.posted = b, !.entries = <<>>]
    BY DEF CloseEntries
  <1>2. b \in BOOLEAN /\ <<>> \in Circuits
    BY DEF Typed, Circuits
  <1> HIDE DEF b, c
  <1>3. c \in Typed
    BY <1>1, <1>2 DEF Typed
  <1>4. SameQueue(d, c) /\ SameView(d, c)
    BY <1>1 DEF Typed, SameQueue, SameView
  <1>5. /\ SameLength(d, c) /\ c.gen = d.gen /\ c.closed = d.closed /\ c.ops = d.ops
        /\ c.session = d.session /\ c.building = d.building /\ c.entries = <<>>
    BY <1>1 DEF Typed, SameLength
  <1>6. y = [c EXCEPT !.ops = s]
    BY <1>1, <1>5 DEF EndPending
  <1>7. s \in Builds
    BY DEF Typed, Builds
  <1>8. \A op \in s : op \in d.ops /\ op.stage # "building"
    OBVIOUS
  <1> HIDE DEF s
  <1>9. y \in Typed
    BY <1>3, <1>6, <1>7 DEF Typed
  <1>10. SameQueue(c, y) /\ SameView(c, y)
    BY <1>3, <1>6 DEF Typed, SameQueue, SameView
  <1>11. /\ SameLength(c, y) /\ y.gen = c.gen /\ y.closed = c.closed /\ y.ops = s
         /\ y.session = c.session /\ y.building = c.building /\ y.entries = c.entries
    BY <1>3, <1>6 DEF Typed, SameLength
  <1>12. SameQueue(d, y) /\ SameView(d, y) /\ SameLength(d, y)
    BY <1>4, <1>5, <1>10, <1>11 DEF SameQueue, SameView, SameLength
  <1>13. Owned(y)
    BY <1>5, <1>8, <1>11, EmptyToSet DEF Owned
  <1>14. Backed(y)
    BY <1>5, <1>11, <1>12 DEF Backed, SameView
  <1>15. Chosen(y)
    BY <1>5, <1>8, <1>11, <1>12 DEF Chosen, SameLength
  <1> QED BY <1>5, <1>9, <1>11, <1>12, <1>13, <1>14, <1>15 DEF Sound

\* Close preserves the invariant: it tells every request.
LEMMA CloseInv ==
    ASSUME Inv, Close
    PROVE  Inv'
  <1> DEFINE p == [pool EXCEPT !.closed = TRUE]
             d == DiscardProposal(p)
             y == EndPending(CloseEntries(d))
             z == FailWaiters(y)
  <1>0. Sound(pool) /\ pool \in Typed /\ Finish(z) /\ UNCHANGED consent
    BY DEF Inv, Between, Sound, Close
  <1>1. p = [pool EXCEPT !.closed = TRUE]
    OBVIOUS
  <1> HIDE DEF p
  <1>2. p \in Typed
    BY <1>0, <1>1 DEF Typed
  <1>3. /\ SameQueue(pool, p) /\ SameLength(pool, p) /\ p.gen = pool.gen
        /\ p.ops = pool.ops /\ p.closed
    BY <1>0, <1>1 DEF Typed, SameQueue, SameLength
  <1>4. Chosen(p)
    BY <1>0, <1>3 DEF Sound, Chosen, SameLength
  <1>5. /\ d \in Typed /\ SameBuilds(p, d) /\ SameQueue(p, d) /\ d.accepted = p.accepted
    BY <1>2, DiscardFacts
  <1>6. Chosen(d)
    BY <1>2, <1>4, DiscardChosen
  <1> HIDE DEF d
  <1>7. d.closed /\ d.gen = pool.gen /\ d.ops = pool.ops
    BY <1>3, <1>5 DEF SameBuilds
  <1>8. Backed(d)
    BY <1>7 DEF Backed
  <1>9. /\ \A op, other \in d.ops : op.gen = other.gen => op = other
        /\ \A op \in d.ops : op.gen <= d.gen
    BY <1>0, <1>7 DEF Sound, Owned
  <1>10. Sound(y) /\ SameQueue(d, y) /\ SameLength(d, y)
    BY <1>5, <1>6, <1>7, <1>8, <1>9, RetireSound
  <1> HIDE DEF y
  <1>11. Sound(z) /\ Keeps(y, z) /\ z.waiters = <<>>
    BY <1>10, FailWaitersSound
  <1> HIDE DEF z
  <1>12. Pending(z) /\ Answers(z)
    BY <1>11, EmptyToSet DEF Pending, Answers
  <1>13. ToSet(pool.waiters) \subseteq Known(z) /\ z.accepted = pool.accepted
    BY <1>3, <1>5, <1>10, <1>11 DEF Keeps, Known, SameQueue, SameLength
  <1> QED BY <1>0, <1>11, <1>12, <1>13, HandlerInv

\* SetSession preserves the invariant: what was being built is of an earlier
\* session now.
LEMMA SetSessionInv ==
    ASSUME Inv, NEW session \in BOOLEAN, SetSession(session)
    PROVE  Inv'
  <1> DEFINE n == pool.gen + 1
             p == [pool EXCEPT !.gen = n, !.session = session]
             e == DiscardProposal(p)
             d == [e EXCEPT !.building = FALSE, !.attempts = 0, !.view = "idle",
                            !.expired = FALSE, !.chooser = FALSE]
             y == EndPending(CloseEntries(d))
             z == Pump(y, {})
  <1>0. Sound(pool) /\ pool \in Typed /\ Finish(z) /\ UNCHANGED consent
    BY DEF Inv, Between, Sound, SetSession
  <1>1. n \in Generations /\ pool.gen \in Nat
    BY <1>0, HopsFacts DEF SetSession, Typed, Generations
  <1>2. /\ p = [pool EXCEPT !.gen = n, !.session = session]
        /\ d = [e EXCEPT !.building = FALSE, !.attempts = 0, !.view = "idle",
                         !.expired = FALSE, !.chooser = FALSE]
        /\ n = pool.gen + 1
    OBVIOUS
  <1> HIDE DEF n, p
  <1>3. p \in Typed
    BY <1>0, <1>1, <1>2 DEF Typed
  <1>4. /\ SameQueue(pool, p) /\ SameLength(pool, p) /\ p.gen = n
        /\ p.ops = pool.ops
    BY <1>0, <1>2 DEF Typed, SameQueue, SameLength
  <1>5. \A op \in pool.ops : op.gen # n /\ op.gen <= n
    <2> SUFFICES ASSUME NEW op \in pool.ops PROVE op.gen # n /\ op.gen <= n
      OBVIOUS
    <2>1. op.gen \in Nat
      BY <1>0, BuildLength
    <2>2. op.gen <= pool.gen
      BY <1>0 DEF Sound, Owned
    <2> QED BY <1>1, <1>2, <2>1, <2>2
  <1>6. Chosen(p)
    BY <1>0, <1>4, <1>5 DEF Sound, Chosen, SameLength
  <1>7. e \in Typed /\ SameBuilds(p, e) /\ SameQueue(p, e) /\ e.accepted = p.accepted
    BY <1>3, DiscardFacts
  <1>8. Chosen(e)
    BY <1>3, <1>6, DiscardChosen
  <1> HIDE DEF e, d
  <1>9. d \in Typed
    <2>1. "idle" \in Views /\ 0 \in Tries
      BY HopsFacts DEF Views, Tries
    <2> QED BY <1>2, <1>7, <2>1 DEF Typed
  <1>10. SameQueue(e, d) /\ SameLength(e, d)
    BY <1>2, <1>7 DEF Typed, SameQueue, SameLength
  <1>11. /\ d.gen = e.gen /\ d.ops = e.ops /\ d.view = "idle" /\ ~d.building
    BY <1>2, <1>7 DEF Typed
  <1>12. d.gen = n /\ d.ops = pool.ops
    BY <1>4, <1>7, <1>11 DEF SameBuilds
  <1>13. Chosen(d)
    BY <1>8, <1>10, <1>11 DEF Chosen, SameLength
  <1>14. Backed(d)
    BY <1>11 DEF Backed
  <1>15. /\ \A op, other \in d.ops : op.gen = other.gen => op = other
         /\ \A op \in d.ops : op.gen <= d.gen /\ op.gen # d.gen
    BY <1>0, <1>5, <1>12 DEF Sound, Owned
  <1>16. Sound(y) /\ SameQueue(d, y) /\ SameLength(d, y)
    BY <1>9, <1>11, <1>13, <1>14, <1>15, RetireSound
  <1> HIDE DEF y
  <1>17. Sound(z) /\ Keeps(y, z) /\ Pending(z) /\ Answers(z)
    BY <1>16, PumpSound
  <1> HIDE DEF z
  <1>18. ToSet(pool.waiters) \subseteq Known(z) /\ z.accepted = pool.accepted
    BY <1>4, <1>7, <1>10, <1>16, <1>17 DEF Keeps, Known, SameQueue, SameLength
  <1> QED BY <1>0, <1>17, <1>18, HandlerInv

\* The invariant holds initially.
LEMMA InitInv == Init => Inv
  <1> SUFFICES ASSUME Init PROVE Inv
    OBVIOUS
  <1>1. pool = [gen |-> 0, session |-> FALSE, view |-> "idle", expired |-> FALSE,
               chooser |-> FALSE, entries |-> <<>>, waiters |-> <<>>,
               building |-> FALSE, ops |-> {}, fetches |-> {}, attempts |-> 0,
               current |-> Hops, accepted |-> 0, proposal |-> 0,
               spareLater |-> FALSE, posted |-> FALSE, closed |-> FALSE,
               told |-> {}, handed |-> {}]
    BY DEF Init
  <1>2. /\ 0 \in Generations /\ "idle" \in Views /\ <<>> \in Circuits /\ <<>> \in Queue
        /\ {} \in Builds /\ {} \in Fetches /\ 0 \in Tries /\ Hops \in InUse
        /\ 0 \in InUse /\ 0 \in Proposals /\ {} \in Requests
    BY HopsFacts DEF Generations, Views, Circuits, Queue, Builds, Fetches, Tries, InUse,
                     Proposals, Requests
  <1>3. pool \in Typed
    BY <1>1, <1>2 DEF Typed
  <1>4. /\ pool.ops = {} /\ ~pool.building /\ pool.entries = <<>> /\ pool.view = "idle"
        /\ pool.waiters = <<>> /\ pool.proposal = 0 /\ pool.accepted = 0
        /\ pool.current = Hops
    BY <1>1
  <1>5. Owned(pool) /\ Backed(pool) /\ Chosen(pool)
    <2>1. Least(0) <= Hops
      BY <1>2, LeastFacts
    <2> QED BY <1>4, <2>1, EmptyToSet DEF Owned, Backed, Chosen
  <1>6. Pending(pool) /\ Answers(pool)
    BY <1>4, EmptyToSet DEF Pending, Answers
  <1>7. req \in [Opens -> Request] /\ Queued
    BY DEF Init, Request, Queued
  <1>8. consent \in 1..Hops
    BY HopsFacts DEF Init, NoConsent
  <1> QED BY <1>3, <1>5, <1>6, <1>7, <1>8 DEF Inv, Between, Sound

\* Every step preserves the invariant.
LEMMA NextInv == Inv /\ [Next]_vars => Inv'
  <1> SUFFICES ASSUME Inv, [Next]_vars PROVE Inv'
    OBVIOUS
  <1>1. ASSUME NEW a \in Routes, PostedPump(a) PROVE Inv'
    BY <1>1, PostedPumpInv
  <1>2. ASSUME NEW a \in Routes, NEW gen \in pool.fetches, ViewArrives(gen, a) PROVE Inv'
    BY <1>2, ViewArrivesInv
  <1>3. ASSUME NEW a \in Routes, NEW op \in pool.ops, BuildFails(op, a) PROVE Inv'
    BY <1>3, BuildFailsInv
  <1>4. ASSUME NEW a \in Routes, NEW op \in pool.ops, BuildSucceeds(op, a) PROVE Inv'
    BY <1>4, BuildSucceedsInv
  <1>5. ASSUME NEW a \in Routes, NEW o \in Opens, Open(o, a) PROVE Inv'
    BY <1>5, OpenInv
  <1>6. ASSUME NEW a \in Routes, NEW long \in BOOLEAN, Maintain(long, a) PROVE Inv'
    BY <1>6, MaintainInv
  <1>7. ASSUME NEW gen \in pool.fetches, ViewFails(gen) PROVE Inv'
    BY <1>7, ViewFailsInv
  <1>8. ASSUME NEW op \in pool.ops, BuildOpens(op) PROVE Inv'
    BY <1>8, BuildOpensInv
  <1>9. ASSUME NEW session \in BOOLEAN, SetSession(session) PROVE Inv'
    BY <1>9, SetSessionInv
  <1>10. ASSUME NEW o \in Opens, Cancel(o) PROVE Inv'
    BY <1>10, CancelInv
  <1>11. ASSUME NEW o \in Opens, Delivered(o) PROVE Inv'
    BY <1>11, DeliveredInv
  <1>12. ASSUME NEW i \in DOMAIN pool.entries, EntryChanges(i) PROVE Inv'
    BY <1>12, EntryChangesInv
  <1>13. ASSUME NEW len \in 1..(Hops - 1), Accept(len) PROVE Inv'
    BY <1>13, AcceptInv
  <1>14. CASE UNCHANGED vars
    <2>1. pool' = pool /\ req' = req /\ consent' = consent
      BY <1>14 DEF vars
    <2> QED BY <2>1 DEF Inv, Between, Queued, Answers
  <1> QED BY <1>1, <1>2, <1>3, <1>4, <1>5, <1>6, <1>7, <1>8, <1>9, <1>10, <1>11, <1>12,
             <1>13, <1>14, TimePassesInv, CloseInv DEF Next

-----------------------------------------------------------------------------
(* The theorems. *)

\* The invariant gives the types,
LEMMA InvType == Inv => TypeOK
  <1> SUFFICES ASSUME Inv PROVE TypeOK
    OBVIOUS
  <1>1. pool \in PoolState
    BY TypedPool DEF Inv, Between, Sound
  <1> QED BY <1>1 DEF TypeOK, Inv, Between, Request

\* that builds are owned,
LEMMA InvOwned == Inv => BuildsOwned
  <1> SUFFICES ASSUME Inv PROVE BuildsOwned
    OBVIOUS
  <1>1. Owned(pool)
    BY DEF Inv, Between, Sound
  <1> QED BY <1>1 DEF Owned, BuildsOwned, Stale

\* that waiting requests are awaited,
LEMMA InvAwaited == Inv => WaitersAwaited
  <1> SUFFICES ASSUME Inv, NEW o \in Opens, req[o].state = "waiting"
               PROVE  /\ o \in ToSet(pool.waiters) /\ pool.session /\ ~pool.closed
                      /\ (pool.view = "fetching" /\ pool.gen \in pool.fetches)
                         \/ \E op \in pool.ops : op.gen = pool.gen
                      /\ req[o].cancelled => pool.posted
    BY DEF WaitersAwaited
  <1>1. o \in ToSet(pool.waiters)
    BY DEF Inv, Between, Queued
  <1>2. pool.waiters # <<>>
    BY <1>1, EmptyToSet
  <1>3. /\ pool.session /\ ~pool.closed
        /\ pool.view = "fetching" \/ (pool.view = "ready" /\ pool.building)
    BY <1>2 DEF Inv, Between, Pending
  <1>4. (pool.view = "fetching" /\ pool.gen \in pool.fetches)
        \/ \E op \in pool.ops : op.gen = pool.gen
    BY <1>3 DEF Inv, Between, Sound, Owned, Backed
  <1>5. req[o].cancelled => pool.posted
    BY <1>1 DEF Inv, Between, Answers
  <1> QED BY <1>1, <1>3, <1>4, <1>5

\* and that the length in use is allowed and a proposal is not.
LEMMA InvAllowed == Inv => RoutesAllowed
  <1> SUFFICES ASSUME Inv PROVE RoutesAllowed
    OBVIOUS
  <1>1. Chosen(pool)
    BY DEF Inv, Between, Sound
  <1> QED BY <1>1, AllowedIsLeast DEF Chosen, RoutesAllowed

\* Spec => []Inv.
LEMMA Invariance == Spec => []Inv
  BY InitInv, NextInv, PTL DEF Spec

\* For all lengths, numbers of attempts, capacities, requests and sessions: the
\* pool (CircuitPool::State) builds one circuit at a time and knows of it, and
\* keeps nothing of an earlier session.
THEOREM OneBuildOfThisSession == Spec => [](TypeOK /\ BuildsOwned)
  <1>1. Inv => TypeOK /\ BuildsOwned
    BY InvType, InvOwned
  <1> QED BY <1>1, Invariance, PTL

\* For all of them: a request that waits has a view or a circuit under way whose
\* end serves it, fails it or starts the next, and a cancelled one has its pump.
THEOREM NobodyWaitsForNothing == Spec => []WaitersAwaited
  BY InvAwaited, Invariance, PTL

\* For all of them, and every circuits.min_hops: no failed build, view, session,
\* probe or late completion puts a length in use that neither the configuration
\* nor the acceptance the pool holds allows, and the user is asked only for such
\* a length, with none in use meanwhile.
THEOREM RoutesStayAllowed == Spec => []RoutesAllowed
  BY InvAllowed, Invariance, PTL
=============================================================================

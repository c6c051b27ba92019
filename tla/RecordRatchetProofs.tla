------------------------ MODULE RecordRatchetProofs ------------------------
(***************************************************************************)
(* Proofs about RecordRatchet, for every epoch limit, record size, number  *)
(* range and queue bound, and with callers that publish at any point of a  *)
(* flush.  The argument: what p has on the wire is a script that takes the *)
(* inbound direction of its peer, one accepted message at a time, to the   *)
(* state that p's outbound direction stands for.                           *)
(***************************************************************************)
EXTENDS RecordRatchet, SequenceTheorems, FiniteSetTheorems, WellFoundedInduction,
        TLAPS

-----------------------------------------------------------------------------
(* Induction over the natural numbers in the form the provers can use: for a *)
(* set of numbers instead of a predicate.                                    *)

\* A set with 0 that is closed under successor holds every natural number.
LEMMA NatSetInduction ==
  ASSUME NEW S, 0 \in S, \A n \in Nat : n \in S => n + 1 \in S
  PROVE  Nat \subseteq S
  <1> DEFINE T == Nat \ S
             R == OpToRel(<, Nat)
  <1>1. SUFFICES ASSUME T # {} PROVE FALSE
    OBVIOUS
  <1>2. IsWellFoundedOn(R, Nat)
    BY NatLessThanWellFounded
  <1>3. \A x, y \in Nat : x < y => <<x, y>> \in R
    BY DEF OpToRel
  <1>4. PICK x \in T : \A y \in T : ~ (<<y, x>> \in R)
    <2> HIDE DEF T, R
    <2>1. T \subseteq Nat BY DEF T
    <2> QED BY <1>1, <1>2, <2>1, WFMin
  <1> HIDE DEF R
  <1>5. x # 0 /\ x \in Nat
    OBVIOUS
  <1>6. x - 1 \in Nat /\ x - 1 < x
    BY <1>5
  <1>7. x - 1 \notin T
    BY <1>3, <1>4, <1>5, <1>6
  <1> QED BY <1>5, <1>6, <1>7

(***************************************************************************)
(* The receiver's checks and its bookkeeping, as functions of its inbound  *)
(* state alone.                                                            *)
(***************************************************************************)
Previous(a, m) == a.prevOpen /\ a.epoch # 0 /\ m.epoch = a.epoch - 1

Expected(a, m) ==
    /\ a.seq # Exhausted
    /\ m.epoch = a.epoch \/ Previous(a, m)
    /\ m.seq = a.seq

Within(a, m) ==
    IF Previous(a, m)
    THEN m.body.size <= EpochBytes - a.prevBytes /\ a.prevRecords # EpochRecords
    ELSE m.body.size <= EpochBytes - a.bytes /\ a.records # EpochRecords

Counted(a, m) ==
    IF Previous(a, m)
    THEN [a EXCEPT !.seq = @ + 1, !.prevBytes = @ + m.body.size,
                   !.prevRecords = @ + 1]
    ELSE [a EXCEPT !.seq = @ + 1, !.prevOpen = FALSE,
                   !.bytes = @ + m.body.size, !.records = @ + 1]

\* m is accepted in inbound state a and leads to b.
Delivers(a, m, b) ==
    \/ /\ m.type = "record"
       /\ Expected(a, m) /\ Within(a, m)
       /\ b = Counted(a, m)
    \/ /\ m.type = "init"
       /\ Expected(a, m) /\ ~Previous(a, m) /\ m.next = a.epoch + 1
       /\ b = AcceptRekey(a)
    \/ m.type = "ack" /\ b = a

\* Inbound state a is the one that outbound state s stands for.
Meets(a, s) ==
    /\ a.seq = s.seq
    /\ ~s.pending =>
          a.epoch = s.epoch /\ a.bytes = s.bytes /\ a.records = s.records
    /\ s.pending =>
          /\ a.epoch = s.epoch + 1 /\ a.prevOpen
          /\ a.prevBytes = s.bytes /\ a.prevRecords = s.records
          /\ a.bytes = 0 /\ a.records = 0

\* c lists the inbound states that the messages of w lead through, from r on.
Script(c, r, w) ==
    /\ c \in Seq(Inbound)
    /\ Len(c) = Len(w) + 1
    /\ c[1] = r
    /\ \A i \in 1..Len(w) : Delivers(c[i], w[i], c[i + 1])

Linked(r, w, s) == \E c : Script(c, r, w) /\ Meets(c[Len(c)], s)

-----------------------------------------------------------------------------
(* Scripts grow at the end and are consumed at the front. *)

\* Sending m, which every matching receiver accepts, extends the script.
LEMMA LinkAppend ==
    ASSUME NEW r, NEW w \in Seq(Message), NEW m \in Message, NEW s, NEW t,
           Linked(r, w, s),
           \A a \in Inbound : Meets(a, s) =>
              \E b \in Inbound : Delivers(a, m, b) /\ Meets(b, t)
    PROVE  Linked(r, Append(w, m), t)
  <1>1. PICK c : Script(c, r, w) /\ Meets(c[Len(c)], s)
    BY DEF Linked
  <1>2. c \in Seq(Inbound) /\ Len(c) = Len(w) + 1 /\ Len(w) \in Nat
    BY <1>1 DEF Script
  <1>3. c[Len(c)] \in Inbound
    BY <1>2
  <1>4. PICK b \in Inbound : Delivers(c[Len(c)], m, b) /\ Meets(b, t)
    BY <1>1, <1>3
  <1> DEFINE d == Append(c, b)
             v == Append(w, m)
  <1>5. /\ d \in Seq(Inbound) /\ Len(d) = Len(c) + 1 /\ d[Len(d)] = b
        /\ \A i \in 1..Len(c) : d[i] = c[i]
    BY <1>2
  <1>6. /\ Len(v) = Len(w) + 1 /\ v[Len(v)] = m
        /\ \A i \in 1..Len(w) : v[i] = w[i]
    OBVIOUS
  <1> HIDE DEF d, v
  <1>7. ASSUME NEW i \in 1..Len(v) PROVE Delivers(d[i], v[i], d[i + 1])
    <2>1. CASE i \in 1..Len(w)
      <3>1. d[i] = c[i] /\ v[i] = w[i] /\ d[i + 1] = c[i + 1]
        BY <1>2, <1>5, <1>6, <2>1
      <3> QED BY <1>1, <2>1, <3>1 DEF Script
    <2>2. CASE i = Len(v)
      <3>1. d[i] = c[Len(c)] /\ v[i] = m /\ d[i + 1] = b
        BY <1>2, <1>5, <1>6, <2>2
      <3> QED BY <1>4, <3>1
    <2> QED BY <1>2, <1>6, <2>1, <2>2
  <1>8. d[1] = r
    BY <1>1, <1>2, <1>5 DEF Script
  <1>9. Script(d, r, v) /\ Meets(d[Len(d)], t)
    BY <1>2, <1>4, <1>5, <1>6, <1>7, <1>8 DEF Script
  <1> QED BY <1>9 DEF Linked, v

\* The receiver accepts the head of the wire, and the rest is still a script.
LEMMA LinkTail ==
    ASSUME NEW r, NEW w \in Seq(Message), w # <<>>, NEW s, Linked(r, w, s)
    PROVE  \E b \in Inbound :
               Delivers(r, Head(w), b) /\ Linked(b, Tail(w), s)
  <1>1. PICK c : Script(c, r, w) /\ Meets(c[Len(c)], s)
    BY DEF Linked
  <1>2. c \in Seq(Inbound) /\ Len(c) = Len(w) + 1 /\ Len(w) \in Nat \ {0}
    BY <1>1 DEF Script
  <1> DEFINE d == Tail(c)
             v == Tail(w)
  <1>3. /\ d \in Seq(Inbound) /\ Len(d) = Len(w)
        /\ \A i \in 1..Len(w) : d[i] = c[i + 1]
    BY <1>2
  <1>4. Len(v) = Len(w) - 1 /\ \A i \in 1..(Len(w) - 1) : v[i] = w[i + 1]
    BY <1>2
  <1>5. Head(w) = w[1]
    BY <1>2
  <1> HIDE DEF d, v
  <1>6. ASSUME NEW i \in 1..Len(v) PROVE Delivers(d[i], v[i], d[i + 1])
    <2>1. d[i] = c[i + 1] /\ v[i] = w[i + 1] /\ d[i + 1] = c[(i + 1) + 1]
          /\ i + 1 \in 1..Len(w)
      BY <1>2, <1>3, <1>4
    <2> QED BY <1>1, <2>1 DEF Script
  <1>7. Script(d, c[2], v) /\ d[Len(d)] = c[Len(c)]
    BY <1>2, <1>3, <1>4, <1>6 DEF Script
  <1>8. c[2] \in Inbound /\ Delivers(c[1], w[1], c[1 + 1]) /\ c[1] = r
    BY <1>1, <1>2 DEF Script
  <1>9. Linked(c[2], v, s)
    BY <1>1, <1>7 DEF Linked
  <1> QED BY <1>5, <1>8, <1>9 DEF v

\* A sender may change what no receiver can tell apart.
LEMMA LinkMeets ==
    ASSUME NEW r, NEW w, NEW s, NEW t, Linked(r, w, s),
           \A a \in Inbound : Meets(a, s) => Meets(a, t),
           w \in Seq(Message)
    PROVE  Linked(r, w, t)
  <1>1. PICK c : Script(c, r, w) /\ Meets(c[Len(c)], s)
    BY DEF Linked
  <1>2. c[Len(c)] \in Inbound
    BY <1>1 DEF Script
  <1> QED BY <1>1, <1>2 DEF Linked

-----------------------------------------------------------------------------
(* One message. *)

\* Every record carries at least one unit and fits an empty epoch.
LEMMA SizesPositive ==
    \A r \in Record : r.size \in Nat /\ r.size >= 1 /\ r.size <= EpochBytes
  <1> SUFFICES ASSUME NEW r \in Record
               PROVE  r.size \in Nat /\ r.size >= 1 /\ r.size <= EpochBytes
    OBVIOUS
  <1>1. r.size \in DataSizes \cup {ControlSize}
    BY DEF Record
  <1>2. r.size \in 1..EpochBytes
    BY <1>1, LimitsAssumption
  <1> QED BY <1>2, LimitsAssumption

\* A record that enqueue_record seals is counted by the receiver as it was
\* counted by the sender, in whichever of the two epochs it was sealed.
LEMMA SealMeets ==
    ASSUME NEW s \in Outbound, NEW r \in Record, NEW m \in Protected,
           m = [type |-> "record", epoch |-> s.epoch, seq |-> s.seq, body |-> r],
           s.seq # Exhausted,
           r.size <= EpochBytes - s.bytes, s.records < EpochRecords
    PROVE  /\ Seal(s, r.size) \in Outbound
           /\ \A a \in Inbound : Meets(a, s) =>
                 \E b \in Inbound : Delivers(a, m, b) /\ Meets(b, Seal(s, r.size))
  <1> DEFINE size == r.size
             q == s.seq + 1
             y == s.bytes + size
             k == s.records + 1
             g == IF s.records = 0 THEN Young ELSE s.age
  <1>1. /\ size \in Nat /\ EpochBytes \in Nat /\ EpochRecords \in Nat
        /\ MaxEpoch \in Nat /\ Exhausted \in Nat
        /\ m.type = "record" /\ m.epoch = s.epoch /\ m.seq = s.seq
        /\ m.body.size = size
    <2>1. size \in Nat
      BY SizesPositive
    <2> QED BY <2>1, LimitsAssumption DEF Exhausted
  <1>2. /\ s.seq \in Nat /\ s.bytes \in Nat /\ s.records \in Nat
        /\ s.seq <= Exhausted /\ s.epoch \in 0..MaxEpoch
        /\ s.age \in {Young, PastHalf, PastLifetime}
        /\ s.pending \in BOOLEAN /\ s.late \in BOOLEAN
    BY <1>1 DEF Outbound
  <1>3. /\ q \in 0..Exhausted /\ y \in 0..EpochBytes /\ k \in 0..EpochRecords
        /\ g \in {Young, PastHalf, PastLifetime}
    BY <1>1, <1>2
  <1>4. Seal(s, size) = [s EXCEPT !.seq = q, !.bytes = y, !.records = k, !.age = g]
    BY DEF Seal, Outbound
  <1> HIDE DEF q, y, k, g, size
  <1> DEFINE t == Seal(s, size)
  <1>5. /\ t \in Outbound /\ t.seq = q /\ t.bytes = y /\ t.records = k
        /\ t.pending = s.pending /\ t.epoch = s.epoch
    BY <1>3, <1>4 DEF Outbound
  <1> HIDE DEF t
  <1>6. ASSUME NEW a \in Inbound, Meets(a, s)
        PROVE  \E b \in Inbound : Delivers(a, m, b) /\ Meets(b, t)
    <2>1. /\ a.seq = s.seq /\ a.epoch \in Nat /\ s.epoch \in Nat
          /\ Expected(a, m) /\ Within(a, m)
          /\ Previous(a, m) <=> s.pending
      BY <1>1, <1>2, <1>6 DEF Expected, Within, Previous, Meets, Inbound
    <2>2. CASE s.pending
      <3> DEFINE b == [a EXCEPT !.seq = q, !.prevBytes = y, !.prevRecords = k]
      <3>1. Counted(a, m) = b
        BY <1>1, <1>6, <2>1, <2>2 DEF Counted, Meets, Inbound, q, y, k
      <3>2. /\ b \in Inbound /\ b.seq = q /\ b.prevBytes = y /\ b.prevRecords = k
            /\ b.epoch = a.epoch /\ b.prevOpen = a.prevOpen
            /\ b.bytes = a.bytes /\ b.records = a.records
        BY <1>3 DEF Inbound
      <3> HIDE DEF b
      <3>3. Meets(b, t)
        BY <1>5, <1>6, <2>2, <3>2 DEF Meets
      <3> QED BY <1>1, <2>1, <3>1, <3>2, <3>3 DEF Delivers
    <2>3. CASE ~s.pending
      <3> DEFINE b == [a EXCEPT !.seq = q, !.prevOpen = FALSE, !.bytes = y,
                                !.records = k]
      <3>1. Counted(a, m) = b
        BY <1>1, <1>6, <2>1, <2>3 DEF Counted, Meets, Inbound, q, y, k
      <3>2. /\ b \in Inbound /\ b.seq = q /\ b.bytes = y /\ b.records = k
            /\ b.epoch = a.epoch
        BY <1>3 DEF Inbound
      <3> HIDE DEF b
      <3>3. Meets(b, t)
        BY <1>5, <1>6, <2>3, <3>2 DEF Meets
      <3> QED BY <1>1, <2>1, <3>1, <3>2, <3>3 DEF Delivers
    <2> QED BY <1>2, <2>2, <2>3
  <1> QED BY <1>5, <1>6 DEF t, size

\* REKEY_INIT moves the receiver to the next epoch while the sender, still in
\* the old one, has the rotation pending.
LEMMA BeginMeets ==
    ASSUME NEW s \in Outbound, NEW m,
           m = [type |-> "init", epoch |-> s.epoch, seq |-> s.seq,
                next |-> s.epoch + 1],
           s.seq # Exhausted, s.epoch < MaxEpoch, ~s.pending
    PROVE  /\ m \in Protected
           /\ BeginRekey(s) \in Outbound
           /\ \A a \in Inbound : Meets(a, s) =>
                 \E b \in Inbound : Delivers(a, m, b) /\ Meets(b, BeginRekey(s))
  <1> DEFINE q == s.seq + 1
             e == s.epoch + 1
  <1>1. /\ EpochBytes \in Nat /\ EpochRecords \in Nat
        /\ MaxEpoch \in Nat /\ MaxSequence \in Nat /\ Exhausted = MaxSequence + 1
    BY LimitsAssumption DEF Exhausted
  <1>2. s.seq \in Nat /\ s.epoch \in Nat /\ s.seq <= Exhausted
    BY <1>1 DEF Outbound
  <1>3. q \in 0..Exhausted /\ e \in 1..MaxEpoch /\ s.seq \in 0..MaxSequence
    BY <1>1, <1>2
  <1>4. BeginRekey(s) = [s EXCEPT !.pending = TRUE, !.late = FALSE, !.seq = q]
    BY DEF BeginRekey, Outbound
  <1>5. m \in Protected
    BY <1>3 DEF Protected, Outbound
  <1> DEFINE t == BeginRekey(s)
  <1>6. m.type = "init" /\ m.epoch = s.epoch /\ m.seq = s.seq /\ m.next = e
    OBVIOUS
  <1>7. e = s.epoch + 1 /\ q = s.seq + 1
    OBVIOUS
  <1> HIDE DEF q, e
  <1>8. /\ t \in Outbound /\ t.seq = q /\ t.pending = TRUE /\ t.epoch = s.epoch
        /\ t.bytes = s.bytes /\ t.records = s.records
    BY <1>3, <1>4 DEF Outbound
  <1> HIDE DEF t
  <1>9. ASSUME NEW a \in Inbound, Meets(a, s)
        PROVE  \E b \in Inbound : Delivers(a, m, b) /\ Meets(b, t)
    <2>1. /\ a.seq = s.seq /\ a.epoch = s.epoch /\ a.bytes = s.bytes
          /\ a.records = s.records
      BY <1>9 DEF Meets
    <2>2. Expected(a, m) /\ ~Previous(a, m) /\ m.next = a.epoch + 1
      BY <1>2, <1>6, <1>7, <2>1 DEF Expected, Previous
    <2> DEFINE b == [a EXCEPT !.seq = q, !.epoch = e, !.prevOpen = TRUE,
                              !.prevBytes = a.bytes, !.prevRecords = a.records,
                              !.bytes = 0, !.records = 0]
    <2>3. AcceptRekey(a) = b
      BY <1>7, <2>1 DEF AcceptRekey, Inbound
    <2>4. e \in 0..MaxEpoch /\ 0 \in 0..EpochBytes /\ 0 \in 0..EpochRecords
      BY <1>1, <1>3
    <2>5. /\ b \in Inbound /\ b.seq = q /\ b.epoch = e /\ b.prevOpen
          /\ b.prevBytes = a.bytes /\ b.prevRecords = a.records
          /\ b.bytes = 0 /\ b.records = 0
      BY <1>3, <2>4 DEF Inbound
    <2> HIDE DEF b
    <2>6. Meets(b, t)
      BY <1>7, <1>8, <2>1, <2>5 DEF Meets
    <2> QED BY <1>6, <2>2, <2>3, <2>5, <2>6 DEF Delivers
  <1> QED BY <1>5, <1>8, <1>9 DEF t

\* The ACK lets the sender follow its receiver into the new epoch.
LEMMA FinishMeets ==
    ASSUME NEW s \in Outbound, s.pending, s.epoch < MaxEpoch
    PROVE  /\ FinishRekey(s) \in Outbound
           /\ FinishRekey(s).pending = FALSE
           /\ FinishRekey(s).records = 0 /\ FinishRekey(s).bytes = 0
           /\ \A a \in Inbound : Meets(a, s) => Meets(a, FinishRekey(s))
  <1> DEFINE e == s.epoch + 1
             t == FinishRekey(s)
  <1>1. EpochBytes \in Nat /\ EpochRecords \in Nat /\ MaxEpoch \in Nat
    BY LimitsAssumption
  <1>2. /\ e \in 0..MaxEpoch /\ 0 \in 0..EpochBytes /\ 0 \in 0..EpochRecords
        /\ e = s.epoch + 1
    BY <1>1 DEF Outbound
  <1>3. t = [s EXCEPT !.epoch = e, !.bytes = 0, !.records = 0, !.age = Young,
                      !.pending = FALSE]
    BY DEF FinishRekey, Outbound
  <1> HIDE DEF e
  <1>4. /\ t \in Outbound /\ t.epoch = e /\ t.bytes = 0 /\ t.records = 0
        /\ t.pending = FALSE /\ t.seq = s.seq
    BY <1>2, <1>3 DEF Outbound
  <1> HIDE DEF t
  <1>5. \A a \in Inbound : Meets(a, s) => Meets(a, t)
    BY <1>2, <1>4 DEF Meets
  <1> QED BY <1>4, <1>5 DEF t
-----------------------------------------------------------------------------
(* The rotation token: a pending rotation of the direction of w is either  *)
(* its INIT in w, or its ACK in v, or neither, and never both.             *)

Has(w, type) == \E i \in 1..Len(w) : w[i].type = type

Tokens(w, v, s) ==
    /\ \A i \in 1..Len(w) : w[i].type = "init" =>
          /\ s.pending /\ w[i].next = s.epoch + 1
          /\ \A j \in 1..Len(w) : w[j].type = "init" => j = i
          /\ ~Has(v, "ack")
    /\ \A i \in 1..Len(v) : v[i].type = "ack" =>
          /\ s.pending /\ v[i].next = s.epoch + 1
          /\ \A j \in 1..Len(v) : v[j].type = "ack" => j = i

\* A message appended to a wire.
LEMMA AppendFacts ==
    ASSUME NEW w \in Seq(Message), NEW m \in Message
    PROVE  /\ Append(w, m) \in Seq(Message)
           /\ Len(Append(w, m)) = Len(w) + 1 /\ Len(w) \in Nat
           /\ Append(w, m)[Len(w) + 1] = m
           /\ \A i \in 1..Len(w) : Append(w, m)[i] = w[i]
  OBVIOUS

\* A message taken from a wire.
LEMMA TailFacts ==
    ASSUME NEW w \in Seq(Message), w # <<>>
    PROVE  /\ Tail(w) \in Seq(Message) /\ Len(w) \in Nat /\ Len(w) >= 1
           /\ Len(Tail(w)) = Len(w) - 1
           /\ Head(w) = w[1] /\ Head(w) \in Message
           /\ \A i \in 1..Len(Tail(w)) : Tail(w)[i] = w[i + 1]
  OBVIOUS

\* Anything but a REKEY_INIT may be sent without touching the token.
LEMMA TokensSend ==
    ASSUME NEW w \in Seq(Message), NEW v \in Seq(Message), NEW m \in Message,
           NEW s, NEW t, Tokens(w, v, s), m.type # "init",
           t.pending = s.pending, t.epoch = s.epoch
    PROVE  Tokens(Append(w, m), v, t)
  <1> DEFINE x == Append(w, m)
  <1>1. /\ Len(x) = Len(w) + 1 /\ Len(w) \in Nat /\ x[Len(w) + 1] = m
        /\ \A i \in 1..Len(w) : x[i] = w[i]
    BY AppendFacts
  <1> HIDE DEF x
  <1>2. \A i \in 1..Len(x) : x[i].type = "init" => i \in 1..Len(w)
    BY <1>1
  <1>3. Tokens(x, v, t)
    BY <1>1, <1>2 DEF Tokens
  <1> QED BY <1>3 DEF x

\* Anything but a REKEY_ACK may be sent back without touching the token.
LEMMA TokensHear ==
    ASSUME NEW w \in Seq(Message), NEW v \in Seq(Message), NEW m \in Message,
           NEW s, Tokens(w, v, s), m.type # "ack"
    PROVE  Tokens(w, Append(v, m), s)
  <1> DEFINE x == Append(v, m)
  <1>1. /\ Len(x) = Len(v) + 1 /\ Len(v) \in Nat /\ x[Len(v) + 1] = m
        /\ \A i \in 1..Len(v) : x[i] = v[i]
    BY AppendFacts
  <1> HIDE DEF x
  <1>2. \A i \in 1..Len(x) : x[i].type = "ack" => i \in 1..Len(v)
    BY <1>1
  <1>3. Has(x, "ack") => Has(v, "ack")
    BY <1>1, <1>2 DEF Has
  <1>4. Tokens(w, x, s)
    BY <1>1, <1>2, <1>3 DEF Tokens
  <1> QED BY <1>4 DEF x

\* A message taken from the wire leaves at most the same token.
LEMMA TokensSendTail ==
    ASSUME NEW w \in Seq(Message), w # <<>>, NEW v \in Seq(Message), NEW s,
           Tokens(w, v, s)
    PROVE  Tokens(Tail(w), v, s)
  <1> DEFINE x == Tail(w)
  <1>1. /\ Len(x) = Len(w) - 1 /\ Len(w) \in Nat
        /\ \A i \in 1..Len(x) : x[i] = w[i + 1]
    BY TailFacts
  <1> HIDE DEF x
  <1>2. \A i \in 1..Len(x) : i + 1 \in 1..Len(w)
    BY <1>1
  <1>3. ASSUME NEW i \in 1..Len(x), x[i].type = "init"
        PROVE  /\ s.pending /\ x[i].next = s.epoch + 1
               /\ \A j \in 1..Len(x) : x[j].type = "init" => j = i
               /\ ~Has(v, "ack")
    <2>1. w[i + 1].type = "init" /\ i + 1 \in 1..Len(w) /\ x[i] = w[i + 1]
      BY <1>1, <1>2, <1>3
    <2>2. /\ s.pending /\ w[i + 1].next = s.epoch + 1 /\ ~Has(v, "ack")
          /\ \A j \in 1..Len(w) : w[j].type = "init" => j = i + 1
      BY <2>1 DEF Tokens
    <2>3. ASSUME NEW j \in 1..Len(x), x[j].type = "init" PROVE j = i
      <3>1. w[j + 1].type = "init" /\ j + 1 \in 1..Len(w)
        BY <1>1, <1>2, <2>3
      <3> QED BY <2>2, <3>1
    <2> QED BY <2>1, <2>2, <2>3
  <1>4. Tokens(x, v, s)
    BY <1>3 DEF Tokens
  <1> QED BY <1>4 DEF x

\* So does one taken from the wire of the other direction.
LEMMA TokensHearTail ==
    ASSUME NEW w \in Seq(Message), NEW v \in Seq(Message), v # <<>>, NEW s,
           Tokens(w, v, s)
    PROVE  Tokens(w, Tail(v), s)
  <1> DEFINE x == Tail(v)
  <1>1. /\ Len(x) = Len(v) - 1 /\ Len(v) \in Nat
        /\ \A i \in 1..Len(x) : x[i] = v[i + 1]
    BY TailFacts
  <1> HIDE DEF x
  <1>2. \A i \in 1..Len(x) : i + 1 \in 1..Len(v)
    BY <1>1
  <1>3. Has(x, "ack") => Has(v, "ack")
    BY <1>1, <1>2 DEF Has
  <1>4. ASSUME NEW i \in 1..Len(x), x[i].type = "ack"
        PROVE  /\ s.pending /\ x[i].next = s.epoch + 1
               /\ \A j \in 1..Len(x) : x[j].type = "ack" => j = i
    <2>1. v[i + 1].type = "ack" /\ i + 1 \in 1..Len(v) /\ x[i] = v[i + 1]
      BY <1>1, <1>2, <1>4
    <2>2. /\ s.pending /\ v[i + 1].next = s.epoch + 1
          /\ \A j \in 1..Len(v) : v[j].type = "ack" => j = i + 1
      BY <2>1 DEF Tokens
    <2>3. ASSUME NEW j \in 1..Len(x), x[j].type = "ack" PROVE j = i
      <3>1. v[j + 1].type = "ack" /\ j + 1 \in 1..Len(v)
        BY <1>1, <1>2, <2>3
      <3> QED BY <2>2, <3>1
    <2> QED BY <2>1, <2>2, <2>3
  <1>5. Tokens(w, x, s)
    BY <1>3, <1>4 DEF Tokens
  <1> QED BY <1>5 DEF x

\* initiate_rekey: no token is under way before, the INIT is one after.
LEMMA TokensBegin ==
    ASSUME NEW w \in Seq(Message), NEW v \in Seq(Message), NEW m \in Message,
           NEW s, NEW t, Tokens(w, v, s), ~s.pending,
           t.pending, t.epoch = s.epoch,
           m.type = "init", m.next = s.epoch + 1
    PROVE  Tokens(Append(w, m), v, t)
  <1> DEFINE x == Append(w, m)
  <1>1. /\ Len(x) = Len(w) + 1 /\ Len(w) \in Nat /\ x[Len(w) + 1] = m
        /\ \A i \in 1..Len(w) : x[i] = w[i]
    BY AppendFacts
  <1> HIDE DEF x
  <1>2. ~Has(v, "ack") /\ ~Has(w, "init")
    BY DEF Tokens, Has
  <1>3. \A i \in 1..Len(x) : x[i].type = "init" => i = Len(w) + 1
    BY <1>1, <1>2 DEF Has
  <1>4. Tokens(x, v, t)
    BY <1>1, <1>2, <1>3 DEF Tokens, Has
  <1> QED BY <1>4 DEF x

\* process_rekey_init: the INIT turns into its ACK.
LEMMA TokensAnswer ==
    ASSUME NEW w \in Seq(Message), w # <<>>, NEW v \in Seq(Message),
           NEW m \in Message, NEW s, Tokens(w, v, s),
           Head(w).type = "init", m.type = "ack", m.next = Head(w).next
    PROVE  Tokens(Tail(w), Append(v, m), s)
  <1> DEFINE x == Append(v, m)
             y == Tail(w)
  <1>1. /\ Len(x) = Len(v) + 1 /\ Len(v) \in Nat /\ x[Len(v) + 1] = m
        /\ \A i \in 1..Len(v) : x[i] = v[i]
    BY AppendFacts
  <1>2. /\ Len(y) = Len(w) - 1 /\ Len(w) \in Nat /\ Len(w) >= 1
        /\ \A i \in 1..Len(y) : y[i] = w[i + 1]
        /\ Head(w) = w[1]
    BY TailFacts
  <1> HIDE DEF x, y
  <1>3. s.pending /\ m.next = s.epoch + 1 /\ ~Has(v, "ack")
        /\ \A j \in 1..Len(w) : w[j].type = "init" => j = 1
    BY <1>2 DEF Tokens
  <1>4. \A i \in 1..Len(x) : x[i].type = "ack" => i = Len(v) + 1
    BY <1>1, <1>3 DEF Has
  <1>5. \A i \in 1..Len(y) : y[i].type # "init"
    BY <1>2, <1>3
  <1>6. Tokens(y, x, s)
    BY <1>1, <1>3, <1>4, <1>5 DEF Tokens
  <1> QED BY <1>6 DEF x, y

\* process_rekey_ack: the ACK is expected, and no token is left after it.
LEMMA TokensExpected ==
    ASSUME NEW w \in Seq(Message), NEW v \in Seq(Message), v # <<>>,
           NEW s, Tokens(w, v, s), Head(v).type = "ack"
    PROVE  s.pending /\ Head(v).next = s.epoch + 1
  BY TailFacts DEF Tokens

\* Once the ACK is taken no token of its rotation is left.
LEMMA TokensFinish ==
    ASSUME NEW w \in Seq(Message), NEW v \in Seq(Message), v # <<>>,
           NEW s, NEW t, Tokens(w, v, s), Head(v).type = "ack"
    PROVE  Tokens(w, Tail(v), t)
  <1> DEFINE y == Tail(v)
  <1>2. /\ Len(y) = Len(v) - 1 /\ Len(v) \in Nat /\ Len(v) >= 1
        /\ \A i \in 1..Len(y) : y[i] = v[i + 1]
        /\ Head(v) = v[1]
    BY TailFacts
  <1> HIDE DEF y
  <1>3. s.pending /\ v[1].next = s.epoch + 1
        /\ \A j \in 1..Len(v) : v[j].type = "ack" => j = 1
    BY <1>2 DEF Tokens
  <1>4. Has(v, "ack")
    BY <1>2 DEF Has
  <1>5. \A i \in 1..Len(w) : w[i].type # "init"
    BY <1>4 DEF Tokens
  <1>6. \A i \in 1..Len(y) : y[i].type # "ack"
    BY <1>2, <1>3
  <1>7. Tokens(w, y, t)
    BY <1>5, <1>6 DEF Tokens
  <1> QED BY <1>7 DEF y
-----------------------------------------------------------------------------
(* The inductive invariant. *)

\* rekey_work_ is one while a rotation is pending and zero otherwise.
Counts(p) ==
    /\ work[p] = IF snd[p].pending THEN 1 ELSE 0
    /\ snd[p].records = 0 => snd[p].bytes = 0
    /\ snd[p].pending => snd[p].epoch < MaxEpoch

Verdict(p) ==
    /\ why[p] # "protocol"
    /\ why[p] = "exhausted" => snd[p].seq = Exhausted \/ snd[p].epoch = MaxEpoch
    /\ why[p] # "none" => state[p] = "Failed"

Direction(p) ==
    state[Other(p)] = "Active" => Linked(rcv[Other(p)], wire[p], snd[p])

Rotation(p) == Tokens(wire[p], wire[Other(p)], snd[p])

PeerInv(p) == Counts(p) /\ Verdict(p) /\ Direction(p) /\ Rotation(p)

Inv == RecordTypes /\ \A p \in Peers : PeerInv(p)

\* There are two peers, each the other's.
LEMMA TwoPeers ==
    ASSUME NEW p \in Peers
    PROVE  /\ Other(p) \in Peers /\ Other(p) # p /\ Other(Other(p)) = p
           /\ \A x \in Peers : x = p \/ x = Other(p)
  <1>1. PICK a \in Peers, b \in Peers : a # b /\ Peers = {a, b}
    BY PeersAssumption
  <1>2. \A x \in Peers : \E y \in Peers : y # x
    BY <1>1
  <1>3. \A x \in Peers : Other(x) \in Peers /\ Other(x) # x
    BY <1>2 DEF Other
  <1> QED BY <1>1, <1>3

\* The budget of either peer is within the largest.
LEMMA BudgetBound ==
    /\ MaxPublished \in Nat
    /\ \A p \in Peers : Budget[p] \in Nat /\ MaxPublished >= Budget[p]
  <1>1. PICK a \in Peers, b \in Peers : a # b /\ Peers = {a, b}
    BY PeersAssumption
  <1> DEFINE B == {Budget[p] : p \in Peers}
  <1>2. Budget[a] \in Nat /\ Budget[b] \in Nat /\ \A n \in B : n \in Nat
    BY LimitsAssumption
  <1>3. \E n \in B : \A p \in Peers : n >= Budget[p]
    <2>1. CASE Budget[a] >= Budget[b]
      BY <1>1, <1>2, <2>1
    <2>2. CASE Budget[b] >= Budget[a]
      BY <1>1, <1>2, <2>2
    <2> QED BY <1>2, <2>1, <2>2
  <1>4. MaxPublished \in B /\ \A p \in Peers : MaxPublished >= Budget[p]
    BY <1>3 DEF MaxPublished
  <1> QED BY <1>1, <1>2, <1>4

\* Two peers that have exchanged CAPABILITIES are in step.
LEMMA InitInv == Init => Inv
  <1> SUFFICES ASSUME Init PROVE Inv
    OBVIOUS
  <1>1. /\ EpochBytes \in Nat /\ EpochRecords \in Nat /\ EpochRecords >= 2
        /\ ControlSize \in 0..EpochBytes /\ MaxEpoch \in Nat
        /\ MaxSequence \in Nat /\ Exhausted = MaxSequence + 1
        /\ MaxConcurrentRekeys \in Nat /\ ControlSize \in Nat /\ ControlSize >= 1
    BY LimitsAssumption DEF Exhausted
  <1> DEFINE s == [epoch |-> 0, seq |-> 1, bytes |-> ControlSize, records |-> 1,
                   age |-> Young, pending |-> FALSE, late |-> FALSE]
             r == [epoch |-> 0, seq |-> 1, bytes |-> ControlSize, records |-> 1,
                   prevOpen |-> FALSE, prevBytes |-> 0, prevRecords |-> 0]
  <1>2. s \in Outbound /\ r \in Inbound
    BY <1>1 DEF Outbound, Inbound
  <1>3. RecordTypes
    BY <1>1, <1>2, BudgetBound DEF Init, RecordTypes
  <1>4. Linked(r, <<>>, s)
    <2> DEFINE c == <<r>>
    <2>1. c \in Seq(Inbound) /\ Len(c) = 1 /\ c[1] = r
      BY <1>2
    <2>2. Meets(r, s)
      BY DEF Meets
    <2> HIDE DEF c, r, s
    <2>3. Script(c, r, <<>>) /\ Meets(c[Len(c)], s)
      BY <2>1, <2>2 DEF Script
    <2> QED BY <2>3 DEF Linked
  <1>5. ASSUME NEW p \in Peers PROVE PeerInv(p)
    <2>1. /\ snd[p] = s /\ rcv[Other(p)] = r /\ wire[p] = <<>>
          /\ wire[Other(p)] = <<>> /\ work[p] = 0 /\ why[p] = "none"
      BY TwoPeers DEF Init
    <2>2. Counts(p) /\ Verdict(p)
      BY <1>1, <2>1 DEF Counts, Verdict
    <2>3. Direction(p) /\ Rotation(p)
      BY <1>4, <2>1 DEF Direction, Rotation, Tokens, Has
    <2> QED BY <2>2, <2>3 DEF PeerInv
  <1> QED BY <1>3, <1>5 DEF Inv
-----------------------------------------------------------------------------
(* Every step keeps it. *)

\* The types of one peer's part of the state.
LEMMA PeerTypes ==
    ASSUME RecordTypes, NEW p \in Peers
    PROVE  /\ snd[p] \in Outbound /\ rcv[p] \in Inbound
           /\ wire[p] \in Seq(Message)
           /\ deferred[p] \in Seq(Record) /\ flushing[p] \in Seq(Record)
           /\ state[p] \in {"Active", "Failed"}
  BY DEF RecordTypes

\* A peer that fails, for a reason other than the protocol, leaves what it sent.
LEMMA FailStep ==
    ASSUME Inv, NEW p \in Peers,
           NEW reason \in {"exhausted", "full", "deadline", "carrier"},
           reason = "exhausted" => snd[p].seq = Exhausted \/ snd[p].epoch = MaxEpoch,
           Fail(p, reason), wire' = wire
    PROVE  Inv'
  <1> DEFINE q == Other(p)
  <1>1. q \in Peers /\ q # p /\ Other(q) = p /\ \A x \in Peers : x = p \/ x = q
    BY TwoPeers
  <1> HIDE DEF q
  <1>2. RecordTypes'
    BY DEF Inv, RecordTypes, Fail
  <1>3. PeerInv(p) /\ PeerInv(q)
    BY <1>1 DEF Inv
  <1>4. /\ state' = [state EXCEPT ![p] = "Failed"] /\ why' = [why EXCEPT ![p] = reason]
        /\ UNCHANGED <<snd, rcv, work, wire>>
        /\ state \in [Peers -> {"Active", "Failed"}]
        /\ DOMAIN why = Peers
    BY DEF Fail, Inv, RecordTypes
  <1>5. ASSUME NEW x \in Peers PROVE PeerInv(x)'
    <2>1. PeerInv(x)
      BY DEF Inv
    <2>2. Counts(x)' /\ Rotation(x)'
      BY <1>4, <2>1 DEF PeerInv, Counts, Rotation
    <2>3. Verdict(x)'
      BY <1>4, <2>1 DEF PeerInv, Verdict
    <2>4. Direction(x)'
      BY <1>4, <2>1, TwoPeers DEF PeerInv, Direction
    <2> QED BY <2>2, <2>3, <2>4 DEF PeerInv
  <1> QED BY <1>2, <1>5 DEF Inv

\* initiate_rekey.
LEMMA StartStep ==
    ASSUME Inv, NEW p \in Peers, state[p] = "Active", ~snd[p].pending,
           HasRekeyCapacity(p), StartRekey(p)
    PROVE  Inv'
  <1> DEFINE q == Other(p)
             m == InitRecord(p)
             t == BeginRekey(snd[p])
  <1>1. q \in Peers /\ q # p /\ Other(q) = p /\ \A x \in Peers : x = p \/ x = q
    BY TwoPeers
  <1>2. CASE snd[p].seq = Exhausted
    BY <1>2, FailStep DEF StartRekey
  <1>3. CASE snd[p].seq # Exhausted
    <2>1. /\ wire' = [wire EXCEPT ![p] = Append(wire[p], m)]
          /\ snd' = [snd EXCEPT ![p] = t]
          /\ work' = [work EXCEPT ![p] = work[p] + 1]
          /\ UNCHANGED <<state, why, rcv, deferred, flushing, closed, published, got>>
      BY <1>3 DEF StartRekey
    <2>2. /\ snd[p] \in Outbound /\ wire[p] \in Seq(Message) /\ wire[q] \in Seq(Message)
          /\ snd[p].epoch < MaxEpoch
      BY <1>1, PeerTypes DEF Inv, HasRekeyCapacity
    <2>3. /\ m = [type |-> "init", epoch |-> snd[p].epoch, seq |-> snd[p].seq,
                  next |-> snd[p].epoch + 1]
      BY DEF InitRecord
    <2>4. /\ m \in Protected /\ t \in Outbound
          /\ \A a \in Inbound : Meets(a, snd[p]) =>
                 \E b \in Inbound : Delivers(a, m, b) /\ Meets(b, t)
      BY <1>3, <2>2, <2>3, BeginMeets
    <2>5. m.type = "init" /\ m.next = snd[p].epoch + 1
      BY <2>3
    <2>6. /\ t.pending /\ t.epoch = snd[p].epoch /\ t.bytes = snd[p].bytes
          /\ t.records = snd[p].records
      BY <2>2 DEF BeginRekey, Outbound
    <2>7. m \in Message
      BY <2>4 DEF Message
    <2> HIDE DEF q, m, t
    <2>8. PeerInv(p) /\ PeerInv(q)
      BY <1>1 DEF Inv
    <2>9. work[p] = 0
      BY <2>8 DEF PeerInv, Counts
    <2>10. RecordTypes'
      <3>1. snd' \in [Peers -> Outbound]
        BY <2>1, <2>4 DEF Inv, RecordTypes
      <3>2. wire' \in [Peers -> Seq(Message)]
        BY <2>1, <2>2, <2>7 DEF Inv, RecordTypes
      <3>3. work' \in [Peers -> 0..MaxConcurrentRekeys]
        BY <2>1, <2>9, LimitsAssumption DEF Inv, RecordTypes
      <3> QED BY <2>1, <3>1, <3>2, <3>3 DEF Inv, RecordTypes
    <2>11. /\ snd'[p] = t /\ snd'[q] = snd[q]
           /\ wire'[p] = Append(wire[p], m) /\ wire'[q] = wire[q]
           /\ work'[p] = 1 /\ work'[q] = work[q]
      BY <1>1, <2>1, <2>9 DEF Inv, RecordTypes
    <2>12. PeerInv(p)'
      <3>1. Counts(p)'
        BY <2>2, <2>6, <2>8, <2>11 DEF PeerInv, Counts
      <3>2. Verdict(p)'
        BY <1>3, <2>1, <2>2, <2>8, <2>11 DEF PeerInv, Verdict
      <3>3. Direction(p)'
        <4> SUFFICES ASSUME state[q] = "Active"
                     PROVE  Linked(rcv[q], Append(wire[p], m), t)
          BY <1>1, <2>1, <2>11 DEF Direction, q
        <4>1. Linked(rcv[q], wire[p], snd[p])
          BY <2>8 DEF PeerInv, Direction, q
        <4> QED BY <2>2, <2>4, <2>7, <4>1, LinkAppend
      <3>4. Rotation(p)'
        <4>1. Tokens(wire[p], wire[q], snd[p])
          BY <2>8 DEF PeerInv, Rotation, q
        <4>2. Tokens(Append(wire[p], m), wire[q], t)
          BY <2>2, <2>5, <2>6, <2>7, <4>1, TokensBegin
        <4> QED BY <2>11, <4>2 DEF Rotation, q
      <3> QED BY <3>1, <3>2, <3>3, <3>4 DEF PeerInv
    <2>13. PeerInv(q)'
      <3>1. Counts(q)' /\ Verdict(q)' /\ Direction(q)'
        BY <1>1, <2>1, <2>8, <2>11 DEF PeerInv, Counts, Verdict, Direction
      <3>2. Rotation(q)'
        <4>1. Tokens(wire[q], wire[p], snd[q])
          BY <1>1, <2>8 DEF PeerInv, Rotation
        <4>2. Tokens(wire[q], Append(wire[p], m), snd[q])
          BY <2>2, <2>5, <2>7, <4>1, TokensHear
        <4> QED BY <1>1, <2>11, <4>2 DEF Rotation
      <3> QED BY <3>1, <3>2 DEF PeerInv
    <2> QED BY <1>1, <2>10, <2>12, <2>13 DEF Inv, q
  <1> QED BY <1>2, <1>3

\* The rotation of the send path and of the timer keeps the invariant.
LEMMA RotateStep ==
    ASSUME Inv, NEW p \in Peers, state[p] = "Active", ~snd[p].pending, Rotate(p)
    PROVE  Inv'
  <1>1. CASE HasRekeyCapacity(p)
    BY <1>1, StartStep DEF Rotate
  <1>2. CASE ~HasRekeyCapacity(p)
    <2>1. work[p] = 0 /\ snd[p] \in Outbound
      BY PeerTypes DEF Inv, PeerInv, Counts
    <2>2. snd[p].epoch = MaxEpoch
      BY <1>2, <2>1, LimitsAssumption DEF HasRekeyCapacity, Outbound
    <2> QED BY <1>2, <2>2, FailStep DEF Rotate
  <1> QED BY <1>1, <1>2

\* What the rotation loop and the barrier of enqueue_record leave room for.
LEMMA RoomToSeal ==
    ASSUME Inv, NEW p \in Peers, NEW r \in Record,
           ~NeedsRotation(p, r.size), ~Barred(p, r.size)
    PROVE  r.size <= EpochBytes - snd[p].bytes /\ snd[p].records < EpochRecords
  <1>1. /\ snd[p] \in Outbound
        /\ snd[p].records = 0 => snd[p].bytes = 0
    BY PeerTypes DEF Inv, PeerInv, Counts
  <1>2. /\ r.size \in Nat /\ r.size <= EpochBytes
        /\ EpochBytes \in Nat /\ EpochRecords \in Nat /\ EpochRecords >= 2
    BY SizesPositive, LimitsAssumption
  <1>3. snd[p].bytes \in Nat /\ snd[p].records \in Nat /\ snd[p].pending \in BOOLEAN
    BY <1>1, <1>2 DEF Outbound
  <1>4. EpochBytes \div 2 <= EpochBytes /\ EpochRecords \div 2 <= EpochRecords
    BY <1>2
  <1>5. CASE snd[p].pending
    BY <1>5 DEF Barred, FitsOldEpoch
  <1>6. CASE ~snd[p].pending /\ snd[p].records = 0
    BY <1>1, <1>2, <1>3, <1>6
  <1>7. CASE ~snd[p].pending /\ snd[p].records # 0
    <2>1. /\ ~(r.size + snd[p].bytes > EpochBytes \div 2)
          /\ ~(snd[p].records >= EpochRecords \div 2)
      BY <1>7 DEF NeedsRotation, HalfUsed
    <2>2. EpochBytes \div 2 \in Nat /\ EpochRecords \div 2 \in Nat
      BY <1>2
    <2> QED BY <1>2, <1>3, <1>4, <2>1, <2>2
  <1> QED BY <1>3, <1>5, <1>6, <1>7
\* A step that touches neither a direction nor a verdict.
LEMMA QuietStep ==
    ASSUME Inv, RecordTypes', UNCHANGED <<state, why, snd, rcv, work, wire>>
    PROVE  Inv'
  <1> SUFFICES ASSUME NEW p \in Peers PROVE PeerInv(p)'
    BY DEF Inv
  <1>1. PeerInv(p)
    BY DEF Inv
  <1>2. Counts(p)' /\ Verdict(p)' /\ Direction(p)' /\ Rotation(p)'
    BY <1>1 DEF PeerInv, Counts, Verdict, Direction, Rotation
  <1> QED BY <1>2 DEF PeerInv

\* enqueue_record past its rotation loop.
LEMMA EnqueueStep ==
    ASSUME Inv, NEW p \in Peers, NEW r \in Record, state[p] = "Active",
           ~NeedsRotation(p, r.size), Enqueue(p, r),
           flushing' \in [Peers -> Seq(Record)],
           published' \in [Peers -> 0..MaxPublished],
           UNCHANGED <<state, why, rcv, work, closed, got>>
    PROVE  Inv'
  <1> DEFINE q == Other(p)
             s == snd[p]
             m == [type |-> "record", epoch |-> s.epoch, seq |-> s.seq, body |-> r]
             t == Seal(s, r.size)
  <1>1. q \in Peers /\ q # p /\ Other(q) = p /\ \A x \in Peers : x = p \/ x = q
    BY TwoPeers
  <1>2. CASE Barred(p, r.size)
    <2>1. deferred' = [deferred EXCEPT ![p] = Append(deferred[p], r)]
          /\ UNCHANGED <<wire, snd>>
      BY <1>2 DEF Enqueue
    <2>2. deferred' \in [Peers -> Seq(Record)]
      BY <2>1 DEF Inv, RecordTypes
    <2>3. RecordTypes'
      BY <2>1, <2>2 DEF Inv, RecordTypes
    <2> QED BY <2>1, <2>3, QuietStep
  <1>3. CASE ~Barred(p, r.size)
    <2>1. /\ s.seq # Exhausted
          /\ wire' = [wire EXCEPT ![p] = Append(wire[p], m)]
          /\ snd' = [snd EXCEPT ![p] = t]
          /\ deferred' = deferred
      BY <1>3 DEF Enqueue
    <2>2. s \in Outbound /\ wire[p] \in Seq(Message) /\ wire[q] \in Seq(Message)
      BY <1>1, PeerTypes DEF Inv
    <2>3. r.size <= EpochBytes - s.bytes /\ s.records < EpochRecords
      BY <1>3, RoomToSeal
    <2>4. m \in Protected
      <3>1. s.seq \in 0..MaxSequence /\ s.epoch \in 0..MaxEpoch
        BY <2>1, <2>2, LimitsAssumption DEF Outbound, Exhausted
      <3> QED BY <3>1 DEF Protected
    <2>5. /\ t \in Outbound
          /\ \A a \in Inbound : Meets(a, s) =>
                 \E b \in Inbound : Delivers(a, m, b) /\ Meets(b, t)
      BY <2>1, <2>2, <2>3, <2>4, SealMeets
    <2>6. /\ t.pending = s.pending /\ t.epoch = s.epoch
          /\ t.records = s.records + 1
      BY <2>2 DEF Seal, Outbound
    <2>7. m.type = "record" /\ m \in Message
      BY <2>4 DEF Message
    <2> HIDE DEF q, m, t, s
    <2>8. PeerInv(p) /\ PeerInv(q)
      BY <1>1 DEF Inv
    <2>9. RecordTypes'
      <3>1. snd' \in [Peers -> Outbound]
        BY <2>1, <2>5 DEF Inv, RecordTypes
      <3>2. wire' \in [Peers -> Seq(Message)]
        BY <2>1, <2>2, <2>7 DEF Inv, RecordTypes
      <3> QED BY <2>1, <3>1, <3>2 DEF Inv, RecordTypes
    <2>10. /\ snd'[p] = t /\ snd'[q] = snd[q]
           /\ wire'[p] = Append(wire[p], m) /\ wire'[q] = wire[q]
      BY <1>1, <2>1 DEF Inv, RecordTypes
    <2>11. PeerInv(p)'
      <3>1. Counts(p)'
        <4>1. s.records \in Nat
          BY <2>2, LimitsAssumption DEF Outbound
        <4> QED BY <2>6, <2>8, <2>10, <4>1 DEF PeerInv, Counts, s
      <3>2. Verdict(p)'
        BY <2>8 DEF PeerInv, Verdict
      <3>3. Direction(p)'
        <4> SUFFICES ASSUME state[q] = "Active"
                     PROVE  Linked(rcv[q], Append(wire[p], m), t)
          BY <1>1, <2>1, <2>10 DEF Direction, q
        <4>1. Linked(rcv[q], wire[p], s)
          BY <2>8 DEF PeerInv, Direction, q, s
        <4> QED BY <2>2, <2>5, <2>7, <4>1, LinkAppend
      <3>4. Rotation(p)'
        <4>1. Tokens(wire[p], wire[q], s)
          BY <2>8 DEF PeerInv, Rotation, q, s
        <4>2. Tokens(Append(wire[p], m), wire[q], t)
          BY <2>2, <2>6, <2>7, <4>1, TokensSend
        <4> QED BY <2>10, <4>2 DEF Rotation, q
      <3> QED BY <3>1, <3>2, <3>3, <3>4 DEF PeerInv
    <2>12. PeerInv(q)'
      <3>1. Counts(q)' /\ Verdict(q)' /\ Direction(q)'
        BY <1>1, <2>1, <2>8, <2>10 DEF PeerInv, Counts, Verdict, Direction
      <3>2. Rotation(q)'
        <4>1. Tokens(wire[q], wire[p], snd[q])
          BY <1>1, <2>8 DEF PeerInv, Rotation
        <4>2. Tokens(wire[q], Append(wire[p], m), snd[q])
          BY <2>2, <2>7, <4>1, TokensHear
        <4> QED BY <1>1, <2>10, <4>2 DEF Rotation
      <3> QED BY <3>1, <3>2 DEF PeerInv
    <2> QED BY <1>1, <2>9, <2>11, <2>12 DEF Inv, q
  <1> QED BY <1>2, <1>3

\* What the receive pump takes is what the script says: it is accepted.
LEMMA HeadAccepted ==
    ASSUME Inv, NEW p \in Peers, NEW type, Receiving(p, type)
    PROVE  LET w == wire[Other(p)]
               m == Head(w)
           IN  /\ w \in Seq(Message) /\ w # <<>> /\ m.type = type
               /\ Acceptable(p, m)
               /\ \E b \in Inbound :
                     /\ Linked(b, Tail(w), snd[Other(p)])
                     /\ type = "record" => b = CountInbound(p, m)
                     /\ type = "init" => b = AcceptRekey(rcv[p])
                     /\ type = "ack" => b = rcv[p]
  <1> DEFINE q == Other(p)
             w == wire[q]
             m == Head(w)
  <1>1. q \in Peers /\ q # p /\ Other(q) = p
    BY TwoPeers
  <1>2. w \in Seq(Message) /\ w # <<>> /\ m.type = type /\ state[p] = "Active"
    BY <1>1, PeerTypes DEF Inv, Receiving, Idle
  <1>3. Linked(rcv[p], w, snd[q])
    BY <1>1, <1>2 DEF Inv, PeerInv, Direction
  <1>4. PICK b \in Inbound : Delivers(rcv[p], m, b) /\ Linked(b, Tail(w), snd[q])
    BY <1>2, <1>3, LinkTail
  <1>5. CASE type = "record"
    <2>1. Expected(rcv[p], m) /\ Within(rcv[p], m) /\ b = Counted(rcv[p], m)
      BY <1>2, <1>4, <1>5 DEF Delivers
    <2>2. Acceptable(p, m)
      BY <1>2, <1>5, <2>1 DEF Acceptable, TokenExpected, WithinEpochLimit,
         InPreviousEpoch, Expected, Within, Previous
    <2>3. b = CountInbound(p, m)
      BY <2>1 DEF Counted, CountInbound, InPreviousEpoch, Previous
    <2> QED BY <1>2, <1>4, <1>5, <2>2, <2>3
  <1>6. CASE type = "init"
    <2>1. /\ Expected(rcv[p], m) /\ ~Previous(rcv[p], m)
          /\ m.next = rcv[p].epoch + 1 /\ b = AcceptRekey(rcv[p])
      BY <1>2, <1>4, <1>6 DEF Delivers
    <2>2. work[p] < MaxConcurrentRekeys
      <3>1. work[p] = IF snd[p].pending THEN 1 ELSE 0
        BY DEF Inv, PeerInv, Counts
      <3> QED BY <3>1, LimitsAssumption
    <2>3. Acceptable(p, m)
      BY <1>2, <1>6, <2>1, <2>2 DEF Acceptable, TokenExpected, InPreviousEpoch,
         Expected, Previous
    <2> QED BY <1>2, <1>4, <1>6, <2>1, <2>3
  <1>7. CASE type = "ack"
    <2>1. b = rcv[p]
      BY <1>2, <1>4, <1>7 DEF Delivers
    <2>2. Tokens(wire[p], w, snd[p])
      BY DEF Inv, PeerInv, Rotation
    <2>3. snd[p].pending /\ m.next = snd[p].epoch + 1
      <3>1. wire[p] \in Seq(Message)
        BY PeerTypes DEF Inv
      <3> HIDE DEF w, m
      <3>2. Head(w).type = "ack"
        BY <1>2, <1>7 DEF m
      <3> QED BY <1>2, <2>2, <3>1, <3>2, TokensExpected DEF m
    <2>4. Acceptable(p, m)
      BY <1>2, <1>7, <2>3 DEF Acceptable
    <2> QED BY <1>2, <1>4, <1>7, <2>1, <2>4
  <1>8. type \in {"record", "init", "ack"}
    BY <1>2, <1>4 DEF Delivers
  <1> QED BY <1>5, <1>6, <1>7, <1>8
\* process_payload of a protected record.
LEMMA RecordStep ==
    ASSUME Inv, NEW p \in Peers, ReceiveRecord(p)
    PROVE  Inv'
  <1> DEFINE q == Other(p)
             w == wire[q]
             m == Head(w)
             b == CountInbound(p, m)
  <1>1. q \in Peers /\ q # p /\ Other(q) = p /\ \A x \in Peers : x = p \/ x = q
    BY TwoPeers
  <1>2. Receiving(p, "record")
    BY DEF ReceiveRecord
  <1>3. /\ w \in Seq(Message) /\ w # <<>> /\ m.type = "record" /\ Acceptable(p, m)
        /\ b \in Inbound /\ Linked(b, Tail(w), snd[q])
    BY <1>2, HeadAccepted
  <1>4. /\ rcv' = [rcv EXCEPT ![p] = b]
        /\ got' = [got EXCEPT ![p] = m.body.id]
        /\ wire' = [wire EXCEPT ![q] = Tail(w)]
        /\ UNCHANGED <<state, why, snd, work, deferred, flushing, closed, published>>
    BY <1>3 DEF ReceiveRecord, Taken
  <1>5. Tail(w) \in Seq(Message) /\ m \in Message
    BY <1>3, TailFacts
  <1>6. m.body.id \in 0..MaxPublished
    <2>1. m.body \in Record
      BY <1>3, <1>5 DEF Message, Protected, Bare
    <2> QED BY <2>1, BudgetBound DEF Record
  <1>7. PeerInv(p) /\ PeerInv(q)
    BY <1>1 DEF Inv
  <1> HIDE DEF b, m, w, q
  <1>8. RecordTypes'
    <2>1. rcv' \in [Peers -> Inbound]
      BY <1>3, <1>4 DEF Inv, RecordTypes
    <2>2. wire' \in [Peers -> Seq(Message)]
      BY <1>4, <1>5 DEF Inv, RecordTypes
    <2>3. got' \in [Peers -> 0..MaxPublished]
      BY <1>4, <1>6 DEF Inv, RecordTypes
    <2> QED BY <1>4, <2>1, <2>2, <2>3 DEF Inv, RecordTypes
  <1>9. /\ rcv'[p] = b /\ rcv'[q] = rcv[q]
        /\ wire'[q] = Tail(w) /\ wire'[p] = wire[p]
    BY <1>1, <1>4 DEF Inv, RecordTypes
  <1>10. wire[p] \in Seq(Message)
    BY PeerTypes DEF Inv
  <1>11. PeerInv(p)'
    <2>1. Counts(p)' /\ Verdict(p)' /\ Direction(p)'
      BY <1>4, <1>7, <1>9 DEF PeerInv, Counts, Verdict, Direction, q
    <2>2. Tokens(wire[p], w, snd[p])
      BY <1>7 DEF PeerInv, Rotation, q, w
    <2>3. Tokens(wire[p], Tail(w), snd[p])
      BY <1>3, <1>10, <2>2, TokensHearTail
    <2> QED BY <1>4, <1>9, <2>1, <2>3 DEF PeerInv, Rotation, q
  <1>12. PeerInv(q)'
    <2>1. Counts(q)' /\ Verdict(q)' /\ Direction(q)'
      BY <1>1, <1>3, <1>4, <1>7, <1>9 DEF PeerInv, Counts, Verdict, Direction
    <2>2. Tokens(w, wire[p], snd[q])
      BY <1>1, <1>7 DEF PeerInv, Rotation, w
    <2>3. Tokens(Tail(w), wire[p], snd[q])
      BY <1>3, <1>10, <2>2, TokensSendTail
    <2> QED BY <1>1, <1>4, <1>9, <2>1, <2>3 DEF PeerInv, Rotation
  <1> QED BY <1>1, <1>8, <1>11, <1>12 DEF Inv, q

\* process_rekey_ack.
LEMMA AckStep ==
    ASSUME Inv, NEW p \in Peers, ReceiveAck(p)
    PROVE  Inv'
  <1> DEFINE q == Other(p)
             w == wire[q]
             m == Head(w)
             t == FinishRekey(snd[p])
  <1>1. q \in Peers /\ q # p /\ Other(q) = p /\ \A x \in Peers : x = p \/ x = q
    BY TwoPeers
  <1>2. Receiving(p, "ack")
    BY DEF ReceiveAck
  <1>3. /\ w \in Seq(Message) /\ w # <<>> /\ m.type = "ack" /\ Acceptable(p, m)
        /\ Linked(rcv[p], Tail(w), snd[q])
    BY <1>2, HeadAccepted
  <1>4. /\ snd' = [snd EXCEPT ![p] = t]
        /\ work' = [work EXCEPT ![p] = work[p] - 1]
        /\ flushing' = [flushing EXCEPT ![p] = deferred[p]]
        /\ deferred' = [deferred EXCEPT ![p] = <<>>]
        /\ wire' = [wire EXCEPT ![q] = Tail(w)]
        /\ UNCHANGED <<state, why, rcv, closed, published, got>>
    BY <1>3 DEF ReceiveAck, Taken
  <1>5. Tail(w) \in Seq(Message)
    BY <1>3, TailFacts
  <1>6. PeerInv(p) /\ PeerInv(q)
    BY <1>1 DEF Inv
  <1>7. /\ snd[p] \in Outbound /\ snd[p].pending /\ snd[p].epoch < MaxEpoch
        /\ work[p] = 1 /\ wire[p] \in Seq(Message) /\ state[p] = "Active"
    BY <1>2, <1>3, <1>6, PeerTypes
       DEF Acceptable, PeerInv, Counts, Inv, Receiving, Idle
  <1>8. /\ t \in Outbound /\ t.pending = FALSE /\ t.records = 0 /\ t.bytes = 0
        /\ \A a \in Inbound : Meets(a, snd[p]) => Meets(a, t)
    BY <1>7, FinishMeets
  <1> HIDE DEF t, m, w, q
  <1>9. RecordTypes'
    <2>1. snd' \in [Peers -> Outbound]
      BY <1>4, <1>8 DEF Inv, RecordTypes
    <2>2. wire' \in [Peers -> Seq(Message)]
      BY <1>4, <1>5 DEF Inv, RecordTypes
    <2>3. work' \in [Peers -> 0..MaxConcurrentRekeys]
      BY <1>4, <1>7, LimitsAssumption DEF Inv, RecordTypes
    <2>4. flushing' \in [Peers -> Seq(Record)] /\ deferred' \in [Peers -> Seq(Record)]
      BY <1>4 DEF Inv, RecordTypes
    <2> QED BY <1>4, <2>1, <2>2, <2>3, <2>4 DEF Inv, RecordTypes
  <1>10. /\ snd'[p] = t /\ snd'[q] = snd[q] /\ work'[p] = 0 /\ work'[q] = work[q]
         /\ wire'[q] = Tail(w) /\ wire'[p] = wire[p]
    BY <1>1, <1>4, <1>7 DEF Inv, RecordTypes
  <1>11. PeerInv(p)'
    <2>1. Counts(p)'
      BY <1>8, <1>10 DEF Counts
    <2>2. Verdict(p)'
      BY <1>4, <1>6, <1>7 DEF PeerInv, Verdict
    <2>3. Direction(p)'
      <3> SUFFICES ASSUME state[q] = "Active" PROVE Linked(rcv[q], wire[p], t)
        BY <1>4, <1>10 DEF Direction, q
      <3>1. Linked(rcv[q], wire[p], snd[p])
        BY <1>6 DEF PeerInv, Direction, q
      <3> QED BY <1>7, <1>8, <3>1, LinkMeets
    <2>4. Tokens(wire[p], w, snd[p])
      BY <1>6 DEF PeerInv, Rotation, q, w
    <2>5. Head(w).type = "ack"
      BY <1>3 DEF m
    <2>6. Tokens(wire[p], Tail(w), t)
      BY <1>3, <1>7, <2>4, <2>5, TokensFinish
    <2> QED BY <1>4, <1>10, <2>1, <2>2, <2>3, <2>6 DEF PeerInv, Rotation, q
  <1>12. PeerInv(q)'
    <2>1. Counts(q)' /\ Verdict(q)' /\ Direction(q)'
      BY <1>1, <1>3, <1>4, <1>6, <1>10 DEF PeerInv, Counts, Verdict, Direction
    <2>2. Tokens(w, wire[p], snd[q])
      BY <1>1, <1>6 DEF PeerInv, Rotation, w
    <2>3. Tokens(Tail(w), wire[p], snd[q])
      BY <1>3, <1>7, <2>2, TokensSendTail
    <2> QED BY <1>1, <1>4, <1>10, <2>1, <2>3 DEF PeerInv, Rotation
  <1> QED BY <1>1, <1>9, <1>11, <1>12 DEF Inv, q
\* process_rekey_init: the ACK, and perhaps this side's own REKEY_INIT behind it.
LEMMA RekeyInitStep ==
    ASSUME Inv, NEW p \in Peers, ReceiveInit(p)
    PROVE  Inv'
  <1> DEFINE q == Other(p)
             w == wire[q]
             m == Head(w)
             b == AcceptRekey(rcv[p])
             ack == [type |-> "ack", next |-> m.next]
             v == Append(wire[p], ack)
             s == snd[p]
             i == InitRecord(p)
             t == BeginRekey(s)
  <1>1. q \in Peers /\ q # p /\ Other(q) = p /\ \A x \in Peers : x = p \/ x = q
    BY TwoPeers
  <1>2. Receiving(p, "init")
    BY DEF ReceiveInit
  <1>3. /\ w \in Seq(Message) /\ w # <<>> /\ m.type = "init" /\ Acceptable(p, m)
        /\ b \in Inbound /\ Linked(b, Tail(w), snd[q])
    BY <1>2, HeadAccepted
  <1>4. Tail(w) \in Seq(Message) /\ m \in Message
    BY <1>3, TailFacts
  <1>5. ack \in Message /\ ack.type = "ack" /\ ack.next = m.next
    <2>1. m.next \in 1..MaxEpoch
      BY <1>3, <1>4 DEF Message, Protected, Bare
    <2> QED BY <2>1 DEF Message, Bare
  <1>6. /\ wire[p] \in Seq(Message) /\ v \in Seq(Message) /\ s \in Outbound
        /\ state[p] = "Active"
    BY <1>2, <1>5, PeerTypes, AppendFacts DEF Inv, Receiving, Idle
  <1>7. PeerInv(p) /\ PeerInv(q)
    BY <1>1 DEF Inv
  <1>8. DOMAIN wire = Peers
    BY DEF Inv, RecordTypes
  <1>9. [Taken(p) EXCEPT ![p] = Append(@, ack)] =
           [[wire EXCEPT ![q] = Tail(w)] EXCEPT ![p] = v]
    BY <1>1, <1>8 DEF Taken
  <1>10. \/ /\ ~AgedBy(s)
            /\ wire' = [[wire EXCEPT ![q] = Tail(w)] EXCEPT ![p] = v]
            /\ rcv' = [rcv EXCEPT ![p] = b]
            /\ UNCHANGED <<state, why, snd, work, deferred, flushing, closed,
                           published, got>>
         \/ /\ AgedBy(s) /\ HasRekeyCapacity(p) /\ s.seq # Exhausted
            /\ wire' = [[[wire EXCEPT ![q] = Tail(w)] EXCEPT ![p] = v]
                           EXCEPT ![p] = Append(@, i)]
            /\ rcv' = [rcv EXCEPT ![p] = b]
            /\ snd' = [snd EXCEPT ![p] = t]
            /\ work' = [work EXCEPT ![p] = work[p] + 1]
            /\ UNCHANGED <<state, why, deferred, flushing, closed, published, got>>
         \/ /\ AgedBy(s) /\ ~(HasRekeyCapacity(p) /\ s.seq # Exhausted)
            /\ Fail(p, "exhausted")
            /\ wire' = [[wire EXCEPT ![q] = Tail(w)] EXCEPT ![p] = v]
    BY <1>3, <1>9 DEF ReceiveInit
  <1>11. m = Head(w)
    OBVIOUS
  <1>12. i = [type |-> "init", epoch |-> s.epoch, seq |-> s.seq, next |-> s.epoch + 1]
    BY DEF InitRecord
  <1>13. v = Append(wire[p], ack)
    OBVIOUS
  <1> HIDE DEF q, w, m, b, ack, v, s, i, t
  <1>14. Tokens(v, Tail(w), s) /\ Tokens(Tail(w), v, snd[q])
    <2>1. Tokens(wire[p], w, s) /\ Tokens(w, wire[p], snd[q])
      BY <1>1, <1>7 DEF PeerInv, Rotation, q, w, s
    <2>2. Tokens(Tail(w), v, snd[q])
      BY <1>3, <1>5, <1>6, <1>11, <1>13, <2>1, TokensAnswer
    <2>3. Tokens(wire[p], Tail(w), s)
      BY <1>3, <1>6, <2>1, TokensHearTail
    <2>4. Tokens(v, Tail(w), s)
      BY <1>4, <1>5, <1>6, <1>13, <2>3, TokensSend
    <2> QED BY <2>2, <2>4
  <1>15. state[q] = "Active" => Linked(rcv[q], v, s)
    <2> SUFFICES ASSUME state[q] = "Active" PROVE Linked(rcv[q], v, s)
      OBVIOUS
    <2>1. Linked(rcv[q], wire[p], s)
      BY <1>7 DEF PeerInv, Direction, q, s
    <2>2. \A a \in Inbound : Meets(a, s) =>
             \E c \in Inbound : Delivers(a, ack, c) /\ Meets(c, s)
      BY <1>5 DEF Delivers
    <2> QED BY <1>5, <1>6, <1>13, <2>1, <2>2, LinkAppend
  <1>16. /\ Counts(p) /\ Verdict(p) /\ Counts(q) /\ Verdict(q)
         /\ why[p] = "none"
    BY <1>6, <1>7 DEF PeerInv, Verdict
  <1>17. CASE /\ wire' = [[wire EXCEPT ![q] = Tail(w)] EXCEPT ![p] = v]
              /\ rcv' = [rcv EXCEPT ![p] = b]
              /\ UNCHANGED <<state, why, snd, work, deferred, flushing, closed,
                             published, got>>
    <2>1. RecordTypes'
      <3>1. rcv' \in [Peers -> Inbound]
        BY <1>3, <1>17 DEF Inv, RecordTypes
      <3>2. wire' \in [Peers -> Seq(Message)]
        BY <1>4, <1>6, <1>17 DEF Inv, RecordTypes
      <3> QED BY <1>17, <3>1, <3>2 DEF Inv, RecordTypes
    <2>2. /\ wire'[p] = v /\ wire'[q] = Tail(w)
          /\ rcv'[p] = b /\ rcv'[q] = rcv[q]
      BY <1>1, <1>17 DEF Inv, RecordTypes
    <2>3. PeerInv(p)'
      BY <1>1, <1>14, <1>15, <1>16, <1>17, <2>2
         DEF PeerInv, Counts, Verdict, Direction, Rotation, q, s
    <2>4. PeerInv(q)'
      BY <1>1, <1>3, <1>14, <1>16, <1>17, <2>2
         DEF PeerInv, Counts, Verdict, Direction, Rotation
    <2> QED BY <1>1, <2>1, <2>3, <2>4 DEF Inv
  <1>18. CASE /\ AgedBy(s) /\ HasRekeyCapacity(p) /\ s.seq # Exhausted
              /\ wire' = [[[wire EXCEPT ![q] = Tail(w)] EXCEPT ![p] = v]
                             EXCEPT ![p] = Append(@, i)]
              /\ rcv' = [rcv EXCEPT ![p] = b]
              /\ snd' = [snd EXCEPT ![p] = t]
              /\ work' = [work EXCEPT ![p] = work[p] + 1]
              /\ UNCHANGED <<state, why, deferred, flushing, closed, published, got>>
    <2>1. ~s.pending /\ work[p] = 0 /\ s.epoch < MaxEpoch
      BY <1>16, <1>18 DEF AgedBy, HasRekeyCapacity, Counts, s
    <2>2. /\ i \in Protected /\ t \in Outbound
          /\ \A a \in Inbound : Meets(a, s) =>
                 \E c \in Inbound : Delivers(a, i, c) /\ Meets(c, t)
      BY <1>6, <1>12, <1>18, <2>1, BeginMeets DEF t
    <2>3. /\ t.pending /\ t.epoch = s.epoch /\ t.bytes = s.bytes
          /\ t.records = s.records
      BY <1>6 DEF BeginRekey, Outbound, t
    <2>4. i \in Message /\ i.type = "init" /\ i.next = s.epoch + 1
      BY <1>12, <2>2 DEF Message
    <2>5. /\ wire'[p] = Append(v, i) /\ wire'[q] = Tail(w)
          /\ rcv'[p] = b /\ rcv'[q] = rcv[q]
          /\ snd'[p] = t /\ snd'[q] = snd[q] /\ work'[p] = 1 /\ work'[q] = work[q]
      BY <1>1, <1>18, <2>1 DEF Inv, RecordTypes
    <2>6. Append(v, i) \in Seq(Message)
      BY <1>6, <2>4, AppendFacts
    <2>7. RecordTypes'
      <3>1. rcv' \in [Peers -> Inbound]
        BY <1>3, <1>18 DEF Inv, RecordTypes
      <3>2. wire' = [[wire EXCEPT ![q] = Tail(w)] EXCEPT ![p] = Append(v, i)]
        BY <1>1, <1>8, <1>18
      <3>3. wire' \in [Peers -> Seq(Message)]
        BY <1>4, <2>6, <3>2 DEF Inv, RecordTypes
      <3>4. snd' \in [Peers -> Outbound]
        BY <1>18, <2>2 DEF Inv, RecordTypes
      <3>5. work' \in [Peers -> 0..MaxConcurrentRekeys]
        BY <1>18, <2>1, LimitsAssumption DEF Inv, RecordTypes
      <3> QED BY <1>18, <3>1, <3>3, <3>4, <3>5 DEF Inv, RecordTypes
    <2>8. PeerInv(p)'
      <3>1. Counts(p)' /\ Verdict(p)'
        BY <1>16, <1>18, <2>1, <2>3, <2>5 DEF Counts, Verdict, s
      <3>2. Direction(p)'
        <4> SUFFICES ASSUME state[q] = "Active"
                     PROVE  Linked(rcv[q], Append(v, i), t)
          BY <1>18, <2>5 DEF Direction, q
        <4>1. Linked(rcv[q], v, s)
          BY <1>15
        <4> QED BY <1>6, <2>2, <2>4, <4>1, LinkAppend
      <3>3. Tokens(Append(v, i), Tail(w), t)
        BY <1>4, <1>6, <1>14, <2>1, <2>3, <2>4, TokensBegin
      <3> QED BY <2>5, <3>1, <3>2, <3>3 DEF PeerInv, Rotation, q
    <2>9. PeerInv(q)'
      <3>1. Tokens(Tail(w), Append(v, i), snd[q])
        BY <1>4, <1>6, <1>14, <2>4, TokensHear
      <3> QED BY <1>1, <1>3, <1>16, <1>18, <2>5, <3>1
              DEF PeerInv, Counts, Verdict, Direction, Rotation
    <2> QED BY <1>1, <2>7, <2>8, <2>9 DEF Inv
  <1>19. CASE /\ AgedBy(s) /\ ~(HasRekeyCapacity(p) /\ s.seq # Exhausted)
              /\ Fail(p, "exhausted")
              /\ wire' = [[wire EXCEPT ![q] = Tail(w)] EXCEPT ![p] = v]
    <2>1. ~s.pending /\ work[p] = 0
      BY <1>16, <1>19 DEF AgedBy, Counts, s
    <2>2. s.seq = Exhausted \/ s.epoch = MaxEpoch
      BY <1>6, <1>19, <2>1, LimitsAssumption DEF HasRekeyCapacity, Outbound, s
    <2>3. RecordTypes'
      <3>1. wire' \in [Peers -> Seq(Message)]
        BY <1>4, <1>6, <1>19 DEF Inv, RecordTypes
      <3>2. /\ state' \in [Peers -> {"Active", "Failed"}]
            /\ why' \in [Peers -> {"none", "protocol", "exhausted", "full", "deadline",
                                   "carrier"}]
            /\ deferred' \in [Peers -> Seq(Record)] /\ flushing' \in [Peers -> Seq(Record)]
        BY <1>19 DEF Inv, RecordTypes, Fail
      <3> QED BY <1>19, <3>1, <3>2 DEF Inv, RecordTypes, Fail
    <2>4. /\ wire'[p] = v /\ wire'[q] = Tail(w)
          /\ state'[p] = "Failed" /\ state'[q] = state[q]
          /\ why'[p] = "exhausted" /\ why'[q] = why[q]
          /\ UNCHANGED <<snd, rcv, work>>
      BY <1>1, <1>19 DEF Inv, RecordTypes, Fail
    <2>5. PeerInv(p)'
      BY <1>1, <1>14, <1>15, <1>16, <2>2, <2>4
         DEF PeerInv, Counts, Verdict, Direction, Rotation, q, s
    <2>6. PeerInv(q)'
      BY <1>1, <1>14, <1>16, <2>4
         DEF PeerInv, Counts, Verdict, Direction, Rotation
    <2> QED BY <1>1, <2>3, <2>5, <2>6 DEF Inv
  <1> QED BY <1>10, <1>17, <1>18, <1>19

\* Ageing and a passed deadline change nothing the receiver can see.
LEMMA ClockStep ==
    ASSUME Inv, NEW p \in Peers, Age(p) \/ DeadlinePasses(p)
    PROVE  Inv'
  <1> DEFINE q == Other(p)
             s == snd[p]
             t == snd'[p]
  <1>1. q \in Peers /\ q # p /\ Other(q) = p /\ \A x \in Peers : x = p \/ x = q
    BY TwoPeers
  <1>2. s \in Outbound /\ wire[p] \in Seq(Message)
    BY PeerTypes DEF Inv
  <1>3. /\ snd' = [snd EXCEPT ![p] = t]
        /\ t \in Outbound
        /\ t.pending = s.pending /\ t.epoch = s.epoch /\ t.seq = s.seq
        /\ t.bytes = s.bytes /\ t.records = s.records
        /\ UNCHANGED <<state, why, rcv, work, deferred, flushing, wire, closed,
                       published, got>>
    <2>1. DOMAIN snd = Peers
      BY DEF Inv, RecordTypes
    <2>2. CASE Age(p)
      <3> DEFINE g == s.age + 1
      <3>1. snd' = [snd EXCEPT ![p] = [s EXCEPT !.age = g]]
        BY <2>1, <2>2 DEF Age
      <3>2. g \in {Young, PastHalf, PastLifetime}
        BY <1>2, <2>2 DEF Age, Outbound, Young, PastHalf, PastLifetime
      <3> HIDE DEF g
      <3>3. t = [s EXCEPT !.age = g]
        BY <2>1, <3>1
      <3> HIDE DEF s, t
      <3>4. /\ t \in Outbound /\ t.pending = s.pending /\ t.epoch = s.epoch
            /\ t.seq = s.seq /\ t.bytes = s.bytes /\ t.records = s.records
        BY <1>2, <3>2, <3>3 DEF Outbound
      <3> QED BY <2>2, <3>1, <3>3, <3>4 DEF Age
    <2>3. CASE DeadlinePasses(p)
      <3>1. snd' = [snd EXCEPT ![p] = [s EXCEPT !.late = TRUE]]
        BY <2>1, <2>3 DEF DeadlinePasses
      <3>2. t = [s EXCEPT !.late = TRUE]
        BY <2>1, <3>1
      <3> HIDE DEF s, t
      <3>3. /\ t \in Outbound /\ t.pending = s.pending /\ t.epoch = s.epoch
            /\ t.seq = s.seq /\ t.bytes = s.bytes /\ t.records = s.records
        BY <1>2, <3>2 DEF Outbound
      <3> QED BY <2>3, <3>1, <3>2, <3>3 DEF DeadlinePasses
    <2> QED BY <2>2, <2>3
  <1>4. snd'[q] = snd[q]
    BY <1>1, <1>3 DEF Inv, RecordTypes
  <1>5. RecordTypes'
    <2>1. snd' \in [Peers -> Outbound]
      <3> HIDE DEF t
      <3> QED BY <1>3 DEF Inv, RecordTypes
    <2> QED BY <1>3, <2>1 DEF Inv, RecordTypes
  <1>6. PeerInv(p) /\ PeerInv(q)
    BY <1>1 DEF Inv
  <1>7. PeerInv(p)'
    <2>1. Counts(p)' /\ Verdict(p)' /\ Rotation(p)'
      BY <1>3, <1>6 DEF PeerInv, Counts, Verdict, Rotation, Tokens
    <2>2. Direction(p)'
      <3> SUFFICES ASSUME state[q] = "Active" PROVE Linked(rcv[q], wire[p], t)
        BY <1>3 DEF Direction
      <3>1. Linked(rcv[q], wire[p], s)
        BY <1>6 DEF PeerInv, Direction
      <3>2. \A a \in Inbound : Meets(a, s) => Meets(a, t)
        BY <1>3 DEF Meets
      <3> HIDE DEF s, t
      <3> QED BY <1>2, <3>1, <3>2, LinkMeets
    <2> QED BY <2>1, <2>2 DEF PeerInv
  <1>8. PeerInv(q)'
    BY <1>1, <1>3, <1>4, <1>6 DEF PeerInv, Counts, Verdict, Direction, Rotation
  <1> QED BY <1>1, <1>5, <1>7, <1>8 DEF Inv
\* So does every step of a caller.
LEMMA SendStep ==
    ASSUME Inv, NEW p \in Peers, Send(p)
    PROVE  Inv'
  <1>1. ASSUME NEW size, RotateForSend(p, size) PROVE Inv'
    BY <1>1, RotateStep DEF RotateForSend, MayPublish, NeedsRotation
  <1>2. ASSUME NEW kind \in {"data", "control"},
               NEW size \in DataSizes \cup {ControlSize}, Publish(p, kind, size)
        PROVE  Inv'
    <2> DEFINE r == [kind |-> kind, size |-> size, id |-> published[p] + 1]
    <2>1. /\ published[p] \in Nat /\ published[p] < Budget[p]
          /\ Budget[p] \in Nat /\ MaxPublished \in Nat /\ MaxPublished >= Budget[p]
      BY <1>2, BudgetBound DEF Publish, Inv, RecordTypes
    <2>2. published[p] + 1 \in 1..MaxPublished /\ published[p] + 1 \in 0..MaxPublished
      BY <2>1
    <2>3. r \in Record
      BY <2>2 DEF Record
    <2>4. r.size = size
      OBVIOUS
    <2>5. published' \in [Peers -> 0..MaxPublished]
      BY <1>2, <2>2 DEF Publish, Inv, RecordTypes
    <2>6. /\ state[p] = "Active" /\ ~NeedsRotation(p, r.size) /\ Enqueue(p, r)
          /\ UNCHANGED <<state, why, rcv, work, flushing, closed, got>>
      BY <1>2, <2>4 DEF Publish, MayPublish
    <2>7. flushing' \in [Peers -> Seq(Record)]
      BY <2>6 DEF Inv, RecordTypes
    <2> HIDE DEF r
    <2> QED BY <2>3, <2>5, <2>6, <2>7, EnqueueStep
  <1>3. CASE RequestRekey(p)
    BY <1>3, StartStep DEF RequestRekey, Idle
  <1>4. CASE RotateAged(p)
    BY <1>4, RotateStep DEF RotateAged, Idle
  <1>5. CASE CloseStream(p)
    <2>1. RecordTypes'
      BY <1>5 DEF CloseStream, Inv, RecordTypes
    <2> QED BY <1>5, <2>1, QuietStep DEF CloseStream
  <1>6. CASE OwedControlFails(p)
    BY <1>6, FailStep DEF OwedControlFails
  <1>7. CASE SendCompletes(p)
    <2>1. RecordTypes'
      BY <1>7 DEF SendCompletes, Inv, RecordTypes
    <2> QED BY <1>7, <2>1, QuietStep DEF SendCompletes
  <1> QED BY <1>1, <1>2, <1>3, <1>4, <1>5, <1>6, <1>7 DEF Send

\* So does every step of flush_deferred_records.
LEMMA FlushStep ==
    ASSUME Inv, NEW p \in Peers, Flush(p)
    PROVE  Inv'
  <1> DEFINE f == flushing[p]
             r == Head(f)
  <1>1. /\ state[p] = "Active" /\ f # <<>> /\ f \in Seq(Record)
        /\ r \in Record /\ Tail(f) \in Seq(Record)
    BY PeerTypes DEF Flush, FlushDrop, FlushRotate, FlushRecord, Flushing, Inv
  <1>2. CASE FlushDrop(p)
    <2>1. flushing' \in [Peers -> Seq(Record)]
      BY <1>1, <1>2 DEF FlushDrop, Inv, RecordTypes
    <2>2. RecordTypes'
      BY <1>2, <2>1 DEF FlushDrop, Inv, RecordTypes
    <2> QED BY <1>2, <2>2, QuietStep DEF FlushDrop
  <1>3. CASE FlushRotate(p)
    BY <1>1, <1>3, RotateStep DEF FlushRotate, NeedsRotation
  <1>4. CASE FlushRecord(p)
    <2>1. CASE ~HasRoom(p, r.kind)
      BY <1>4, <2>1, FailStep DEF FlushRecord
    <2>2. CASE HasRoom(p, r.kind) /\ ~Barred(p, r.size) /\ snd[p].seq = Exhausted
      BY <1>4, <2>2, FailStep DEF FlushRecord
    <2>3. CASE HasRoom(p, r.kind) /\ ~(~Barred(p, r.size) /\ snd[p].seq = Exhausted)
      <3>1. /\ ~NeedsRotation(p, r.size) /\ Enqueue(p, r)
            /\ flushing' = [flushing EXCEPT ![p] = Tail(f)]
            /\ UNCHANGED <<state, why, rcv, work, closed, published, got>>
        BY <1>4, <2>3 DEF FlushRecord
      <3>2. flushing' \in [Peers -> Seq(Record)]
        BY <1>1, <3>1 DEF Inv, RecordTypes
      <3>3. published' \in [Peers -> 0..MaxPublished]
        BY <3>1 DEF Inv, RecordTypes
      <3> HIDE DEF r, f
      <3> QED BY <1>1, <3>1, <3>2, <3>3, EnqueueStep
    <2> QED BY <2>1, <2>2, <2>3
  <1> QED BY <1>2, <1>3, <1>4 DEF Flush

\* The invariant is inductive.
LEMMA NextInv == Inv /\ [Next]_vars => Inv'
  <1> SUFFICES ASSUME Inv, [Next]_vars PROVE Inv'
    OBVIOUS
  <1>1. CASE UNCHANGED vars
    <2>1. RecordTypes'
      BY <1>1 DEF vars, Inv, RecordTypes
    <2> QED BY <1>1, <2>1, QuietStep DEF vars
  <1>2. ASSUME NEW p \in Peers, Send(p) PROVE Inv'
    BY <1>2, SendStep
  <1>3. ASSUME NEW p \in Peers, Flush(p) PROVE Inv'
    BY <1>3, FlushStep
  <1>4. ASSUME NEW p \in Peers, Receive(p) PROVE Inv'
    BY <1>4, RecordStep, RekeyInitStep, AckStep DEF Receive
  <1>5. ASSUME NEW p \in Peers, Age(p) \/ DeadlinePasses(p) PROVE Inv'
    BY <1>5, ClockStep
  <1>6. ASSUME NEW p \in Peers, ExpireRekey(p) PROVE Inv'
    BY <1>6, FailStep DEF ExpireRekey
  <1>7. ASSUME NEW p \in Peers, CarrierEnds(p) PROVE Inv'
    BY <1>7, FailStep DEF CarrierEnds
  <1> QED BY <1>1, <1>2, <1>3, <1>4, <1>5, <1>6, <1>7 DEF Next

-----------------------------------------------------------------------------
(* The outbound queue.  Its charges by kind stay within the limits they were *)
(* admitted under, because only an admission adds a record.                  *)

Charges(p) == Range(unsent[p]) \cup Range(deferred[p]) \cup Range(flushing[p])

Of(S, kinds) == {x \in S : x.kind \in kinds}

Records == {"data", "control"}

Charged(p) ==
    Interleave = FALSE =>
        /\ Cardinality(Of(Charges(p), {"data"})) <= MaxQueued
        /\ Cardinality(Of(Charges(p), Records)) <= MaxQueued + 1

QueueInv ==
    /\ unsent \in [Peers -> Seq(Item)]
    /\ \A p \in Peers : Charged(p)

\* What appending to a sequence and taking its head do to its elements.
LEMMA Ranges ==
    /\ Range(<<>>) = {}
    /\ \A S : \A s \in Seq(S) :
         /\ \A e \in S : Range(Append(s, e)) = Range(s) \cup {e}
         /\ s # <<>> => Range(Tail(s)) \subseteq Range(s) /\ Head(s) \in Range(s)
  <1>1. Range(<<>>) = {}
    BY DEF Range
  <1>2. ASSUME NEW S, NEW s \in Seq(S), NEW e \in S
        PROVE  Range(Append(s, e)) = Range(s) \cup {e}
    <2> DEFINE t == Append(s, e)
    <2>1. /\ DOMAIN s = 1..Len(s) /\ Len(s) \in Nat /\ DOMAIN t = 1..(Len(s) + 1)
          /\ t[Len(s) + 1] = e /\ \A i \in 1..Len(s) : t[i] = s[i]
      OBVIOUS
    <2> HIDE DEF t
    <2>2. \A i \in 1..(Len(s) + 1) : i \in 1..Len(s) \/ i = Len(s) + 1
      BY <2>1
    <2>3. Range(t) \subseteq Range(s) \cup {e}
      BY <2>1, <2>2 DEF Range
    <2>4. Range(s) \subseteq Range(t)
      <3>1. \A i \in 1..Len(s) : i \in 1..(Len(s) + 1)
        BY <2>1
      <3> QED BY <2>1, <3>1 DEF Range
    <2>5. e \in Range(t)
      <3>1. Len(s) + 1 \in 1..(Len(s) + 1)
        BY <2>1
      <3> QED BY <2>1, <3>1 DEF Range
    <2> QED BY <2>3, <2>4, <2>5 DEF t
  <1>3. ASSUME NEW S, NEW s \in Seq(S), s # <<>>
        PROVE  Range(Tail(s)) \subseteq Range(s) /\ Head(s) \in Range(s)
    <2> DEFINE t == Tail(s)
    <2>1. /\ DOMAIN s = 1..Len(s) /\ Len(s) \in Nat \ {0} /\ Head(s) = s[1]
          /\ DOMAIN t = 1..(Len(s) - 1) /\ \A i \in 1..(Len(s) - 1) : t[i] = s[i + 1]
      BY <1>3, HeadTailProperties, EmptySeq
    <2> HIDE DEF t
    <2>2. \A i \in 1..(Len(s) - 1) : i + 1 \in 1..Len(s)
      BY <2>1
    <2>3. 1 \in 1..Len(s)
      BY <2>1
    <2>4. Range(t) \subseteq Range(s) /\ s[1] \in Range(s)
      BY <2>1, <2>2, <2>3 DEF Range
    <2> QED BY <2>1, <2>4 DEF t
  <1> QED BY <1>1, <1>2, <1>3

\* A sequence has finitely many elements.
LEMMA RangeFinite ==
    ASSUME NEW S, NEW s \in Seq(S)
    PROVE  IsFiniteSet(Range(s))
  <1>1. DOMAIN s = 1..Len(s) /\ Len(s) \in Nat
    OBVIOUS
  <1>2. IsFiniteSet(DOMAIN s)
    BY <1>1, FS_Interval
  <1>3. s \in Surjection(DOMAIN s, Range(s))
    BY <1>1 DEF Surjection, Range
  <1> QED BY <1>2, <1>3, FS_Surjection

\* So has the queue of a peer.
LEMMA ChargesFinite ==
    ASSUME RecordTypes, unsent \in [Peers -> Seq(Item)], NEW p \in Peers
    PROVE  IsFiniteSet(Charges(p))
  <1>1. /\ unsent[p] \in Seq(Item) /\ deferred[p] \in Seq(Record)
        /\ flushing[p] \in Seq(Record)
    BY DEF RecordTypes
  <1>2. /\ IsFiniteSet(Range(unsent[p])) /\ IsFiniteSet(Range(deferred[p]))
        /\ IsFiniteSet(Range(flushing[p]))
    BY <1>1, RangeFinite
  <1> QED BY <1>2, FS_Union DEF Charges

\* The limits hold after a step that admits no record.
LEMMA ChargedLess ==
    ASSUME NEW p \in Peers, Charged(p), IsFiniteSet(Charges(p)),
           Of(Charges(p)', Records) \subseteq Charges(p)
    PROVE  Charged(p)'
  <1> DEFINE A == Charges(p)
             B == Charges(p)'
  <1>1. /\ Of(B, Records) \subseteq Of(A, Records)
        /\ Of(B, {"data"}) \subseteq Of(A, {"data"})
    BY DEF Of, Records
  <1>2. IsFiniteSet(Of(A, Records)) /\ IsFiniteSet(Of(A, {"data"}))
    BY FS_Subset DEF Of
  <1>3. /\ Cardinality(Of(B, Records)) <= Cardinality(Of(A, Records))
        /\ Cardinality(Of(B, {"data"})) <= Cardinality(Of(A, {"data"}))
        /\ Cardinality(Of(A, Records)) \in Nat /\ Cardinality(Of(B, Records)) \in Nat
        /\ Cardinality(Of(A, {"data"})) \in Nat /\ Cardinality(Of(B, {"data"})) \in Nat
    BY <1>1, <1>2, FS_Subset, FS_CardinalityType
  <1> HIDE DEF A, B
  <1>4. MaxQueued \in Nat
    BY LimitsAssumption
  <1>5. ASSUME Interleave = FALSE
        PROVE  /\ Cardinality(Of(B, {"data"})) <= MaxQueued
               /\ Cardinality(Of(B, Records)) <= MaxQueued + 1
    <2>1. /\ Cardinality(Of(A, {"data"})) <= MaxQueued
          /\ Cardinality(Of(A, Records)) <= MaxQueued + 1
      BY <1>5 DEF Charged, A
    <2> QED BY <1>3, <1>4, <2>1
  <1> QED BY <1>5 DEF Charged, B

\* An admission keeps the limits, because it looks at the whole queue.
LEMMA ChargedMore ==
    ASSUME NEW p \in Peers, Interleave = FALSE => flushing[p] = <<>>,
           IsFiniteSet(Charges(p)), Charged(p),
           NEW r \in Record, HasRoom(p, r.kind),
           Charges(p)' \subseteq Charges(p) \cup {r}
    PROVE  Charged(p)'
  <1> SUFFICES ASSUME Interleave = FALSE PROVE Charged(p)'
    BY DEF Charged
  <1> DEFINE A == Charges(p)
             B == Charges(p)'
             n == Cardinality(A)
  <1>1. MaxQueued \in Nat /\ n \in Nat /\ r.kind \in Records
    BY LimitsAssumption, FS_CardinalityType DEF Record, Records
  <1>2. n < QueueLimit(r.kind)
    <2>1. Range(flushing[p]) = {} /\ Queued(p) = Charges(p)
      BY Ranges DEF Queued, Charges
    <2> QED BY <2>1 DEF HasRoom
  <1>3. IsFiniteSet(A \cup {r}) /\ Cardinality(A \cup {r}) <= n + 1
    <2>1. /\ IsFiniteSet(A \cup {r})
          /\ Cardinality(A \cup {r}) = IF r \in A THEN n ELSE n + 1
      BY FS_AddElement
    <2> HIDE DEF A, n
    <2> QED BY <1>1, <2>1
  <1>4. /\ Cardinality(Of(B, Records)) <= n + 1 /\ Cardinality(Of(B, Records)) \in Nat
        /\ Cardinality(Of(B, {"data"})) <= n + 1
        /\ Cardinality(Of(B, {"data"})) \in Nat
    <2>1. Of(B, Records) \subseteq A \cup {r} /\ Of(B, {"data"}) \subseteq A \cup {r}
      BY DEF Of
    <2>2. Cardinality(A \cup {r}) \in Nat
      BY <1>3, FS_CardinalityType
    <2>3. /\ IsFiniteSet(Of(B, Records)) /\ IsFiniteSet(Of(B, {"data"}))
          /\ Cardinality(Of(B, Records)) <= Cardinality(A \cup {r})
          /\ Cardinality(Of(B, {"data"})) <= Cardinality(A \cup {r})
      BY <1>3, <2>1, FS_Subset
    <2>4. Cardinality(Of(B, Records)) \in Nat /\ Cardinality(Of(B, {"data"})) \in Nat
      BY <2>3, FS_CardinalityType
    <2> HIDE DEF A, B, n
    <2> QED BY <1>1, <1>3, <2>2, <2>3, <2>4
  <1>5. CASE r.kind = "data"
    <2>1. n + 1 <= MaxQueued
      BY <1>1, <1>2, <1>5 DEF QueueLimit
    <2> HIDE DEF A, n
    <2>2. /\ Cardinality(Of(B, {"data"})) <= MaxQueued
          /\ Cardinality(Of(B, Records)) <= MaxQueued + 1
      <3> HIDE DEF B
      <3> QED BY <1>1, <1>4, <2>1
    <2> QED BY <2>2 DEF Charged
  <1>6. CASE r.kind = "control"
    <2>1. n + 1 <= MaxQueued + 1
      BY <1>1, <1>2, <1>6 DEF QueueLimit
    <2>2. Of(B, {"data"}) \subseteq Of(A, {"data"})
      BY <1>6 DEF Of
    <2>3. /\ Cardinality(Of(B, {"data"})) <= Cardinality(Of(A, {"data"}))
          /\ Cardinality(Of(A, {"data"})) \in Nat
          /\ Cardinality(Of(A, {"data"})) <= MaxQueued
      <3>1. IsFiniteSet(Of(A, {"data"}))
        BY FS_Subset DEF Of
      <3> QED BY <2>2, <3>1, FS_Subset, FS_CardinalityType DEF Charged
    <2>4. /\ Cardinality(Of(B, {"data"})) <= MaxQueued
          /\ Cardinality(Of(B, Records)) <= MaxQueued + 1
      <3> HIDE DEF A, B, n
      <3> QED BY <1>1, <1>4, <2>1, <2>3
    <2> QED BY <2>4 DEF Charged
  <1> QED BY <1>1, <1>5, <1>6 DEF Records

\* The step leaves x's queue alone, or takes records from it.
Drains(x) == unsent'[x] \in Seq(Item) /\ Of(Charges(x)', Records) \subseteq Charges(x)

\* A rotation's own messages are charged to their reserve.
LEMMA RekeyItems ==
    ASSUME NEW type \in {"init", "ack"}, NEW n \in 1..MaxEpoch
    PROVE  RekeyItem(type, n) \in Item /\ RekeyItem(type, n).kind \notin Records
  <1>1. RekeyItem(type, n) \in Item
    BY DEF Item, RekeyItem
  <1>2. RekeyItem(type, n).kind = "rekey"
    BY DEF RekeyItem
  <1> QED BY <1>1, <1>2 DEF Records

\* A queue that is left alone drains, in this sense.
LEMMA DrainsSame ==
    ASSUME QueueInv, NEW x \in Peers, unsent'[x] = unsent[x],
           deferred'[x] = deferred[x], flushing'[x] = flushing[x]
    PROVE  Drains(x)
  BY DEF Drains, QueueInv, Charges, Of

\* So does one that only a message of a rotation joins, or that is given up.
LEMMA DrainsRekey ==
    ASSUME QueueInv, NEW x \in Peers, NEW i \in Item, i.kind \notin Records,
           unsent'[x] \in {unsent[x], Append(unsent[x], i)},
           deferred'[x] \in {deferred[x], <<>>}, flushing'[x] \in {flushing[x], <<>>}
    PROVE  Drains(x)
  <1>1. unsent[x] \in Seq(Item)
    BY DEF QueueInv
  <1>2. unsent'[x] \in Seq(Item) /\ Range(unsent'[x]) \subseteq Range(unsent[x]) \cup {i}
    <2>1. /\ Range(Append(unsent[x], i)) = Range(unsent[x]) \cup {i}
          /\ Append(unsent[x], i) \in Seq(Item)
      BY <1>1, Ranges
    <2> QED BY <1>1, <2>1
  <1>3. /\ Range(deferred'[x]) \subseteq Range(deferred[x])
        /\ Range(flushing'[x]) \subseteq Range(flushing[x])
    BY Ranges
  <1> QED BY <1>2, <1>3 DEF Drains, Charges, Of

\* A failing peer keeps what is unsent and drops the rest.
LEMMA FailDrains ==
    ASSUME Inv, QueueInv, NEW p \in Peers, NEW reason, Fail(p, reason),
           unsent' = unsent
    PROVE  \A x \in Peers : Drains(x)
  <1> SUFFICES ASSUME NEW x \in Peers PROVE Drains(x)
    OBVIOUS
  <1>1. /\ deferred'[x] \in {deferred[x], <<>>} /\ flushing'[x] \in {flushing[x], <<>>}
        /\ unsent'[x] = unsent[x] /\ unsent[x] \in Seq(Item)
    BY DEF Fail, Inv, RecordTypes, QueueInv
  <1>2. /\ Range(deferred'[x]) \subseteq Range(deferred[x])
        /\ Range(flushing'[x]) \subseteq Range(flushing[x])
    BY <1>1, Ranges
  <1> QED BY <1>1, <1>2 DEF Drains, Charges, Of

\* initiate_rekey adds its INIT or fails the session.
LEMMA RotateDrains ==
    ASSUME Inv, QueueInv, NEW p \in Peers, Rotate(p)
    PROVE  \A x \in Peers : Drains(x)
  <1>1. CASE /\ HasRekeyCapacity(p) /\ snd[p].seq # Exhausted
    <2> DEFINE i == RekeyItem("init", snd[p].epoch + 1)
    <2>1. snd[p].epoch + 1 \in 1..MaxEpoch
      BY <1>1, PeerTypes, LimitsAssumption DEF HasRekeyCapacity, Outbound, Inv
    <2>2. i \in Item /\ i.kind \notin Records
      BY <2>1, RekeyItems
    <2>3. /\ unsent' = [unsent EXCEPT ![p] = Append(@, i)]
          /\ UNCHANGED <<deferred, flushing>>
      BY <1>1 DEF Rotate, StartRekey
    <2> HIDE DEF i
    <2>4. ASSUME NEW x \in Peers PROVE Drains(x)
      <3>1. unsent'[x] \in {unsent[x], Append(unsent[x], i)}
        BY <2>3 DEF QueueInv
      <3> QED BY <2>2, <2>3, <3>1, DrainsRekey
    <2> QED BY <2>4
  <1>2. CASE ~(HasRekeyCapacity(p) /\ snd[p].seq # Exhausted)
    BY <1>2, FailDrains DEF Rotate, StartRekey
  <1> QED BY <1>1, <1>2

\* enqueue_record adds its record to one of the two queues.
LEMMA EnqueueCharges ==
    ASSUME Inv, QueueInv, NEW p \in Peers, NEW r \in Record, Enqueue(p, r)
    PROVE  /\ unsent'[p] \in Seq(Item)
           /\ Range(unsent'[p]) \cup Range(deferred'[p])
                \subseteq Range(unsent[p]) \cup Range(deferred[p]) \cup {r}
           /\ \A x \in Peers :
                x # p => unsent'[x] = unsent[x] /\ deferred'[x] = deferred[x]
  <1>1. /\ unsent[p] \in Seq(Item) /\ deferred[p] \in Seq(Record) /\ r \in Item
        /\ DOMAIN unsent = Peers /\ DOMAIN deferred = Peers
    <2>1. r \in Item
      BY DEF Item
    <2> QED BY <2>1 DEF Inv, RecordTypes, QueueInv
  <1>2. \/ UNCHANGED unsent /\ deferred' = [deferred EXCEPT ![p] = Append(@, r)]
        \/ UNCHANGED deferred /\ unsent' = [unsent EXCEPT ![p] = Append(@, r)]
    BY DEF Enqueue
  <1>3. /\ unsent'[p] \in {unsent[p], Append(unsent[p], r)}
        /\ deferred'[p] \in {deferred[p], Append(deferred[p], r)}
        /\ \A x \in Peers :
             x # p => unsent'[x] = unsent[x] /\ deferred'[x] = deferred[x]
    BY <1>1, <1>2
  <1>4. /\ Range(Append(unsent[p], r)) = Range(unsent[p]) \cup {r}
        /\ Range(Append(deferred[p], r)) = Range(deferred[p]) \cup {r}
        /\ Append(unsent[p], r) \in Seq(Item)
    BY <1>1, Ranges
  <1> QED BY <1>1, <1>3, <1>4

\* Callers and completed sends keep the queue within its limits.
LEMMA SendQueue ==
    ASSUME Inv, Inv', QueueInv, NEW p \in Peers, Send(p)
    PROVE  QueueInv'
  <1> USE DEF MayPublish
  <1>1. \A x \in Peers : IsFiniteSet(Charges(x)) /\ Charged(x)
    BY ChargesFinite DEF Inv, QueueInv
  <1>2. unsent' \in [Peers -> Seq(Item)] <=> \A x \in Peers : unsent'[x] \in Seq(Item)
    <2>1. DOMAIN unsent' = Peers /\ unsent' = [x \in Peers |-> unsent'[x]]
      BY DEF Send, RequestRekey, RotateAged, CloseStream, RotateForSend, Publish,
             OwedControlFails, SendCompletes, Rotate, StartRekey, Enqueue, QueueInv
    <2> QED BY <2>1
  <1>3. ASSUME \A x \in Peers : Drains(x) PROVE QueueInv'
    BY <1>1, <1>2, <1>3, ChargedLess DEF Drains, QueueInv
  <1>4. ASSUME NEW kind \in Records, NEW size \in DataSizes \cup {ControlSize},
               Publish(p, kind, size)
        PROVE  QueueInv'
    <2> DEFINE r == [kind |-> kind, size |-> size, id |-> published[p] + 1]
    <2>1. r \in Record /\ r.kind = kind
      <3>1. published[p] + 1 \in 1..MaxPublished
        BY <1>4, BudgetBound DEF Publish, Inv, RecordTypes
      <3> QED BY <3>1 DEF Record, Records
    <2>2. /\ Enqueue(p, r) /\ flushing' = flushing /\ HasRoom(p, kind)
          /\ Interleave = FALSE => flushing[p] = <<>>
      BY <1>4 DEF Publish
    <2> HIDE DEF r
    <2>3. /\ unsent'[p] \in Seq(Item)
          /\ Range(unsent'[p]) \cup Range(deferred'[p])
               \subseteq Range(unsent[p]) \cup Range(deferred[p]) \cup {r}
          /\ \A x \in Peers :
               x # p => unsent'[x] = unsent[x] /\ deferred'[x] = deferred[x]
      BY <2>1, <2>2, EnqueueCharges
    <2>4. Charges(p)' \subseteq Charges(p) \cup {r}
      BY <2>2, <2>3 DEF Charges
    <2>5. Charged(p)'
      BY <1>1, <2>1, <2>2, <2>4, ChargedMore
    <2>6. ASSUME NEW x \in Peers, x # p PROVE Charged(x)' /\ unsent'[x] \in Seq(Item)
      <3>1. Drains(x)
        BY <2>2, <2>3, <2>6, DrainsSame
      <3> QED BY <1>1, <3>1, ChargedLess DEF Drains
    <2> QED BY <1>2, <2>3, <2>5, <2>6 DEF QueueInv
  <1>5. CASE Rotate(p)
    BY <1>3, <1>5, RotateDrains
  <1>6. CASE RequestRekey(p)
    BY <1>5, <1>6 DEF RequestRekey, Rotate
  <1>7. CASE CloseStream(p)
    BY <1>3, <1>7, DrainsSame DEF CloseStream
  <1>8. CASE OwedControlFails(p)
    BY <1>3, <1>8, FailDrains DEF OwedControlFails
  <1>9. CASE SendCompletes(p)
    <2>1. ASSUME NEW x \in Peers PROVE Drains(x)
      <3>1. CASE x # p
        <4>1. unsent'[x] = unsent[x] /\ UNCHANGED <<deferred, flushing>>
          BY <1>9, <3>1 DEF SendCompletes, QueueInv
        <4> QED BY <4>1, DrainsSame
      <3>2. CASE x = p
        <4>1. /\ unsent[p] \in Seq(Item) /\ unsent[p] # <<>>
              /\ unsent'[p] = Tail(unsent[p]) /\ UNCHANGED <<deferred, flushing>>
          BY <1>9 DEF SendCompletes, QueueInv
        <4>2. Tail(unsent[p]) \in Seq(Item)
              /\ Range(Tail(unsent[p])) \subseteq Range(unsent[p])
          BY <4>1, Ranges
        <4> QED BY <3>2, <4>1, <4>2 DEF Drains, Charges, Of
      <3> QED BY <3>1, <3>2
    <2> QED BY <1>3, <2>1
  <1> QED BY <1>4, <1>5, <1>6, <1>7, <1>8, <1>9
          DEF Send, RotateAged, RotateForSend, Records

\* The flush keeps them: a record goes back to the queue it came from.
LEMMA FlushQueue ==
    ASSUME Inv, QueueInv, NEW p \in Peers, Flush(p)
    PROVE  \A x \in Peers : Drains(x)
  <1> DEFINE f == flushing[p]
             r == Head(f)
  <1>1. /\ f # <<>> /\ f \in Seq(Record) /\ r \in Record /\ Tail(f) \in Seq(Record)
        /\ Range(Tail(f)) \subseteq Range(f) /\ r \in Range(f)
        /\ DOMAIN flushing = Peers
    <2>1. f # <<>> /\ f \in Seq(Record) /\ DOMAIN flushing = Peers
      BY DEF Flush, FlushDrop, FlushRotate, FlushRecord, Flushing, Inv, RecordTypes
    <2>2. r \in Record /\ Tail(f) \in Seq(Record)
      BY <2>1
    <2> QED BY <2>1, <2>2, Ranges
  <1>2. CASE FlushDrop(p)
    <2>1. /\ UNCHANGED <<unsent, deferred>>
          /\ flushing'[p] = Tail(f)
          /\ \A x \in Peers : x # p => flushing'[x] = flushing[x]
      BY <1>1, <1>2 DEF FlushDrop
    <2>2. Drains(p)
      BY <1>1, <2>1 DEF Drains, QueueInv, Charges, Of
    <2>3. ASSUME NEW x \in Peers, x # p PROVE Drains(x)
      BY <2>1, <2>3, DrainsSame
    <2> QED BY <2>2, <2>3
  <1>3. CASE FlushRotate(p)
    BY <1>3, RotateDrains DEF FlushRotate
  <1>4. CASE FlushRecord(p)
    <2>1. ASSUME NEW reason, Fail(p, reason), unsent' = unsent
          PROVE  \A x \in Peers : Drains(x)
      BY <2>1, FailDrains
    <2>2. CASE Enqueue(p, r) /\ flushing' = [flushing EXCEPT ![p] = Tail(f)]
      <3>1. /\ flushing'[p] = Tail(f)
            /\ \A x \in Peers : x # p => flushing'[x] = flushing[x]
        BY <1>1, <2>2
      <3> HIDE DEF r, f
      <3>2. /\ unsent'[p] \in Seq(Item)
            /\ Range(unsent'[p]) \cup Range(deferred'[p])
                 \subseteq Range(unsent[p]) \cup Range(deferred[p]) \cup {r}
            /\ \A x \in Peers :
                 x # p => unsent'[x] = unsent[x] /\ deferred'[x] = deferred[x]
        BY <1>1, <2>2, EnqueueCharges
      <3>3. Drains(p)
        BY <1>1, <3>1, <3>2 DEF Drains, Charges, Of, f
      <3>4. ASSUME NEW x \in Peers, x # p PROVE Drains(x)
        BY <3>1, <3>2, <3>4, DrainsSame
      <3> QED BY <3>3, <3>4
    <2> QED BY <1>4, <2>1, <2>2 DEF FlushRecord
  <1> QED BY <1>2, <1>3, <1>4 DEF Flush

\* A received record changes nothing, an INIT adds its ACK, and an ACK hands the
\* deferred records over to the flush.
LEMMA ReceiveQueue ==
    ASSUME Inv, QueueInv, NEW p \in Peers, Receive(p)
    PROVE  \A x \in Peers : Drains(x)
  <1> DEFINE m == Head(wire[Other(p)])
             k == RekeyItem("ack", m.next)
             i == RekeyItem("init", snd[p].epoch + 1)
  <1>1. DOMAIN deferred = Peers /\ DOMAIN flushing = Peers /\ DOMAIN unsent = Peers
        /\ unsent[p] \in Seq(Item)
    BY DEF Inv, RecordTypes, QueueInv
  <1>2. ASSUME NEW reason, Fail(p, reason), unsent' = unsent
        PROVE  \A x \in Peers : Drains(x)
    BY <1>2, FailDrains
  <1>3. ASSUME UNCHANGED <<unsent, deferred, flushing>> PROVE \A x \in Peers : Drains(x)
    BY <1>3, DrainsSame
  <1>4. CASE ReceiveRecord(p)
    BY <1>2, <1>3, <1>4 DEF ReceiveRecord, Refuse
  <1>5. CASE ReceiveAck(p)
    <2>1. CASE /\ flushing' = [flushing EXCEPT ![p] = deferred[p]]
               /\ deferred' = [deferred EXCEPT ![p] = <<>>] /\ UNCHANGED unsent
      <3>1. /\ flushing'[p] = deferred[p] /\ deferred'[p] = <<>>
            /\ \A x \in Peers :
                 x # p => flushing'[x] = flushing[x] /\ deferred'[x] = deferred[x]
        BY <1>1, <2>1
      <3>2. Drains(p)
        BY <1>1, <2>1, <3>1, Ranges DEF Drains, Charges, Of
      <3>3. ASSUME NEW x \in Peers, x # p PROVE Drains(x)
        BY <2>1, <3>1, <3>3, DrainsSame
      <3> QED BY <3>2, <3>3
    <2> QED BY <1>2, <1>5, <2>1 DEF ReceiveAck, Refuse
  <1>6. CASE ReceiveInit(p)
    <2>1. k \in Item /\ k.kind \notin Records
      <3>1. m \in Message /\ m.type = "init"
        <4>1. /\ wire[Other(p)] \in Seq(Message) /\ wire[Other(p)] # <<>>
              /\ m.type = "init"
          BY <1>6, TwoPeers, PeerTypes DEF ReceiveInit, Receiving, Inv
        <4> QED BY <4>1, TailFacts
      <3>2. m.next \in 1..MaxEpoch
        BY <3>1 DEF Message, Protected, Bare
      <3> QED BY <3>2, RekeyItems
    <2> HIDE DEF k, i
    <2>2. CASE /\ unsent' = [unsent EXCEPT ![p] = Append(unsent[p], k)]
               /\ \/ UNCHANGED <<deferred, flushing>>
                  \/ Fail(p, "exhausted")
      <3>1. ASSUME NEW x \in Peers
            PROVE  /\ unsent'[x] \in {unsent[x], Append(unsent[x], k)}
                   /\ deferred'[x] \in {deferred[x], <<>>}
                   /\ flushing'[x] \in {flushing[x], <<>>}
        <4>1. unsent'[x] = IF x = p THEN Append(unsent[x], k) ELSE unsent[x]
          BY <1>1, <2>2
        <4>2. deferred'[x] \in {deferred[x], <<>>} /\ flushing'[x] \in {flushing[x], <<>>}
          <5>1. CASE UNCHANGED <<deferred, flushing>>
            BY <5>1
          <5>2. CASE Fail(p, "exhausted")
            BY <1>1, <5>2 DEF Fail
          <5> QED BY <2>2, <5>1, <5>2
        <4> QED BY <4>1, <4>2
      <3> QED BY <2>1, <3>1, DrainsRekey
    <2>3. CASE /\ unsent' = [unsent EXCEPT ![p] = Append(Append(unsent[p], k), i)]
               /\ HasRekeyCapacity(p) /\ UNCHANGED <<deferred, flushing>>
      <3>1. i \in Item /\ i.kind \notin Records
        <4>1. snd[p].epoch + 1 \in 1..MaxEpoch
          BY <2>3, PeerTypes, LimitsAssumption DEF HasRekeyCapacity, Outbound, Inv
        <4> QED BY <4>1, RekeyItems DEF i
      <3>2. /\ unsent'[p] = Append(Append(unsent[p], k), i)
            /\ \A x \in Peers : x # p => unsent'[x] = unsent[x]
        BY <1>1, <2>3
      <3>3. Append(unsent[p], k) \in Seq(Item)
            /\ Range(Append(unsent[p], k)) = Range(unsent[p]) \cup {k}
        BY <1>1, <2>1, Ranges
      <3>4. unsent'[p] \in Seq(Item)
            /\ Range(unsent'[p]) = Range(unsent[p]) \cup {k} \cup {i}
        <4> DEFINE u == Append(unsent[p], k)
        <4> HIDE DEF u
        <4>1. u \in Seq(Item) /\ Range(u) = Range(unsent[p]) \cup {k}
          BY <3>3 DEF u
        <4>2. Append(u, i) \in Seq(Item) /\ Range(Append(u, i)) = Range(u) \cup {i}
          BY <3>1, <4>1, Ranges
        <4>3. unsent'[p] = Append(u, i)
          BY <3>2 DEF u
        <4> QED BY <4>1, <4>2, <4>3
      <3>5. Drains(p)
        BY <2>1, <2>3, <3>1, <3>4 DEF Drains, Charges, Of
      <3>6. ASSUME NEW x \in Peers, x # p PROVE Drains(x)
        BY <2>3, <3>2, <3>6, DrainsSame
      <3> QED BY <3>5, <3>6
    <2> QED BY <1>2, <1>6, <2>2, <2>3 DEF ReceiveInit, Refuse, k, i
  <1> QED BY <1>4, <1>5, <1>6 DEF Receive

\* The limits of the outbound queue are inductive.
LEMMA NextQueue == Inv /\ Inv' /\ QueueInv /\ [Next]_vars => QueueInv'
  <1> SUFFICES ASSUME Inv, Inv', QueueInv, [Next]_vars PROVE QueueInv'
    OBVIOUS
  <1>1. \A x \in Peers : IsFiniteSet(Charges(x)) /\ Charged(x)
    BY ChargesFinite DEF Inv, QueueInv
  <1>2. ASSUME \A x \in Peers : Drains(x), unsent' = [x \in Peers |-> unsent'[x]]
        PROVE  QueueInv'
    BY <1>1, <1>2, ChargedLess DEF Drains, QueueInv
  <1>3. ASSUME NEW p \in Peers, Send(p) PROVE QueueInv'
    BY <1>3, SendQueue
  <1>4. ASSUME NEW p \in Peers, Flush(p) PROVE QueueInv'
    <2>1. unsent' = [x \in Peers |-> unsent'[x]]
      BY <1>4 DEF Flush, FlushDrop, FlushRotate, FlushRecord, Rotate, StartRekey,
                  Enqueue, QueueInv
    <2> QED BY <1>2, <1>4, <2>1, FlushQueue
  <1>5. ASSUME NEW p \in Peers, Receive(p) PROVE QueueInv'
    <2>1. unsent' = [x \in Peers |-> unsent'[x]]
      BY <1>5 DEF Receive, ReceiveRecord, ReceiveInit, ReceiveAck, Refuse, QueueInv
    <2> QED BY <1>2, <1>5, <2>1, ReceiveQueue
  <1>6. ASSUME NEW p \in Peers, Age(p) \/ DeadlinePasses(p) PROVE QueueInv'
    <2>1. UNCHANGED <<unsent, deferred, flushing>>
      BY <1>6 DEF Age, DeadlinePasses
    <2> QED BY <2>1 DEF QueueInv, Charged, Charges
  <1>7. ASSUME NEW p \in Peers, ExpireRekey(p) \/ CarrierEnds(p) PROVE QueueInv'
    <2>1. unsent' = unsent /\ (Fail(p, "deadline") \/ Fail(p, "carrier"))
      BY <1>7 DEF ExpireRekey, CarrierEnds
    <2>2. \A x \in Peers : Drains(x)
      BY <2>1, FailDrains
    <2> QED BY <1>2, <2>1, <2>2 DEF QueueInv
  <1>8. CASE UNCHANGED vars
    <2>1. UNCHANGED <<unsent, deferred, flushing>>
      BY <1>8 DEF vars
    <2> QED BY <2>1 DEF QueueInv, Charged, Charges
  <1> QED BY <1>3, <1>4, <1>5, <1>6, <1>7, <1>8 DEF Next

\* Nothing is queued at first.
LEMMA InitQueue == Init => QueueInv
  <1> SUFFICES ASSUME Init PROVE QueueInv
    OBVIOUS
  <1>1. ASSUME NEW p \in Peers PROVE Charged(p)
    <2>1. Charges(p) = {}
      BY Ranges DEF Init, Charges
    <2>2. Of(Charges(p), {"data"}) = {} /\ Of(Charges(p), Records) = {}
      BY <2>1 DEF Of
    <2>3. Cardinality({}) = 0 /\ MaxQueued \in Nat
      BY FS_EmptySet, LimitsAssumption
    <2> QED BY <2>2, <2>3 DEF Charged
  <1>2. unsent \in [Peers -> Seq(Item)]
    BY DEF Init
  <1> QED BY <1>1, <1>2 DEF QueueInv

\* Records that share a limit leave room for the one in hand.
LEMMA QueueRefuses == Inv /\ QueueInv => RefusedForTheReserve
  <1> SUFFICES ASSUME Inv, QueueInv, NEW p \in Peers, FlushRefused(p),
                      Interleave = FALSE,
                      \A x \in Queued(p) :
                         x.kind \in SameLimit(Head(flushing[p]).kind)
               PROVE  FALSE
    BY LimitsAssumption DEF RefusedForTheReserve
  <1> DEFINE h == Head(flushing[p])
             A == Charges(p)
             n == Cardinality(A)
             limit == QueueLimit(h.kind)
  <1>1. /\ flushing[p] \in Seq(Record) /\ flushing[p] # <<>> /\ h \in Record
    BY PeerTypes DEF FlushRefused, Flushing, Inv
  <1>2. h.kind \in Records /\ h \in A /\ IsFiniteSet(A) /\ Charged(p)
    <2>1. h \in Range(flushing[p])
      BY <1>1, Ranges
    <2>2. h.kind \in Records
      BY <1>1 DEF Record, Records
    <2> QED BY <2>1, <2>2, ChargesFinite DEF Charges, QueueInv, Inv
  <1>3. Queued(p) = A \ {h}
    BY <1>1 DEF Queued, Charges
  <1>4. Cardinality(A \ {h}) = n - 1 /\ n \in Nat
    BY <1>2, FS_RemoveElement, FS_CardinalityType
  <1>5. \A x \in A : x.kind \in SameLimit(h.kind)
    BY <1>2, <1>3 DEF SameLimit, Records
  <1>6. MaxQueued \in Nat /\ ~(Cardinality(A \ {h}) < limit)
    BY <1>3, LimitsAssumption DEF FlushRefused, HasRoom
  <1>7. CASE h.kind = "data"
    <2>1. Of(A, {"data"}) = A
      BY <1>5, <1>7 DEF Of, SameLimit
    <2>2. n <= MaxQueued /\ limit = MaxQueued
      BY <1>2, <1>7, <2>1 DEF Charged, QueueLimit
    <2> HIDE DEF n, A, limit, h
    <2> QED BY <1>4, <1>6, <2>2
  <1>8. CASE h.kind = "control"
    <2>1. Of(A, Records) = A
      BY <1>5, <1>8 DEF Of, SameLimit, Records
    <2>2. n <= MaxQueued + 1 /\ limit = MaxQueued + 1
      BY <1>2, <1>8, <2>1 DEF Charged, QueueLimit
    <2> HIDE DEF n, A, limit, h
    <2> QED BY <1>4, <1>6, <2>2
  <1> QED BY <1>2, <1>7, <1>8 DEF Records

\* No session of the invariant was ended by rotation before its time.
LEMMA InvSurvive == Inv /\ QueueInv => SessionsSurvive
  <1> SUFFICES ASSUME Inv, QueueInv PROVE SessionsSurvive
    OBVIOUS
  <1>1. NoProtocolFailure /\ ExhaustedOnlyAtTheEnd
    BY DEF Inv, PeerInv, Verdict, NoProtocolFailure, ExhaustedOnlyAtTheEnd
  <1> QED BY <1>1, QueueRefuses DEF SessionsSurvive

\* Two peers that run session_engine.cpp never refuse each other's records; a
\* rotation that cannot start ends a session only when its sequence numbers or
\* its epochs are used up; and the flush after a rotation is refused by a full
\* outbound queue only while an engine control or a rotation's message occupies
\* a reserve, unless callers publish into the flush.  For all epoch limits,
\* record sizes and queue bounds.
THEOREM SessionsSurviveRotation == Spec => [](TypeOK /\ SessionsSurvive)
  <1>1. Inv /\ QueueInv => TypeOK /\ SessionsSurvive
    BY InvSurvive DEF Inv, QueueInv, TypeOK
  <1> QED BY <1>1, InitInv, InitQueue, NextInv, NextQueue, PTL DEF Spec
-----------------------------------------------------------------------------
(* What Prefixes computes, by induction on the length. *)

PrefixBody(w, g, i) ==
    IF i = 0 THEN <<>>
    ELSE IF w[i].type = "record" THEN Append(g[i - 1], w[i].body)
    ELSE g[i - 1]

IsPrefixes(w, g, n) == g = [i \in 0..n |-> PrefixBody(w, g, i)]

\* The recursive definition of Prefixes has a solution for every length.
LEMMA PrefixesExist ==
    ASSUME NEW w, NEW n \in Nat
    PROVE  \E g : IsPrefixes(w, g, n)
  <1> DEFINE S == {k \in Nat : \E g : IsPrefixes(w, g, k)}
  <1>1. 0 \in S
    <2> DEFINE g == [i \in 0..0 |-> <<>>]
    <2>1. IsPrefixes(w, g, 0)
      BY DEF IsPrefixes, PrefixBody
    <2> QED BY <2>1
  <1>2. ASSUME NEW k \in Nat, k \in S PROVE k + 1 \in S
    <2>1. PICK g : IsPrefixes(w, g, k)
      BY <1>2
    <2> DEFINE h == [i \in 0..(k + 1) |-> IF i <= k THEN g[i] ELSE PrefixBody(w, g, i)]
    <2>2. \A i \in 0..k : g[i] = PrefixBody(w, g, i)
      BY <2>1 DEF IsPrefixes
    <2>3. ASSUME NEW i \in 0..(k + 1) PROVE h[i] = PrefixBody(w, h, i)
      <3>1. h[i] = PrefixBody(w, g, i)
        BY <2>2
      <3>2. i # 0 => h[i - 1] = g[i - 1]
        OBVIOUS
      <3> HIDE DEF h
      <3> QED BY <3>1, <3>2 DEF PrefixBody
    <2>4. h = [i \in 0..(k + 1) |-> PrefixBody(w, h, i)]
      <3>1. h = [i \in 0..(k + 1) |-> h[i]]
        OBVIOUS
      <3> HIDE DEF h
      <3> QED BY <2>3, <3>1
    <2> HIDE DEF h
    <2> QED BY <2>4 DEF IsPrefixes
  <1>3. Nat \subseteq S
    <2> HIDE DEF S
    <2> QED BY <1>1, <1>2, NatSetInduction
  <1> QED BY <1>3

\* Prefixes is such a solution.
LEMMA PrefixesDef ==
    ASSUME NEW w \in Seq(Message)
    PROVE  IsPrefixes(w, Prefixes(w), Len(w))
  <1>1. Prefixes(w) = CHOOSE g : IsPrefixes(w, g, Len(w))
    BY DEF Prefixes, IsPrefixes, PrefixBody
  <1>2. \E g : IsPrefixes(w, g, Len(w))
    BY PrefixesExist
  <1> QED BY <1>1, <1>2

\* One entry of Prefixes from the one before.
LEMMA PrefixesStep ==
    ASSUME NEW w \in Seq(Message)
    PROVE  /\ Prefixes(w)[0] = <<>>
           /\ \A i \in 1..Len(w) : Prefixes(w)[i] =
                 IF w[i].type = "record"
                 THEN Append(Prefixes(w)[i - 1], w[i].body)
                 ELSE Prefixes(w)[i - 1]
  <1> DEFINE g == Prefixes(w)
  <1>1. g = [i \in 0..Len(w) |-> PrefixBody(w, g, i)]
    BY PrefixesDef DEF IsPrefixes
  <1>2. Len(w) \in Nat
    OBVIOUS
  <1> HIDE DEF g
  <1>3. \A i \in 0..Len(w) : g[i] = PrefixBody(w, g, i)
    BY <1>1
  <1>4. g[0] = <<>>
    BY <1>2, <1>3 DEF PrefixBody
  <1>5. \A i \in 1..Len(w) : g[i] = IF w[i].type = "record"
                 THEN Append(g[i - 1], w[i].body) ELSE g[i - 1]
    BY <1>2, <1>3 DEF PrefixBody
  <1> QED BY <1>4, <1>5 DEF g

\* Appending to the second of two queues.
LEMMA AppendConcat ==
    ASSUME NEW a \in Seq(Record), NEW b \in Seq(Record), NEW r \in Record
    PROVE  Append(a \o b, r) = a \o Append(b, r)
  <1>1. <<r>> \in Seq(Record) /\ a \o b \in Seq(Record)
    BY ConcatProperties
  <1>2. Append(a \o b, r) = (a \o b) \o <<r>> /\ Append(b, r) = b \o <<r>>
    BY <1>1, AppendIsConcat
  <1> QED BY <1>1, <1>2, ConcatAssociative

\* The body of a sealed record is a record.
LEMMA BodyIsRecord ==
    ASSUME NEW m \in Message, m.type = "record"
    PROVE  m.body \in Record
  BY DEF Message, Protected, Bare

\* Every prefix of a wire holds a sequence of records.
LEMMA PrefixesType ==
    ASSUME NEW w \in Seq(Message)
    PROVE  \A i \in 0..Len(w) : Prefixes(w)[i] \in Seq(Record)
  <1> DEFINE g == Prefixes(w)
             S == {n \in Nat : n <= Len(w) => g[n] \in Seq(Record)}
  <1>1. g[0] = <<>> /\ \A i \in 1..Len(w) : g[i] =
            IF w[i].type = "record" THEN Append(g[i - 1], w[i].body) ELSE g[i - 1]
    BY PrefixesStep
  <1> HIDE DEF g
  <1>2. 0 \in S
    <2>1. g[0] \in Seq(Record)
      BY <1>1, EmptySeq
    <2> QED BY <2>1
  <1>3. ASSUME NEW n \in Nat, n \in S PROVE n + 1 \in S
    <2> SUFFICES ASSUME n + 1 <= Len(w) PROVE g[n + 1] \in Seq(Record)
      OBVIOUS
    <2>1. n + 1 \in 1..Len(w) /\ g[n] \in Seq(Record) /\ (n + 1) - 1 = n
      BY <1>3
    <2>2. w[n + 1] \in Message
      BY <2>1
    <2>3. g[n + 1] = IF w[n + 1].type = "record" THEN Append(g[n], w[n + 1].body)
                     ELSE g[n]
      BY <1>1, <2>1
    <2> QED BY <2>1, <2>2, <2>3, BodyIsRecord
  <1>4. Nat \subseteq S
    <2> HIDE DEF S
    <2> QED BY <1>2, <1>3, NatSetInduction
  <1> QED BY <1>4 DEF g

\* The prefixes of Append(w, m) are those of w and one more.
LEMMA SealedAppend ==
    ASSUME NEW w \in Seq(Message), NEW m \in Message
    PROVE  Sealed(Append(w, m)) = IF m.type = "record" THEN Append(Sealed(w), m.body)
                                  ELSE Sealed(w)
  <1> DEFINE x == Append(w, m)
             g == Prefixes(w)
             h == Prefixes(x)
             S == {n \in Nat : n <= Len(w) => h[n] = g[n]}
  <1>1. /\ x \in Seq(Message) /\ Len(x) = Len(w) + 1 /\ Len(w) \in Nat
        /\ x[Len(w) + 1] = m /\ \A i \in 1..Len(w) : x[i] = w[i]
    BY AppendFacts
  <1>2. g[0] = <<>> /\ \A i \in 1..Len(w) : g[i] =
            IF w[i].type = "record" THEN Append(g[i - 1], w[i].body) ELSE g[i - 1]
    BY PrefixesStep
  <1>3. h[0] = <<>> /\ \A i \in 1..Len(x) : h[i] =
            IF x[i].type = "record" THEN Append(h[i - 1], x[i].body) ELSE h[i - 1]
    BY <1>1, PrefixesStep
  <1>4. Sealed(x) = h[Len(x)] /\ Sealed(w) = g[Len(w)]
    BY DEF Sealed
  <1> HIDE DEF x, g, h
  <1>5. 0 \in S
    BY <1>2, <1>3
  <1>6. ASSUME NEW n \in Nat, n \in S PROVE n + 1 \in S
    <2> SUFFICES ASSUME n + 1 <= Len(w) PROVE h[n + 1] = g[n + 1]
      OBVIOUS
    <2>1. /\ n + 1 \in 1..Len(w) /\ n + 1 \in 1..Len(x) /\ (n + 1) - 1 = n
          /\ h[n] = g[n] /\ x[n + 1] = w[n + 1]
      BY <1>1, <1>6
    <2> QED BY <1>2, <1>3, <2>1
  <1>7. Nat \subseteq S
    <2> HIDE DEF S
    <2> QED BY <1>5, <1>6, NatSetInduction
  <1>8. h[Len(w)] = g[Len(w)]
    BY <1>1, <1>7
  <1>9. h[Len(x)] = IF m.type = "record" THEN Append(h[Len(w)], m.body) ELSE h[Len(w)]
    BY <1>1, <1>3
  <1> QED BY <1>4, <1>8, <1>9 DEF x

\* Taking the head of w takes the head of its records, if it is one.
LEMMA SealedTail ==
    ASSUME NEW w \in Seq(Message), w # <<>>
    PROVE  Sealed(w) = IF Head(w).type = "record"
                       THEN <<Head(w).body>> \o Sealed(Tail(w))
                       ELSE Sealed(Tail(w))
  <1> DEFINE x == Tail(w)
             m == Head(w)
             a == IF m.type = "record" THEN <<m.body>> ELSE <<>>
             g == Prefixes(w)
             h == Prefixes(x)
             S == {n \in Nat : n <= Len(x) => g[n + 1] = a \o h[n]}
  <1>1. /\ x \in Seq(Message) /\ Len(x) = Len(w) - 1 /\ Len(w) \in Nat
        /\ Len(w) >= 1 /\ m = w[1] /\ m \in Message
        /\ \A i \in 1..Len(x) : x[i] = w[i + 1]
    BY TailFacts
  <1>2. g[0] = <<>> /\ \A i \in 1..Len(w) : g[i] =
            IF w[i].type = "record" THEN Append(g[i - 1], w[i].body) ELSE g[i - 1]
    BY PrefixesStep
  <1>3. h[0] = <<>> /\ \A i \in 1..Len(x) : h[i] =
            IF x[i].type = "record" THEN Append(h[i - 1], x[i].body) ELSE h[i - 1]
    BY <1>1, PrefixesStep
  <1>4. \A i \in 0..Len(x) : h[i] \in Seq(Record)
    BY <1>1, PrefixesType
  <1>5. a \in Seq(Record)
    BY <1>1, BodyIsRecord
  <1>6. Sealed(x) = h[Len(x)] /\ Sealed(w) = g[Len(w)]
    BY DEF Sealed
  <1>7. /\ m.type = "record" => a = <<m.body>>
        /\ m.type # "record" => a = <<>>
    OBVIOUS
  <1> HIDE DEF x, m, g, h
  <1>8. 0 \in S
    <2>1. g[1] = IF m.type = "record" THEN Append(g[0], m.body) ELSE g[0]
      <3>1. 1 \in 1..Len(w) /\ 1 - 1 = 0
        BY <1>1
      <3> QED BY <1>1, <1>2, <3>1
    <2>2. g[1] = a
      BY <1>2, <2>1
    <2> HIDE DEF a
    <2>3. a \o <<>> = a
      BY <1>5, ConcatEmptySeq
    <2>4. g[0 + 1] = a \o h[0] /\ 0 \in Nat
      BY <1>3, <2>2, <2>3
    <2> QED BY <2>4
  <1> HIDE DEF a
  <1>9. ASSUME NEW n \in Nat, n \in S PROVE n + 1 \in S
    <2> SUFFICES ASSUME n + 1 <= Len(x) PROVE g[(n + 1) + 1] = a \o h[n + 1]
      OBVIOUS
    <2>1. /\ n + 1 \in 1..Len(x) /\ (n + 1) + 1 \in 1..Len(w)
          /\ g[n + 1] = a \o h[n] /\ x[n + 1] = w[(n + 1) + 1]
          /\ h[n] \in Seq(Record)
          /\ (n + 1) - 1 = n /\ ((n + 1) + 1) - 1 = n + 1
      BY <1>1, <1>4, <1>9
    <2> DEFINE e == x[n + 1]
    <2>2. g[(n + 1) + 1] = IF e.type = "record" THEN Append(a \o h[n], e.body)
                           ELSE a \o h[n]
      BY <1>2, <2>1
    <2>3. h[n + 1] = IF e.type = "record" THEN Append(h[n], e.body) ELSE h[n]
      BY <1>3, <2>1
    <2>4. e \in Message
      BY <1>1, <2>1
    <2> HIDE DEF e
    <2>5. CASE e.type = "record"
      <3>1. e.body \in Record
        BY <2>4, <2>5, BodyIsRecord
      <3>2. Append(a \o h[n], e.body) = a \o Append(h[n], e.body)
        BY <1>5, <2>1, <3>1, AppendConcat
      <3> QED BY <2>2, <2>3, <2>5, <3>2
    <2> QED BY <2>2, <2>3, <2>5
  <1>10. Nat \subseteq S
    <2> HIDE DEF S
    <2> QED BY <1>8, <1>9, NatSetInduction
  <1>11. g[Len(w)] = a \o h[Len(x)]
    <2>1. Len(x) \in Nat /\ Len(x) + 1 = Len(w) /\ Len(x) <= Len(x)
      BY <1>1
    <2>2. Len(x) \in S
      BY <1>10, <2>1
    <2>3. g[Len(x) + 1] = a \o h[Len(x)]
      BY <2>1, <2>2
    <2> QED BY <2>1, <2>3
  <1>12. h[Len(x)] \in Seq(Record)
    BY <1>1, <1>4
  <1>13. m.type # "record" => a \o h[Len(x)] = h[Len(x)]
    BY <1>7, <1>12
  <1> QED BY <1>6, <1>7, <1>11, <1>13 DEF m, x
-----------------------------------------------------------------------------
(* Queues of records. *)

\* A queue is its head and its tail.
LEMMA QueueSplit ==
    ASSUME NEW f \in Seq(Record), f # <<>>
    PROVE  /\ Head(f) \in Record /\ Tail(f) \in Seq(Record)
           /\ f = <<Head(f)>> \o Tail(f)
  <1>1. /\ Head(f) \in Record /\ Tail(f) \in Seq(Record) /\ Len(f) \in Nat \ {0}
        /\ Len(Tail(f)) = Len(f) - 1
        /\ \A i \in 1..Len(Tail(f)) : Tail(f)[i] = f[i + 1]
        /\ Head(f) = f[1]
    BY HeadTailProperties
  <1> DEFINE h == <<Head(f)>>
             t == Tail(f)
  <1>2. h \in Seq(Record) /\ Len(h) = 1 /\ h[1] = f[1]
    BY <1>1
  <1> HIDE DEF h, t
  <1>3. /\ h \o t \in Seq(Record) /\ Len(h \o t) = Len(f)
        /\ \A i \in 1..Len(f) : (h \o t)[i] = IF i <= 1 THEN h[i] ELSE t[i - 1]
    <2>1. t \in Seq(Record) /\ Len(t) = Len(f) - 1 /\ Len(f) \in Nat \ {0}
      BY <1>1 DEF t
    <2>2. /\ h \o t \in Seq(Record) /\ Len(h \o t) = Len(h) + Len(t)
          /\ \A i \in 1..(Len(h) + Len(t)) :
                (h \o t)[i] = IF i <= Len(h) THEN h[i] ELSE t[i - Len(h)]
      BY <1>2, <2>1, ConcatProperties
    <2>3. Len(h) + Len(t) = Len(f)
      BY <1>2, <2>1
    <2> QED BY <1>2, <2>2, <2>3
  <1>4. ASSUME NEW i \in 1..Len(f) PROVE (h \o t)[i] = f[i]
    <2>1. CASE i = 1
      BY <1>2, <1>3, <2>1
    <2>2. CASE i # 1
      <3>1. i - 1 \in 1..Len(t) /\ (i - 1) + 1 = i
        BY <1>1, <2>2 DEF t
      <3> QED BY <1>1, <1>3, <2>2, <3>1 DEF t
    <2> QED BY <2>1, <2>2
  <1>5. f = h \o t
    BY <1>3, <1>4, SeqEqual
  <1> QED BY <1>1, <1>5 DEF h, t

\* Taking the first record of a queue that starts with a.
LEMMA QueueTail ==
    ASSUME NEW r \in Record, NEW b \in Seq(Record)
    PROVE  <<r>> \o b # <<>> /\ Tail(<<r>> \o b) = b
  <1> DEFINE h == <<r>>
             q == h \o b
  <1>1. h \in Seq(Record) /\ Len(h) = 1
    OBVIOUS
  <1> HIDE DEF h
  <1>2. /\ q \in Seq(Record) /\ Len(q) = 1 + Len(b) /\ Len(b) \in Nat
        /\ \A i \in 1..(1 + Len(b)) : q[i] = IF i <= 1 THEN h[i] ELSE b[i - 1]
    <2>1. /\ q \in Seq(Record) /\ Len(q) = Len(h) + Len(b)
          /\ \A i \in 1..(Len(h) + Len(b)) :
                q[i] = IF i <= Len(h) THEN h[i] ELSE b[i - Len(h)]
      BY <1>1, ConcatProperties
    <2>2. Len(b) \in Nat
      OBVIOUS
    <2> HIDE DEF q
    <2> QED BY <1>1, <2>1, <2>2
  <1> HIDE DEF q
  <1>3. q # <<>>
    BY <1>2
  <1>4. /\ Tail(q) \in Seq(Record) /\ Len(Tail(q)) = Len(b)
        /\ \A i \in 1..Len(Tail(q)) : Tail(q)[i] = q[i + 1]
    BY <1>2, <1>3, HeadTailProperties
  <1>5. ASSUME NEW i \in 1..Len(b) PROVE Tail(q)[i] = b[i]
    <2>1. i + 1 \in 1..(1 + Len(b)) /\ ~(i + 1 <= 1) /\ (i + 1) - 1 = i
      BY <1>2
    <2> QED BY <1>2, <1>4, <2>1
  <1>6. Tail(q) = b
    BY <1>4, <1>5, SeqEqual
  <1> QED BY <1>3, <1>6 DEF q, h

\* Moving the first record of a flush to the end of what is ahead of it.
LEMMA QueueShift ==
    ASSUME NEW u \in Seq(Record), NEW f \in Seq(Record), f # <<>>
    PROVE  Append(u, Head(f)) \o Tail(f) = u \o f
  <1>1. /\ Head(f) \in Record /\ Tail(f) \in Seq(Record)
        /\ f = <<Head(f)>> \o Tail(f) /\ <<Head(f)>> \in Seq(Record)
    BY QueueSplit
  <1>2. Append(u, Head(f)) = u \o <<Head(f)>>
    BY <1>1, AppendIsConcat
  <1> DEFINE h == <<Head(f)>>
             t == Tail(f)
  <1>3. (u \o h) \o t = u \o (h \o t)
    BY <1>1, ConcatAssociative
  <1> QED BY <1>1, <1>2, <1>3

\* Dropping the first record of a flush.
LEMMA QueueDrop ==
    ASSUME NEW u \in Seq(Record), NEW f \in Seq(Record), f # <<>>
    PROVE  LET n == Len(u) + 1
               q == u \o f
           IN  /\ n \in 1..Len(q) /\ q[n] = Head(f)
               /\ u \o Tail(f) = SubSeq(q, 1, n - 1) \o SubSeq(q, n + 1, Len(q))
  <1> DEFINE n == Len(u) + 1
             q == u \o f
             t == Tail(f)
  <1>1. /\ t \in Seq(Record) /\ Len(f) \in Nat \ {0} /\ Len(t) = Len(f) - 1
        /\ \A i \in 1..Len(t) : t[i] = f[i + 1]
        /\ Head(f) = f[1] /\ Len(u) \in Nat
    BY HeadTailProperties
  <1>2. /\ q \in Seq(Record) /\ Len(q) = Len(u) + Len(f)
        /\ \A i \in 1..(Len(u) + Len(f)) :
              q[i] = IF i <= Len(u) THEN u[i] ELSE f[i - Len(u)]
    BY ConcatProperties
  <1> HIDE DEF q, t
  <1>3. n \in 1..Len(q) /\ q[n] = Head(f)
    <2>1. n \in 1..(Len(u) + Len(f)) /\ ~(n <= Len(u)) /\ n - Len(u) = 1
      BY <1>1
    <2> QED BY <1>1, <1>2, <2>1
  <1> DEFINE a == SubSeq(q, 1, n - 1)
             b == SubSeq(q, n + 1, Len(q))
  <1>4. a = u
    <2>1. /\ n - 1 = Len(u) /\ n - 1 \in Int /\ 1 \in Int
          /\ \A i \in 1..(n - 1) : q[i] \in Record
      BY <1>1, <1>2
    <2>2. /\ a \in Seq(Record) /\ Len(a) = IF 1 <= n - 1 THEN (n - 1) - 1 + 1 ELSE 0
          /\ \A i \in 1..((n - 1) - 1 + 1) : a[i] = q[1 + i - 1]
      BY <2>1, SubSeqProperties
    <2>3. Len(a) = Len(u)
      BY <1>1, <2>1, <2>2
    <2>4. ASSUME NEW i \in 1..Len(u) PROVE a[i] = u[i]
      <3>1. i \in 1..((n - 1) - 1 + 1) /\ 1 + i - 1 = i /\ i \in 1..(Len(u) + Len(f))
        BY <1>1, <2>1
      <3> QED BY <1>2, <2>2, <3>1
    <2> QED BY <2>2, <2>3, <2>4, SeqEqual
  <1>5. b = t
    <2>1. /\ n + 1 \in Int /\ Len(q) \in Int
          /\ \A i \in (n + 1)..Len(q) : q[i] \in Record
      BY <1>1, <1>2
    <2>2. /\ b \in Seq(Record)
          /\ Len(b) = IF n + 1 <= Len(q) THEN Len(q) - (n + 1) + 1 ELSE 0
          /\ \A i \in 1..(Len(q) - (n + 1) + 1) : b[i] = q[(n + 1) + i - 1]
      BY <2>1, SubSeqProperties
    <2>3. Len(b) = Len(t)
      BY <1>1, <1>2, <2>2
    <2>4. ASSUME NEW i \in 1..Len(t) PROVE b[i] = t[i]
      <3>1. /\ i \in 1..(Len(q) - (n + 1) + 1)
            /\ (n + 1) + i - 1 \in 1..(Len(u) + Len(f))
            /\ ~((n + 1) + i - 1 <= Len(u))
            /\ ((n + 1) + i - 1) - Len(u) = i + 1
        BY <1>1, <1>2
      <3> QED BY <1>1, <1>2, <2>2, <3>1
    <2> QED BY <1>1, <2>2, <2>3, <2>4, SeqEqual
  <1>6. u \o t = a \o b
    BY <1>4, <1>5
  <1> QED BY <1>3, <1>6 DEF q, t

\* A failing side keeps what it has sent.
LEMMA QueueCut ==
    ASSUME NEW a \in Seq(Record), NEW b \in Seq(Record)
    PROVE  Len(a) \in 0..Len(a \o b) /\ SubSeq(a \o b, 1, Len(a)) = a
  <1> DEFINE q == a \o b
             s == SubSeq(q, 1, Len(a))
  <1>1. /\ q \in Seq(Record) /\ Len(q) = Len(a) + Len(b)
        /\ Len(a) \in Nat /\ Len(b) \in Nat
        /\ \A i \in 1..(Len(a) + Len(b)) :
              q[i] = IF i <= Len(a) THEN a[i] ELSE b[i - Len(a)]
    BY ConcatProperties
  <1> HIDE DEF q
  <1>2. /\ 1 \in Int /\ Len(a) \in Int
        /\ \A i \in 1..Len(a) : q[i] \in Record
    BY <1>1
  <1>3. /\ s \in Seq(Record) /\ Len(s) = IF 1 <= Len(a) THEN Len(a) - 1 + 1 ELSE 0
        /\ \A i \in 1..(Len(a) - 1 + 1) : s[i] = q[1 + i - 1]
    BY <1>2, SubSeqProperties
  <1>4. Len(s) = Len(a)
    BY <1>1, <1>3
  <1>5. ASSUME NEW i \in 1..Len(a) PROVE s[i] = a[i]
    <2>1. i \in 1..(Len(a) - 1 + 1) /\ 1 + i - 1 = i /\ i \in 1..(Len(a) + Len(b))
      BY <1>1
    <2> QED BY <1>1, <1>3, <2>1
  <1>6. s = a
    BY <1>3, <1>4, <1>5, SeqEqual
  <1>7. Len(a) \in 0..Len(q)
    BY <1>1
  <1> QED BY <1>6, <1>7 DEF q
-----------------------------------------------------------------------------
(* The record layer implements the ordered channel. *)

\* Records wait only for a rotation that is under way.
Waits(p) == deferred[p] # <<>> => snd[p].pending

\* Identifiers are handed out in publication order.
Fresh(p) == \A i \in 1..Len(Bodies(p)) : Bodies(p)[i].id <= published[p]

OrderInv == Inv /\ \A p \in Peers : Waits(p) /\ Fresh(p)

Kept(p) == Bodies(p)' = Bodies(p)

\* What a step can do to the queues, in terms of the abstract channel.
Stutters == state' = state /\ published' = published /\ \A p \in Peers : Kept(p)

Publishes(p) ==
    \E r \in Record :
        /\ state[p] = "Active" /\ state' = state
        /\ r.id = published[p] + 1
        /\ published' = [published EXCEPT ![p] = @ + 1]
        /\ Bodies(p)' = Append(Bodies(p), r)
        /\ Kept(Other(p))

HandsOver(p) ==
    /\ state' = state /\ published' = published
    /\ Bodies(p) # <<>> /\ Bodies(p)' = Tail(Bodies(p))
    /\ Kept(Other(p))

Discards(p) ==
    \E i \in 1..Len(Bodies(p)) :
        /\ state[p] = "Active" /\ state' = state /\ published' = published
        /\ Bodies(p)[i].kind = "data"
        /\ Bodies(p)' = SubSeq(Bodies(p), 1, i - 1)
                        \o SubSeq(Bodies(p), i + 1, Len(Bodies(p)))
        /\ Kept(Other(p))

Breaks(p) ==
    \E n \in 0..Len(Bodies(p)) :
        /\ state[p] = "Active" /\ state' = [state EXCEPT ![p] = "Failed"]
        /\ published' = published
        /\ Bodies(p)' = SubSeq(Bodies(p), 1, n)
        /\ Kept(Other(p))

Moves ==
    \/ Stutters
    \/ \E p \in Peers : Publishes(p) \/ HandsOver(p) \/ Discards(p) \/ Breaks(p)

\* What is sealed on a wire is a sequence of records.
LEMMA SealedType ==
    ASSUME NEW w \in Seq(Message)
    PROVE  Sealed(w) \in Seq(Record)
  <1>1. Len(w) \in 0..Len(w)
    OBVIOUS
  <1> QED BY <1>1, PrefixesType DEF Sealed

\* The types of the three parts of a queue, and the queue.
LEMMA BodiesType ==
    ASSUME RecordTypes, NEW p \in Peers
    PROVE  /\ Sealed(wire[p]) \in Seq(Record)
           /\ deferred[p] \in Seq(Record) /\ flushing[p] \in Seq(Record)
           /\ Sealed(wire[p]) \o deferred[p] \in Seq(Record)
           /\ Bodies(p) \in Seq(Record)
           /\ Bodies(p) = (Sealed(wire[p]) \o deferred[p]) \o flushing[p]
  <1>1. /\ Sealed(wire[p]) \in Seq(Record)
        /\ deferred[p] \in Seq(Record) /\ flushing[p] \in Seq(Record)
    BY PeerTypes, SealedType
  <1>2. Sealed(wire[p]) \o deferred[p] \in Seq(Record)
    BY <1>1, ConcatProperties
  <1>3. Bodies(p) = (Sealed(wire[p]) \o deferred[p]) \o flushing[p]
    BY DEF Bodies
  <1> QED BY <1>1, <1>2, <1>3, ConcatProperties

\* A queue whose parts stay is kept.
LEMMA KeptIf ==
    ASSUME NEW p \in Peers, Sealed(wire'[p]) = Sealed(wire[p]),
           deferred'[p] = deferred[p], flushing'[p] = flushing[p]
    PROVE  Kept(p)
  BY DEF Kept, Bodies

\* stop() breaks the queue of the failing side after what it sent.
LEMMA FailMoves ==
    ASSUME RecordTypes, NEW p \in Peers, NEW reason, state[p] = "Active",
           Fail(p, reason),
           \A x \in Peers : Sealed(wire'[x]) = Sealed(wire[x])
    PROVE  Breaks(p)
  <1> DEFINE q == Other(p)
             a == Sealed(wire[p])
             d == deferred[p]
             f == flushing[p]
  <1>1. q \in Peers /\ q # p
    BY TwoPeers
  <1>2. /\ deferred'[p] = <<>> /\ flushing'[p] = <<>>
        /\ deferred'[q] = deferred[q] /\ flushing'[q] = flushing[q]
        /\ state' = [state EXCEPT ![p] = "Failed"] /\ published' = published
    BY <1>1 DEF Fail, RecordTypes
  <1>3. /\ a \in Seq(Record) /\ d \in Seq(Record) /\ f \in Seq(Record)
        /\ Bodies(p) = (a \o d) \o f
    BY BodiesType
  <1>4. Bodies(p)' = (a \o <<>>) \o <<>>
    BY <1>2 DEF Bodies
  <1> HIDE DEF a, d, f
  <1>5. Bodies(p)' = a
    BY <1>3, <1>4, ConcatEmptySeq
  <1>6. d \o f \in Seq(Record) /\ Bodies(p) = a \o (d \o f)
    BY <1>3, ConcatProperties, ConcatAssociative
  <1>7. Len(a) \in 0..Len(Bodies(p)) /\ SubSeq(Bodies(p), 1, Len(a)) = a
    BY <1>3, <1>6, QueueCut
  <1>8. Kept(q)
    BY <1>1, <1>2, KeptIf
  <1> QED BY <1>2, <1>5, <1>7, <1>8 DEF Breaks, q

\* REKEY_INIT is no record.
LEMMA RotateMoves ==
    ASSUME Inv, NEW p \in Peers, state[p] = "Active", ~snd[p].pending, Rotate(p)
    PROVE  Stutters \/ Breaks(p)
  <1> DEFINE m == InitRecord(p)
  <1>1. CASE Fail(p, "exhausted") /\ UNCHANGED wire
    BY <1>1, FailMoves DEF Inv
  <1>2. CASE /\ HasRekeyCapacity(p) /\ snd[p].seq # Exhausted
             /\ wire' = [wire EXCEPT ![p] = Append(@, m)]
             /\ UNCHANGED <<state, deferred, flushing, published>>
    <2>1. snd[p] \in Outbound /\ wire[p] \in Seq(Message) /\ snd[p].epoch < MaxEpoch
      BY <1>2, PeerTypes DEF Inv, HasRekeyCapacity
    <2>2. m \in Message /\ m.type = "init"
      <3>1. m = [type |-> "init", epoch |-> snd[p].epoch, seq |-> snd[p].seq,
                 next |-> snd[p].epoch + 1]
        BY DEF InitRecord
      <3>2. m \in Protected
        BY <1>2, <2>1, <3>1, BeginMeets
      <3> QED BY <3>1, <3>2 DEF Message
    <2>3. Sealed(Append(wire[p], m)) = Sealed(wire[p])
      BY <2>1, <2>2, SealedAppend
    <2>4. \A x \in Peers : Sealed(wire'[x]) = Sealed(wire[x])
      BY <1>2, <2>3 DEF Inv, RecordTypes
    <2>5. \A x \in Peers : Kept(x)
      BY <1>2, <2>4, KeptIf
    <2> QED BY <1>2, <2>5 DEF Stutters
  <1> QED BY <1>1, <1>2 DEF Rotate, StartRekey

\* enqueue_record appends to what is sent or, when anything waits, to that.
LEMMA EnqueueMoves ==
    ASSUME Inv, NEW p \in Peers, Waits(p), NEW r \in Record, Enqueue(p, r)
    PROVE  /\ Sealed(wire'[p]) \o deferred'[p] =
                  Append(Sealed(wire[p]) \o deferred[p], r)
           /\ \A x \in Peers : x # p =>
                  wire'[x] = wire[x] /\ deferred'[x] = deferred[x]
  <1> DEFINE a == Sealed(wire[p])
             d == deferred[p]
             m == [type |-> "record", epoch |-> snd[p].epoch, seq |-> snd[p].seq,
                   body |-> r]
  <1>1. a \in Seq(Record) /\ d \in Seq(Record) /\ wire[p] \in Seq(Message)
    BY BodiesType, PeerTypes DEF Inv
  <1>2. CASE Barred(p, r.size)
    <2>1. deferred' = [deferred EXCEPT ![p] = Append(d, r)] /\ wire' = wire
      BY <1>2 DEF Enqueue
    <2>2. deferred'[p] = Append(d, r) /\ \A x \in Peers : x # p => deferred'[x] = deferred[x]
      BY <2>1 DEF Inv, RecordTypes
    <2>3. Append(a \o d, r) = a \o Append(d, r)
      BY <1>1, AppendConcat
    <2> QED BY <2>1, <2>2, <2>3
  <1>3. CASE ~Barred(p, r.size)
    <2>1. /\ snd[p].seq # Exhausted /\ deferred' = deferred
          /\ wire' = [wire EXCEPT ![p] = Append(@, m)]
      BY <1>3 DEF Enqueue
    <2>2. d = <<>>
      BY <1>3 DEF Barred, FitsOldEpoch, Waits
    <2>3. m \in Message /\ m.type = "record" /\ m.body = r
      <3>1. snd[p] \in Outbound
        BY PeerTypes DEF Inv
      <3>2. snd[p].seq \in 0..MaxSequence /\ snd[p].epoch \in 0..MaxEpoch
        BY <2>1, <3>1, LimitsAssumption DEF Outbound, Exhausted
      <3> QED BY <3>2 DEF Protected, Message
    <2> HIDE DEF m
    <2>4. /\ wire'[p] = Append(wire[p], m)
          /\ \A x \in Peers : x # p => wire'[x] = wire[x]
      BY <2>1 DEF Inv, RecordTypes
    <2>5. Sealed(wire'[p]) = Append(a, r)
      BY <1>1, <2>3, <2>4, SealedAppend
    <2>6. Append(a, r) \in Seq(Record)
      BY <1>1
    <2> HIDE DEF a, d
    <2>7. Append(a, r) \o <<>> = Append(a, r) /\ a \o <<>> = a
      BY <1>1, <2>6, ConcatEmptySeq
    <2>8. deferred'[p] = <<>> /\ deferred[p] = <<>>
      BY <2>1, <2>2 DEF d
    <2> QED BY <2>1, <2>4, <2>5, <2>7, <2>8 DEF a
  <1> QED BY <1>2, <1>3
\* A caller publishes while no flush is under way.
LEMMA PublishMoves ==
    ASSUME OrderInv, Interleave = FALSE, NEW p \in Peers,
           NEW kind \in {"data", "control"},
           NEW size \in DataSizes \cup {ControlSize}, Publish(p, kind, size)
    PROVE  Publishes(p)
  <1> DEFINE r == [kind |-> kind, size |-> size, id |-> published[p] + 1]
             q == Other(p)
             u == Sealed(wire[p]) \o deferred[p]
  <1>1. q \in Peers /\ q # p
    BY TwoPeers
  <1>2. r \in Record /\ r.id = published[p] + 1
    <2>1. /\ published[p] \in Nat /\ published[p] < Budget[p]
          /\ Budget[p] \in Nat /\ MaxPublished \in Nat /\ MaxPublished >= Budget[p]
      BY BudgetBound DEF Publish, OrderInv, Inv, RecordTypes
    <2>2. published[p] + 1 \in 1..MaxPublished
      BY <2>1
    <2> QED BY <2>2 DEF Record
  <1>3. /\ state[p] = "Active" /\ flushing[p] = <<>> /\ Enqueue(p, r)
        /\ published' = [published EXCEPT ![p] = @ + 1]
        /\ UNCHANGED <<state, flushing>>
    BY DEF Publish, MayPublish
  <1> HIDE DEF r
  <1>4. /\ Sealed(wire'[p]) \o deferred'[p] = Append(u, r)
        /\ wire'[q] = wire[q] /\ deferred'[q] = deferred[q]
    BY <1>1, <1>2, <1>3, EnqueueMoves DEF OrderInv
  <1>5. u \in Seq(Record) /\ Bodies(p) = u \o flushing[p]
    BY BodiesType DEF OrderInv, Inv
  <1>6. Bodies(p)' = Append(u, r) \o <<>>
    BY <1>3, <1>4 DEF Bodies
  <1> HIDE DEF u
  <1>7. Append(u, r) \o <<>> = Append(u, r) /\ u \o <<>> = u
    BY <1>2, <1>5, AppendProperties, ConcatEmptySeq
  <1>8. Bodies(p)' = Append(Bodies(p), r)
    BY <1>3, <1>5, <1>6, <1>7
  <1>9. Kept(q)
    BY <1>1, <1>3, <1>4, KeptIf
  <1> QED BY <1>2, <1>3, <1>8, <1>9 DEF Publishes, q

\* Every step of a caller is a move of the abstract channel.
LEMMA SendMoves ==
    ASSUME OrderInv, Interleave = FALSE, NEW p \in Peers, Send(p)
    PROVE  Moves
  <1>1. ASSUME NEW size, RotateForSend(p, size) PROVE Moves
    BY <1>1, RotateMoves DEF RotateForSend, MayPublish, NeedsRotation, Moves, OrderInv
  <1>2. ASSUME NEW kind \in {"data", "control"},
               NEW size \in DataSizes \cup {ControlSize}, Publish(p, kind, size)
        PROVE  Moves
    BY <1>2, PublishMoves DEF Moves
  <1>3. CASE RequestRekey(p)
    BY <1>3, RotateMoves DEF RequestRekey, Idle, Rotate, Moves, OrderInv
  <1>4. CASE RotateAged(p)
    BY <1>4, RotateMoves DEF RotateAged, Idle, Moves, OrderInv
  <1>5. CASE CloseStream(p)
    <2>1. \A x \in Peers : Kept(x)
      BY <1>5, KeptIf DEF CloseStream
    <2> QED BY <1>5, <2>1 DEF CloseStream, Stutters, Moves
  <1>6. CASE OwedControlFails(p)
    <2>1. Breaks(p)
      BY <1>6, FailMoves DEF OwedControlFails, MayPublish, OrderInv, Inv
    <2> QED BY <2>1 DEF Moves
  <1>7. CASE SendCompletes(p)
    <2>1. \A x \in Peers : Kept(x)
      BY <1>7, KeptIf DEF SendCompletes
    <2> QED BY <1>7, <2>1 DEF SendCompletes, Stutters, Moves
  <1> QED BY <1>1, <1>2, <1>3, <1>4, <1>5, <1>6, <1>7 DEF Send

\* The flush moves records from its own hands to the wire or to the deferred
\* queue, both ahead of the rest, or drops data of a closed stream.
LEMMA FlushMoves ==
    ASSUME OrderInv, NEW p \in Peers, Flush(p)
    PROVE  Moves
  <1> DEFINE f == flushing[p]
             r == Head(f)
             q == Other(p)
             u == Sealed(wire[p]) \o deferred[p]
  <1>1. q \in Peers /\ q # p /\ \A x \in Peers : x = p \/ x = q
    BY TwoPeers
  <1>2. /\ state[p] = "Active" /\ f # <<>> /\ f \in Seq(Record)
        /\ r \in Record /\ Tail(f) \in Seq(Record)
    BY PeerTypes DEF Flush, FlushDrop, FlushRotate, FlushRecord, Flushing,
       OrderInv, Inv
  <1>3. u \in Seq(Record) /\ Bodies(p) = u \o f /\ DOMAIN flushing = Peers
    BY BodiesType DEF OrderInv, Inv, RecordTypes
  <1>4. CASE FlushDrop(p)
    <2>1. /\ flushing' = [flushing EXCEPT ![p] = Tail(f)] /\ r.kind = "data"
          /\ UNCHANGED <<state, wire, deferred, published>>
      BY <1>4 DEF FlushDrop, Dropped
    <2>2. Bodies(p)' = u \o Tail(f) /\ flushing'[q] = flushing[q]
      BY <1>1, <1>3, <2>1 DEF Bodies
    <2>3. Kept(q)
      BY <1>1, <2>1, <2>2, KeptIf
    <2> DEFINE n == Len(u) + 1
               b == Bodies(p)
    <2>4. /\ n \in 1..Len(b) /\ b[n] = r
          /\ u \o Tail(f) = SubSeq(b, 1, n - 1) \o SubSeq(b, n + 1, Len(b))
      <3> HIDE DEF u, f
      <3> QED BY <1>2, <1>3, QueueDrop
    <2> HIDE DEF n, u, f, r
    <2>5. Discards(p)
      BY <1>2, <2>1, <2>2, <2>3, <2>4 DEF Discards, q
    <2> QED BY <2>5 DEF Moves
  <1>5. CASE FlushRotate(p)
    BY <1>2, <1>5, RotateMoves DEF FlushRotate, NeedsRotation, Moves, OrderInv
  <1>6. CASE FlushRecord(p)
    <2>1. CASE ~HasRoom(p, r.kind) \/ (~Barred(p, r.size) /\ snd[p].seq = Exhausted)
      <3>1. (Fail(p, "full") \/ Fail(p, "exhausted")) /\ UNCHANGED wire
        BY <1>6, <2>1 DEF FlushRecord
      <3>2. Breaks(p)
        BY <1>2, <3>1, FailMoves DEF OrderInv, Inv
      <3> QED BY <3>2 DEF Moves
    <2>2. CASE HasRoom(p, r.kind) /\ ~(~Barred(p, r.size) /\ snd[p].seq = Exhausted)
      <3>1. /\ Enqueue(p, r) /\ flushing' = [flushing EXCEPT ![p] = Tail(f)]
            /\ UNCHANGED <<state, published>>
        BY <1>6, <2>2 DEF FlushRecord
      <3> HIDE DEF f, r
      <3>2. /\ Sealed(wire'[p]) \o deferred'[p] = Append(u, r)
            /\ wire'[q] = wire[q] /\ deferred'[q] = deferred[q]
        BY <1>1, <1>2, <3>1, EnqueueMoves DEF OrderInv
      <3>3. flushing'[p] = Tail(f) /\ flushing'[q] = flushing[q]
        BY <1>1, <1>3, <3>1
      <3>4. Kept(q)
        BY <1>1, <3>2, <3>3, KeptIf
      <3>5. Bodies(p)' = Append(u, r) \o Tail(f)
        BY <3>2, <3>3 DEF Bodies
      <3> HIDE DEF u
      <3>6. Append(u, r) \o Tail(f) = u \o f
        BY <1>2, <1>3, QueueShift DEF r
      <3>7. Kept(p)
        BY <1>3, <3>5, <3>6 DEF Kept
      <3> QED BY <1>1, <3>1, <3>4, <3>7 DEF Stutters, Moves
    <2> QED BY <2>1, <2>2
  <1> QED BY <1>4, <1>5, <1>6 DEF Flush

\* The receive pump hands over the oldest record of its peer.
LEMMA RecordMoves ==
    ASSUME OrderInv, NEW p \in Peers, ReceiveRecord(p)
    PROVE  Moves
  <1> DEFINE q == Other(p)
             w == wire[q]
             m == Head(w)
             a == Sealed(Tail(w))
             d == deferred[q]
             f == flushing[q]
  <1>1. q \in Peers /\ q # p /\ Other(q) = p
    BY TwoPeers
  <1>2. Receiving(p, "record") /\ Inv
    BY DEF ReceiveRecord, OrderInv
  <1>3. w \in Seq(Message) /\ w # <<>> /\ m.type = "record" /\ Acceptable(p, m)
    BY <1>2, HeadAccepted
  <1>4. /\ wire' = [wire EXCEPT ![q] = Tail(w)]
        /\ UNCHANGED <<state, deferred, flushing, published>>
    BY <1>3 DEF ReceiveRecord, Taken
  <1>5. wire'[q] = Tail(w) /\ wire'[p] = wire[p]
    BY <1>1, <1>2, <1>4 DEF Inv, RecordTypes
  <1>6. Tail(w) \in Seq(Message) /\ m \in Message
    BY <1>3, TailFacts
  <1>7. m.body \in Record
    BY <1>3, <1>6, BodyIsRecord
  <1>8. Sealed(w) = <<m.body>> \o a /\ a \in Seq(Record)
    BY <1>3, <1>6, SealedTail, SealedType
  <1>9. d \in Seq(Record) /\ f \in Seq(Record) /\ Bodies(q) = (Sealed(w) \o d) \o f
    BY <1>1, <1>2, BodiesType DEF Inv
  <1>10. Bodies(q)' = (a \o d) \o f
    BY <1>4, <1>5 DEF Bodies
  <1> DEFINE h == <<m.body>>
             b == (a \o d) \o f
  <1>11. h \in Seq(Record) /\ h = <<m.body>>
    BY <1>7
  <1>12. b \in Seq(Record) /\ a \o d \in Seq(Record)
    BY <1>8, <1>9, ConcatProperties
  <1> HIDE DEF a, d, f, h, w
  <1>13. ((h \o a) \o d) \o f = h \o b
    <2>1. (h \o a) \o d = h \o (a \o d)
      BY <1>8, <1>9, <1>11, ConcatAssociative
    <2>2. \A x \in Seq(Record) : (h \o x) \o f = h \o (x \o f)
      BY <1>9, <1>11, ConcatAssociative
    <2> QED BY <1>12, <2>1, <2>2
  <1>14. Bodies(q) = h \o b
    BY <1>8, <1>9, <1>11, <1>13
  <1> HIDE DEF b
  <1>15. Bodies(q) # <<>> /\ Tail(Bodies(q)) = b
    BY <1>7, <1>11, <1>12, <1>14, QueueTail
  <1>16. Kept(p)
    BY <1>4, <1>5, KeptIf
  <1>17. HandsOver(q)
    BY <1>1, <1>4, <1>10, <1>15, <1>16 DEF HandsOver, b
  <1> QED BY <1>1, <1>17 DEF Moves
\* A REKEY_INIT and its ACK are no records; the failing branch breaks the queue.
LEMMA RekeyInitMoves ==
    ASSUME OrderInv, NEW p \in Peers, ReceiveInit(p)
    PROVE  Moves
  <1> DEFINE q == Other(p)
             w == wire[q]
             m == Head(w)
             ack == [type |-> "ack", next |-> m.next]
             v == Append(wire[p], ack)
             i == InitRecord(p)
  <1>1. q \in Peers /\ q # p /\ \A x \in Peers : x = p \/ x = q
    BY TwoPeers
  <1>2. Receiving(p, "init") /\ Inv
    BY DEF ReceiveInit, OrderInv
  <1>3. w \in Seq(Message) /\ w # <<>> /\ m.type = "init" /\ Acceptable(p, m)
    BY <1>2, HeadAccepted
  <1>4. m \in Message
    BY <1>3, TailFacts
  <1>5. ack \in Message /\ ack.type = "ack"
    <2>1. m.next \in 1..MaxEpoch
      BY <1>3, <1>4 DEF Message, Protected, Bare
    <2> QED BY <2>1 DEF Message, Bare
  <1>6. /\ wire[p] \in Seq(Message) /\ v \in Seq(Message) /\ snd[p] \in Outbound
        /\ state[p] = "Active" /\ DOMAIN wire = Peers
    BY <1>2, <1>5, PeerTypes, AppendFacts DEF Inv, RecordTypes, Receiving, Idle
  <1>7. Sealed(Tail(w)) = Sealed(w)
    BY <1>3, SealedTail
  <1>8. Sealed(v) = Sealed(wire[p])
    BY <1>5, <1>6, SealedAppend
  <1>9. CASE /\ wire' = [Taken(p) EXCEPT ![p] = Append(@, ack)]
             /\ \/ Fail(p, "exhausted")
                \/ UNCHANGED <<state, deferred, flushing, published>>
    <2>1. wire'[p] = v /\ wire'[q] = Tail(w)
      BY <1>1, <1>6, <1>9 DEF Taken
    <2>2. \A x \in Peers : Sealed(wire'[x]) = Sealed(wire[x])
      BY <1>1, <1>7, <1>8, <2>1
    <2>3. CASE Fail(p, "exhausted")
      BY <1>2, <1>6, <2>2, <2>3, FailMoves DEF Moves, Inv
    <2>4. CASE UNCHANGED <<state, deferred, flushing, published>>
      <3>1. \A x \in Peers : Kept(x)
        BY <2>2, <2>4, KeptIf
      <3> QED BY <2>4, <3>1 DEF Stutters, Moves
    <2> QED BY <1>9, <2>3, <2>4
  <1>10. CASE /\ AgedBy(snd[p]) /\ HasRekeyCapacity(p) /\ snd[p].seq # Exhausted
              /\ wire' = [[Taken(p) EXCEPT ![p] = Append(@, ack)]
                             EXCEPT ![p] = Append(@, i)]
              /\ UNCHANGED <<state, deferred, flushing, published>>
    <2>1. wire'[p] = Append(v, i) /\ wire'[q] = Tail(w)
      BY <1>1, <1>6, <1>10 DEF Taken
    <2>2. i \in Message /\ i.type = "init"
      <3>1. i = [type |-> "init", epoch |-> snd[p].epoch, seq |-> snd[p].seq,
                 next |-> snd[p].epoch + 1]
        BY DEF InitRecord
      <3>2. i \in Protected
        BY <1>6, <1>10, <3>1, BeginMeets DEF AgedBy, HasRekeyCapacity
      <3> QED BY <3>1, <3>2 DEF Message
    <2>3. Sealed(Append(v, i)) = Sealed(v)
      BY <1>6, <2>2, SealedAppend
    <2>4. \A x \in Peers : Sealed(wire'[x]) = Sealed(wire[x])
      BY <1>1, <1>7, <1>8, <2>1, <2>3
    <2>5. \A x \in Peers : Kept(x)
      BY <1>10, <2>4, KeptIf
    <2> QED BY <1>10, <2>5 DEF Stutters, Moves
  <1> QED BY <1>3, <1>9, <1>10 DEF ReceiveInit

\* process_rekey_ack hands the deferred records to the flush.
LEMMA AckMoves ==
    ASSUME OrderInv, NEW p \in Peers, ReceiveAck(p)
    PROVE  Moves
  <1> DEFINE q == Other(p)
             w == wire[q]
             m == Head(w)
             a == Sealed(wire[p])
             d == deferred[p]
  <1>1. q \in Peers /\ q # p /\ \A x \in Peers : x = p \/ x = q
    BY TwoPeers
  <1>2. Receiving(p, "ack") /\ Inv
    BY DEF ReceiveAck, OrderInv
  <1>3. w \in Seq(Message) /\ w # <<>> /\ m.type = "ack" /\ Acceptable(p, m)
    BY <1>2, HeadAccepted
  <1>4. /\ flushing' = [flushing EXCEPT ![p] = d]
        /\ deferred' = [deferred EXCEPT ![p] = <<>>]
        /\ wire' = [wire EXCEPT ![q] = Tail(w)]
        /\ UNCHANGED <<state, published>>
    BY <1>3 DEF ReceiveAck, Taken
  <1>5. /\ flushing'[p] = d /\ flushing'[q] = flushing[q]
        /\ deferred'[p] = <<>> /\ deferred'[q] = deferred[q]
        /\ wire'[q] = Tail(w) /\ wire'[p] = wire[p] /\ flushing[p] = <<>>
    BY <1>1, <1>2, <1>4 DEF Inv, RecordTypes, Receiving, Idle
  <1>6. Sealed(Tail(w)) = Sealed(w)
    BY <1>3, SealedTail
  <1>7. Kept(q)
    BY <1>1, <1>5, <1>6, KeptIf
  <1>8. a \in Seq(Record) /\ d \in Seq(Record) /\ a \o d \in Seq(Record)
    BY <1>2, BodiesType DEF Inv
  <1>9. Bodies(p) = (a \o d) \o <<>> /\ Bodies(p)' = (a \o <<>>) \o d
    BY <1>5 DEF Bodies
  <1> HIDE DEF a, d
  <1>10. (a \o d) \o <<>> = a \o d /\ a \o <<>> = a
    BY <1>8, ConcatEmptySeq
  <1>11. Kept(p)
    BY <1>9, <1>10 DEF Kept
  <1> QED BY <1>1, <1>4, <1>7, <1>11 DEF Stutters, Moves

\* So is every step of the record layer.
LEMMA NextMoves ==
    ASSUME OrderInv, Interleave = FALSE, [Next]_vars
    PROVE  Moves
  <1>1. CASE UNCHANGED vars
    <2>1. \A x \in Peers : Kept(x)
      BY <1>1, KeptIf DEF vars
    <2> QED BY <1>1, <2>1 DEF vars, Stutters, Moves
  <1>2. ASSUME NEW p \in Peers, Send(p) PROVE Moves
    BY <1>2, SendMoves
  <1>3. ASSUME NEW p \in Peers, Flush(p) PROVE Moves
    BY <1>3, FlushMoves
  <1>4. ASSUME NEW p \in Peers, Receive(p) PROVE Moves
    BY <1>4, RecordMoves, RekeyInitMoves, AckMoves DEF Receive
  <1>5. ASSUME NEW p \in Peers, Age(p) \/ DeadlinePasses(p) PROVE Moves
    <2>1. UNCHANGED <<state, deferred, flushing, wire, published>>
      BY <1>5 DEF Age, DeadlinePasses
    <2>2. \A x \in Peers : Kept(x)
      BY <2>1, KeptIf
    <2> QED BY <2>1, <2>2 DEF Stutters, Moves
  <1>6. ASSUME NEW p \in Peers, ExpireRekey(p) \/ CarrierEnds(p) PROVE Moves
    <2>1. /\ state[p] = "Active" /\ UNCHANGED wire
          /\ Fail(p, "deadline") \/ Fail(p, "carrier")
      BY <1>6 DEF ExpireRekey, CarrierEnds, Idle
    <2> QED BY <2>1, FailMoves DEF Moves, OrderInv, Inv
  <1> QED BY <1>1, <1>2, <1>3, <1>4, <1>5, <1>6 DEF Next

\* deferred records exist only while a rotation is pending.
LEMMA NextWaits ==
    ASSUME OrderInv, [Next]_vars
    PROVE  \A x \in Peers : Waits(x)'
  <1>1. RecordTypes /\ \A x \in Peers : Waits(x)
    BY DEF OrderInv, Inv
  <1>2. /\ DOMAIN deferred = Peers /\ DOMAIN snd = Peers
        /\ \A x \in Peers : snd[x] \in Outbound
    BY <1>1 DEF RecordTypes
  <1>3. ASSUME NEW p \in Peers, NEW reason, Fail(p, reason)
        PROVE  \A x \in Peers : Waits(x)'
    BY <1>1, <1>2, <1>3 DEF Waits, Fail
  <1>4. ASSUME NEW p \in Peers, StartRekey(p)
        PROVE  \A x \in Peers : Waits(x)'
    <2>1. CASE snd[p].seq = Exhausted
      BY <1>3, <1>4, <2>1 DEF StartRekey
    <2>2. CASE snd[p].seq # Exhausted
      <3>1. snd' = [snd EXCEPT ![p] = BeginRekey(@)] /\ deferred' = deferred
        BY <1>4, <2>2 DEF StartRekey
      <3>2. BeginRekey(snd[p]).pending
        BY <1>2 DEF BeginRekey, Outbound
      <3> QED BY <1>1, <1>2, <3>1, <3>2 DEF Waits
    <2> QED BY <2>1, <2>2
  <1>5. ASSUME NEW p \in Peers, Rotate(p) PROVE \A x \in Peers : Waits(x)'
    BY <1>3, <1>4, <1>5 DEF Rotate
  <1>6. ASSUME NEW p \in Peers, NEW r, Enqueue(p, r)
        PROVE  \A x \in Peers : Waits(x)'
    <2>1. CASE Barred(p, r.size)
      BY <1>1, <1>2, <1>6, <2>1 DEF Enqueue, Barred, Waits
    <2>2. CASE ~Barred(p, r.size)
      <3>1. snd' = [snd EXCEPT ![p] = Seal(@, r.size)] /\ deferred' = deferred
        BY <1>6, <2>2 DEF Enqueue
      <3>2. Seal(snd[p], r.size).pending = snd[p].pending
        BY <1>2 DEF Seal, Outbound
      <3> QED BY <1>1, <1>2, <3>1, <3>2 DEF Waits
    <2> QED BY <2>1, <2>2
  <1>7. ASSUME NEW p \in Peers, Send(p) PROVE \A x \in Peers : Waits(x)'
    <2>1. CASE CloseStream(p) \/ SendCompletes(p)
      BY <1>1, <2>1 DEF CloseStream, SendCompletes, Waits
    <2>2. CASE OwedControlFails(p)
      BY <1>3, <2>2 DEF OwedControlFails
    <2> QED BY <1>4, <1>5, <1>6, <1>7, <2>1, <2>2
            DEF Send, RequestRekey, RotateAged, RotateForSend, Publish
  <1>8. ASSUME NEW p \in Peers, Flush(p) PROVE \A x \in Peers : Waits(x)'
    <2>1. CASE FlushDrop(p)
      BY <1>1, <2>1 DEF FlushDrop, Waits
    <2> QED BY <1>3, <1>5, <1>6, <1>8, <2>1 DEF Flush, FlushRotate, FlushRecord
  <1>9. ASSUME NEW p \in Peers, Receive(p) PROVE \A x \in Peers : Waits(x)'
    <2>1. ASSUME UNCHANGED <<snd, deferred>> PROVE \A x \in Peers : Waits(x)'
      BY <1>1, <2>1 DEF Waits
    <2>2. CASE ReceiveRecord(p)
      BY <1>3, <2>1, <2>2 DEF ReceiveRecord, Refuse
    <2>3. CASE ReceiveInit(p)
      <3>1. CASE snd' = [snd EXCEPT ![p] = BeginRekey(@)] /\ deferred' = deferred
        <4>1. BeginRekey(snd[p]).pending
          BY <1>2 DEF BeginRekey, Outbound
        <4> QED BY <1>1, <1>2, <3>1, <4>1 DEF Waits
      <3> QED BY <1>3, <2>1, <2>3, <3>1 DEF ReceiveInit, Refuse
    <2>4. CASE ReceiveAck(p)
      <3>1. CASE /\ snd' = [snd EXCEPT ![p] = FinishRekey(@)]
                 /\ deferred' = [deferred EXCEPT ![p] = <<>>]
        BY <1>1, <1>2, <3>1 DEF Waits
      <3> QED BY <1>3, <2>4, <3>1 DEF ReceiveAck, Refuse
    <2> QED BY <1>9, <2>2, <2>3, <2>4 DEF Receive
  <1>10. ASSUME NEW p \in Peers, Age(p) \/ DeadlinePasses(p)
         PROVE  \A x \in Peers : Waits(x)'
    <2>1. snd'[p].pending = snd[p].pending /\ deferred' = deferred
          /\ \A x \in Peers : x # p => snd'[x] = snd[x]
      BY <1>2, <1>10 DEF Age, DeadlinePasses, Outbound
    <2> QED BY <1>1, <2>1 DEF Waits
  <1>11. ASSUME NEW p \in Peers, ExpireRekey(p) \/ CarrierEnds(p)
         PROVE  \A x \in Peers : Waits(x)'
    BY <1>3, <1>11 DEF ExpireRekey, CarrierEnds
  <1>12. CASE UNCHANGED vars
    BY <1>1, <1>12 DEF vars, Waits
  <1> QED BY <1>7, <1>8, <1>9, <1>10, <1>11, <1>12 DEF Next
\* Identifiers stay below the publication counter.
LEMMA MovesFresh ==
    ASSUME OrderInv, Moves
    PROVE  \A x \in Peers : Fresh(x)'
  <1>1. ASSUME NEW x \in Peers
        PROVE  /\ Bodies(x) \in Seq(Record) /\ Len(Bodies(x)) \in Nat
               /\ published[x] \in Nat
               /\ \A i \in 1..Len(Bodies(x)) :
                     Bodies(x)[i].id \in Nat /\ Bodies(x)[i].id <= published[x]
    <2>1. Bodies(x) \in Seq(Record) /\ Fresh(x) /\ published[x] \in Nat
      BY BodiesType, BudgetBound DEF OrderInv, Inv, RecordTypes
    <2>2. \A r \in Record : r.id \in Nat
      BY BudgetBound DEF Record
    <2> HIDE DEF Bodies
    <2> QED BY <2>1, <2>2 DEF Fresh
  <1>2. ASSUME NEW x \in Peers, Kept(x), published'[x] = published[x]
        PROVE  Fresh(x)'
    BY <1>1, <1>2 DEF Kept, Fresh
  <1>3. CASE Stutters
    BY <1>2, <1>3 DEF Stutters
  <1>4. ASSUME NEW p \in Peers, Publishes(p) PROVE \A x \in Peers : Fresh(x)'
    <2> DEFINE q == Other(p)
               b == Bodies(p)
    <2>1. q \in Peers /\ q # p /\ \A x \in Peers : x = p \/ x = q
      BY TwoPeers
    <2>2. PICK r \in Record :
              /\ r.id = published[p] + 1
              /\ published' = [published EXCEPT ![p] = @ + 1]
              /\ Bodies(p)' = Append(b, r) /\ Kept(q)
      BY <1>4 DEF Publishes
    <2>3. DOMAIN published = Peers
      BY DEF OrderInv, Inv, RecordTypes
    <2>4. published'[p] = published[p] + 1 /\ published'[q] = published[q]
      BY <2>1, <2>2, <2>3
    <2>5. Fresh(q)'
      BY <1>2, <2>1, <2>2, <2>4
    <2>6. /\ b \in Seq(Record) /\ Len(b) \in Nat /\ published[p] \in Nat
          /\ \A i \in 1..Len(b) : b[i].id \in Nat /\ b[i].id <= published[p]
      BY <1>1
    <2> HIDE DEF b
    <2> DEFINE c == Append(b, r)
    <2>7. /\ Len(c) = Len(b) + 1 /\ c[Len(b) + 1] = r
          /\ \A i \in 1..Len(b) : c[i] = b[i]
      BY <2>6, AppendProperties
    <2> HIDE DEF c
    <2>8. \A i \in 1..Len(c) : c[i].id <= published[p] + 1
      BY <2>2, <2>6, <2>7
    <2>9. Fresh(p)'
      BY <2>2, <2>4, <2>8 DEF Fresh, c
    <2> QED BY <2>1, <2>5, <2>9
  <1>5. ASSUME NEW p \in Peers, published' = published, Kept(Other(p)),
               \A i \in 1..Len(Bodies(p)') :
                  \E j \in 1..Len(Bodies(p)) : Bodies(p)'[i] = Bodies(p)[j]
        PROVE  \A x \in Peers : Fresh(x)'
    <2>1. Fresh(Other(p))'
      BY <1>2, <1>5, TwoPeers
    <2>2. Fresh(p)'
      BY <1>1, <1>5 DEF Fresh
    <2> QED BY <2>1, <2>2, TwoPeers
  <1>6. ASSUME NEW p \in Peers, HandsOver(p) PROVE \A x \in Peers : Fresh(x)'
    <2> DEFINE b == Bodies(p)
               c == Tail(b)
    <2>1. b \in Seq(Record) /\ b # <<>> /\ Len(b) \in Nat
      BY <1>1, <1>6 DEF HandsOver
    <2>2. Bodies(p)' = c /\ published' = published /\ Kept(Other(p))
      BY <1>6 DEF HandsOver
    <2> HIDE DEF b
    <2>3. Len(c) = Len(b) - 1 /\ \A i \in 1..Len(c) : c[i] = b[i + 1]
      BY <2>1, HeadTailProperties
    <2>4. \A i \in 1..Len(c) : i + 1 \in 1..Len(b)
      BY <2>1, <2>3
    <2>5. \A i \in 1..Len(c) : \E j \in 1..Len(b) : c[i] = b[j]
      BY <2>3, <2>4
    <2>6. \A i \in 1..Len(Bodies(p)') :
             \E j \in 1..Len(Bodies(p)) : Bodies(p)'[i] = Bodies(p)[j]
      BY <2>2, <2>5 DEF b
    <2> QED BY <1>5, <2>2, <2>6
  <1>7. ASSUME NEW p \in Peers, Breaks(p) PROVE \A x \in Peers : Fresh(x)'
    <2> DEFINE b == Bodies(p)
    <2>1. b \in Seq(Record) /\ Len(b) \in Nat
      BY <1>1
    <2>2. PICK n \in 0..Len(b) :
            Bodies(p)' = SubSeq(b, 1, n) /\ published' = published /\ Kept(Other(p))
      BY <1>7 DEF Breaks
    <2> HIDE DEF b
    <2> DEFINE c == SubSeq(b, 1, n)
    <2>3. n \in Int /\ 1 \in Int /\ \A i \in 1..n : b[i] \in Record
      BY <2>1
    <2>4. /\ Len(c) = IF 1 <= n THEN n - 1 + 1 ELSE 0
          /\ \A i \in 1..(n - 1 + 1) : c[i] = b[1 + i - 1]
      BY <2>3, SubSeqProperties
    <2>5. ASSUME NEW i \in 1..Len(c) PROVE \E j \in 1..Len(b) : c[i] = b[j]
      <3>1. i \in 1..(n - 1 + 1) /\ 1 + i - 1 = i /\ i \in 1..Len(b)
        BY <2>1, <2>3, <2>4
      <3> QED BY <2>4, <3>1
    <2>6. \A i \in 1..Len(Bodies(p)') :
             \E j \in 1..Len(Bodies(p)) : Bodies(p)'[i] = Bodies(p)[j]
      BY <2>2, <2>5 DEF b
    <2> QED BY <1>5, <2>2, <2>6
  <1>8. ASSUME NEW p \in Peers, Discards(p) PROVE \A x \in Peers : Fresh(x)'
    <2> DEFINE b == Bodies(p)
    <2>1. b \in Seq(Record) /\ Len(b) \in Nat
      BY <1>1
    <2>2. PICK n \in 1..Len(b) :
            /\ Bodies(p)' = SubSeq(b, 1, n - 1) \o SubSeq(b, n + 1, Len(b))
            /\ published' = published /\ Kept(Other(p))
      BY <1>8 DEF Discards
    <2> HIDE DEF b
    <2> DEFINE s == SubSeq(b, 1, n - 1)
               t == SubSeq(b, n + 1, Len(b))
               c == s \o t
    <2>3. /\ n - 1 \in Int /\ 1 \in Int /\ n + 1 \in Int /\ Len(b) \in Int
          /\ \A i \in 1..(n - 1) : b[i] \in Record
          /\ \A i \in (n + 1)..Len(b) : b[i] \in Record
      BY <2>1
    <2>4. /\ s \in Seq(Record) /\ Len(s) = IF 1 <= n - 1 THEN (n - 1) - 1 + 1 ELSE 0
          /\ \A i \in 1..((n - 1) - 1 + 1) : s[i] = b[1 + i - 1]
      BY <2>3, SubSeqProperties
    <2>5. /\ t \in Seq(Record)
          /\ Len(t) = IF n + 1 <= Len(b) THEN Len(b) - (n + 1) + 1 ELSE 0
          /\ \A i \in 1..(Len(b) - (n + 1) + 1) : t[i] = b[(n + 1) + i - 1]
      BY <2>3, SubSeqProperties
    <2> HIDE DEF s, t
    <2>6. /\ Len(c) = Len(s) + Len(t)
          /\ \A i \in 1..(Len(s) + Len(t)) :
                c[i] = IF i <= Len(s) THEN s[i] ELSE t[i - Len(s)]
      BY <2>4, <2>5, ConcatProperties
    <2> HIDE DEF c
    <2>7. ASSUME NEW i \in 1..Len(s) PROVE \E j \in 1..Len(b) : s[i] = b[j]
      <3>1. i \in 1..((n - 1) - 1 + 1) /\ 1 + i - 1 = i /\ i \in 1..Len(b)
        BY <2>1, <2>3, <2>4
      <3> QED BY <2>4, <3>1
    <2>8. ASSUME NEW i \in 1..Len(t) PROVE \E j \in 1..Len(b) : t[i] = b[j]
      <3>1. i \in 1..(Len(b) - (n + 1) + 1) /\ (n + 1) + i - 1 \in 1..Len(b)
        BY <2>1, <2>3, <2>5
      <3> QED BY <2>5, <3>1
    <2>9. ASSUME NEW i \in 1..Len(c) PROVE \E j \in 1..Len(b) : c[i] = b[j]
      <3>1. Len(s) \in Nat /\ Len(t) \in Nat
        BY <2>4, <2>5
      <3>2. CASE i <= Len(s)
        BY <2>6, <2>7, <3>1, <3>2
      <3>3. CASE ~(i <= Len(s))
        <4>1. i - Len(s) \in 1..Len(t)
          BY <2>6, <3>1, <3>3
        <4> QED BY <2>6, <2>8, <3>1, <3>3, <4>1
      <3> QED BY <3>2, <3>3
    <2>10. Bodies(p)' = c
      BY <2>2 DEF c, s, t
    <2>11. \A i \in 1..Len(Bodies(p)') :
             \E j \in 1..Len(Bodies(p)) : Bodies(p)'[i] = Bodies(p)[j]
      BY <2>9, <2>10 DEF b
    <2> QED BY <1>5, <2>2, <2>11
  <1> QED BY <1>3, <1>4, <1>6, <1>7, <1>8 DEF Moves

\* Nothing is queued at first.
LEMMA InitOrder == Init => OrderInv
  <1> SUFFICES ASSUME Init PROVE OrderInv
    OBVIOUS
  <1>1. Inv
    BY InitInv
  <1>2. ASSUME NEW p \in Peers PROVE Waits(p) /\ Bodies(p) = <<>>
    <2>1. wire[p] = <<>> /\ deferred[p] = <<>> /\ flushing[p] = <<>>
      BY DEF Init
    <2>2. Sealed(<<>>) = <<>>
      <3>1. <<>> \in Seq(Message) /\ Len(<<>>) = 0
        OBVIOUS
      <3>2. Prefixes(<<>>)[0] = <<>>
        BY <3>1, PrefixesStep
      <3> QED BY <3>1, <3>2 DEF Sealed
    <2>3. <<>> \o <<>> = <<>>
      BY <2>2, ConcatEmptySeq, EmptySeq
    <2> QED BY <2>1, <2>2, <2>3 DEF Waits, Bodies
  <1>3. \A p \in Peers : Waits(p) /\ Fresh(p)
    BY <1>2 DEF Fresh
  <1> QED BY <1>1, <1>3 DEF OrderInv

\* The invariant of the refinement is inductive.
LEMMA NextOrder ==
    ASSUME Interleave = FALSE
    PROVE  OrderInv /\ [Next]_vars => OrderInv'
  <1> SUFFICES ASSUME OrderInv, [Next]_vars PROVE OrderInv'
    OBVIOUS
  <1>1. Inv'
    BY NextInv DEF OrderInv
  <1>2. \A p \in Peers : Fresh(p)'
    BY NextMoves, MovesFresh
  <1>3. \A p \in Peers : Waits(p)'
    BY NextWaits
  <1> QED BY <1>1, <1>2, <1>3 DEF OrderInv
\* Every step of the record layer is a step of the ordered channel.
LEMMA MovesChannel ==
    ASSUME OrderInv, Moves
    PROVE  [Channel!ANext]_(Channel!avars)
  <1> DEFINE Q == [p \in Peers |-> Bodies(p)]
             B == [p \in Peers |-> state[p] = "Failed"]
  <1>1. state \in [Peers -> {"Active", "Failed"}]
    BY DEF OrderInv, Inv, RecordTypes
  <1>2. ASSUME state' = state PROVE B' = B
    BY <1>2
  <1>3. ASSUME NEW p \in Peers, Kept(Other(p))
        PROVE  Q' = [Q EXCEPT ![p] = Bodies(p)']
    <2>1. \A x \in Peers : x # p => Bodies(x)' = Bodies(x)
      BY <1>3, TwoPeers DEF Kept
    <2> HIDE DEF Bodies
    <2> QED BY <2>1
  <1>4. CASE Stutters
    <2>1. Q' = Q
      BY <1>4 DEF Stutters, Kept
    <2> QED BY <1>2, <1>4, <2>1 DEF Stutters, Channel!avars
  <1>5. ASSUME NEW p \in Peers, Publishes(p) PROVE Channel!ANext
    <2>1. PICK r \in Record :
            /\ state[p] = "Active" /\ state' = state
            /\ r.id = published[p] + 1
            /\ Bodies(p)' = Append(Bodies(p), r) /\ Kept(Other(p))
      BY <1>5 DEF Publishes
    <2>2. Bodies(p) \in Seq(Record) /\ Fresh(p) /\ published[p] \in Nat
      BY BodiesType, BudgetBound DEF OrderInv, Inv, RecordTypes
    <2>3. \A i \in DOMAIN Bodies(p) : Bodies(p)[i] # r
      <3> DEFINE b == Bodies(p)
      <3>1. \A i \in 1..Len(b) : b[i] \in Record /\ b[i].id <= published[p]
        BY <2>2 DEF Fresh
      <3>2. \A x \in Record : x.id \in Nat
        BY BudgetBound DEF Record
      <3> HIDE DEF b
      <3>3. \A i \in 1..Len(b) : b[i] # r
        BY <2>1, <2>2, <3>1, <3>2
      <3>4. DOMAIN b = 1..Len(b)
        BY <2>2 DEF b
      <3> QED BY <3>3, <3>4 DEF b
    <2>4. Q[p] = Bodies(p) /\ ~B[p]
      BY <2>1
    <2>5. Q' = [Q EXCEPT ![p] = Append(Q[p], r)] /\ B' = B
      BY <1>2, <1>3, <2>1, <2>4
    <2> HIDE DEF Q, B
    <2>6. Channel!APublish(p, r)
      BY <2>3, <2>4, <2>5 DEF Channel!APublish, Q, B
    <2> QED BY <2>6 DEF Channel!ANext
  <1>6. ASSUME NEW p \in Peers, HandsOver(p) PROVE Channel!ANext
    <2>1. /\ state' = state /\ Bodies(p) # <<>> /\ Kept(Other(p))
          /\ Bodies(p)' = Tail(Bodies(p))
      BY <1>6 DEF HandsOver
    <2>2. Q[p] = Bodies(p)
      OBVIOUS
    <2>3. Q' = [Q EXCEPT ![p] = Tail(Q[p])] /\ B' = B
      BY <1>2, <1>3, <2>1, <2>2
    <2>4. Channel!ADeliver(p)
      BY <2>1, <2>2, <2>3 DEF Channel!ADeliver
    <2> QED BY <2>4 DEF Channel!ANext
  <1>7. ASSUME NEW p \in Peers, Discards(p) PROVE Channel!ANext
    <2>1. PICK i \in 1..Len(Bodies(p)) :
            /\ state[p] = "Active" /\ state' = state
            /\ Bodies(p)[i].kind = "data"
            /\ Bodies(p)' = SubSeq(Bodies(p), 1, i - 1)
                            \o SubSeq(Bodies(p), i + 1, Len(Bodies(p)))
            /\ Kept(Other(p))
      BY <1>7 DEF Discards
    <2>2. Q[p] = Bodies(p) /\ ~B[p] /\ DOMAIN Q = Peers
      BY <2>1
    <2>3. i \in DOMAIN Q[p]
      <3>1. Bodies(p) \in Seq(Record)
        BY BodiesType DEF OrderInv, Inv
      <3> QED BY <2>2, <3>1
    <2>4. Q' = [Q EXCEPT ![p] = SubSeq(Q[p], 1, i - 1)
                               \o SubSeq(Q[p], i + 1, Len(Q[p]))] /\ B' = B
      BY <1>2, <1>3, <2>1, <2>2
    <2>5. Q[p][i].kind = "data"
      BY <2>1, <2>2
    <2>6. Channel!ADrop(p)
      BY <2>2, <2>3, <2>4, <2>5 DEF Channel!ADrop, Channel!RemoveAt
    <2> QED BY <2>6 DEF Channel!ANext
  <1>8. ASSUME NEW p \in Peers, Breaks(p) PROVE Channel!ANext
    <2>1. PICK n \in 0..Len(Bodies(p)) :
            /\ state[p] = "Active" /\ state' = [state EXCEPT ![p] = "Failed"]
            /\ Bodies(p)' = SubSeq(Bodies(p), 1, n)
            /\ Kept(Other(p))
      BY <1>8 DEF Breaks
    <2>2. Q[p] = Bodies(p) /\ ~B[p]
      BY <2>1
    <2>3. Q' = [Q EXCEPT ![p] = SubSeq(Q[p], 1, n)]
      BY <1>3, <2>1, <2>2
    <2>4. B' = [B EXCEPT ![p] = TRUE]
      BY <1>1, <2>1
    <2>5. n \in 0..Len(Q[p])
      BY <2>1, <2>2
    <2>6. Channel!ABreak(p)
      BY <2>2, <2>3, <2>4, <2>5 DEF Channel!ABreak
    <2> QED BY <2>6 DEF Channel!ANext
  <1> QED BY <1>4, <1>5, <1>6, <1>7, <1>8 DEF Moves

\* While no caller publishes into a running flush, the protected record layer
\* with its rotations, deferrals and failures delivers what enqueue_record
\* accepted in publication order, once, and loses only closed streams' data or
\* the unsent tail of a failed side: for all limits, sizes and bounds.
THEOREM RecordLayerImplementsChannel ==
    ASSUME Interleave = FALSE
    PROVE  Spec => ImplementsOrderedChannel
  <1>1. Init => Channel!AInit
    <2> SUFFICES ASSUME Init PROVE Channel!AInit
      OBVIOUS
    <2>1. \A p \in Peers : Bodies(p) = <<>>
      <3>1. ASSUME NEW p \in Peers PROVE Bodies(p) = <<>>
        <4>1. Sealed(wire[p]) = <<>>
          <5>1. <<>> \in Seq(Message) /\ Len(<<>>) = 0 /\ wire[p] = <<>>
            BY DEF Init
          <5>2. Prefixes(<<>>)[0] = <<>>
            BY <5>1, PrefixesStep
          <5> QED BY <5>1, <5>2 DEF Sealed
        <4>2. deferred[p] = <<>> /\ flushing[p] = <<>>
          BY DEF Init
        <4>3. <<>> \o <<>> = <<>>
          BY ConcatEmptySeq, EmptySeq
        <4> QED BY <4>1, <4>2, <4>3 DEF Bodies
      <3> QED BY <3>1
    <2>2. \A p \in Peers : state[p] # "Failed"
      BY DEF Init
    <2> QED BY <2>1, <2>2 DEF Channel!AInit
  <1>2. OrderInv /\ [Next]_vars => [Channel!ANext]_(Channel!avars)
    BY NextMoves, MovesChannel
  <1>3. OrderInv /\ [Next]_vars => OrderInv'
    BY NextOrder
  <1> QED BY <1>1, <1>2, <1>3, InitOrder, PTL
          DEF Spec, ImplementsOrderedChannel, Channel!ASpec
=============================================================================

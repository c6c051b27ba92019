------------------------ MODULE ServerSessionsProofs ------------------------
(***************************************************************************)
(* Proofs about ServerSessions, for any number of loops, slots, identities *)
(* and policies.                                                           *)
(***************************************************************************)
EXTENDS ServerSessions, SequenceTheorems, FiniteSetTheorems,
        WellFoundedInduction, TLAPS

-----------------------------------------------------------------------------
(* Induction over the natural numbers in the form the provers can use: for a *)
(* set of numbers instead of a predicate.                                    *)

\* A set with 0 that is closed under successor holds every natural number.
LEMMA NatSetInduction ==
  ASSUME NEW S, 0 \in S, \A n \in Nat : n \in S => n + 1 \in S
  PROVE  Nat \subseteq S
  <1> DEFINE T == Nat \ S
             R == OpToRel(<, Nat)
  <1>1. SUFFICES ASSUME T # {} PROVE FALSE
    OBVIOUS
  <1>2. IsWellFoundedOn(R, Nat)
    BY NatLessThanWellFounded
  <1>3. \A x, y \in Nat : x < y => <<x, y>> \in R
    BY DEF OpToRel
  <1>4. PICK x \in T : \A y \in T : ~ (<<y, x>> \in R)
    <2> HIDE DEF T, R
    <2>1. T \subseteq Nat BY DEF T
    <2> QED BY <1>1, <1>2, <2>1, WFMin
  <1> HIDE DEF R
  <1>5. x # 0 /\ x \in Nat
    OBVIOUS
  <1>6. x - 1 \in Nat /\ x - 1 < x
    BY <1>5
  <1>7. x - 1 \notin T
    BY <1>3, <1>4, <1>5, <1>6
  <1> QED BY <1>5, <1>6, <1>7

\* A set of natural numbers has a least one.
LEMMA LeastNumber ==
  ASSUME NEW S, S \subseteq Nat, S # {}
  PROVE  \E n \in S : \A m \in S : n <= m
  <1> DEFINE R == OpToRel(<, Nat)
  <1>1. IsWellFoundedOn(R, Nat)
    BY NatLessThanWellFounded
  <1>2. \A n, m \in Nat : n < m => <<n, m>> \in R
    BY DEF OpToRel
  <1>3. PICK n \in S : \A m \in S : ~(<<m, n>> \in R)
    <2> HIDE DEF R
    <2> QED BY <1>1, WFMin
  <1> HIDE DEF R
  <1>4. ASSUME NEW m \in S PROVE n <= m
    <2>1. n \in Nat /\ m \in Nat /\ ~(<<m, n>> \in R)
      BY <1>3
    <2>2. ~(m < n)
      BY <1>2, <2>1
    <2> QED BY <2>1, <2>2
  <1> QED BY <1>3, <1>4

\* Induction up to a bound.
LEMMA UpTo ==
  ASSUME NEW S, NEW m \in Nat, 0 \in S,
         \A n \in Nat : n < m /\ n \in S => n + 1 \in S
  PROVE  \A n \in 0..m : n \in S
  <1> DEFINE T == {n \in Nat : n <= m => n \in S}
  <1>1. 0 \in T
    OBVIOUS
  <1>2. \A n \in Nat : n \in T => n + 1 \in T
    OBVIOUS
  <1>3. Nat \subseteq T
    <2> HIDE DEF T
    <2> QED BY <1>1, <1>2, NatSetInduction
  <1> QED BY <1>3

-----------------------------------------------------------------------------
(* Lanes: what one call of the accept scheduler leaves. *)

ArmedOK(ln, c) == Running(ln, c) /\ ~ln.arming => ln.pending > 0 \/ ln.retry

\* arm() leaves an arming lane that is otherwise the same.
LEMMA ArmedLane ==
    ASSUME NEW ln \in Lane
    PROVE  /\ Armed(ln) \in Lane /\ Armed(ln).arming
           /\ Armed(ln).phase = ln.phase /\ Armed(ln).pending = ln.pending
  BY DEF Armed, Lane

\* defer() leaves a retry, a pending start, or a lane that does not run.
LEMMA DeferredLane ==
    ASSUME NEW ln \in Lane, NEW c \in BOOLEAN, NEW next \in Deferred(ln, c)
    PROVE  /\ next \in Lane /\ next.pending = ln.pending
           /\ next.arming = ln.arming /\ next.again = ln.again
           /\ Running(next, c) => next.pending > 0 \/ next.retry
  <1>1. next = ln \/ next = [ln EXCEPT !.retry = TRUE] \/ next = [ln EXCEPT !.phase = "failed"]
    BY DEF Deferred, Failed
  <1>2. next = ln => ln.retry \/ ~Running(ln, c) \/ ln.pending # 0
    BY DEF Deferred, Failed, Running, Lane
  <1>3. CASE next = ln
    BY <1>2, <1>3, PendingAssumption DEF Lane
  <1>4. CASE next = [ln EXCEPT !.retry = TRUE]
    BY <1>4 DEF Lane
  <1>5. CASE next = [ln EXCEPT !.phase = "failed"]
    BY <1>5 DEF Lane, Running
  <1> QED BY <1>1, <1>3, <1>4, <1>5

\* settled() of a pending start takes it off the count.
LEMMA SettledLane ==
    ASSUME NEW ln \in Lane, NEW c \in BOOLEAN, NEW stopped \in BOOLEAN,
           NEW ok \in BOOLEAN, ln.pending > 0,
           NEW next \in Settled(ln, c, stopped, ok)
    PROVE  /\ next \in Lane /\ next.pending = ln.pending - 1
           /\ ArmedOK(next, c)
  <1> DEFINE less == [ln EXCEPT !.pending = IF @ = 0 THEN 0 ELSE @ - 1]
  <1>1. /\ less \in Lane /\ less.pending = ln.pending - 1
        /\ less.phase = ln.phase /\ less.arming = ln.arming
    BY PendingAssumption DEF Lane
  <1>2. next \in (IF ~Running(less, c) THEN {less}
                  ELSE IF ok THEN {Armed(less)}
                  ELSE IF stopped THEN {Failed(less)}
                  ELSE Deferred(less, c) \cup {Armed(less)})
    BY DEF Settled
  <1> HIDE DEF less
  <1>3. CASE next = less /\ ~Running(less, c)
    BY <1>1, <1>3 DEF ArmedOK
  <1>4. CASE next = Armed(less)
    BY <1>1, <1>4, ArmedLane DEF ArmedOK
  <1>5. CASE next = Failed(less) /\ Running(less, c)
    BY <1>1, <1>5 DEF Failed, Running, ArmedOK, Lane
  <1>6. CASE next \in Deferred(less, c)
    BY <1>1, <1>6, DeferredLane DEF ArmedOK
  <1> QED BY <1>2, <1>3, <1>4, <1>5, <1>6

\* What the arming pass counts is within the lane's bound.
LEMMA StartingLane ==
    ASSUME NEW ln \in Lane, NEW c \in BOOLEAN, Wants(ln, c)
    PROVE  /\ Starting(ln) \in Lane /\ Starting(ln).pending = ln.pending + 1
           /\ Starting(ln).arming = ln.arming /\ Starting(ln).phase = ln.phase
           /\ Starting(ln).retry = ln.retry
  BY PendingAssumption DEF Wants, Starting, Lane

\* A refused start is counted and taken off again.
LEMMA RefusedLane ==
    ASSUME NEW ln \in Lane, NEW c \in BOOLEAN, Wants(ln, c),
           NEW next \in Refused(Starting(ln), c)
    PROVE  /\ next \in Lane /\ next.pending = ln.pending
           /\ ArmedOK(next, c)
  <1> DEFINE less == [Starting(ln) EXCEPT !.pending = @ - 1]
  <1>1. /\ less \in Lane /\ less.pending = ln.pending /\ Running(less, c)
    BY StartingLane, PendingAssumption DEF Lane, Running, Wants
  <1>2. PICK d \in Deferred(less, c) : next = PassEnds(d)
    BY DEF Refused, Wants, Running
  <1> HIDE DEF less
  <1>3. /\ d \in Lane /\ d.pending = ln.pending
        /\ Running(d, c) => d.pending > 0 \/ d.retry
    BY <1>1, DeferredLane
  <1>4. /\ next \in Lane /\ next.pending = d.pending
        /\ next.phase = d.phase /\ next.retry = d.retry
    BY <1>2, <1>3 DEF PassEnds, Lane
  <1> QED BY <1>3, <1>4 DEF ArmedOK, Running

\* A pass that ends leaves a pending start, a retry or no more rounds to run.
LEMMA PassEndsLane ==
    ASSUME NEW ln \in Lane, NEW c \in BOOLEAN, ~Wants(ln, c)
    PROVE  /\ PassEnds(ln) \in Lane /\ PassEnds(ln).pending = ln.pending
           /\ ArmedOK(PassEnds(ln), c)
  <1>1. /\ PassEnds(ln) \in Lane /\ PassEnds(ln).pending = ln.pending
        /\ PassEnds(ln).phase = ln.phase /\ PassEnds(ln).retry = ln.retry
    BY DEF PassEnds, Lane
  <1>2. Running(ln, c) => ln.retry \/ ln.pending > 0
    BY PendingAssumption DEF Wants, Lane
  <1> QED BY <1>1, <1>2 DEF ArmedOK, Running
-----------------------------------------------------------------------------
(* The types of the state. *)

SlotRecord == [gen : 0..MaxSessions, starting : BOOLEAN, held : BOOLEAN,
               id : Ids \cup {NoId}, evicted : BOOLEAN]
EngineRecord == [st : {"none", "active", "stopping", "closed"}, loop : Loops, slot : Slots]
EntryRecord == [loop : Loops, slot : Slots, gen : 1..MaxSessions,
                id : Ids, replaced : BOOLEAN]
Notices == [kind : {"ended"}, slot : Slots, gen : 1..MaxSessions]
Letters == [kind : {"close", "sweep", "replace", "stop"}] \cup Notices

Rounds == [pc : {"fanout", "closing"}, todo : SUBSET Loops]
Afters == {t \in Rounds : t.pc = "fanout"} \cup {Idle}
Trims == [pc : {"trim"}, limit : Nat, then : Afters, ids : SUBSET Ids]
Watches == [pc : {"watch", "policy"}, slot : Slots]
Admits == [pc : {"admit"}, slot : Slots, limit : Nat]
TellsReport == [pc : {"tell"}, then : {"report"}, owners : SUBSET Loops]
TellsTrim == [pc : {"tell"}, then : {"trim"}, trim : Trims, owners : SUBSET Loops]

\* A session that is being established, and a start not yet reported.
Establishing(t) == t.pc \in {"watch", "policy", "admit"}
Reporting(t) == Establishing(t) \/ (t.pc = "tell" /\ t.then = "report")

TaskOK(t) ==
    /\ t.pc \in {"idle", "launch", "watch", "policy", "admit", "tell", "replace",
                 "trim", "reload", "fanout", "closing"}
    /\ t.pc \in {"watch", "policy"} => t \in Watches
    /\ t.pc = "admit" => t \in Admits
    /\ t.pc = "tell" => t \in TellsReport \/ t \in TellsTrim
    /\ t.pc = "trim" => t \in Trims
    /\ t.pc \in {"fanout", "closing"} => t \in Rounds

Tasks == task = [l \in Loops |-> task[l]] /\ \A l \in Loops : TaskOK(task[l])
Post ==
    /\ served \in BOOLEAN
    /\ mail \in [Loops -> Seq(Letters)]
    /\ marked \in [Loops -> BOOLEAN]
    /\ door \in [Loops -> BOOLEAN]
    /\ runtime \in [closing : BOOLEAN, claimed : BOOLEAN, stopped : BOOLEAN]
Rooms ==
    /\ slot \in [Loops -> [Slots -> SlotRecord]]
    /\ engine \in [1..MaxSessions -> EngineRecord]
    /\ sessions \in 0..MaxSessions
Books == registry \in Seq(EntryRecord) /\ policy \in Policies \cup {FirstPolicy}

(***************************************************************************)
(* The parts of the invariant.  A lane counts its starts exactly; what a   *)
(* slot holds and what an engine says of its place agree; a notice in the  *)
(* mail is of an engine that has closed; the registry lists what the slots *)
(* hold except for the session that a loop is just establishing; and a     *)
(* closing loop has its close task ahead or is dark already.               *)
(***************************************************************************)
Lanes ==
    /\ lane \in [Loops -> Lane]
    /\ closing \in [Loops -> BOOLEAN]
    /\ \A l \in Loops : ArmedOK(lane[l], closing[l])

Pending(l) == {s \in Slots : slot[l][s].starting}
Counted ==
    \A l \in Loops :
      lane[l].pending = Cardinality(Pending(l)) + IF Reporting(task[l]) THEN 1 ELSE 0

Making(l, s) == Establishing(task[l]) /\ task[l].slot = s

Placed(l, s) ==
    /\ slot[l][s].starting => ~slot[l][s].held
    /\ slot[l][s].held => /\ slot[l][s].gen \in 1..sessions
                          /\ slot[l][s].id \in Ids
                          /\ engine[slot[l][s].gen].loop = l
                          /\ engine[slot[l][s].gen].slot = s
                          /\ l \in ActiveLoops
    /\ Making(l, s) => slot[l][s].held

Owned(g) ==
    /\ engine[g].st = "active" =>
         /\ slot[engine[g].loop][engine[g].slot].held
         /\ slot[engine[g].loop][engine[g].slot].gen = g
    /\ g > sessions => engine[g].st = "none"

Held ==
    /\ \A l \in Loops, s \in Slots : Placed(l, s)
    /\ \A g \in 1..MaxSessions : Owned(g)

Noticed ==
    \A l \in Loops : \A n \in ToSet(mail[l]) :
      n.kind = "ended" => engine[n.gen].st = "closed"

Names(e, l, s) ==
    e.loop = l /\ e.slot = s /\ e.gen = slot[l][s].gen /\ e.id = slot[l][s].id

\* What a slot holds is listed, but for a session being established;
SlotListed(l, s) ==
    slot[l][s].held /\ ~Making(l, s) => \E i \in DOMAIN registry : Names(registry[i], l, s)

\* and what is listed is held.
EntryHeld(i) ==
    /\ slot[registry[i].loop][registry[i].slot].held
    /\ ~Making(registry[i].loop, registry[i].slot)
    /\ Names(registry[i], registry[i].loop, registry[i].slot)

Listed ==
    served => /\ \A l \in Loops, s \in Slots : SlotListed(l, s)
              /\ \A i \in DOMAIN registry : EntryHeld(i)

Dark(l) == ~door[l] /\ \A s \in Slots : ~Active(l, s)
CloseQueued(l) == Task("close") \in ToSet(mail[l])
Closes ==
    /\ \A l \in Loops : closing[l] => CloseQueued(l) \/ Dark(l)
    /\ runtime.closing => \A l \in ActiveLoops :
         closing[l] \/ (At(Main, "closing") /\ l \in task[Main].todo)

Types == Tasks /\ Post /\ Rooms /\ Books
Inv == Types /\ Lanes /\ Counted /\ Held /\ Noticed /\ Listed /\ Closes

-----------------------------------------------------------------------------
(* Mail. *)

\* The tasks of the runtime are letters, and no notices.
LEMMA TaskLetters ==
    ASSUME NEW k \in {"close", "sweep", "replace", "stop"}
    PROVE  Task(k) \in Letters /\ Task(k).kind = k
  BY DEF Task, Letters

\* What Append adds to a queue.
LEMMA AppendQueue ==
    ASSUME NEW T, NEW q \in Seq(T), NEW e \in T
    PROVE  Append(q, e) \in Seq(T) /\ ToSet(Append(q, e)) = ToSet(q) \cup {e}
  <1>1. /\ Len(Append(q, e)) = Len(q) + 1 /\ Append(q, e)[Len(q) + 1] = e
        /\ \A i \in 1..Len(q) : Append(q, e)[i] = q[i]
        /\ Append(q, e) \in Seq(T)
    BY AppendProperties
  <1>2. DOMAIN q = 1..Len(q) /\ DOMAIN Append(q, e) = 1..(Len(q) + 1)
    BY <1>1
  <1> QED BY <1>1, <1>2 DEF ToSet

\* A mailbox after a submission.
LEMMA SubmittedMail ==
    ASSUME NEW box \in [Loops -> Seq(Letters)], NEW l \in Loops, NEW t \in Letters
    PROVE  /\ Submitted(box, l, t) \in [Loops -> Seq(Letters)]
           /\ t \in ToSet(Submitted(box, l, t)[l])
           /\ \A k \in Loops :
                /\ ToSet(box[k]) \subseteq ToSet(Submitted(box, l, t)[k])
                /\ ToSet(Submitted(box, l, t)[k]) \subseteq ToSet(box[k]) \cup {t}
                /\ k # l => Submitted(box, l, t)[k] = box[k]
  <1>1. CASE \E i \in DOMAIN box[l] : box[l][i] = t
    BY <1>1 DEF Submitted, ToSet
  <1>2. CASE ~\E i \in DOMAIN box[l] : box[l][i] = t
    <2> DEFINE q == Append(box[l], t)
    <2>1. Submitted(box, l, t) = [box EXCEPT ![l] = q]
      BY <1>2 DEF Submitted
    <2>2. q \in Seq(Letters) /\ ToSet(q) = ToSet(box[l]) \cup {t}
      BY AppendQueue
    <2> HIDE DEF q
    <2> QED BY <2>1, <2>2
  <1> QED BY <1>1, <1>2

\* A mailbox whose oldest letter was taken.
LEMMA PoppedMail ==
    ASSUME mail \in [Loops -> Seq(Letters)], NEW l \in Loops, mail[l] # <<>>
    PROVE  /\ Popped(l) \in [Loops -> Seq(Letters)]
           /\ Head(mail[l]) \in Letters /\ Head(mail[l]) \in ToSet(mail[l])
           /\ ToSet(mail[l]) \subseteq ToSet(Popped(l)[l]) \cup {Head(mail[l])}
           /\ \A k \in Loops :
                /\ ToSet(Popped(l)[k]) \subseteq ToSet(mail[k])
                /\ k # l => Popped(l)[k] = mail[k]
  <1> DEFINE q == mail[l]
  <1>0. q \in Seq(Letters) /\ q # <<>>
    OBVIOUS
  <1>1. Popped(l) = [mail EXCEPT ![l] = Tail(q)]
    BY DEF Popped
  <1> HIDE DEF q
  <1>2. /\ Tail(q) \in Seq(Letters) /\ Len(Tail(q)) = Len(q) - 1
        /\ \A i \in 1..Len(Tail(q)) : Tail(q)[i] = q[i + 1]
        /\ Head(q) = q[1] /\ Len(q) \in Nat /\ Len(q) > 0
        /\ DOMAIN q = 1..Len(q) /\ DOMAIN Tail(q) = 1..(Len(q) - 1)
    BY <1>0, HeadTailProperties, EmptySeq
  <1>3. Head(q) \in Letters /\ Head(q) \in ToSet(q)
    BY <1>0, <1>2 DEF ToSet
  <1>4. ToSet(Tail(q)) \subseteq ToSet(q)
    BY <1>2 DEF ToSet
  <1>5. ASSUME NEW i \in DOMAIN q PROVE q[i] \in ToSet(Tail(q)) \cup {Head(q)}
    <2>1. CASE i = 1
      BY <1>2, <2>1
    <2>2. CASE i # 1
      <3>1. i - 1 \in DOMAIN Tail(q) /\ Tail(q)[i - 1] = q[i]
        BY <1>2, <2>2
      <3> QED BY <3>1 DEF ToSet
    <2> QED BY <2>1, <2>2
  <1>6. ToSet(q) \subseteq ToSet(Tail(q)) \cup {Head(q)}
    BY <1>5 DEF ToSet
  <1> QED BY <1>1, <1>2, <1>3, <1>4, <1>6 DEF q

-----------------------------------------------------------------------------
(* What a step leaves alone, and what follows from it. *)

\* The slots change at most in who is evicted, the engines at most by ending.
SameRooms ==
    \A l \in Loops, s \in Slots :
      /\ slot'[l][s].starting = slot[l][s].starting
      /\ slot'[l][s].held = slot[l][s].held
      /\ slot'[l][s].gen = slot[l][s].gen
      /\ slot'[l][s].id = slot[l][s].id

\* The sessions in the slots stay, and no start takes their place.
SameHeld ==
    \A l \in Loops, s \in Slots :
      /\ slot'[l][s].held <=> slot[l][s].held
      /\ slot[l][s].held => slot'[l][s].gen = slot[l][s].gen /\ slot'[l][s].id = slot[l][s].id
      /\ slot'[l][s].starting => ~slot'[l][s].held

Winds ==
    \A g \in 1..MaxSessions :
      /\ engine'[g].loop = engine[g].loop
      /\ engine'[g].slot = engine[g].slot
      /\ engine'[g].st = engine[g].st
         \/ (engine[g].st \in {"active", "stopping"} /\ engine'[g].st \in {"stopping", "closed"})

\* No task starts, ends or moves on from a start that is to be reported.
SameWork ==
    /\ \A l \in Loops : Reporting(task'[l]) <=> Reporting(task[l])
    /\ \A l \in Loops, s \in Slots : Making(l, s)' <=> Making(l, s)

SameReporting == \A l \in Loops : Reporting(task'[l]) <=> Reporting(task[l])
FewerMade == \A l \in Loops, s \in Slots : Making(l, s)' => Making(l, s)

SamePending == \A l \in Loops : lane'[l].pending = lane[l].pending

NoNewNotice ==
    \A l \in Loops : \A n \in ToSet(mail'[l]) : n.kind = "ended" => n \in ToSet(mail[l])

\* Whatever closes a loop sends it its close task, which is not lost, and the
\* runtime's round over the loops goes on.
KeepsClosing ==
    /\ \A l \in Loops :
         /\ closing[l] => closing'[l]
         /\ closing'[l] => closing[l] \/ CloseQueued(l)'
         /\ CloseQueued(l) => CloseQueued(l)'
         /\ ~door[l] => ~door'[l]
    /\ runtime'.closing = runtime.closing
    /\ At(Main, "closing") => task'[Main] = task[Main]

SameUse == served' = served /\ sessions' = sessions

\* Loop 1 is one of the loops.
LEMMA MainLoop == Main \in Loops /\ \A l \in ActiveLoops : l \in Loops
  BY SizeAssumption DEF Loops, Main, ActiveLoops

\* Lanes that count the same over the same starts still count exactly.
LEMMA CountedKept ==
    ASSUME Counted, SameRooms, SameReporting, SamePending
    PROVE  Counted'
  <1>1. ASSUME NEW l \in Loops PROVE Pending(l)' = Pending(l)
    BY DEF SameRooms, Pending
  <1> QED BY <1>1 DEF Counted, SameReporting, SamePending

\* Slots that only change in who is evicted hold the same sessions.
LEMMA SameRoomsHeld ==
    ASSUME Held, SameRooms
    PROVE  SameHeld
  BY DEF Held, Placed, SameRooms, SameHeld

\* Slots and engines still agree when no session comes or goes.
LEMMA HeldKept ==
    ASSUME Rooms, Held, SameHeld, Winds, FewerMade, SameUse
    PROVE  Held'
  <1>1. ASSUME NEW l \in Loops, NEW s \in Slots PROVE Placed(l, s)'
    <2>1. Placed(l, s)
      BY DEF Held
    <2>2. slot[l][s].held => slot[l][s].gen \in 1..MaxSessions
      BY <2>1, SizeAssumption DEF Placed, Rooms
    <2>3. ActiveLoops' = ActiveLoops
      BY DEF SameUse, ActiveLoops
    <2> QED BY <2>1, <2>2, <2>3 DEF Placed, SameHeld, Winds, FewerMade, SameUse
  <1>2. ASSUME NEW g \in 1..MaxSessions PROVE Owned(g)'
    <2>1. Owned(g) /\ engine[g].loop \in Loops /\ engine[g].slot \in Slots
      BY DEF Held, Rooms, EngineRecord
    <2> QED BY <2>1 DEF Owned, SameHeld, Winds, SameUse
  <1> QED BY <1>1, <1>2 DEF Held

\* Notices already in the mail stay those of closed engines.
LEMMA NoticedKept ==
    ASSUME Post, Noticed, Winds, NoNewNotice
    PROVE  Noticed'
  <1> SUFFICES ASSUME NEW l \in Loops, NEW n \in ToSet(mail'[l]), n.kind = "ended"
               PROVE  engine'[n.gen].st = "closed"
    BY DEF Noticed
  <1>1. n \in ToSet(mail[l])
    BY DEF NoNewNotice
  <1>2. n \in Letters
    BY <1>1 DEF Post, ToSet
  <1>3. n.gen \in 1..MaxSessions
    BY <1>2 DEF Letters, Notices
  <1> QED BY <1>1, <1>3 DEF Noticed, Winds

\* Every entry of the registry names a loop and a slot.
LEMMA EntryTyped ==
    ASSUME Books, NEW i \in DOMAIN registry
    PROVE  /\ registry[i] \in EntryRecord
           /\ registry[i].loop \in Loops /\ registry[i].slot \in Slots
  <1>1. registry[i] \in EntryRecord
    BY DEF Books
  <1> QED BY <1>1 DEF EntryRecord

\* An unchanged registry still lists the sessions that the slots hold.
LEMMA ListedKept ==
    ASSUME Books, Listed, SameHeld, SameWork, SameUse, registry' = registry
    PROVE  Listed'
  <1>1. SUFFICES ASSUME served
        PROVE  Listed'
    BY DEF Listed, SameUse
  <1>2. ASSUME NEW l \in Loops, NEW s \in Slots PROVE SlotListed(l, s)'
    <2>1. SlotListed(l, s)
      BY <1>1 DEF Listed
    <2> QED BY <2>1 DEF SlotListed, Names, SameHeld, SameWork
  <1>3. ASSUME NEW i \in DOMAIN registry' PROVE EntryHeld(i)'
    <2>1. EntryHeld(i) /\ registry[i].loop \in Loops /\ registry[i].slot \in Slots
      BY <1>1, EntryTyped DEF Listed
    <2>2. Making(registry[i].loop, registry[i].slot)' <=> Making(registry'[i].loop, registry'[i].slot)
      BY <2>1 DEF SameWork
    <2> QED BY <2>1, <2>2 DEF EntryHeld, Names, SameHeld
  <1> QED BY <1>2, <1>3 DEF Listed

\* A dark loop stays dark while no session of it starts.
LEMMA ClosesKept ==
    ASSUME Post, Closes, KeepsClosing, served' = served,
           \A l \in Loops, s \in Slots : closing[l] /\ Active(l, s)' => Active(l, s)
    PROVE  Closes'
  <1>1. ASSUME NEW l \in Loops, closing'[l] PROVE CloseQueued(l)' \/ Dark(l)'
    BY <1>1 DEF KeepsClosing, Closes, Dark
  <1>2. ActiveLoops' = ActiveLoops
    BY DEF ActiveLoops
  <1>3. ASSUME runtime'.closing, NEW l \in ActiveLoops, ~closing'[l]
        PROVE  At(Main, "closing")' /\ l \in task'[Main].todo
    BY <1>3, MainLoop DEF KeepsClosing, Closes, At
  <1> QED BY <1>1, <1>2, <1>3 DEF Closes

\* No session starts to run while the slots hold the same ones.
LEMMA ActiveKept ==
    ASSUME Rooms, Held, SameHeld, Winds
    PROVE  \A l \in Loops, s \in Slots : Active(l, s)' => Active(l, s)
  <1> SUFFICES ASSUME NEW l \in Loops, NEW s \in Slots, Active(l, s)'
               PROVE  Active(l, s)
    OBVIOUS
  <1>1. slot[l][s].held /\ slot'[l][s].gen = slot[l][s].gen
    BY DEF Active, SameHeld
  <1>2. slot[l][s].gen \in 1..MaxSessions
    BY <1>1, SizeAssumption DEF Held, Placed, Rooms
  <1> QED BY <1>1, <1>2 DEF Active, Winds

\* A step that settles no session keeps what the slots say of them,
LEMMA Mild ==
    ASSUME Inv, SameHeld, Winds, FewerMade, SameUse
    PROVE  /\ Held'
           /\ NoNewNotice => Noticed'
           /\ KeepsClosing => Closes'
  <1>1. Held'
    BY HeldKept DEF Inv, Types
  <1>2. NoNewNotice => Noticed'
    BY NoticedKept DEF Inv, Types
  <1>3. KeepsClosing => Closes'
    BY ClosesKept, ActiveKept DEF Inv, Types, SameUse
  <1> QED BY <1>1, <1>2, <1>3

\* and the whole invariant if it starts, lists and closes nothing either.
LEMMA Calm ==
    ASSUME Inv, Types', Lanes', SameRooms, Winds, SameWork, SamePending, NoNewNotice,
           KeepsClosing, SameUse, registry' = registry
    PROVE  Inv'
  <1>1. FewerMade /\ SameReporting
    BY DEF SameWork, FewerMade, SameReporting
  <1>2. SameHeld
    BY SameRoomsHeld DEF Inv
  <1>3. Counted'
    BY <1>1, CountedKept DEF Inv
  <1>4. Listed'
    BY <1>2, ListedKept DEF Inv, Types
  <1> QED BY <1>1, <1>2, <1>3, <1>4, Mild DEF Inv

-----------------------------------------------------------------------------
(* The pieces that actions are made of. *)

\* A task replaced.
LEMMA Becomes ==
    ASSUME Tasks, NEW l \in Loops, NEW t, Become(l, t), TaskOK(t)
    PROVE  /\ Tasks' /\ task'[l] = t
           /\ \A k \in Loops : k # l => task'[k] = task[k]
  <1>1. task' = [k \in Loops |-> IF k = l THEN t ELSE task[k]]
    BY DEF Tasks, Become
  <1>2. \A k \in Loops : task'[k] = IF k = l THEN t ELSE task[k]
    BY <1>1
  <1>3. task' = [k \in Loops |-> task'[k]]
    BY <1>1
  <1>4. \A k \in Loops : TaskOK(task'[k])
    BY <1>2 DEF Tasks
  <1> QED BY <1>2, <1>3, <1>4 DEF Tasks

\* A task that reports nothing, replaced by another that does not.
LEMMA QuietWork ==
    ASSUME Tasks, NEW l \in Loops, NEW t, Become(l, t), TaskOK(t),
           ~Reporting(task[l]), ~Reporting(t)
    PROVE  SameWork
  <1>1. task'[l] = t /\ \A k \in Loops : k # l => task'[k] = task[k]
    BY Becomes
  <1> QED BY <1>1 DEF SameWork, Making, Reporting

\* The engines after SessionEngine::stop.
LEMMA StoppedRooms ==
    ASSUME Rooms, NEW l \in Loops, NEW S, Stopped(l, S)
    PROVE  engine' \in [1..MaxSessions -> EngineRecord] /\ Winds
  <1>1. DOMAIN engine = 1..MaxSessions
    BY DEF Rooms
  <1>2. ASSUME NEW g \in 1..MaxSessions
        PROVE  /\ engine'[g] \in EngineRecord
               /\ engine'[g].loop = engine[g].loop /\ engine'[g].slot = engine[g].slot
               /\ engine'[g].st = engine[g].st
                  \/ (engine[g].st = "active" /\ engine'[g].st = "stopping")
    <2>1. engine[g] \in EngineRecord
      BY DEF Rooms
    <2>2. \/ engine'[g] = engine[g]
          \/ engine[g].st = "active" /\ engine'[g] = [engine[g] EXCEPT !.st = "stopping"]
      BY <1>1 DEF Stopped
    <2> QED BY <2>1, <2>2 DEF EngineRecord
  <1>3. engine' = [g \in 1..MaxSessions |-> engine'[g]]
    BY <1>1 DEF Stopped
  <1> QED BY <1>2, <1>3 DEF Winds

\* The slots after an eviction.
LEMMA EvictedRooms ==
    ASSUME Rooms, NEW l \in Loops, NEW S, Evicted(l, S)
    PROVE  /\ slot' \in [Loops -> [Slots -> SlotRecord]] /\ SameRooms
           /\ \A k \in Loops, s \in Slots :
                slot'[k][s].evicted <=> slot[k][s].evicted \/ (k = l /\ s \in S)
  <1> DEFINE X == [s \in Slots |-> [slot[l][s] EXCEPT !.evicted = @ \/ s \in S]]
  <1>0. slot' = [slot EXCEPT ![l] = X]
    BY DEF Evicted
  <1> HIDE DEF X
  <1>1. slot' = [k \in Loops |-> IF k = l THEN X ELSE slot[k]]
    BY <1>0 DEF Rooms
  <1>2. ASSUME NEW k \in Loops, NEW s \in Slots
        PROVE  /\ slot'[k][s] \in SlotRecord
               /\ slot'[k][s].starting = slot[k][s].starting
               /\ slot'[k][s].held = slot[k][s].held
               /\ slot'[k][s].gen = slot[k][s].gen
               /\ slot'[k][s].id = slot[k][s].id
               /\ slot'[k][s].evicted <=> slot[k][s].evicted \/ (k = l /\ s \in S)
    <2> DEFINE r == slot[k][s]
    <2>1. r \in SlotRecord
      BY DEF Rooms
    <2>2. slot'[k][s] = IF k = l THEN [r EXCEPT !.evicted = r.evicted \/ s \in S] ELSE r
      BY <1>1 DEF X
    <2> HIDE DEF r
    <2>3. CASE k = l
      BY <2>1, <2>2, <2>3 DEF SlotRecord, r
    <2>4. CASE k # l
      BY <2>1, <2>2, <2>4 DEF r
    <2> QED BY <2>3, <2>4
  <1>3. \A k \in Loops : slot'[k] = [s \in Slots |-> slot'[k][s]]
    BY <1>1 DEF Rooms, X
  <1>4. slot' = [k \in Loops |-> slot'[k]]
    BY <1>1
  <1>5. slot' \in [Loops -> [Slots -> SlotRecord]]
    BY <1>2, <1>3, <1>4
  <1> QED BY <1>2, <1>5 DEF SameRooms

\* Mail that only gains tasks of the kinds in K.
MailAdds(K) ==
    /\ mail' \in [Loops -> Seq(Letters)]
    /\ \A l \in Loops :
         /\ ToSet(mail[l]) \subseteq ToSet(mail'[l])
         /\ ToSet(mail'[l]) \subseteq ToSet(mail[l]) \cup {Task(k) : k \in K}

\* Mail that only gains control tasks brings no notice and loses no close task.
LEMMA MailAddsCalm ==
    ASSUME MailAdds({"close", "sweep", "replace", "stop"})
    PROVE  NoNewNotice /\ \A l \in Loops : CloseQueued(l) => CloseQueued(l)'
  BY TaskLetters DEF MailAdds, NoNewNotice, CloseQueued

\* The scheduler's report, and the failure it may lead to.
LEMMA LaneReports ==
    ASSUME Post, Lanes, NEW l \in Loops, NEW next \in Lane,
           ArmedOK(next, closing[l]), LaneBecomes(l, next, mail)
    PROVE  /\ Lanes' /\ MailAdds({"close", "stop"})
           /\ lane'[l] = next /\ \A k \in Loops : k # l => lane'[k] = lane[k]
           /\ runtime' \in [closing : BOOLEAN, claimed : BOOLEAN, stopped : BOOLEAN]
           /\ runtime'.closing = runtime.closing
           /\ \A k \in Loops : /\ closing[k] => closing'[k]
                               /\ closing'[k] => closing[k] \/ CloseQueued(k)'
  <1> DEFINE fails == lane[l].phase = "running" /\ next.phase = "failed"
             close == fails /\ ~closing[l]
             claim == fails /\ ~runtime.claimed
             one == IF close THEN Submitted(mail, l, Task("close")) ELSE mail
  <1>1. /\ lane' = [lane EXCEPT ![l] = next]
        /\ closing' = [closing EXCEPT ![l] = @ \/ fails]
        /\ mail' = IF claim THEN Submitted(one, Main, Task("stop")) ELSE one
        /\ runtime' = [runtime EXCEPT !.claimed = @ \/ fails]
    BY DEF LaneBecomes
  <1>2. /\ one \in [Loops -> Seq(Letters)]
        /\ close => Task("close") \in ToSet(one[l])
        /\ \A k \in Loops : /\ ToSet(mail[k]) \subseteq ToSet(one[k])
                            /\ ToSet(one[k]) \subseteq ToSet(mail[k]) \cup {Task("close")}
    <2>1. CASE close
      BY <2>1, SubmittedMail, TaskLetters DEF Post
    <2>2. CASE ~close
      BY <2>2 DEF Post
    <2> QED BY <2>1, <2>2
  <1> HIDE DEF one, close, claim, fails
  <1>3. /\ mail' \in [Loops -> Seq(Letters)]
        /\ \A k \in Loops : /\ ToSet(one[k]) \subseteq ToSet(mail'[k])
                            /\ ToSet(mail'[k]) \subseteq ToSet(one[k]) \cup {Task("stop")}
    <2>1. CASE claim
      BY <1>1, <1>2, <2>1, SubmittedMail, TaskLetters, MainLoop
    <2>2. CASE ~claim
      BY <1>1, <1>2, <2>2
    <2> QED BY <2>1, <2>2
  <1>4. MailAdds({"close", "stop"}) /\ (close => CloseQueued(l)')
    BY <1>2, <1>3 DEF MailAdds, CloseQueued
  <1>5. /\ closing' \in [Loops -> BOOLEAN] /\ (closing'[l] <=> closing[l] \/ fails)
        /\ \A k \in Loops : k # l => closing'[k] = closing[k]
    BY <1>1 DEF Lanes
  <1>6. /\ lane' \in [Loops -> Lane] /\ lane'[l] = next
        /\ \A k \in Loops : k # l => lane'[k] = lane[k]
    BY <1>1 DEF Lanes
  <1>7. /\ runtime' \in [closing : BOOLEAN, claimed : BOOLEAN, stopped : BOOLEAN]
        /\ runtime'.closing = runtime.closing
    BY <1>1 DEF Post
  <1>8. Lanes'
    BY <1>5, <1>6 DEF Lanes, ArmedOK, Running
  <1> QED BY <1>4, <1>5, <1>6, <1>7, <1>8 DEF close

-----------------------------------------------------------------------------
(* The arming pass, launching and the scheduler's own timer. *)

\* Only a lane changes.
LEMMA ArmsKeeps ==
    ASSUME Inv, NEW l \in Loops, NEW next \in Lane, next.pending = lane[l].pending,
           ArmedOK(next, closing[l]), lane' = [lane EXCEPT ![l] = next],
           UNCHANGED <<served, slot, engine, registry, policy, mail, marked, closing,
                       door, task, runtime, sessions>>
    PROVE  Inv'
  <1>1. Lanes' /\ SamePending
    BY DEF Inv, Lanes, SamePending
  <1>2. Types'
    BY DEF Inv, Types, Tasks, Post, Rooms, Books
  <1>3. SameRooms /\ Winds /\ SameWork /\ SameUse
    BY DEF SameRooms, Winds, SameWork, SameUse, Making
  <1>4. NoNewNotice /\ KeepsClosing
    BY DEF NoNewNotice, KeepsClosing, CloseQueued
  <1> QED BY <1>1, <1>2, <1>3, <1>4, Calm

\* NativeServerRuntime::start arms the lane of one loop.
LEMMA LaunchKeeps ==
    ASSUME Inv, NEW l \in Loops, Launch(l)
    PROVE  Inv'
  <1> DEFINE one == [lane[l] EXCEPT !.phase = "running"]
  <1>1. one \in Lane /\ one.pending = lane[l].pending
    BY DEF Inv, Lanes, Lane
  <1>2. lane' = [lane EXCEPT ![l] = Armed(one)]
    BY DEF Launch, Started
  <1> HIDE DEF one
  <1>3. Armed(one) \in Lane /\ Armed(one).arming /\ Armed(one).pending = lane[l].pending
    BY <1>1, ArmedLane
  <1> QED BY <1>2, <1>3, ArmsKeeps DEF Launch, ArmedOK

\* The arming pass of a lane ends.
LEMMA PassDoneKeeps ==
    ASSUME Inv, NEW l \in Loops, PassDone(l)
    PROVE  Inv'
  <1>1. lane[l] \in Lane /\ closing[l] \in BOOLEAN /\ ~Wants(lane[l], closing[l])
    BY DEF Inv, Lanes, PassDone
  <1>2. lane' = [lane EXCEPT ![l] = PassEnds(lane[l])]
    BY DEF PassDone
  <1> QED BY <1>1, <1>2, PassEndsLane, ArmsKeeps DEF PassDone

\* The retry timer of a lane fires.
LEMMA RetryFiresKeeps ==
    ASSUME Inv, NEW l \in Loops, RetryFires(l)
    PROVE  Inv'
  <1> DEFINE one == [lane[l] EXCEPT !.retry = FALSE]
  <1>1. one \in Lane /\ one.pending = lane[l].pending
    BY DEF Inv, Lanes, Lane
  <1>2. lane' = [lane EXCEPT ![l] = Armed(one)]
    BY DEF RetryFires, RetryDue
  <1> HIDE DEF one
  <1>3. Armed(one) \in Lane /\ Armed(one).arming /\ Armed(one).pending = lane[l].pending
    BY <1>1, ArmedLane
  <1> QED BY <1>2, <1>3, ArmsKeeps DEF RetryFires, ArmedOK

\* A start that the arming pass counted and took back.
LEMMA FizzlesKeeps ==
    ASSUME Inv, NEW l \in Loops, NEW next \in Lane, next.pending = lane[l].pending,
           ArmedOK(next, closing[l]), LaneBecomes(l, next, mail),
           UNCHANGED <<served, slot, engine, registry, policy, marked, door, task, sessions>>
    PROVE  Inv'
  <1>1. /\ Lanes' /\ MailAdds({"close", "stop"})
        /\ lane'[l] = next /\ \A k \in Loops : k # l => lane'[k] = lane[k]
        /\ runtime' \in [closing : BOOLEAN, claimed : BOOLEAN, stopped : BOOLEAN]
        /\ runtime'.closing = runtime.closing
        /\ \A k \in Loops : /\ closing[k] => closing'[k]
                            /\ closing'[k] => closing[k] \/ CloseQueued(k)'
    BY LaneReports DEF Inv, Types
  <1>2. NoNewNotice /\ \A k \in Loops : CloseQueued(k) => CloseQueued(k)'
    BY <1>1, MailAddsCalm DEF MailAdds
  <1>3. Types'
    BY <1>1 DEF Inv, Types, Tasks, Post, Rooms, Books, MailAdds
  <1>4. SameRooms /\ Winds /\ SameWork /\ SameUse /\ SamePending
    BY <1>1 DEF SameRooms, Winds, SameWork, SameUse, Making, SamePending
  <1>5. KeepsClosing
    BY <1>1, <1>2 DEF KeepsClosing
  <1> QED BY <1>1, <1>2, <1>3, <1>4, <1>5, Calm

\* A start that fails inside the arming pass.
LEMMA StartFailsInlineKeeps ==
    ASSUME Inv, NEW l \in Loops, StartFailsInline(l)
    PROVE  Inv'
  <1>1. /\ lane[l] \in Lane /\ closing[l] \in BOOLEAN /\ door[l] \in BOOLEAN
        /\ Wants(lane[l], closing[l])
    BY DEF Inv, Types, Post, Lanes, StartFailsInline
  <1>2. PICK next \in Settled(Starting(lane[l]), closing[l], ~door[l], FALSE) :
          LaneBecomes(l, next, mail)
    BY DEF StartFailsInline
  <1>3. /\ Starting(lane[l]) \in Lane /\ Starting(lane[l]).pending = lane[l].pending + 1
        /\ lane[l].pending \in Nat
    BY <1>1, StartingLane DEF Lane
  <1>4. Starting(lane[l]).pending > 0 /\ (~door[l]) \in BOOLEAN
    BY <1>1, <1>3
  <1>5. /\ next \in Lane /\ next.pending = Starting(lane[l]).pending - 1
        /\ ArmedOK(next, closing[l])
    BY <1>1, <1>2, <1>3, <1>4, SettledLane
  <1>6. next.pending = lane[l].pending
    BY <1>3, <1>5
  <1> QED BY <1>2, <1>5, <1>6, FizzlesKeeps DEF StartFailsInline

\* A start that begin_start refuses.
LEMMA StartRefusedKeeps ==
    ASSUME Inv, NEW l \in Loops, StartRefused(l)
    PROVE  Inv'
  <1>1. /\ lane[l] \in Lane /\ closing[l] \in BOOLEAN /\ Wants(lane[l], closing[l])
    BY DEF Inv, Lanes, StartRefused
  <1>2. PICK next \in Refused(Starting(lane[l]), closing[l]) : LaneBecomes(l, next, mail)
    BY DEF StartRefused
  <1>3. next \in Lane /\ next.pending = lane[l].pending /\ ArmedOK(next, closing[l])
    BY <1>1, <1>2, RefusedLane
  <1> QED BY <1>2, <1>3, FizzlesKeeps DEF StartRefused

-----------------------------------------------------------------------------
(* Tasks that start, settle and list nothing. *)

\* The close task is the only letter whose loss KeepsClosing is about, and the
\* runtime's closing round the only task.
LEMMA TaskStep ==
    ASSUME Inv, NEW l \in Loops, NEW t, Become(l, t), TaskOK(t), SameWork, ~At(l, "closing"),
           Post', Rooms', policy' \in Policies \cup {FirstPolicy}, SameRooms, Winds,
           NoNewNotice, \A k \in Loops : CloseQueued(k) => CloseQueued(k)',
           UNCHANGED <<served, sessions, registry, lane, closing, door, runtime>>
    PROVE  Inv'
  <1>1. Tasks' /\ task'[l] = t /\ \A k \in Loops : k # l => task'[k] = task[k]
    BY Becomes DEF Inv, Types
  <1>2. KeepsClosing
    BY <1>1, MainLoop DEF KeepsClosing, At
  <1>3. Types' /\ Lanes' /\ SamePending /\ SameUse
    BY <1>1 DEF Inv, Types, Books, Lanes, SamePending, SameUse
  <1> QED BY <1>2, <1>3, Calm

\* A step of a task that changes neither slots nor engines.
LEMMA PureStep ==
    ASSUME Inv, NEW l \in Loops, NEW t, Become(l, t), TaskOK(t), SameWork, ~At(l, "closing"),
           MailAdds({"close", "sweep", "replace", "stop"}),
           marked' \in [Loops -> BOOLEAN], policy' \in Policies \cup {FirstPolicy},
           UNCHANGED <<served, slot, engine, sessions, registry, lane, closing, door, runtime>>
    PROVE  Inv'
  <1>1. Post' /\ Rooms' /\ SameRooms /\ Winds
    BY DEF Inv, Types, Post, Rooms, SameRooms, Winds, MailAdds
  <1>2. NoNewNotice /\ \A k \in Loops : CloseQueued(k) => CloseQueued(k)'
    BY MailAddsCalm
  <1> QED BY <1>1, <1>2, TaskStep

\* Untouched mail gains nothing.
LEMMA SameMail ==
    ASSUME Post, mail' = mail
    PROVE  MailAdds({"close", "sweep", "replace", "stop"})
  BY DEF Post, MailAdds

\* Mail to which one control task was submitted, or was already queued.
LEMMA SentMail ==
    ASSUME Post, NEW l \in Loops, NEW k \in {"close", "sweep", "replace", "stop"},
           mail' = Submitted(mail, l, Task(k)) \/ mail' = mail
    PROVE  MailAdds({"close", "sweep", "replace", "stop"})
  <1>1. CASE mail' = mail
    BY <1>1, SameMail
  <1>2. CASE mail' = Submitted(mail, l, Task(k))
    <2>1. Task(k) \in Letters /\ mail \in [Loops -> Seq(Letters)]
      BY TaskLetters DEF Post
    <2>2. /\ mail' \in [Loops -> Seq(Letters)]
          /\ \A m \in Loops : /\ ToSet(mail[m]) \subseteq ToSet(mail'[m])
                              /\ ToSet(mail'[m]) \subseteq ToSet(mail[m]) \cup {Task(k)}
      BY <1>2, <2>1, SubmittedMail
    <2> QED BY <2>2 DEF MailAdds
  <1> QED BY <1>1, <1>2

\* The main thread goes on to launch the next loop.
LEMMA LaunchedKeeps ==
    ASSUME Inv, NEW l \in Loops, Launched(l)
    PROVE  Inv'
  <1> DEFINE t == IF l + 1 \in ActiveLoops THEN [pc |-> "launch", next |-> l + 1] ELSE Idle
  <1>1. Become(Main, t) /\ At(Main, "launch")
    BY DEF Launched
  <1>2. TaskOK(t) /\ ~Reporting(t)
    BY DEF TaskOK, Idle, Reporting, Establishing
  <1> HIDE DEF t
  <1>3. ~Reporting(task[Main]) /\ ~At(Main, "closing")
    BY <1>1 DEF At, Reporting, Establishing
  <1>4. SameWork
    BY <1>1, <1>2, <1>3, QuietWork, MainLoop DEF Inv, Types
  <1>5. /\ MailAdds({"close", "sweep", "replace", "stop"})
        /\ marked' \in [Loops -> BOOLEAN] /\ policy' \in Policies \cup {FirstPolicy}
    BY SameMail DEF Inv, Types, Post, Books, Launched
  <1> QED BY <1>1, <1>2, <1>3, <1>4, <1>5, PureStep, MainLoop DEF Launched

\* observe_session succeeded: the same session is looked at further.
LEMMA WatchedKeeps ==
    ASSUME Inv, NEW l \in Loops, At(l, "watch"), Become(l, [task[l] EXCEPT !.pc = "policy"]),
           UNCHANGED <<served, slot, engine, lane, registry, policy, mail, marked,
                       closing, door, runtime, sessions>>
    PROVE  Inv'
  <1> DEFINE t == [task[l] EXCEPT !.pc = "policy"]
  <1>1. task[l] \in Watches
    BY DEF Inv, Types, Tasks, TaskOK, At
  <1>2. t \in Watches /\ t.pc = "policy" /\ t.slot = task[l].slot /\ Become(l, t)
    BY <1>1 DEF Watches
  <1> HIDE DEF t
  <1>3. TaskOK(t)
    BY <1>2 DEF TaskOK
  <1>4. task'[l] = t /\ \A k \in Loops : k # l => task'[k] = task[k]
    BY <1>2, <1>3, Becomes DEF Inv, Types
  <1>5. SameWork
    BY <1>2, <1>4 DEF SameWork, Making, Reporting, Establishing, At
  <1>6. /\ MailAdds({"close", "sweep", "replace", "stop"})
        /\ marked' \in [Loops -> BOOLEAN] /\ policy' \in Policies \cup {FirstPolicy}
    BY SameMail DEF Inv, Types, Post, Books
  <1>7. ~At(l, "closing")
    BY DEF At
  <1> QED BY <1>2, <1>3, <1>5, <1>6, <1>7, PureStep

\* The policy in force is one of the server's.
LEMMA PolicyTyped ==
    ASSUME Inv
    PROVE  policy.limit \in Nat /\ policy.known \subseteq Ids
  BY PolicyAssumption DEF Inv, Types, Books

\* admit_identity knows the identity: the same session, with the limit read.
LEMMA ReadKeeps ==
    ASSUME Inv, NEW l \in Loops, At(l, "policy"),
           Become(l, [pc |-> "admit", slot |-> task[l].slot, limit |-> policy.limit]),
           UNCHANGED <<served, slot, engine, lane, registry, policy, mail, marked,
                       closing, door, runtime, sessions>>
    PROVE  Inv'
  <1> DEFINE t == [pc |-> "admit", slot |-> task[l].slot, limit |-> policy.limit]
  <1>1. task[l] \in Watches
    BY DEF Inv, Types, Tasks, TaskOK, At
  <1>2. t \in Admits /\ t.pc = "admit" /\ t.slot = task[l].slot /\ Become(l, t)
    BY <1>1, PolicyTyped DEF Watches, Admits
  <1> HIDE DEF t
  <1>3. TaskOK(t)
    BY <1>2 DEF TaskOK
  <1>4. task'[l] = t /\ \A k \in Loops : k # l => task'[k] = task[k]
    BY <1>2, <1>3, Becomes DEF Inv, Types
  <1>5. SameWork
    BY <1>2, <1>4 DEF SameWork, Making, Reporting, Establishing, At
  <1>6. /\ MailAdds({"close", "sweep", "replace", "stop"})
        /\ marked' \in [Loops -> BOOLEAN] /\ policy' \in Policies \cup {FirstPolicy}
    BY SameMail DEF Inv, Types, Post, Books
  <1>7. ~At(l, "closing")
    BY DEF At
  <1> QED BY <1>2, <1>3, <1>5, <1>6, <1>7, PureStep

\* replacements_marked() of one owner.
LEMMA TellKeeps ==
    ASSUME Inv, NEW l \in Loops, NEW o \in Loops, Tell(l, o)
    PROVE  Inv'
  <1> DEFINE t == [task[l] EXCEPT !.owners = @ \ {o}]
  <1>1. Become(l, t) /\ At(l, "tell")
    BY DEF Tell
  <1>2. task[l] \in TellsReport \/ task[l] \in TellsTrim
    BY <1>1 DEF Inv, Types, Tasks, TaskOK, At
  <1>3. (t \in TellsReport \/ t \in TellsTrim) /\ t.pc = "tell" /\ t.then = task[l].then
    BY <1>2 DEF TellsReport, TellsTrim
  <1> HIDE DEF t
  <1>4. TaskOK(t)
    BY <1>3 DEF TaskOK
  <1>5. task'[l] = t /\ \A k \in Loops : k # l => task'[k] = task[k]
    BY <1>1, <1>4, Becomes DEF Inv, Types
  <1>6. SameWork
    BY <1>1, <1>3, <1>5 DEF SameWork, Making, Reporting, Establishing, At
  <1>7. mail' = Submitted(mail, o, Task("replace")) \/ mail' = mail
    BY DEF Tell
  <1>8. /\ MailAdds({"close", "sweep", "replace", "stop"})
        /\ marked' \in [Loops -> BOOLEAN] /\ policy' \in Policies \cup {FirstPolicy}
    BY <1>7, SentMail DEF Inv, Types, Post, Books, Tell
  <1>9. ~At(l, "closing")
    BY <1>1 DEF At
  <1> QED BY <1>1, <1>4, <1>6, <1>8, <1>9, PureStep DEF Tell

\* Tasks that turn into tasks, nothing else changing.
LEMMA TurnKeeps ==
    ASSUME Inv, NEW l \in Loops, NEW t, Become(l, t), TaskOK(t),
           ~Reporting(task[l]), ~Reporting(t), ~At(l, "closing"),
           policy' \in Policies \cup {FirstPolicy},
           UNCHANGED <<served, slot, engine, lane, registry, mail, marked, closing,
                       door, runtime, sessions>>
    PROVE  Inv'
  <1>1. SameWork
    BY QuietWork DEF Inv, Types
  <1>2. MailAdds({"close", "sweep", "replace", "stop"}) /\ marked' \in [Loops -> BOOLEAN]
    BY SameMail DEF Inv, Types, Post
  <1> QED BY <1>1, <1>2, PureStep

\* What follows a sweep is a task that reports no start.
LEMMA AfterTyped ==
    ASSUME NEW t \in Afters
    PROVE  TaskOK(t) /\ ~Reporting(t)
  BY DEF Afters, Rounds, TaskOK, Idle, Reporting, Establishing

\* A trim goes on after its owner was told.
LEMMA TrimGoesOnKeeps ==
    ASSUME Inv, NEW l \in Loops, TrimGoesOn(l)
    PROVE  Inv'
  <1>1. At(l, "tell") /\ task[l].then = "trim" /\ Become(l, task[l].trim)
    BY DEF TrimGoesOn
  <1>2. task[l] \in TellsReport \/ task[l] \in TellsTrim
    BY <1>1 DEF Inv, Types, Tasks, TaskOK, At
  <1>3. task[l].trim \in Trims
    BY <1>1, <1>2 DEF TellsReport, TellsTrim
  <1>4. TaskOK(task[l].trim) /\ ~Reporting(task[l].trim)
    BY <1>3 DEF TaskOK, Trims, Reporting, Establishing
  <1>5. ~Reporting(task[l]) /\ ~At(l, "closing")
    BY <1>1 DEF At, Reporting, Establishing
  <1>6. policy' \in Policies \cup {FirstPolicy}
    BY DEF TrimGoesOn, Inv, Types, Books
  <1> QED BY <1>1, <1>4, <1>5, <1>6, TurnKeeps DEF TrimGoesOn

\* A trim is over and what follows the sweep begins.
LEMMA TrimmedKeeps ==
    ASSUME Inv, NEW l \in Loops, Trimmed(l)
    PROVE  Inv'
  <1>1. At(l, "trim") /\ Become(l, task[l].then)
    BY DEF Trimmed
  <1>2. task[l] \in Trims
    BY <1>1 DEF Inv, Types, Tasks, TaskOK, At
  <1>3. task[l].then \in Afters
    BY <1>2 DEF Trims
  <1>4. TaskOK(task[l].then) /\ ~Reporting(task[l].then)
    BY <1>3, AfterTyped
  <1>5. ~Reporting(task[l]) /\ ~At(l, "closing")
    BY <1>1 DEF At, Reporting, Establishing
  <1>6. policy' \in Policies \cup {FirstPolicy}
    BY DEF Trimmed, Inv, Types, Books
  <1> QED BY <1>1, <1>4, <1>5, <1>6, TurnKeeps DEF Trimmed

\* reload() publishes a policy.
LEMMA ReloadKeeps ==
    ASSUME Inv, NEW p \in Policies, Reload(p)
    PROVE  Inv'
  <1> DEFINE t == [pc |-> "reload"]
  <1>1. Become(Main, t) /\ At(Main, "idle")
    BY DEF Reload, ThreadIdle
  <1>2. TaskOK(t) /\ ~Reporting(t)
    BY DEF TaskOK, Reporting, Establishing
  <1>3. ~Reporting(task[Main]) /\ ~At(Main, "closing")
    BY <1>1 DEF At, Reporting, Establishing
  <1>4. policy' \in Policies \cup {FirstPolicy}
    BY DEF Reload
  <1> HIDE DEF t
  <1> QED BY <1>1, <1>2, <1>3, <1>4, TurnKeeps, MainLoop DEF Reload

\* request_sweep() of one loop.
LEMMA FanOutKeeps ==
    ASSUME Inv, NEW l \in Loops, FanOut(l)
    PROVE  Inv'
  <1> DEFINE t == [task[Main] EXCEPT !.todo = @ \ {l}]
  <1>1. Become(Main, t) /\ At(Main, "fanout")
    BY DEF FanOut
  <1>2. task[Main] \in Rounds
    BY <1>1, MainLoop DEF Inv, Types, Tasks, TaskOK, At
  <1>3. t \in Rounds /\ t.pc = "fanout"
    BY <1>1, <1>2 DEF Rounds, At
  <1> HIDE DEF t
  <1>4. TaskOK(t) /\ ~Reporting(t)
    BY <1>3 DEF TaskOK, Reporting, Establishing
  <1>5. ~Reporting(task[Main]) /\ ~At(Main, "closing")
    BY <1>1 DEF At, Reporting, Establishing
  <1>6. SameWork
    BY <1>1, <1>4, <1>5, QuietWork, MainLoop DEF Inv, Types
  <1>7. mail' = Submitted(mail, l, Task("sweep")) \/ mail' = mail
    BY DEF FanOut
  <1>8. /\ MailAdds({"close", "sweep", "replace", "stop"})
        /\ marked' \in [Loops -> BOOLEAN] /\ policy' \in Policies \cup {FirstPolicy}
    BY <1>7, SentMail DEF Inv, Types, Post, Books, FanOut
  <1> QED BY <1>1, <1>4, <1>5, <1>6, <1>8, PureStep, MainLoop DEF FanOut

-----------------------------------------------------------------------------
(* Letters that stop sessions and notices that end them. *)

\* A letter taken from the mail is no other letter's loss.
LEMMA PoppedStep ==
    ASSUME Inv, NEW l \in Loops, NEW kind, Pops(l, kind), mail' = Popped(l)
    PROVE  /\ mail' \in [Loops -> Seq(Letters)] /\ NoNewNotice
           /\ Head(mail[l]) \in Letters /\ Head(mail[l]) \in ToSet(mail[l])
           /\ Head(mail[l]).kind = kind
           /\ \A k \in Loops : \A n \in ToSet(mail[k]) :
                n.kind # kind \/ k # l => n \in ToSet(mail'[k])
           /\ \A k \in Loops : ToSet(mail'[k]) \subseteq ToSet(mail[k])
           /\ kind # "close" => \A k \in Loops : CloseQueued(k) => CloseQueued(k)'
  <1>1. mail \in [Loops -> Seq(Letters)] /\ mail[l] # <<>> /\ Head(mail[l]).kind = kind
    BY DEF Inv, Types, Post, Pops
  <1>2. /\ mail' \in [Loops -> Seq(Letters)]
        /\ Head(mail[l]) \in Letters /\ Head(mail[l]) \in ToSet(mail[l])
        /\ ToSet(mail[l]) \subseteq ToSet(mail'[l]) \cup {Head(mail[l])}
        /\ \A k \in Loops : /\ ToSet(mail'[k]) \subseteq ToSet(mail[k])
                            /\ k # l => mail'[k] = mail[k]
    BY <1>1, PoppedMail
  <1>3. \A k \in Loops : \A n \in ToSet(mail[k]) : n.kind # kind \/ k # l => n \in ToSet(mail'[k])
    BY <1>1, <1>2
  <1>4. kind # "close" => \A k \in Loops : CloseQueued(k) => CloseQueued(k)'
    BY <1>3, TaskLetters DEF CloseQueued
  <1> QED BY <1>1, <1>2, <1>3, <1>4 DEF NoNewNotice

\* replace_on_context clears its flag.
LEMMA ReplaceBeginsKeeps ==
    ASSUME Inv, NEW l \in Loops, ReplaceBegins(l)
    PROVE  Inv'
  <1> DEFINE t == [pc |-> "replace"]
  <1>1. Become(l, t) /\ At(l, "idle") /\ Pops(l, "replace") /\ mail' = Popped(l)
    BY DEF ReplaceBegins, Pops, ThreadIdle
  <1>2. TaskOK(t) /\ ~Reporting(t) /\ ~Reporting(task[l]) /\ ~At(l, "closing")
    BY <1>1 DEF TaskOK, Reporting, Establishing, At
  <1> HIDE DEF t
  <1>3. SameWork
    BY <1>1, <1>2, QuietWork DEF Inv, Types
  <1>4. /\ mail' \in [Loops -> Seq(Letters)] /\ NoNewNotice
        /\ \A k \in Loops : CloseQueued(k) => CloseQueued(k)'
    BY <1>1, PoppedStep
  <1>5. Post' /\ Rooms' /\ SameRooms /\ Winds /\ policy' \in Policies \cup {FirstPolicy}
    BY <1>4 DEF Inv, Types, Post, Rooms, Books, SameRooms, Winds, ReplaceBegins
  <1> QED BY <1>1, <1>2, <1>3, <1>4, <1>5, TaskStep DEF ReplaceBegins

\* Sessions stopped and evicted, in a step that takes mail or none.
LEMMA StopsKeeps ==
    ASSUME Inv, NEW l \in Loops, NEW t, NEW S, NEW T, Become(l, t), TaskOK(t),
           ~Reporting(task[l]), ~Reporting(t), ~At(l, "closing"),
           Evicted(l, S) \/ slot' = slot, Stopped(l, T) \/ engine' = engine,
           mail' \in [Loops -> Seq(Letters)], NoNewNotice,
           \A k \in Loops : CloseQueued(k) => CloseQueued(k)',
           UNCHANGED <<served, lane, registry, policy, marked, closing, door, runtime, sessions>>
    PROVE  Inv'
  <1>1. SameWork
    BY QuietWork DEF Inv, Types
  <1>2. slot' \in [Loops -> [Slots -> SlotRecord]] /\ SameRooms
    <2>1. CASE Evicted(l, S)
      BY <2>1, EvictedRooms DEF Inv, Types
    <2>2. CASE slot' = slot
      BY <2>2 DEF Inv, Types, Rooms, SameRooms
    <2> QED BY <2>1, <2>2
  <1>3. engine' \in [1..MaxSessions -> EngineRecord] /\ Winds
    <2>1. CASE Stopped(l, T)
      BY <2>1, StoppedRooms DEF Inv, Types
    <2>2. CASE engine' = engine
      BY <2>2 DEF Inv, Types, Rooms, Winds
    <2> QED BY <2>1, <2>2
  <1>4. Post' /\ Rooms' /\ policy' \in Policies \cup {FirstPolicy}
    BY <1>2, <1>3 DEF Inv, Types, Post, Rooms, Books
  <1> QED BY <1>1, <1>2, <1>3, <1>4, TaskStep

\* replace_on_context stops the replaced sessions.
LEMMA ReplaceStopsKeeps ==
    ASSUME Inv, NEW l \in Loops, ReplaceStops(l)
    PROVE  Inv'
  <1> DEFINE gone == {s \in Slots : Stoppable(l, s) /\ IsReplaced(registry, Entry(l, s))}
  <1>1. Become(l, Idle) /\ At(l, "replace") /\ Evicted(l, gone) /\ Stopped(l, gone)
    BY DEF ReplaceStops
  <1> HIDE DEF gone
  <1>2. TaskOK(Idle) /\ ~Reporting(Idle) /\ ~Reporting(task[l]) /\ ~At(l, "closing")
    BY <1>1 DEF TaskOK, Idle, Reporting, Establishing, At
  <1>3. /\ mail' \in [Loops -> Seq(Letters)] /\ NoNewNotice
        /\ \A k \in Loops : CloseQueued(k) => CloseQueued(k)'
    BY SameMail, MailAddsCalm DEF Inv, Types, Post, ReplaceStops
  <1> QED BY <1>1, <1>2, <1>3, StopsKeeps DEF ReplaceStops

\* A sweep, then the task that `then` names.
LEMMA SweepKeeps ==
    ASSUME Inv, NEW l \in Loops, NEW then \in Afters, Sweep(l, then),
           ~Reporting(task[l]), ~At(l, "closing"),
           mail' \in [Loops -> Seq(Letters)], NoNewNotice,
           \A k \in Loops : CloseQueued(k) => CloseQueued(k)',
           UNCHANGED <<served, lane, registry, policy, marked, closing, door, runtime, sessions>>
    PROVE  Inv'
  <1>1. TaskOK(then) /\ ~Reporting(then)
    BY AfterTyped
  <1>2. CASE closing[l]
    <2>1. Become(l, then) /\ slot' = slot /\ engine' = engine
      BY <1>2 DEF Sweep
    <2> QED BY <1>1, <2>1, StopsKeeps
  <1>3. CASE ~closing[l]
    <2> DEFINE gone == {s \in Slots : Stoppable(l, s) /\ slot[l][s].id \notin policy.known}
               over == IF served THEN {}
                       ELSE UNION {BeyondLimit(l, id, policy.limit) : id \in policy.known}
               ids == {slot[l][s].id : s \in {u \in Slots : Stoppable(l, u)} \ gone}
               t == [pc |-> "trim", limit |-> policy.limit, then |-> then, ids |-> ids]
    <2>1. /\ Evicted(l, gone \cup over) /\ Stopped(l, gone \cup over)
          /\ Become(l, IF served THEN t ELSE then)
      BY <1>3 DEF Sweep
    <2>2. ids \subseteq Ids
      BY PolicyTyped
    <2> HIDE DEF gone, over, ids
    <2>3. t \in Trims
      BY <2>2, PolicyTyped DEF Trims
    <2>4. TaskOK(t) /\ ~Reporting(t)
      BY <2>3 DEF TaskOK, Trims, Reporting, Establishing
    <2> HIDE DEF t
    <2> QED BY <1>1, <2>1, <2>4, StopsKeeps
  <1> QED BY <1>2, <1>3

\* end_unrecognized on a loop that was asked to sweep.
LEMMA SweepTaskKeeps ==
    ASSUME Inv, NEW l \in Loops, SweepTask(l)
    PROVE  Inv'
  <1>1. Pops(l, "sweep") /\ mail' = Popped(l) /\ Sweep(l, Idle) /\ At(l, "idle")
    BY DEF SweepTask, Pops, ThreadIdle
  <1>2. /\ mail' \in [Loops -> Seq(Letters)] /\ NoNewNotice
        /\ \A k \in Loops : CloseQueued(k) => CloseQueued(k)'
    BY <1>1, PoppedStep
  <1>3. Idle \in Afters /\ ~Reporting(task[l]) /\ ~At(l, "closing")
    BY <1>1 DEF Afters, Reporting, Establishing, At
  <1> QED BY <1>1, <1>2, <1>3, SweepKeeps DEF SweepTask

\* end_unrecognized on the loop of the reload itself.
LEMMA ReloadSweepsKeeps ==
    ASSUME Inv, ReloadSweeps
    PROVE  Inv'
  <1> DEFINE then == [pc |-> "fanout", todo |-> ActiveLoops \ {Main}]
  <1>1. Sweep(Main, then) /\ At(Main, "reload")
    BY DEF ReloadSweeps
  <1>2. then \in Afters
    BY MainLoop DEF Afters, Rounds
  <1> HIDE DEF then
  <1>3. /\ mail' \in [Loops -> Seq(Letters)] /\ NoNewNotice
        /\ \A k \in Loops : CloseQueued(k) => CloseQueued(k)'
    BY SameMail, MailAddsCalm DEF Inv, Types, Post, ReloadSweeps
  <1>4. ~Reporting(task[Main]) /\ ~At(Main, "closing")
    BY <1>1 DEF Reporting, Establishing, At
  <1> QED BY <1>1, <1>2, <1>3, <1>4, SweepKeeps, MainLoop DEF ReloadSweeps

\* close_on_context stops whatever the loop's slots hold.
LEMMA CloseOnContextKeeps ==
    ASSUME Inv, NEW l \in Loops, CloseOnContext(l)
    PROVE  Inv'
  <1>1. Pops(l, "close") /\ mail' = Popped(l) /\ Stopped(l, Slots)
    BY DEF CloseOnContext
  <1>2. /\ mail' \in [Loops -> Seq(Letters)] /\ NoNewNotice
        /\ \A k \in Loops : \A n \in ToSet(mail[k]) : k # l => n \in ToSet(mail'[k])
    BY <1>1, PoppedStep
  <1>3. engine' \in [1..MaxSessions -> EngineRecord] /\ Winds
    BY <1>1, StoppedRooms DEF Inv, Types
  <1>4. Types'
    BY <1>2, <1>3 DEF Inv, Types, Tasks, Post, Rooms, Books, CloseOnContext
  <1>5. /\ SameRooms /\ SameWork /\ SameUse /\ SamePending /\ FewerMade /\ SameReporting
        /\ SameHeld
    BY SameRoomsHeld DEF Inv, SameRooms, SameWork, SameUse, Making, SamePending, FewerMade,
       SameReporting, CloseOnContext
  <1>6. Counted' /\ Held' /\ Noticed'
    BY <1>2, <1>3, <1>5, Mild, CountedKept DEF Inv
  <1>7. Listed'
    BY <1>5, ListedKept DEF Inv, Types, CloseOnContext
  <1>8. Lanes'
    BY DEF Inv, Lanes, CloseOnContext
  <1>9. \A k \in Loops, s \in Slots : Active(k, s)' => Active(k, s)
    BY <1>3, <1>5, ActiveKept DEF Inv, Types
  <1>10. ASSUME NEW s \in Slots PROVE ~Active(l, s)'
    <2>1. CASE ~slot[l][s].held
      BY <2>1 DEF Active, CloseOnContext
    <2>2. CASE slot[l][s].held
      <3> DEFINE g == slot[l][s].gen
      <3>1. g \in 1..MaxSessions /\ DOMAIN engine = 1..MaxSessions /\ engine[g] \in EngineRecord
        BY <2>2, SizeAssumption DEF Inv, Types, Rooms, Held, Placed
      <3>2. engine'[g].st # "active"
        BY <1>1, <2>2, <3>1 DEF Stopped, EngineRecord
      <3> QED BY <3>2 DEF Active, CloseOnContext
    <2> QED BY <2>1, <2>2
  <1>11. Dark(l)'
    BY <1>10 DEF Dark, CloseOnContext, Inv, Types, Post
  <1>12. ASSUME NEW k \in Loops, closing'[k] PROVE CloseQueued(k)' \/ Dark(k)'
    <2>1. CASE k = l
      BY <1>11, <2>1
    <2>2. CASE k # l
      BY <1>2, <1>9, <1>12, <2>2 DEF Inv, Closes, CloseQueued, Dark, CloseOnContext
    <2> QED BY <2>1, <2>2
  <1>13. Closes'
    BY <1>12 DEF Closes, CloseOnContext, Inv, ActiveLoops, At
  <1> QED BY <1>4, <1>6, <1>7, <1>8, <1>13 DEF Inv

-----------------------------------------------------------------------------
(* Starts, and the sessions that come of them. *)

\* One slot replaced.
SetsSlot(l, s, r) == slot' = [slot EXCEPT ![l][s] = r]

\* One slot replaced.
LEMMA SlotSet ==
    ASSUME Rooms, NEW l \in Loops, NEW s \in Slots, NEW r \in SlotRecord, SetsSlot(l, s, r)
    PROVE  /\ slot' \in [Loops -> [Slots -> SlotRecord]] /\ slot'[l][s] = r
           /\ \A k \in Loops, u \in Slots : k # l \/ u # s => slot'[k][u] = slot[k][u]
  BY DEF Rooms, SetsSlot

\* A set without one element.
LEMMA CardinalityLess ==
    ASSUME NEW S, IsFiniteSet(S), NEW x
    PROVE  /\ Cardinality(S) \in Nat
           /\ Cardinality(S \ {x}) = Cardinality(S) - (IF x \in S THEN 1 ELSE 0)
           /\ x \in S => Cardinality(S) > 0
  <1>1. Cardinality(S) \in Nat /\ (x \in S => Cardinality(S) # 0)
    BY FS_CardinalityType, FS_EmptySet
  <1>2. Cardinality(S \ {x}) = IF x \in S THEN Cardinality(S) - 1 ELSE Cardinality(S)
    BY FS_RemoveElement
  <1> QED BY <1>1, <1>2

\* The starts of a loop after one slot changed.
LEMMA PendingSet ==
    ASSUME Rooms, NEW l \in Loops, NEW s \in Slots, NEW r \in SlotRecord, SetsSlot(l, s, r)
    PROVE  /\ \A k \in Loops : k # l => Pending(k)' = Pending(k)
           /\ Cardinality(Pending(l)) \in Nat
           /\ Cardinality(Pending(l)') \in Nat
           /\ slot[l][s].starting => Cardinality(Pending(l)) > 0
           /\ Cardinality(Pending(l)') - (IF r.starting THEN 1 ELSE 0) =
                Cardinality(Pending(l)) - (IF slot[l][s].starting THEN 1 ELSE 0)
  <1>1. /\ slot'[l][s] = r
        /\ \A k \in Loops, u \in Slots : k # l \/ u # s => slot'[k][u] = slot[k][u]
    BY SlotSet
  <1>2. IsFiniteSet(Slots)
    <2>1. 1 \in Int /\ SlotCount \in Int
      BY SizeAssumption
    <2> QED BY <2>1, FS_Interval DEF Slots
  <1> DEFINE P == Pending(l)
             Q == Pending(l)'
  <1>3. P \in SUBSET Slots /\ Q \in SUBSET Slots
    BY DEF Pending
  <1>4. \A k \in Loops : k # l => Pending(k)' = Pending(k)
    BY <1>1 DEF Pending
  <1>5. slot[l][s].starting \in BOOLEAN /\ r.starting \in BOOLEAN
    <2>1. slot[l][s] \in SlotRecord
      BY DEF Rooms
    <2> QED BY <2>1 DEF SlotRecord
  <1>6. /\ s \in P <=> slot[l][s].starting
        /\ s \in Q <=> r.starting
        /\ Q \ {s} = P \ {s}
    BY <1>1 DEF Pending
  <1> HIDE DEF P, Q
  <1>7. IsFiniteSet(P) /\ IsFiniteSet(Q)
    BY <1>2, <1>3, FS_Subset
  <1>8. /\ Cardinality(P) \in Nat /\ Cardinality(Q) \in Nat
        /\ Cardinality(P \ {s}) = Cardinality(P) - (IF s \in P THEN 1 ELSE 0)
        /\ Cardinality(Q \ {s}) = Cardinality(Q) - (IF s \in Q THEN 1 ELSE 0)
        /\ s \in P => Cardinality(P) > 0
    BY <1>7, CardinalityLess
  <1>9. Cardinality(Q) - (IF s \in Q THEN 1 ELSE 0) = Cardinality(P) - (IF s \in P THEN 1 ELSE 0)
    BY <1>6, <1>8
  <1>10. /\ (IF s \in Q THEN 1 ELSE 0) = (IF r.starting THEN 1 ELSE 0)
         /\ (IF s \in P THEN 1 ELSE 0) = (IF slot[l][s].starting THEN 1 ELSE 0)
    BY <1>5, <1>6
  <1> QED BY <1>4, <1>6, <1>8, <1>9, <1>10 DEF P, Q

\* The count after a step of one loop.
LEMMA CountedOne ==
    ASSUME Counted, NEW l \in Loops,
           \A k \in Loops : k # l =>
              /\ Pending(k)' = Pending(k) /\ lane'[k].pending = lane[k].pending
              /\ Reporting(task'[k]) <=> Reporting(task[k]),
           lane'[l].pending = Cardinality(Pending(l)') + (IF Reporting(task'[l]) THEN 1 ELSE 0)
    PROVE  Counted'
  BY DEF Counted

\* The least of a set of slots.
LEMMA MinSlot ==
    ASSUME NEW S, S \subseteq Slots, S # {}
    PROVE  Min(S) \in S
  <1>1. S \subseteq Nat
    BY DEF Slots
  <1>2. PICK n \in S : \A m \in S : n <= m
    BY <1>1, LeastNumber
  <1> QED BY <1>2 DEF Min

\* begin_start accepts: the lane and the slots count one more start.
LEMMA StartAcceptKeeps ==
    ASSUME Inv, NEW l \in Loops, StartAccept(l)
    PROVE  Inv'
  <1> DEFINE s == NextSlot(l)
             r == [FreeSlot EXCEPT !.gen = slot[l][s].gen, !.starting = TRUE]
  <1>1. s \in FreeSlots(l)
    BY MinSlot DEF StartAccept, NextSlot, FreeSlots
  <1>2. s \in Slots /\ ~slot[l][s].starting /\ ~slot[l][s].held
    BY <1>1 DEF FreeSlots
  <1>3. SetsSlot(l, s, r)
    BY DEF StartAccept, SetsSlot
  <1>4. r \in SlotRecord /\ r.starting /\ ~r.held
    <2>1. ASSUME NEW g \in 0..MaxSessions
          PROVE  /\ [FreeSlot EXCEPT !.gen = g, !.starting = TRUE] \in SlotRecord
                 /\ [FreeSlot EXCEPT !.gen = g, !.starting = TRUE].starting
                 /\ ~[FreeSlot EXCEPT !.gen = g, !.starting = TRUE].held
      BY DEF FreeSlot, SlotRecord
    <2>2. slot[l][s].gen \in 0..MaxSessions
      BY <1>2 DEF Inv, Types, Rooms, SlotRecord
    <2> QED BY <2>1, <2>2
  <1> HIDE DEF s, r
  <1>5. /\ slot' \in [Loops -> [Slots -> SlotRecord]] /\ slot'[l][s] = r
        /\ \A k \in Loops, u \in Slots : k # l \/ u # s => slot'[k][u] = slot[k][u]
    BY <1>2, <1>3, <1>4, SlotSet DEF Inv, Types
  <1>6. Types'
    BY <1>5 DEF StartAccept, Inv, Types, Tasks, Post, Rooms, Books
  <1>7. /\ lane[l] \in Lane /\ closing[l] \in BOOLEAN /\ Wants(lane[l], closing[l])
        /\ lane[l].arming /\ lane' = [lane EXCEPT ![l] = Starting(lane[l])]
    BY DEF StartAccept, Arming, Inv, Lanes
  <1>8. /\ Starting(lane[l]) \in Lane /\ Starting(lane[l]).pending = lane[l].pending + 1
        /\ Starting(lane[l]).arming
    BY <1>7, StartingLane
  <1>9. Lanes'
    BY <1>7, <1>8 DEF Inv, Lanes, ArmedOK, StartAccept
  <1>10. SameHeld
    BY <1>2, <1>4, <1>5 DEF SameHeld, Inv, Held, Placed
  <1>11. Winds /\ FewerMade /\ SameUse /\ SameWork
    BY DEF StartAccept, Winds, FewerMade, SameUse, Making, SameWork
  <1>12. NoNewNotice /\ KeepsClosing
    BY DEF StartAccept, NoNewNotice, KeepsClosing, CloseQueued
  <1>13. Held' /\ Noticed' /\ Closes'
    BY <1>10, <1>11, <1>12, Mild
  <1>14. Listed'
    BY <1>10, <1>11, ListedKept DEF Inv, Types, StartAccept
  <1>15. Counted'
    <2>1. /\ \A k \in Loops : k # l => Pending(k)' = Pending(k)
          /\ Cardinality(Pending(l)) \in Nat
          /\ Cardinality(Pending(l)') \in Nat
          /\ Cardinality(Pending(l)') = Cardinality(Pending(l)) + 1
      BY <1>2, <1>3, <1>4, PendingSet DEF Inv, Types
    <2>2. lane'[l].pending = lane[l].pending + 1 /\ task' = task
      BY <1>7, <1>8 DEF Inv, Lanes, StartAccept
    <2>3. \A k \in Loops : k # l => lane'[k].pending = lane[k].pending
      BY <1>7 DEF Inv, Lanes
    <2>4. lane[l].pending = Cardinality(Pending(l)) + (IF Reporting(task[l]) THEN 1 ELSE 0)
      BY DEF Inv, Counted
    <2>5. lane'[l].pending = Cardinality(Pending(l)') + (IF Reporting(task'[l]) THEN 1 ELSE 0)
      BY <2>1, <2>2, <2>4
    <2> QED BY <2>1, <2>2, <2>3, <2>5, CountedOne DEF Inv
  <1> QED BY <1>6, <1>9, <1>13, <1>14, <1>15 DEF Inv

\* What Reports leaves: the scheduler takes the start off its count.
LEMMA ReportsStep ==
    ASSUME Inv, NEW l \in Loops, NEW ok \in BOOLEAN, lane[l].pending > 0, Reports(l, ok, mail)
    PROVE  /\ Lanes' /\ MailAdds({"close", "stop"}) /\ NoNewNotice
           /\ lane'[l].pending = lane[l].pending - 1
           /\ \A k \in Loops : k # l => lane'[k].pending = lane[k].pending
           /\ runtime' \in [closing : BOOLEAN, claimed : BOOLEAN, stopped : BOOLEAN]
           /\ runtime'.closing = runtime.closing
           /\ \A k \in Loops : /\ closing[k] => closing'[k]
                               /\ closing'[k] => closing[k] \/ CloseQueued(k)'
                               /\ CloseQueued(k) => CloseQueued(k)'
  <1>1. PICK next \in Settled(lane[l], closing[l], ~door[l], ok) : LaneBecomes(l, next, mail)
    BY DEF Reports
  <1>2. lane[l] \in Lane /\ closing[l] \in BOOLEAN /\ (~door[l]) \in BOOLEAN
    BY DEF Inv, Types, Post, Lanes
  <1>3. next \in Lane /\ next.pending = lane[l].pending - 1 /\ ArmedOK(next, closing[l])
    BY <1>1, <1>2, SettledLane
  <1>4. /\ Lanes' /\ MailAdds({"close", "stop"})
        /\ lane'[l] = next /\ \A k \in Loops : k # l => lane'[k] = lane[k]
        /\ runtime' \in [closing : BOOLEAN, claimed : BOOLEAN, stopped : BOOLEAN]
        /\ runtime'.closing = runtime.closing
        /\ \A k \in Loops : /\ closing[k] => closing'[k]
                            /\ closing'[k] => closing[k] \/ CloseQueued(k)'
    BY <1>1, <1>3, LaneReports DEF Inv, Types
  <1>5. MailAdds({"close", "sweep", "replace", "stop"})
    BY <1>4 DEF MailAdds
  <1> QED BY <1>3, <1>4, <1>5, MailAddsCalm

\* A start settled without a session: its slot is free again.
LEMMA GivenUpKeeps ==
    ASSUME Inv, NEW l \in Loops, NEW s \in Slots, slot[l][s].starting,
           SetsSlot(l, s, [slot[l][s] EXCEPT !.starting = FALSE]), Reports(l, FALSE, mail),
           UNCHANGED <<served, engine, registry, policy, marked, door, task, sessions>>
    PROVE  Inv'
  <1> DEFINE r == [slot[l][s] EXCEPT !.starting = FALSE]
  <1>1. SetsSlot(l, s, r)
    OBVIOUS
  <1>2. /\ r \in SlotRecord /\ ~r.starting /\ r.held = slot[l][s].held
        /\ r.gen = slot[l][s].gen /\ r.id = slot[l][s].id
    <2>1. slot[l][s] \in SlotRecord
      BY DEF Inv, Types, Rooms
    <2> QED BY <2>1 DEF SlotRecord
  <1> HIDE DEF r
  <1>3. /\ slot' \in [Loops -> [Slots -> SlotRecord]] /\ slot'[l][s] = r
        /\ \A k \in Loops, u \in Slots : k # l \/ u # s => slot'[k][u] = slot[k][u]
    BY <1>1, <1>2, SlotSet DEF Inv, Types
  <1>4. /\ \A k \in Loops : k # l => Pending(k)' = Pending(k)
        /\ Cardinality(Pending(l)) \in Nat /\ Cardinality(Pending(l)) > 0
        /\ Cardinality(Pending(l)') \in Nat
        /\ Cardinality(Pending(l)') = Cardinality(Pending(l)) - 1
    BY <1>1, <1>2, PendingSet DEF Inv, Types
  <1>5. lane[l].pending = Cardinality(Pending(l)) + (IF Reporting(task[l]) THEN 1 ELSE 0)
    BY DEF Inv, Counted
  <1>6. lane[l].pending > 0
    BY <1>4, <1>5
  <1>7. /\ Lanes' /\ MailAdds({"close", "stop"}) /\ NoNewNotice
        /\ lane'[l].pending = lane[l].pending - 1
        /\ \A k \in Loops : k # l => lane'[k].pending = lane[k].pending
        /\ runtime' \in [closing : BOOLEAN, claimed : BOOLEAN, stopped : BOOLEAN]
        /\ runtime'.closing = runtime.closing
        /\ \A k \in Loops : /\ closing[k] => closing'[k]
                            /\ closing'[k] => closing[k] \/ CloseQueued(k)'
                            /\ CloseQueued(k) => CloseQueued(k)'
    BY <1>6, ReportsStep
  <1>8. Types'
    BY <1>3, <1>7 DEF Inv, Types, Tasks, Post, Rooms, Books, MailAdds
  <1>9. SameHeld
    BY <1>2, <1>3 DEF SameHeld, Inv, Held, Placed
  <1>10. Winds /\ FewerMade /\ SameUse /\ SameWork
    BY DEF Winds, FewerMade, SameUse, Making, SameWork
  <1>11. KeepsClosing
    BY <1>7 DEF KeepsClosing
  <1>12. Held' /\ Noticed' /\ Closes'
    BY <1>7, <1>9, <1>10, <1>11, Mild
  <1>13. Listed'
    BY <1>9, <1>10, ListedKept DEF Inv, Types
  <1>14. lane'[l].pending = Cardinality(Pending(l)') + (IF Reporting(task'[l]) THEN 1 ELSE 0)
    BY <1>4, <1>5, <1>7
  <1>15. Counted'
    BY <1>4, <1>7, <1>14, CountedOne DEF Inv
  <1> QED BY <1>7, <1>8, <1>12, <1>13, <1>15 DEF Inv

\* A start settled with a session.
LEMMA EnteredKeeps ==
    ASSUME Inv, NEW l \in ActiveLoops, NEW s \in Slots, NEW id \in Ids, NEW g,
           At(l, "idle"), slot[l][s].starting, ~closing[l], sessions < MaxSessions,
           g = sessions + 1, sessions' = g,
           SetsSlot(l, s, [FreeSlot EXCEPT !.gen = g, !.held = TRUE, !.id = id]),
           engine' = [engine EXCEPT ![g] = [st |-> "active", loop |-> l, slot |-> s]],
           Become(l, [pc |-> "watch", slot |-> s]),
           UNCHANGED <<lane, closing, mail, runtime, served, registry, policy, marked, door>>
    PROVE  Inv'
  <1>0. /\ l \in Loops /\ g \in 1..MaxSessions /\ sessions' \in 0..MaxSessions
        /\ sessions \in Nat /\ MaxSessions \in Nat
    BY MainLoop, SizeAssumption DEF Inv, Types, Rooms
  <1> DEFINE r == [FreeSlot EXCEPT !.gen = g, !.held = TRUE, !.id = id]
             e == [st |-> "active", loop |-> l, slot |-> s]
             t == [pc |-> "watch", slot |-> s]
  <1>1. r \in SlotRecord /\ ~r.starting /\ r.held /\ r.gen = g /\ r.id = id
    BY <1>0 DEF FreeSlot, SlotRecord
  <1>2. e \in EngineRecord /\ e.st = "active" /\ e.loop = l /\ e.slot = s
    BY <1>0 DEF EngineRecord
  <1>3. TaskOK(t) /\ Reporting(t) /\ Establishing(t) /\ t.slot = s
    BY DEF TaskOK, Watches, Reporting, Establishing
  <1>4. SetsSlot(l, s, r) /\ engine' = [engine EXCEPT ![g] = e] /\ Become(l, t)
    OBVIOUS
  <1> HIDE DEF r, e, t
  <1>5. /\ slot' \in [Loops -> [Slots -> SlotRecord]] /\ slot'[l][s] = r
        /\ \A k \in Loops, u \in Slots : k # l \/ u # s => slot'[k][u] = slot[k][u]
    BY <1>0, <1>1, <1>4, SlotSet DEF Inv, Types
  <1>6. /\ engine' \in [1..MaxSessions -> EngineRecord] /\ engine'[g] = e
        /\ \A h \in 1..MaxSessions : h # g => engine'[h] = engine[h]
    BY <1>0, <1>2, <1>4 DEF Inv, Types, Rooms
  <1>7. Tasks' /\ task'[l] = t /\ \A k \in Loops : k # l => task'[k] = task[k]
    BY <1>0, <1>3, <1>4, Becomes DEF Inv, Types
  <1>8. ~Reporting(task[l]) /\ ~Establishing(task[l])
    BY DEF At, Reporting, Establishing
  <1>9. /\ \A k \in Loops, u \in Slots : k # l => (Making(k, u)' <=> Making(k, u))
        /\ \A u \in Slots : Making(l, u)' <=> u = s
        /\ \A u \in Slots : ~Making(l, u)
    BY <1>3, <1>7, <1>8 DEF Making
  <1>10. Types'
    BY <1>0, <1>5, <1>6, <1>7 DEF Inv, Types, Post, Rooms, Books
  <1>11. Lanes'
    BY DEF Inv, Lanes
  <1>12. /\ ~slot[l][s].held /\ engine[g].st = "none"
         /\ \A k \in Loops, u \in Slots : Placed(k, u)
         /\ \A h \in 1..MaxSessions : Owned(h)
         /\ ActiveLoops' = ActiveLoops
    BY <1>0 DEF Inv, Held, Placed, Owned, ActiveLoops
  <1>13. ASSUME NEW k \in Loops, NEW u \in Slots PROVE Placed(k, u)'
    <2>1. CASE k = l /\ u = s
      BY <1>0, <1>1, <1>2, <1>5, <1>6, <1>12, <2>1 DEF Placed
    <2>2. CASE k # l \/ u # s
      <3>1. Placed(k, u) /\ slot'[k][u] = slot[k][u] /\ (Making(k, u)' => Making(k, u))
        BY <1>5, <1>9, <1>12, <2>2
      <3>2. slot[k][u].held => /\ slot[k][u].gen \in 1..MaxSessions /\ slot[k][u].gen # g
                               /\ slot[k][u].gen \in 1..sessions'
        BY <1>0, <3>1 DEF Placed
      <3> QED BY <1>6, <1>12, <3>1, <3>2 DEF Placed
    <2> QED BY <2>1, <2>2
  <1>14. ASSUME NEW h \in 1..MaxSessions PROVE Owned(h)'
    <2>1. CASE h = g
      BY <1>0, <1>1, <1>2, <1>5, <1>6, <2>1 DEF Owned
    <2>2. CASE h # g
      <3>1. Owned(h) /\ engine'[h] = engine[h] /\ (h > sessions' => h > sessions)
        BY <1>0, <1>6, <1>12, <2>2
      <3>2. engine[h].loop \in Loops /\ engine[h].slot \in Slots
        BY DEF Inv, Types, Rooms, EngineRecord
      <3>3. engine[h].st = "active" => engine[h].loop # l \/ engine[h].slot # s
        BY <1>12, <3>1 DEF Owned
      <3> QED BY <1>5, <3>1, <3>2, <3>3 DEF Owned
    <2> QED BY <2>1, <2>2
  <1>15. Held'
    BY <1>13, <1>14 DEF Held
  <1>16. Noticed'
    <2> SUFFICES ASSUME NEW k \in Loops, NEW n \in ToSet(mail'[k]), n.kind = "ended"
                 PROVE  engine'[n.gen].st = "closed"
      BY DEF Noticed
    <2>1. n \in Letters
      BY DEF Inv, Types, Post, ToSet
    <2>2. n.gen \in 1..MaxSessions /\ engine[n.gen].st = "closed"
      BY <2>1 DEF Letters, Notices, Inv, Noticed
    <2> QED BY <1>6, <1>12, <2>2
  <1>17. Listed'
    <2>1. SUFFICES ASSUME served PROVE Listed'
      BY DEF Listed
    <2>2. ASSUME NEW k \in Loops, NEW u \in Slots PROVE SlotListed(k, u)'
      <3>1. CASE k = l /\ u = s
        BY <1>0, <1>9, <3>1 DEF SlotListed
      <3>2. CASE k # l \/ u # s
        <4>1. SlotListed(k, u) /\ (Making(k, u)' <=> Making(k, u))
          BY <1>9, <2>1, <3>2 DEF Inv, Listed
        <4> QED BY <1>5, <3>2, <4>1 DEF SlotListed, Names
      <3> QED BY <3>1, <3>2
    <2>3. ASSUME NEW i \in DOMAIN registry' PROVE EntryHeld(i)'
      <3> DEFINE k == registry[i].loop
                 u == registry[i].slot
      <3>1. EntryHeld(i) /\ k \in Loops /\ u \in Slots
        BY <2>1, EntryTyped DEF Inv, Types, Listed
      <3>2. k # l \/ u # s
        BY <1>12, <3>1 DEF EntryHeld
      <3>3. slot'[k][u] = slot[k][u] /\ (Making(k, u)' => Making(k, u))
        BY <1>5, <1>9, <3>1, <3>2
      <3> QED BY <3>1, <3>3 DEF EntryHeld, Names
    <2> QED BY <2>2, <2>3 DEF Listed
  <1>18. ASSUME NEW k \in Loops, NEW u \in Slots, closing[k], Active(k, u)' PROVE Active(k, u)
    <2>1. k # l /\ slot'[k][u] = slot[k][u]
      BY <1>5, <1>18
    <2>2. slot[k][u].held /\ slot[k][u].gen \in 1..MaxSessions /\ slot[k][u].gen # g
      BY <1>0, <1>12, <1>18, <2>1 DEF Active, Placed
    <2> QED BY <1>6, <1>18, <2>1, <2>2 DEF Active
  <1>19. KeepsClosing
    BY <1>0, <1>7, MainLoop DEF KeepsClosing, CloseQueued, At
  <1>20. Closes'
    BY <1>18, <1>19, ClosesKept DEF Inv, Types
  <1>21. Counted'
    <2>1. /\ \A k \in Loops : k # l => Pending(k)' = Pending(k)
          /\ Cardinality(Pending(l)) \in Nat /\ Cardinality(Pending(l)') \in Nat
          /\ Cardinality(Pending(l)') = Cardinality(Pending(l)) - 1
      BY <1>0, <1>1, <1>4, PendingSet DEF Inv, Types
    <2>2. lane[l].pending = Cardinality(Pending(l)) + (IF Reporting(task[l]) THEN 1 ELSE 0)
      BY <1>0 DEF Inv, Counted
    <2>3. lane[l].pending = Cardinality(Pending(l)') + 1
      BY <1>8, <2>1, <2>2
    <2>4. lane'[l].pending = Cardinality(Pending(l)') + (IF Reporting(task'[l]) THEN 1 ELSE 0)
      BY <1>3, <1>7, <2>3
    <2> QED BY <1>0, <1>7, <2>1, <2>4, CountedOne DEF Inv
  <1> QED BY <1>10, <1>11, <1>15, <1>16, <1>17, <1>20, <1>21 DEF Inv

\* settled() with a failure.
LEMMA StartFailsKeeps ==
    ASSUME Inv, NEW l \in Loops, NEW s \in Slots, StartFails(l, s)
    PROVE  Inv'
  <1>1. SetsSlot(l, s, [slot[l][s] EXCEPT !.starting = FALSE])
    BY DEF StartFails, SetsSlot
  <1> QED BY <1>1, GivenUpKeeps DEF StartFails

\* settled() with an engine.
LEMMA StartSucceedsKeeps ==
    ASSUME Inv, NEW l \in ActiveLoops, NEW s \in Slots, NEW id \in Ids, NEW overrun \in BOOLEAN,
           StartSucceeds(l, s, id, overrun)
    PROVE  Inv'
  <1>1. CASE closing[l] \/ overrun
    <2>1. SetsSlot(l, s, [slot[l][s] EXCEPT !.starting = FALSE])
      BY <1>1 DEF StartSucceeds, SetsSlot
    <2> QED BY <1>1, <2>1, GivenUpKeeps, MainLoop DEF StartSucceeds
  <1>2. CASE ~(closing[l] \/ overrun)
    <2>2. SetsSlot(l, s, [FreeSlot EXCEPT !.gen = sessions', !.held = TRUE, !.id = id])
      BY <1>2 DEF StartSucceeds, SetsSlot
    <2>3. At(l, "idle") /\ slot[l][s].starting /\ sessions < MaxSessions
      BY DEF StartSucceeds, ThreadIdle
    <2>4. /\ sessions' = sessions + 1
          /\ engine' = [engine EXCEPT ![sessions'] = [st |-> "active", loop |-> l, slot |-> s]]
          /\ Become(l, [pc |-> "watch", slot |-> s])
          /\ UNCHANGED <<lane, closing, mail, runtime, served, registry, policy, marked, door>>
      BY <1>2 DEF StartSucceeds
    <2> QED BY <1>2, <2>2, <2>3, <2>4, EnteredKeeps
  <1> QED BY <1>1, <1>2

-----------------------------------------------------------------------------
(* A session refused, or established. *)

\* Refuses: the session that loop l is looking at leaves its slot.
LEMMA RefusesKeeps ==
    ASSUME Inv, NEW l \in Loops, task[l].pc \in {"watch", "policy"}, Refuses(l, task[l].slot),
           UNCHANGED <<served, registry, policy, marked, door, sessions>>
    PROVE  Inv'
  <1> DEFINE s == task[l].slot
             r == [slot[l][s] EXCEPT !.held = FALSE]
  <1>0. s \in Slots
    BY DEF Inv, Types, Tasks, TaskOK, Watches
  <1>1. /\ SetsSlot(l, s, r) /\ Stopped(l, {s}) /\ Become(l, Idle) /\ Reports(l, FALSE, mail)
    BY DEF Refuses, SetsSlot
  <1>2. Making(l, s) /\ Reporting(task[l]) /\ ~At(l, "closing")
    BY DEF Making, Establishing, Reporting, At
  <1>3. slot[l][s] \in SlotRecord /\ slot[l][s].held /\ ~slot[l][s].starting
    BY <1>0, <1>2 DEF Inv, Types, Rooms, Held, Placed
  <1>4. r \in SlotRecord /\ ~r.held /\ ~r.starting /\ r.gen = slot[l][s].gen
    BY <1>3 DEF SlotRecord
  <1> HIDE DEF s, r
  <1>5. /\ slot' \in [Loops -> [Slots -> SlotRecord]] /\ slot'[l][s] = r
        /\ \A k \in Loops, u \in Slots : k # l \/ u # s => slot'[k][u] = slot[k][u]
    BY <1>0, <1>1, <1>4, SlotSet DEF Inv, Types
  <1>6. engine' \in [1..MaxSessions -> EngineRecord] /\ Winds
    BY <1>1, StoppedRooms DEF Inv, Types
  <1>7. TaskOK(Idle) /\ ~Reporting(Idle) /\ ~Establishing(Idle)
    BY DEF TaskOK, Idle, Reporting, Establishing
  <1>8. Tasks' /\ task'[l] = Idle /\ \A k \in Loops : k # l => task'[k] = task[k]
    BY <1>1, <1>7, Becomes DEF Inv, Types
  <1>9. /\ \A k \in Loops, u \in Slots : k # l => (Making(k, u)' <=> Making(k, u))
        /\ \A u \in Slots : ~Making(l, u)' /\ (Making(l, u) <=> u = s)
    BY <1>2, <1>7, <1>8 DEF Making
  <1>10. /\ \A k \in Loops : k # l => Pending(k)' = Pending(k)
         /\ Cardinality(Pending(l)) \in Nat
         /\ Cardinality(Pending(l)') = Cardinality(Pending(l))
    <2>1. /\ \A k \in Loops : k # l => Pending(k)' = Pending(k)
          /\ Cardinality(Pending(l)) \in Nat
          /\ Cardinality(Pending(l)') \in Nat
          /\ Cardinality(Pending(l)') - (IF r.starting THEN 1 ELSE 0) =
                Cardinality(Pending(l)) - (IF slot[l][s].starting THEN 1 ELSE 0)
      BY <1>0, <1>1, <1>4, PendingSet DEF Inv, Types
    <2> QED BY <1>3, <1>4, <2>1
  <1>11. lane[l].pending = Cardinality(Pending(l)) + (IF Reporting(task[l]) THEN 1 ELSE 0)
    BY DEF Inv, Counted
  <1>12. lane[l].pending = Cardinality(Pending(l)) + 1 /\ lane[l].pending > 0
    BY <1>2, <1>10, <1>11
  <1>13. /\ Lanes' /\ MailAdds({"close", "stop"}) /\ NoNewNotice
         /\ lane'[l].pending = lane[l].pending - 1
         /\ \A k \in Loops : k # l => lane'[k].pending = lane[k].pending
         /\ runtime' \in [closing : BOOLEAN, claimed : BOOLEAN, stopped : BOOLEAN]
         /\ runtime'.closing = runtime.closing
         /\ \A k \in Loops : /\ closing[k] => closing'[k]
                             /\ closing'[k] => closing[k] \/ CloseQueued(k)'
                             /\ CloseQueued(k) => CloseQueued(k)'
    BY <1>1, <1>12, ReportsStep
  <1>14. Types'
    BY <1>5, <1>6, <1>8, <1>13 DEF Inv, Types, Post, Rooms, Books, MailAdds
  <1>15. Counted'
    <2>1. lane'[l].pending = Cardinality(Pending(l)') + (IF Reporting(task'[l]) THEN 1 ELSE 0)
      BY <1>7, <1>8, <1>10, <1>12, <1>13
    <2> QED BY <1>8, <1>10, <1>13, <2>1, CountedOne DEF Inv
  <1>16. ASSUME NEW k \in Loops, NEW u \in Slots PROVE Placed(k, u)'
    <2>1. CASE k = l /\ u = s
      BY <1>4, <1>5, <1>9, <2>1 DEF Placed
    <2>2. CASE k # l \/ u # s
      <3>1. Placed(k, u) /\ slot'[k][u] = slot[k][u] /\ (Making(k, u)' => Making(k, u))
        BY <1>5, <1>9, <2>2 DEF Inv, Held
      <3>2. slot[k][u].held => slot[k][u].gen \in 1..MaxSessions
        BY <3>1, SizeAssumption DEF Placed, Inv, Types, Rooms
      <3> QED BY <1>6, <3>1, <3>2 DEF Placed, Winds, ActiveLoops
    <2> QED BY <2>1, <2>2
  <1>17. ASSUME NEW h \in 1..MaxSessions PROVE Owned(h)'
    <2>1. Owned(h) /\ engine[h].loop \in Loops /\ engine[h].slot \in Slots
      BY DEF Inv, Types, Rooms, Held, EngineRecord
    <2>2. engine'[h].st = "active" => engine[h].loop # l \/ engine[h].slot # s
      <3>1. SUFFICES ASSUME engine[h].loop = l, engine[h].slot = s, engine'[h].st = "active"
            PROVE  FALSE
        OBVIOUS
      <3>2. engine[h].st = "active"
        BY <1>6, <3>1 DEF Winds
      <3>3. slot[l][s].held /\ slot[l][s].gen = h
        BY <2>1, <3>1, <3>2 DEF Owned
      <3>4. engine' = [g \in DOMAIN engine |->
                         IF /\ engine[g].st = "active"
                            /\ \E u \in {s} : slot[l][u].held /\ slot[l][u].gen = g
                         THEN [engine[g] EXCEPT !.st = "stopping"] ELSE engine[g]]
        BY <1>1 DEF Stopped
      <3>5. h \in DOMAIN engine /\ engine[h] \in EngineRecord
        BY DEF Inv, Types, Rooms
      <3>6. engine'[h] = [engine[h] EXCEPT !.st = "stopping"]
        BY <3>2, <3>3, <3>4, <3>5
      <3> QED BY <3>1, <3>5, <3>6 DEF EngineRecord
    <2> QED BY <1>5, <1>6, <2>1, <2>2 DEF Owned, Winds
  <1>18. Held'
    BY <1>16, <1>17 DEF Held
  <1>19. Noticed'
    BY <1>6, <1>13, NoticedKept DEF Inv, Types
  <1>20. Listed'
    <2>1. SUFFICES ASSUME served PROVE Listed'
      BY DEF Listed
    <2>2. ASSUME NEW k \in Loops, NEW u \in Slots PROVE SlotListed(k, u)'
      <3>1. CASE k = l /\ u = s
        BY <1>4, <1>5, <3>1 DEF SlotListed
      <3>2. CASE k # l \/ u # s
        <4>1. SlotListed(k, u) /\ (Making(k, u)' <=> Making(k, u))
          BY <1>9, <2>1, <3>2 DEF Inv, Listed
        <4> QED BY <1>5, <3>2, <4>1 DEF SlotListed, Names
      <3> QED BY <3>1, <3>2
    <2>3. ASSUME NEW i \in DOMAIN registry' PROVE EntryHeld(i)'
      <3> DEFINE k == registry[i].loop
                 u == registry[i].slot
      <3>1. EntryHeld(i) /\ k \in Loops /\ u \in Slots
        BY <2>1, EntryTyped DEF Inv, Types, Listed
      <3>2. k # l \/ u # s
        BY <1>2, <3>1 DEF EntryHeld
      <3>3. slot'[k][u] = slot[k][u] /\ (Making(k, u)' => Making(k, u))
        BY <1>5, <1>9, <3>1, <3>2
      <3> QED BY <3>1, <3>3 DEF EntryHeld, Names
    <2> QED BY <2>2, <2>3 DEF Listed
  <1>21. ASSUME NEW k \in Loops, NEW u \in Slots, Active(k, u)' PROVE Active(k, u)
    <2>1. k # l \/ u # s
      BY <1>4, <1>5, <1>21 DEF Active
    <2>2. slot'[k][u] = slot[k][u] /\ slot[k][u].held /\ Placed(k, u)
      BY <1>5, <1>21, <2>1 DEF Active, Inv, Held
    <2>3. slot[k][u].gen \in 1..MaxSessions
      BY <2>2, SizeAssumption DEF Placed, Inv, Types, Rooms
    <2> QED BY <1>6, <1>21, <2>2, <2>3 DEF Active, Winds
  <1>22. KeepsClosing
    BY <1>2, <1>8, <1>13, MainLoop DEF KeepsClosing, At
  <1>23. Closes'
    BY <1>21, <1>22, ClosesKept DEF Inv, Types
  <1> QED BY <1>13, <1>14, <1>15, <1>18, <1>19, <1>20, <1>23 DEF Inv

\* observe_session, observe_epochs and arm_rekey_watchdog.
LEMMA WatchKeeps ==
    ASSUME Inv, NEW l \in Loops, NEW fails \in BOOLEAN, Watch(l, fails)
    PROVE  Inv'
  <1>1. CASE closing[l] \/ fails
    <2>1. /\ task[l].pc \in {"watch", "policy"} /\ Refuses(l, task[l].slot)
          /\ UNCHANGED <<served, registry, policy, marked, door, sessions>>
      BY <1>1 DEF Watch, At
    <2> QED BY <2>1, RefusesKeeps
  <1>2. CASE ~(closing[l] \/ fails)
    BY <1>2, WatchedKeeps DEF Watch
  <1> QED BY <1>1, <1>2

\* admit_identity reads the policy.
LEMMA ReadPolicyKeeps ==
    ASSUME Inv, NEW l \in Loops, ReadPolicy(l)
    PROVE  Inv'
  <1>1. CASE slot[l][task[l].slot].id \notin policy.known
    <2>1. /\ task[l].pc \in {"watch", "policy"} /\ Refuses(l, task[l].slot)
          /\ UNCHANGED <<served, registry, policy, marked, door, sessions>>
      BY <1>1 DEF ReadPolicy, At
    <2> QED BY <2>1, RefusesKeeps
  <1>2. CASE slot[l][task[l].slot].id \in policy.known
    BY <1>2, ReadKeeps DEF ReadPolicy
  <1> QED BY <1>1, <1>2

\* The session is established and the scheduler hears of it.
LEMMA EstablishedKeeps ==
    ASSUME Inv, NEW l \in Loops, Established(l)
    PROVE  Inv'
  <1>1. /\ task[l].pc = "tell" /\ task[l].then = "report" /\ Become(l, Idle)
        /\ Reports(l, TRUE, mail)
        /\ UNCHANGED <<served, slot, engine, registry, policy, marked, door, sessions>>
    BY DEF Established, At
  <1>2. Reporting(task[l]) /\ ~Establishing(task[l]) /\ ~At(l, "closing")
    BY <1>1 DEF Reporting, Establishing, At
  <1>3. TaskOK(Idle) /\ ~Reporting(Idle) /\ ~Establishing(Idle)
    BY DEF TaskOK, Idle, Reporting, Establishing
  <1>4. Tasks' /\ task'[l] = Idle /\ \A k \in Loops : k # l => task'[k] = task[k]
    BY <1>1, <1>3, Becomes DEF Inv, Types
  <1>5. /\ \A k \in Loops, u \in Slots : Making(k, u)' <=> Making(k, u)
    BY <1>2, <1>3, <1>4 DEF Making
  <1>6. lane[l].pending = Cardinality(Pending(l)) + (IF Reporting(task[l]) THEN 1 ELSE 0)
    BY DEF Inv, Counted
  <1>7. Cardinality(Pending(l)) \in Nat
    <2>1. 1 \in Int /\ SlotCount \in Int
      BY SizeAssumption
    <2>2. IsFiniteSet(Slots) /\ Pending(l) \in SUBSET Slots
      BY <2>1, FS_Interval DEF Slots, Pending
    <2> QED BY <2>2, FS_Subset, FS_CardinalityType
  <1>8. lane[l].pending = Cardinality(Pending(l)) + 1 /\ lane[l].pending > 0
    BY <1>2, <1>6, <1>7
  <1>9. /\ Lanes' /\ MailAdds({"close", "stop"}) /\ NoNewNotice
        /\ lane'[l].pending = lane[l].pending - 1
        /\ \A k \in Loops : k # l => lane'[k].pending = lane[k].pending
        /\ runtime' \in [closing : BOOLEAN, claimed : BOOLEAN, stopped : BOOLEAN]
        /\ runtime'.closing = runtime.closing
        /\ \A k \in Loops : /\ closing[k] => closing'[k]
                            /\ closing'[k] => closing[k] \/ CloseQueued(k)'
                            /\ CloseQueued(k) => CloseQueued(k)'
    BY <1>1, <1>8, ReportsStep
  <1>10. Types'
    BY <1>1, <1>4, <1>9 DEF Inv, Types, Post, Rooms, Books, MailAdds
  <1>11. Counted'
    <2>1. \A k \in Loops : Pending(k)' = Pending(k)
      BY <1>1 DEF Pending
    <2>2. lane'[l].pending = Cardinality(Pending(l)') + (IF Reporting(task'[l]) THEN 1 ELSE 0)
      BY <1>3, <1>4, <1>7, <1>8, <1>9, <2>1
    <2> QED BY <1>4, <1>9, <2>1, <2>2, CountedOne DEF Inv
  <1>12. /\ SameHeld /\ Winds /\ FewerMade /\ SameUse
    BY <1>1, <1>5 DEF SameHeld, Inv, Held, Placed, Winds, FewerMade, SameUse
  <1>13. KeepsClosing
    BY <1>1, <1>2, <1>4, <1>9, MainLoop DEF KeepsClosing, At
  <1>14. Held' /\ Noticed' /\ Closes'
    BY <1>9, <1>12, <1>13, Mild
  <1>15. Listed'
    <2>1. ASSUME NEW i \in DOMAIN registry
          PROVE  Making(registry[i].loop, registry[i].slot)' => Making(registry[i].loop, registry[i].slot)
      BY <1>1, <1>5, EntryTyped DEF Inv, Types
    <2> QED BY <1>1, <1>5, <2>1 DEF Inv, Listed, SlotListed, EntryHeld, Names
  <1> QED BY <1>9, <1>10, <1>11, <1>14, <1>15 DEF Inv

\* evict_beyond_limit, on an endpoint without a share.
LEMMA AdmitAloneKeeps ==
    ASSUME Inv, NEW l \in Loops, AdmitAlone(l)
    PROVE  Inv'
  <1> DEFINE gone == BeyondLimit(l, slot[l][task[l].slot].id, task[l].limit)
             t == [pc |-> "tell", then |-> "report", owners |-> {}]
  <1>1. /\ ~served /\ task[l].pc = "admit" /\ Evicted(l, gone) /\ Stopped(l, gone) /\ Become(l, t)
    BY DEF AdmitAlone, At
  <1> HIDE DEF gone
  <1>2. t \in TellsReport /\ t.pc = "tell" /\ t.then = "report"
    BY DEF TellsReport
  <1> HIDE DEF t
  <1>3. TaskOK(t) /\ Reporting(t) /\ ~Establishing(t) /\ Reporting(task[l]) /\ ~At(l, "closing")
    BY <1>1, <1>2 DEF TaskOK, Reporting, Establishing, At
  <1>4. Tasks' /\ task'[l] = t /\ \A k \in Loops : k # l => task'[k] = task[k]
    BY <1>1, <1>3, Becomes DEF Inv, Types
  <1>5. FewerMade /\ SameReporting
    BY <1>3, <1>4 DEF FewerMade, SameReporting, Making
  <1>6. slot' \in [Loops -> [Slots -> SlotRecord]] /\ SameRooms
    BY <1>1, EvictedRooms DEF Inv, Types
  <1>7. engine' \in [1..MaxSessions -> EngineRecord] /\ Winds
    BY <1>1, StoppedRooms DEF Inv, Types
  <1>8. Types' /\ Lanes' /\ SameUse /\ SamePending
    BY <1>4, <1>6, <1>7 DEF AdmitAlone, Inv, Types, Post, Rooms, Books, Lanes, SameUse, SamePending
  <1>9. NoNewNotice /\ KeepsClosing
    BY <1>1, <1>3, <1>4, MainLoop DEF AdmitAlone, NoNewNotice, KeepsClosing, CloseQueued, At
  <1>10. SameHeld
    BY <1>6, SameRoomsHeld DEF Inv
  <1>11. Held' /\ Noticed' /\ Closes'
    BY <1>5, <1>7, <1>8, <1>9, <1>10, Mild
  <1>12. Counted'
    BY <1>5, <1>6, <1>8, CountedKept DEF Inv
  <1>13. Listed'
    BY <1>1 DEF Listed, AdmitAlone
  <1> QED BY <1>8, <1>11, <1>12, <1>13 DEF Inv

-----------------------------------------------------------------------------
(* Engines that end. *)

\* An engine stops itself.
LEMMA EngineFailsKeeps ==
    ASSUME Inv, NEW g \in 1..MaxSessions, EngineFails(g)
    PROVE  Inv'
  <1> DEFINE e == [engine[g] EXCEPT !.st = "stopping"]
  <1>1. engine' = [engine EXCEPT ![g] = e] /\ engine[g].st = "active"
    BY DEF EngineFails
  <1>2. engine[g] \in EngineRecord
    BY DEF Inv, Types, Rooms
  <1>3. e \in EngineRecord /\ e.st = "stopping" /\ e.loop = engine[g].loop /\ e.slot = engine[g].slot
    BY <1>2 DEF EngineRecord
  <1> HIDE DEF e
  <1>4. engine' \in [1..MaxSessions -> EngineRecord] /\ Winds
    BY <1>1, <1>3 DEF Inv, Types, Rooms, Winds
  <1>5. Types' /\ Lanes'
    BY <1>4 DEF EngineFails, Inv, Types, Tasks, Post, Rooms, Books, Lanes
  <1>6. SameRooms /\ SameWork /\ SamePending /\ SameUse
    BY DEF EngineFails, SameRooms, SameWork, Making, SamePending, SameUse
  <1>7. NoNewNotice /\ KeepsClosing /\ registry' = registry
    BY DEF EngineFails, NoNewNotice, KeepsClosing, CloseQueued
  <1> QED BY <1>4, <1>5, <1>6, <1>7, Calm

\* The engine's notice is sent when it has closed, so it is never early.
LEMMA EngineClosesKeeps ==
    ASSUME Inv, NEW g \in 1..MaxSessions, EngineCloses(g)
    PROVE  Inv'
  <1> DEFINE e == [engine[g] EXCEPT !.st = "closed"]
             n == Notice(engine[g].slot, g)
  <1>1. /\ engine' = [engine EXCEPT ![g] = e] /\ engine[g].st = "stopping"
        /\ mail' = Submitted(mail, engine[g].loop, n)
    BY DEF EngineCloses
  <1>2. engine[g] \in EngineRecord /\ engine[g].loop \in Loops /\ engine[g].slot \in Slots
    BY DEF Inv, Types, Rooms, EngineRecord
  <1>3. e \in EngineRecord /\ e.st = "closed" /\ e.loop = engine[g].loop /\ e.slot = engine[g].slot
    BY <1>2 DEF EngineRecord
  <1>4. n \in Letters /\ n.kind = "ended" /\ n.gen = g
    BY <1>2 DEF Notice, Letters, Notices
  <1> HIDE DEF e, n
  <1>5. engine' \in [1..MaxSessions -> EngineRecord] /\ Winds /\ engine'[g].st = "closed"
    BY <1>1, <1>3 DEF Inv, Types, Rooms, Winds
  <1>6. /\ mail' \in [Loops -> Seq(Letters)]
        /\ \A k \in Loops : /\ ToSet(mail[k]) \subseteq ToSet(mail'[k])
                            /\ ToSet(mail'[k]) \subseteq ToSet(mail[k]) \cup {n}
    <2>1. mail \in [Loops -> Seq(Letters)]
      BY DEF Inv, Types, Post
    <2> DEFINE k0 == engine[g].loop
    <2>2. k0 \in Loops /\ mail' = Submitted(mail, k0, n)
      BY <1>1, <1>2
    <2> HIDE DEF k0
    <2> QED BY <1>4, <2>1, <2>2, SubmittedMail
  <1>7. Types' /\ Lanes'
    BY <1>5, <1>6 DEF EngineCloses, Inv, Types, Tasks, Post, Rooms, Books, Lanes
  <1>8. SameRooms /\ SameWork /\ SamePending /\ SameUse /\ FewerMade /\ SameReporting /\ SameHeld
    BY SameRoomsHeld DEF EngineCloses, SameRooms, SameWork, Making, SamePending, SameUse,
       FewerMade, SameReporting, Inv
  <1>9. KeepsClosing
    BY <1>6 DEF EngineCloses, KeepsClosing, CloseQueued
  <1>10. Held' /\ Closes' /\ Counted'
    BY <1>5, <1>8, <1>9, Mild, CountedKept DEF Inv
  <1>11. Listed'
    BY <1>8, ListedKept DEF Inv, Types, EngineCloses
  <1>12. Noticed'
    <2> SUFFICES ASSUME NEW k \in Loops, NEW m \in ToSet(mail'[k]), m.kind = "ended"
                 PROVE  engine'[m.gen].st = "closed"
      BY DEF Noticed
    <2>1. CASE m = n
      BY <1>4, <1>5, <2>1
    <2>2. CASE m \in ToSet(mail[k])
      <3>1. m \in Letters
        BY <2>2 DEF Inv, Types, Post, ToSet
      <3>2. m.gen \in 1..MaxSessions /\ engine[m.gen].st = "closed"
        BY <2>2, <3>1 DEF Letters, Notices, Inv, Noticed
      <3> QED BY <1>5, <3>2 DEF Winds
    <2> QED BY <1>6, <2>1, <2>2
  <1> QED BY <1>7, <1>10, <1>11, <1>12 DEF Inv

-----------------------------------------------------------------------------
(* The registry. *)

RestBody(reg, x, f, n) ==
    IF n = 0 THEN <<>>
    ELSE IF [reg[n] EXCEPT !.replaced = FALSE] = x THEN f[n - 1]
    ELSE Append(f[n - 1], reg[n])

IsRest(reg, x, f, m) == f = [n \in 0..m |-> RestBody(reg, x, f, n)]

\* The recursion inside Forgotten has a solution for every length.
LEMMA RestExists ==
    ASSUME NEW reg, NEW x, NEW m \in Nat
    PROVE  \E f : IsRest(reg, x, f, m)
  <1> DEFINE K == {k \in Nat : \E f : IsRest(reg, x, f, k)}
  <1>1. 0 \in K
    <2> DEFINE f == [i \in 0..0 |-> <<>>]
    <2>1. IsRest(reg, x, f, 0)
      BY DEF IsRest, RestBody
    <2> QED BY <2>1
  <1>2. ASSUME NEW k \in Nat, k \in K PROVE k + 1 \in K
    <2>1. PICK f : IsRest(reg, x, f, k)
      BY <1>2
    <2> DEFINE h == [i \in 0..(k + 1) |-> IF i <= k THEN f[i] ELSE RestBody(reg, x, f, i)]
    <2>2. \A i \in 0..k : f[i] = RestBody(reg, x, f, i)
      BY <2>1 DEF IsRest
    <2>3. ASSUME NEW i \in 0..(k + 1) PROVE h[i] = RestBody(reg, x, h, i)
      <3>1. h[i] = RestBody(reg, x, f, i)
        BY <2>2
      <3>2. i # 0 => h[i - 1] = f[i - 1]
        OBVIOUS
      <3> HIDE DEF h
      <3> QED BY <3>1, <3>2 DEF RestBody
    <2>4. h = [i \in 0..(k + 1) |-> RestBody(reg, x, h, i)]
      <3>1. h = [i \in 0..(k + 1) |-> h[i]]
        OBVIOUS
      <3> HIDE DEF h
      <3> QED BY <2>3, <3>1
    <2> HIDE DEF h
    <2> QED BY <2>4 DEF IsRest
  <1>3. Nat \subseteq K
    <2> HIDE DEF K
    <2> QED BY <1>1, <1>2, NatSetInduction
  <1> QED BY <1>3

\* The entries that are not x, marked or not.
Besides(reg, x) == {e \in ToSet(reg) : [e EXCEPT !.replaced = FALSE] # x}

\* forget() takes out the session's entry, marked or not, and no other.
LEMMA ForgottenFacts ==
    ASSUME NEW T, NEW reg \in Seq(T), NEW x
    PROVE  /\ Forgotten(reg, x) \in Seq(T)
           /\ ToSet(Forgotten(reg, x)) = Besides(reg, x)
  <1> DEFINE f == CHOOSE h : IsRest(reg, x, h, Len(reg))
             S == Besides(reg, x)
             P(n) == /\ f[n] \in Seq(T)
                     /\ ToSet(f[n]) = {reg[i] : i \in 1..n} \cap S
             K == {n \in Nat : P(n)}
  <1>1. Forgotten(reg, x) = f[Len(reg)]
    BY DEF Forgotten, IsRest, RestBody
  <1>2. IsRest(reg, x, f, Len(reg))
    BY RestExists
  <1>3. \A n \in 0..Len(reg) : f[n] = RestBody(reg, x, f, n)
    <2> HIDE DEF f
    <2> QED BY <1>2 DEF IsRest
  <1> HIDE DEF f
  <1>4. P(0)
    <2>0. RestBody(reg, x, f, 0) = <<>> /\ 0 \in 0..Len(reg)
      BY DEF RestBody
    <2>1. f[0] = <<>>
      BY <1>3, <2>0
    <2> QED BY <2>1 DEF ToSet
  <1>5. ASSUME NEW n \in Nat, n < Len(reg), P(n) PROVE P(n + 1)
    <2>1. n + 1 \in 1..Len(reg) /\ (n + 1) - 1 = n /\ reg[n + 1] \in T /\ reg[n + 1] \in ToSet(reg)
      BY <1>5 DEF ToSet
    <2>2. f[n + 1] = IF [reg[n + 1] EXCEPT !.replaced = FALSE] = x THEN f[n]
                     ELSE Append(f[n], reg[n + 1])
      BY <1>3, <2>1 DEF RestBody
    <2>3. {reg[i] : i \in 1..(n + 1)} = {reg[i] : i \in 1..n} \cup {reg[n + 1]}
      BY <2>1
    <2>4. reg[n + 1] \in S <=> [reg[n + 1] EXCEPT !.replaced = FALSE] # x
      BY <2>1 DEF Besides
    <2> HIDE DEF S
    <2>5. CASE [reg[n + 1] EXCEPT !.replaced = FALSE] = x
      BY <1>5, <2>2, <2>3, <2>4, <2>5
    <2>6. CASE [reg[n + 1] EXCEPT !.replaced = FALSE] # x
      <3>1. f[n + 1] = Append(f[n], reg[n + 1]) /\ reg[n + 1] \in S
        BY <2>2, <2>4, <2>6
      <3>2. f[n + 1] \in Seq(T) /\ ToSet(f[n + 1]) = ToSet(f[n]) \cup {reg[n + 1]}
        BY <1>5, <2>1, <3>1, AppendQueue
      <3> QED BY <1>5, <2>3, <3>1, <3>2
    <2> QED BY <2>5, <2>6
  <1> HIDE DEF P, S
  <1>6. \A n \in 0..Len(reg) : n \in K
    <2>1. 0 \in K /\ \A n \in Nat : n < Len(reg) /\ n \in K => n + 1 \in K
      BY <1>4, <1>5
    <2>2. Len(reg) \in Nat
      OBVIOUS
    <2> HIDE DEF K
    <2> QED BY <2>1, <2>2, UpTo
  <1>7. P(Len(reg))
    <2>1. Len(reg) \in 0..Len(reg)
      OBVIOUS
    <2> QED BY <1>6, <2>1
  <1>8. ToSet(reg) = {reg[i] : i \in 1..Len(reg)}
    BY DEF ToSet
  <1>9. S \subseteq ToSet(reg)
    BY DEF S, Besides
  <1> QED BY <1>1, <1>7, <1>8, <1>9 DEF P, S

\* An entry names a slot's session if and only if it is Entry, marked or not.
LEMMA EntryNames ==
    ASSUME NEW l \in Loops, NEW s \in Slots, NEW e \in EntryRecord
    PROVE  [e EXCEPT !.replaced = FALSE] = Entry(l, s) <=> Names(e, l, s)
  <1> DEFINE a == [e EXCEPT !.replaced = FALSE]
             b == Entry(l, s)
  <1>1. /\ a \in EntryRecord /\ a.loop = e.loop /\ a.slot = e.slot /\ a.gen = e.gen
        /\ a.id = e.id /\ a.replaced = FALSE
    BY DEF EntryRecord
  <1>2. /\ b.loop = l /\ b.slot = s /\ b.gen = slot[l][s].gen /\ b.id = slot[l][s].id
        /\ b.replaced = FALSE
        /\ b = [loop |-> b.loop, slot |-> b.slot, gen |-> b.gen, id |-> b.id,
                replaced |-> b.replaced]
    BY DEF Entry
  <1> HIDE DEF a, b
  <1>3. a = b => Names(e, l, s)
    BY <1>1, <1>2 DEF Names
  <1>4. a = [loop |-> a.loop, slot |-> a.slot, gen |-> a.gen, id |-> a.id, replaced |-> a.replaced]
    BY <1>1 DEF EntryRecord
  <1>5. Names(e, l, s) => a = b
    BY <1>1, <1>2, <1>4 DEF Names
  <1> QED BY <1>3, <1>5 DEF a, b

\* The registry with some entries marked.
LEMMA MarkedFacts ==
    ASSUME NEW reg \in Seq(EntryRecord), NEW marks
    PROVE  /\ Marked(reg, marks) \in Seq(EntryRecord)
           /\ DOMAIN Marked(reg, marks) = DOMAIN reg
           /\ \A i \in DOMAIN reg :
                /\ Marked(reg, marks)[i].loop = reg[i].loop
                /\ Marked(reg, marks)[i].slot = reg[i].slot
                /\ Marked(reg, marks)[i].gen = reg[i].gen
                /\ Marked(reg, marks)[i].id = reg[i].id
                /\ Marked(reg, marks)[i].replaced <=> reg[i].replaced \/ i \in marks
  <1> DEFINE m == Marked(reg, marks)
  <1> DEFINE v(i) == IF i \in marks THEN [reg[i] EXCEPT !.replaced = TRUE] ELSE reg[i]
  <1>0. DOMAIN reg = 1..Len(reg) /\ Len(reg) \in Nat /\ m = [i \in DOMAIN reg |-> v(i)]
    BY DEF Marked
  <1>1. /\ DOMAIN reg = 1..Len(reg) /\ Len(reg) \in Nat
        /\ DOMAIN m = 1..Len(reg)
        /\ \A i \in 1..Len(reg) : m[i] = v(i)
    <2> HIDE DEF v, m
    <2> QED BY <1>0
  <1>2. ASSUME NEW i \in 1..Len(reg)
        PROVE  /\ m[i] \in EntryRecord
               /\ m[i].loop = reg[i].loop /\ m[i].slot = reg[i].slot
               /\ m[i].gen = reg[i].gen /\ m[i].id = reg[i].id
               /\ m[i].replaced <=> reg[i].replaced \/ i \in marks
    <2>1. reg[i] \in EntryRecord
      BY <1>1
    <2>2. m[i] = v(i)
      BY <1>1
    <2> HIDE DEF m
    <2>3. CASE i \in marks
      BY <2>1, <2>2, <2>3 DEF EntryRecord
    <2>4. CASE i \notin marks
      BY <2>1, <2>2, <2>4 DEF EntryRecord
    <2> QED BY <2>3, <2>4
  <1>3. m \in [1..Len(reg) -> EntryRecord]
    <2>1. m = [i \in 1..Len(reg) |-> m[i]]
      <3> HIDE DEF v, m
      <3> QED BY <1>0
    <2> HIDE DEF m
    <2> QED BY <1>2, <2>1
  <1> HIDE DEF m
  <1>4. m \in Seq(EntryRecord)
    BY <1>1, <1>3
  <1> QED BY <1>1, <1>2, <1>4 DEF m

\* ended() of the session that a slot holds.
LEMMA LeftKeeps ==
    ASSUME Inv, NEW l \in Loops, NEW s \in Slots, At(l, "idle"), slot[l][s].held,
           engine[slot[l][s].gen].st = "closed",
           SetsSlot(l, s, [slot[l][s] EXCEPT !.held = FALSE]),
           registry' = IF served THEN Forgotten(registry, Entry(l, s)) ELSE registry,
           mail' \in [Loops -> Seq(Letters)], NoNewNotice,
           \A k \in Loops : CloseQueued(k) => CloseQueued(k)',
           UNCHANGED <<served, engine, lane, policy, marked, closing, door, task,
                       runtime, sessions>>
    PROVE  Inv'
  <1> DEFINE r == [slot[l][s] EXCEPT !.held = FALSE]
  <1>1. slot[l][s] \in SlotRecord /\ ~slot[l][s].starting /\ slot[l][s].gen \in 1..MaxSessions
    BY SizeAssumption DEF Inv, Types, Rooms, Held, Placed
  <1>2. r \in SlotRecord /\ ~r.held /\ ~r.starting /\ SetsSlot(l, s, r)
    BY <1>1 DEF SlotRecord
  <1> HIDE DEF r
  <1>3. /\ slot' \in [Loops -> [Slots -> SlotRecord]] /\ slot'[l][s] = r
        /\ \A k \in Loops, u \in Slots : k # l \/ u # s => slot'[k][u] = slot[k][u]
    BY <1>2, SlotSet DEF Inv, Types
  <1>4. registry \in Seq(EntryRecord)
    BY DEF Inv, Types, Books
  <1>5. registry' \in Seq(EntryRecord)
    BY <1>4, ForgottenFacts
  <1>6. Types' /\ Lanes'
    BY <1>3, <1>5 DEF Inv, Types, Tasks, Post, Rooms, Books, Lanes
  <1>7. /\ \A u \in Slots : ~Making(l, u)
        /\ \A k \in Loops, u \in Slots : Making(k, u)' <=> Making(k, u)
    BY DEF Making, Establishing, At
  <1>8. Counted'
    <2>1. \A k \in Loops : Pending(k)' = Pending(k)
      BY <1>1, <1>2, <1>3 DEF Pending
    <2> QED BY <2>1 DEF Inv, Counted
  <1>9. ASSUME NEW k \in Loops, NEW u \in Slots PROVE Placed(k, u)'
    <2>1. CASE k = l /\ u = s
      BY <1>2, <1>3, <1>7, <2>1 DEF Placed
    <2>2. CASE k # l \/ u # s
      BY <1>3, <1>7, <2>2 DEF Placed, Inv, Held, ActiveLoops
    <2> QED BY <2>1, <2>2
  <1>10. ASSUME NEW h \in 1..MaxSessions PROVE Owned(h)'
    <2>1. Owned(h) /\ engine[h].loop \in Loops /\ engine[h].slot \in Slots
      BY DEF Inv, Types, Rooms, Held, EngineRecord
    <2>2. engine[h].st = "active" => engine[h].loop # l \/ engine[h].slot # s
      BY <2>1 DEF Owned
    <2> QED BY <1>3, <2>1, <2>2 DEF Owned
  <1>11. Held'
    BY <1>9, <1>10 DEF Held
  <1>12. Noticed'
    BY NoticedKept DEF Inv, Types, Winds
  <1>13. ASSUME NEW k \in Loops, NEW u \in Slots, Active(k, u)' PROVE Active(k, u)
    <2>1. k # l \/ u # s
      BY <1>2, <1>3, <1>13 DEF Active
    <2> QED BY <1>3, <1>13, <2>1 DEF Active
  <1>14. KeepsClosing
    BY DEF KeepsClosing
  <1>15. Closes'
    BY <1>13, <1>14, ClosesKept DEF Inv, Types
  <1>16. Listed'
    <2>1. SUFFICES ASSUME served PROVE Listed'
      BY DEF Listed
    <2>2. ToSet(registry') = {e \in ToSet(registry) : [e EXCEPT !.replaced = FALSE] # Entry(l, s)}
      <3> DEFINE x == Entry(l, s)
      <3>1. registry' = Forgotten(registry, x)
        BY <2>1
      <3> HIDE DEF x
      <3>2. ToSet(registry') = Besides(registry, x)
        BY <1>4, <3>1, ForgottenFacts
      <3> QED BY <3>2 DEF Besides, x
    <2>3. \A e \in ToSet(registry) : e \in EntryRecord
      BY <1>4 DEF ToSet
    <2>4. ToSet(registry') = {e \in ToSet(registry) : ~Names(e, l, s)}
      BY <2>2, <2>3, EntryNames
    <2>5. ASSUME NEW k \in Loops, NEW u \in Slots PROVE SlotListed(k, u)'
      <3>1. CASE k = l /\ u = s
        BY <1>2, <1>3, <3>1 DEF SlotListed
      <3>2. CASE (k # l \/ u # s) /\ slot[k][u].held /\ ~Making(k, u)
        <4>1. PICK i \in DOMAIN registry : Names(registry[i], k, u)
          BY <2>1, <3>2 DEF Inv, Listed, SlotListed
        <4>2. ~Names(registry[i], l, s)
          BY <3>2, <4>1 DEF Names
        <4>3. registry[i] \in ToSet(registry')
          BY <2>4, <4>2 DEF ToSet
        <4>4. PICK j \in DOMAIN registry' : registry'[j] = registry[i]
          BY <4>3 DEF ToSet
        <4>5. slot'[k][u] = slot[k][u]
          BY <1>3, <3>2
        <4> QED BY <4>1, <4>4, <4>5 DEF SlotListed, Names
      <3>3. CASE (k # l \/ u # s) /\ ~(slot[k][u].held /\ ~Making(k, u))
        BY <1>3, <1>7, <3>3 DEF SlotListed
      <3> QED BY <3>1, <3>2, <3>3
    <2>6. ASSUME NEW j \in DOMAIN registry' PROVE EntryHeld(j)'
      <3>1. registry'[j] \in ToSet(registry) /\ ~Names(registry'[j], l, s)
        BY <2>4 DEF ToSet
      <3>2. PICK i \in DOMAIN registry : registry[i] = registry'[j]
        BY <3>1 DEF ToSet
      <3>3. PICK k \in Loops, u \in Slots : k = registry[i].loop /\ u = registry[i].slot
        BY EntryTyped DEF Inv, Types
      <3>0. EntryHeld(i)
        BY <2>1 DEF Inv, Listed
      <3>4. k # l \/ u # s
        BY <3>0, <3>1, <3>2, <3>3 DEF EntryHeld
      <3>5. slot'[k][u] = slot[k][u] /\ (Making(k, u)' => Making(k, u))
        BY <1>3, <1>7, <3>3, <3>4
      <3>6. registry'[j].loop = k /\ registry'[j].slot = u
        BY <3>2, <3>3
      <3>7. Making(registry[j].loop, registry[j].slot)' => Making(k, u)
        BY <3>5, <3>6
      <3> QED BY <3>0, <3>2, <3>3, <3>5, <3>6, <3>7 DEF EntryHeld, Names
    <2> QED BY <2>5, <2>6 DEF Listed
  <1> QED BY <1>6, <1>8, <1>11, <1>12, <1>15, <1>16 DEF Inv

\* ended(), for a current notice or a stale one.
LEMMA EndedKeeps ==
    ASSUME Inv, NEW l \in Loops, Ended(l)
    PROVE  Inv'
  <1> DEFINE n == Head(mail[l])
  <1>1. /\ Pops(l, "ended") /\ mail' = Popped(l) /\ At(l, "idle")
        /\ UNCHANGED <<served, engine, lane, policy, marked, closing, door, task,
                       runtime, sessions>>
    BY DEF Ended, Pops, ThreadIdle
  <1>2. /\ mail' \in [Loops -> Seq(Letters)] /\ NoNewNotice
        /\ n \in Letters /\ n \in ToSet(mail[l]) /\ n.kind = "ended"
        /\ \A k \in Loops : CloseQueued(k) => CloseQueued(k)'
    BY <1>1, PoppedStep
  <1>3. n.slot \in Slots /\ n.gen \in 1..MaxSessions /\ engine[n.gen].st = "closed"
    BY <1>2 DEF Letters, Notices, Inv, Noticed
  <1>4. CASE CurrentNotice(l, n)
    <2>1. /\ slot' = [slot EXCEPT ![l][n.slot].held = FALSE]
          /\ registry' = IF served THEN Forgotten(registry, Entry(l, n.slot)) ELSE registry
      BY <1>4 DEF Ended
    <2>2. slot[l][n.slot].held /\ slot[l][n.slot].gen = n.gen
      BY <1>4 DEF CurrentNotice
    <2> DEFINE s == n.slot
    <2>3. SetsSlot(l, s, [slot[l][s] EXCEPT !.held = FALSE])
      BY <2>1 DEF SetsSlot
    <2>4. s \in Slots /\ slot[l][s].held /\ engine[slot[l][s].gen].st = "closed"
      BY <1>3, <2>2
    <2>5. registry' = IF served THEN Forgotten(registry, Entry(l, s)) ELSE registry
      BY <2>1
    <2> HIDE DEF s, n
    <2> QED BY <1>1, <1>2, <2>3, <2>4, <2>5, LeftKeeps
  <1>5. CASE ~CurrentNotice(l, n)
    <2>1. slot' = slot /\ registry' = registry
      BY <1>5 DEF Ended
    <2> HIDE DEF n
    <2>2. Types' /\ Lanes'
      BY <1>1, <1>2, <2>1 DEF Inv, Types, Tasks, Post, Rooms, Books, Lanes
    <2>3. SameRooms /\ Winds /\ SameWork /\ SamePending /\ SameUse
      BY <1>1, <2>1 DEF SameRooms, Winds, SameWork, Making, SamePending, SameUse
    <2>4. KeepsClosing
      BY <1>1, <1>2 DEF KeepsClosing
    <2> QED BY <1>2, <2>1, <2>2, <2>3, <2>4, Calm
  <1> QED BY <1>4, <1>5

\* SessionRegistry::admit: the session that was being established is listed.
LEMMA AdmitKeeps ==
    ASSUME Inv, NEW l \in Loops, Admit(l)
    PROVE  Inv'
  <1> DEFINE s == task[l].slot
             x == Entry(l, s)
             added == Append(registry, x)
             marks == Excess(added, x.id, task[l].limit)
             owners == AdmitOwners(registry, x, task[l].limit)
             t == [pc |-> "tell", then |-> "report", owners |-> owners]
  <1>1. /\ served /\ task[l].pc = "admit" /\ registry' = Marked(added, marks) /\ Become(l, t)
        /\ UNCHANGED <<served, slot, engine, lane, policy, mail, marked, closing, door,
                       runtime, sessions>>
    BY DEF Admit, Admitted, At
  <1>2. s \in Slots /\ Making(l, s) /\ ~At(l, "closing")
    BY <1>1 DEF Inv, Types, Tasks, TaskOK, Admits, Making, Establishing, At
  <1>3. /\ slot[l][s].held /\ slot[l][s].gen \in 1..MaxSessions /\ slot[l][s].id \in Ids
    BY <1>2, SizeAssumption DEF Inv, Held, Placed, Types, Rooms
  <1>4. x \in EntryRecord /\ Names(x, l, s) /\ x.replaced = FALSE
    BY <1>2, <1>3 DEF Entry, EntryRecord, Names
  <1>5. registry \in Seq(EntryRecord)
    BY DEF Inv, Types, Books
  <1>6. owners = {added[i].loop : i \in marks}
    BY DEF AdmitOwners
  <1>7. marks \subseteq DOMAIN added
    BY DEF Excess, Unreplaced
  <1> HIDE DEF x, s, marks, owners
  <1>8. /\ added \in Seq(EntryRecord) /\ Len(added) = Len(registry) + 1
        /\ added[Len(registry) + 1] = x
        /\ \A i \in 1..Len(registry) : added[i] = registry[i]
        /\ DOMAIN added = 1..(Len(registry) + 1) /\ DOMAIN registry = 1..Len(registry)
        /\ Len(registry) \in Nat
    BY <1>4, <1>5, AppendProperties
  <1> HIDE DEF added
  <1>9. /\ registry' \in Seq(EntryRecord) /\ DOMAIN registry' = DOMAIN added
        /\ \A i \in DOMAIN added :
             /\ registry'[i].loop = added[i].loop /\ registry'[i].slot = added[i].slot
             /\ registry'[i].gen = added[i].gen /\ registry'[i].id = added[i].id
    BY <1>1, <1>8, MarkedFacts
  <1>10. owners \subseteq Loops
    <2>1. \A i \in DOMAIN added : added[i] \in EntryRecord
      BY <1>8
    <2> QED BY <1>6, <1>7, <2>1 DEF EntryRecord
  <1>11. t \in TellsReport /\ t.pc = "tell" /\ t.then = "report"
    BY <1>10 DEF TellsReport
  <1> HIDE DEF t
  <1>12. TaskOK(t) /\ Reporting(t) /\ ~Establishing(t) /\ Reporting(task[l])
    BY <1>1, <1>11 DEF TaskOK, Reporting, Establishing
  <1>13. Tasks' /\ task'[l] = t /\ \A k \in Loops : k # l => task'[k] = task[k]
    BY <1>1, <1>12, Becomes DEF Inv, Types
  <1>14. FewerMade /\ SameReporting
    BY <1>12, <1>13 DEF FewerMade, SameReporting, Making
  <1>15. SameRooms /\ SameHeld /\ Winds /\ SamePending /\ SameUse
    BY <1>1, SameRoomsHeld DEF SameRooms, Winds, SamePending, SameUse, Inv
  <1>16. Types' /\ Lanes'
    BY <1>1, <1>9, <1>13 DEF Inv, Types, Post, Rooms, Books, Lanes
  <1>17. NoNewNotice /\ KeepsClosing
    BY <1>1, <1>2, <1>13, MainLoop DEF NoNewNotice, KeepsClosing, CloseQueued, At
  <1>18. Held' /\ Noticed' /\ Closes' /\ Counted'
    BY <1>14, <1>15, <1>17, Mild, CountedKept DEF Inv
  <1>19. /\ \A k \in Loops, u \in Slots : k # l \/ u # s => (Making(k, u)' <=> Making(k, u))
         /\ ~Making(l, s)'
    BY <1>2, <1>12, <1>13 DEF Making
  <1>20. ASSUME NEW k \in Loops, NEW u \in Slots PROVE SlotListed(k, u)'
    <2>1. CASE k = l /\ u = s
      <3>1. Len(registry) + 1 \in DOMAIN registry'
        BY <1>8, <1>9
      <3>2. /\ registry'[Len(registry) + 1].loop = l /\ registry'[Len(registry) + 1].slot = s
            /\ registry'[Len(registry) + 1].gen = slot[l][s].gen
            /\ registry'[Len(registry) + 1].id = slot[l][s].id
        BY <1>4, <1>8, <1>9 DEF Names
      <3> QED BY <1>1, <2>1, <3>1, <3>2 DEF SlotListed, Names
    <2>2. CASE (k # l \/ u # s) /\ slot[k][u].held /\ ~Making(k, u)
      <3>1. PICK i \in DOMAIN registry : Names(registry[i], k, u)
        BY <1>1, <2>2 DEF Inv, Listed, SlotListed
      <3>2. /\ i \in DOMAIN registry' /\ registry'[i].loop = registry[i].loop
            /\ registry'[i].slot = registry[i].slot /\ registry'[i].gen = registry[i].gen
            /\ registry'[i].id = registry[i].id
        BY <1>8, <1>9
      <3> QED BY <1>1, <3>1, <3>2 DEF SlotListed, Names
    <2>3. CASE (k # l \/ u # s) /\ ~(slot[k][u].held /\ ~Making(k, u))
      BY <1>1, <1>19, <2>3 DEF SlotListed
    <2> QED BY <2>1, <2>2, <2>3
  <1>21. ASSUME NEW i \in DOMAIN registry' PROVE EntryHeld(i)'
    <2>1. CASE i = Len(registry) + 1
      <3> DEFINE z == registry[i]
      <3>1. /\ z'.loop = l /\ z'.slot = s
            /\ z'.gen = slot[l][s].gen /\ z'.id = slot[l][s].id
        BY <1>4, <1>8, <1>9, <2>1 DEF Names
      <3>2. PICK u \in Slots : u = s
        BY <1>2
      <3>3. ~Making(l, u)'
        BY <1>12, <1>13 DEF Making
      <3>4. ~Making(z.loop, z.slot)'
        BY <3>1, <3>2, <3>3
      <3> QED BY <1>1, <1>3, <3>1, <3>4 DEF EntryHeld, Names
    <2>2. CASE i \in DOMAIN registry
      <3> DEFINE k == registry[i].loop
                 u == registry[i].slot
      <3>1. EntryHeld(i) /\ k \in Loops /\ u \in Slots
        BY <1>1, <2>2, EntryTyped DEF Inv, Types, Listed
      <3>2. k # l \/ u # s
        BY <1>2, <3>1 DEF EntryHeld
      <3>3. /\ registry'[i].loop = k /\ registry'[i].slot = u
            /\ registry'[i].gen = registry[i].gen /\ registry'[i].id = registry[i].id
        BY <1>8, <1>9, <2>2
      <3> QED BY <1>1, <1>19, <3>1, <3>2, <3>3 DEF EntryHeld, Names
    <2> QED BY <1>8, <1>9, <2>1, <2>2
  <1>22. Listed'
    BY <1>20, <1>21 DEF Listed
  <1> QED BY <1>16, <1>18, <1>22 DEF Inv

\* What one turn of trim() marks.
LEMMA VictimsFacts ==
    ASSUME NEW reg \in Seq(EntryRecord), NEW id, NEW limit
    PROVE  /\ TrimVictims(reg, id, limit) \subseteq Excess(reg, id, limit)
           /\ Excess(reg, id, limit) \subseteq DOMAIN reg
           /\ TrimVictims(reg, id, limit) = {} <=> Excess(reg, id, limit) = {}
  <1> DEFINE E == Excess(reg, id, limit)
  <1>1. E \subseteq DOMAIN reg
    BY DEF Excess, Unreplaced
  <1>2. DOMAIN reg = 1..Len(reg)
    OBVIOUS
  <1>3. E \subseteq Nat
    BY <1>1, <1>2
  <1>4. TrimVictims(reg, id, limit) = IF E = {} THEN {} ELSE {Min(E)}
    BY DEF TrimVictims
  <1> HIDE DEF E
  <1>5. E # {} => Min(E) \in E
    <2> SUFFICES ASSUME E # {} PROVE Min(E) \in E
      OBVIOUS
    <2>1. PICK n \in E : \A m \in E : n <= m
      BY <1>3, LeastNumber
    <2> QED BY <2>1 DEF Min
  <1> QED BY <1>1, <1>4, <1>5 DEF E

\* One turn of SessionRegistry::trim.
LEMMA TrimKeeps ==
    ASSUME Inv, NEW l \in Loops, NEW id \in Ids, Trim(l, id)
    PROVE  Inv'
  <1> DEFINE victims == TrimVictims(registry, id, task[l].limit)
             owners == {registry[v].loop : v \in victims}
             less == [task[l] EXCEPT !.ids = @ \ {id}]
             tell == [pc |-> "tell", then |-> "trim", trim |-> task[l], owners |-> owners]
             t == IF victims = {} THEN less ELSE tell
  <1>1. /\ task[l].pc = "trim" /\ registry' = Marked(registry, victims) /\ Become(l, t)
        /\ UNCHANGED <<served, slot, engine, lane, policy, mail, marked, closing, door,
                       runtime, sessions>>
    BY DEF Trim, At
  <1>2. registry \in Seq(EntryRecord) /\ task[l] \in Trims
    BY <1>1 DEF Inv, Types, Books, Tasks, TaskOK
  <1>3. victims \subseteq DOMAIN registry
    BY <1>2, VictimsFacts
  <1> HIDE DEF victims
  <1>4. owners \subseteq Loops
    BY <1>3, EntryTyped DEF Inv, Types
  <1> HIDE DEF owners
  <1>5. less \in Trims /\ tell \in TellsTrim
    BY <1>2, <1>4 DEF Trims, TellsTrim
  <1>6. less.pc = "trim" /\ tell.pc = "tell" /\ tell.then = "trim"
    BY <1>1, <1>2 DEF Trims
  <1> HIDE DEF less, tell
  <1>7. TaskOK(t) /\ ~Reporting(t) /\ ~Reporting(task[l]) /\ ~At(l, "closing")
    BY <1>1, <1>5, <1>6 DEF TaskOK, Reporting, Establishing, At
  <1> HIDE DEF t
  <1>8. Tasks' /\ task'[l] = t /\ \A k \in Loops : k # l => task'[k] = task[k]
    BY <1>1, <1>7, Becomes DEF Inv, Types
  <1>9. SameWork
    BY <1>1, <1>7, QuietWork DEF Inv, Types
  <1>10. /\ registry' \in Seq(EntryRecord) /\ DOMAIN registry' = DOMAIN registry
         /\ \A i \in DOMAIN registry :
              /\ registry'[i].loop = registry[i].loop /\ registry'[i].slot = registry[i].slot
              /\ registry'[i].gen = registry[i].gen /\ registry'[i].id = registry[i].id
    BY <1>1, <1>2, MarkedFacts
  <1>11. SameRooms /\ SameHeld /\ Winds /\ SamePending /\ SameUse /\ FewerMade /\ SameReporting
    BY <1>1, <1>9, SameRoomsHeld DEF SameRooms, Winds, SamePending, SameUse, Inv, SameWork,
       FewerMade, SameReporting
  <1>12. Types' /\ Lanes'
    BY <1>1, <1>8, <1>10 DEF Inv, Types, Post, Rooms, Books, Lanes
  <1>13. NoNewNotice /\ KeepsClosing
    BY <1>1, <1>7, <1>8, MainLoop DEF NoNewNotice, KeepsClosing, CloseQueued, At
  <1>14. Held' /\ Noticed' /\ Closes' /\ Counted'
    BY <1>11, <1>13, Mild, CountedKept DEF Inv
  <1>15. Listed'
    <2>1. SUFFICES ASSUME served PROVE Listed'
      BY <1>1 DEF Listed
    <2>2. ASSUME NEW k \in Loops, NEW u \in Slots PROVE SlotListed(k, u)'
      <3>1. SlotListed(k, u) /\ (Making(k, u)' <=> Making(k, u))
        BY <1>9, <2>1 DEF Inv, Listed, SameWork
      <3> QED BY <1>1, <1>10, <3>1 DEF SlotListed, Names
    <2>3. ASSUME NEW i \in DOMAIN registry' PROVE EntryHeld(i)'
      <3>0. PICK k \in Loops, u \in Slots : k = registry[i].loop /\ u = registry[i].slot
        BY <1>10, EntryTyped DEF Inv, Types
      <3>1. EntryHeld(i)
        BY <1>10, <2>1 DEF Inv, Listed
      <3>2. Making(k, u)' <=> Making(k, u)
        BY <1>9 DEF SameWork
      <3>3. registry'[i].loop = k /\ registry'[i].slot = u
        BY <1>10, <3>0
      <3>4. Making(registry[i].loop, registry[i].slot)' => Making(k, u)
        BY <3>2, <3>3
      <3> QED BY <1>1, <1>10, <3>0, <3>1, <3>3, <3>4 DEF EntryHeld, Names
    <2> QED BY <2>2, <2>3 DEF Listed
  <1> QED BY <1>12, <1>14, <1>15 DEF Inv

-----------------------------------------------------------------------------
(* The runtime's closing round, its failure task, and the ends. *)

\* A step of the main thread over the loops: whoever closes is sent its task,
\* and Closes' is shown by the step itself.
LEMMA RoundKeeps ==
    ASSUME Inv, NEW t, Become(Main, t), TaskOK(t), ~Reporting(task[Main]), ~Reporting(t),
           MailAdds({"close", "sweep", "replace", "stop"}),
           closing' \in [Loops -> BOOLEAN], \A l \in Loops : closing[l] => closing'[l],
           \A l \in Loops : closing'[l] => closing[l] \/ CloseQueued(l)',
           runtime' \in [closing : BOOLEAN, claimed : BOOLEAN, stopped : BOOLEAN],
           runtime'.closing => \A l \in ActiveLoops :
              closing'[l] \/ (task'[Main].pc = "closing" /\ l \in task'[Main].todo),
           UNCHANGED <<served, slot, engine, lane, registry, policy, marked, door, sessions>>
    PROVE  Inv'
  <1>1. Tasks' /\ SameWork
    BY Becomes, QuietWork, MainLoop DEF Inv, Types
  <1>2. Types'
    BY <1>1 DEF Inv, Types, Post, Rooms, Books, MailAdds
  <1>3. Lanes' /\ SamePending
    BY DEF Inv, Lanes, ArmedOK, Running, SamePending
  <1>4. SameRooms /\ Winds /\ SameUse
    BY DEF SameRooms, Winds, SameUse
  <1>5. SameHeld /\ FewerMade /\ SameReporting
    BY <1>1, <1>4, SameRoomsHeld DEF Inv, SameWork, FewerMade, SameReporting
  <1>6. NoNewNotice /\ \A l \in Loops : CloseQueued(l) => CloseQueued(l)'
    BY MailAddsCalm
  <1>7. Held' /\ Noticed' /\ Counted' /\ Listed'
    BY <1>1, <1>3, <1>4, <1>5, <1>6, Mild, CountedKept, ListedKept DEF Inv, Types
  <1>8. ASSUME NEW l \in Loops, closing'[l] PROVE CloseQueued(l)' \/ Dark(l)'
    <2>1. \A s \in Slots : Active(l, s)' => Active(l, s)
      BY <1>4, <1>5, ActiveKept DEF Inv, Types
    <2> QED BY <1>6, <1>8, <2>1 DEF Inv, Closes, Dark
  <1>9. Closes'
    BY <1>8 DEF Closes, ActiveLoops, At
  <1> QED BY <1>2, <1>3, <1>7, <1>9 DEF Inv

\* close(): every loop is still to be asked.
LEMMA RuntimeCloseKeeps ==
    ASSUME Inv, RuntimeClose
    PROVE  Inv'
  <1> DEFINE t == [pc |-> "closing", todo |-> ActiveLoops]
  <1>1. /\ Become(Main, t) /\ At(Main, "idle") /\ mail' = mail
        /\ runtime' = [runtime EXCEPT !.closing = TRUE]
        /\ UNCHANGED <<served, slot, engine, lane, registry, policy, marked, closing, door,
                       sessions>>
    BY DEF RuntimeClose, ThreadIdle
  <1>2. t.pc = "closing" /\ t.todo = ActiveLoops /\ t \in Rounds
    BY MainLoop DEF Rounds
  <1> HIDE DEF t
  <1>3. TaskOK(t) /\ ~Reporting(t) /\ ~Reporting(task[Main])
    BY <1>1, <1>2 DEF TaskOK, Reporting, Establishing, At
  <1>4. task'[Main] = t
    BY <1>1, <1>3, Becomes, MainLoop DEF Inv, Types
  <1>5. /\ closing' \in [Loops -> BOOLEAN]
        /\ runtime' \in [closing : BOOLEAN, claimed : BOOLEAN, stopped : BOOLEAN]
        /\ MailAdds({"close", "sweep", "replace", "stop"})
    BY <1>1, SameMail DEF Inv, Types, Lanes, Post
  <1> QED BY <1>1, <1>2, <1>3, <1>4, <1>5, RoundKeeps

\* request_close() of one loop.
LEMMA CloseLoopKeeps ==
    ASSUME Inv, NEW l \in Loops, CloseLoop(l)
    PROVE  Inv'
  <1> DEFINE t == [task[Main] EXCEPT !.todo = @ \ {l}]
  <1>1. /\ Become(Main, t) /\ task[Main].pc = "closing"
        /\ closing' = [closing EXCEPT ![l] = TRUE]
        /\ mail' = IF closing[l] THEN mail ELSE Submitted(mail, l, Task("close"))
        /\ UNCHANGED <<served, slot, engine, lane, registry, policy, marked, door, runtime,
                       sessions>>
    BY DEF CloseLoop, At
  <1>2. task[Main] \in Rounds
    BY <1>1, MainLoop DEF Inv, Types, Tasks, TaskOK
  <1>3. t \in Rounds /\ t.pc = "closing" /\ t.todo = task[Main].todo \ {l}
    BY <1>1, <1>2 DEF Rounds
  <1> HIDE DEF t
  <1>4. TaskOK(t) /\ ~Reporting(t) /\ ~Reporting(task[Main])
    BY <1>1, <1>3 DEF TaskOK, Reporting, Establishing
  <1>5. task'[Main] = t
    BY <1>1, <1>4, Becomes, MainLoop DEF Inv, Types
  <1>6. /\ closing' \in [Loops -> BOOLEAN] /\ closing'[l]
        /\ \A k \in Loops : k # l => closing'[k] = closing[k]
    BY <1>1 DEF Inv, Lanes
  <1>7. MailAdds({"close", "sweep", "replace", "stop"})
    <2>1. mail' = Submitted(mail, l, Task("close")) \/ mail' = mail
      BY <1>1
    <2> QED BY <2>1, SentMail DEF Inv, Types
  <1>8. closing[l] \/ CloseQueued(l)'
    <2>1. CASE ~closing[l]
      <3>1. mail' = Submitted(mail, l, Task("close")) /\ mail \in [Loops -> Seq(Letters)]
        BY <1>1, <2>1 DEF Inv, Types, Post
      <3> QED BY <3>1, SubmittedMail, TaskLetters DEF CloseQueued
    <2> QED BY <2>1
  <1>9. runtime' \in [closing : BOOLEAN, claimed : BOOLEAN, stopped : BOOLEAN]
    BY <1>1 DEF Inv, Types, Post
  <1>10. ASSUME runtime'.closing, NEW k \in ActiveLoops
         PROVE  closing'[k] \/ (task'[Main].pc = "closing" /\ k \in task'[Main].todo)
    <2>1. k \in Loops /\ (closing[k] \/ k \in task[Main].todo)
      BY <1>1, <1>10, MainLoop DEF Inv, Closes
    <2> QED BY <1>3, <1>5, <1>6, <2>1
  <1>11. \A k \in Loops : /\ closing[k] => closing'[k]
                          /\ closing'[k] => closing[k] \/ CloseQueued(k)'
    BY <1>6, <1>8
  <1> QED BY <1>1, <1>4, <1>6, <1>7, <1>9, <1>10, <1>11, RoundKeeps

\* A round over the loops ends when none is left to be asked.
LEMMA RoundDoneKeeps ==
    ASSUME Inv, RoundDone
    PROVE  Inv'
  <1>1. /\ Become(Main, Idle) /\ task[Main].pc \in {"fanout", "closing"} /\ task[Main].todo = {}
        /\ UNCHANGED <<served, slot, engine, lane, registry, policy, mail, marked, closing,
                       door, runtime, sessions>>
    BY DEF RoundDone
  <1>2. TaskOK(Idle) /\ ~Reporting(Idle) /\ ~Reporting(task[Main])
    BY <1>1 DEF TaskOK, Idle, Reporting, Establishing
  <1>3. /\ closing' \in [Loops -> BOOLEAN]
        /\ runtime' \in [closing : BOOLEAN, claimed : BOOLEAN, stopped : BOOLEAN]
        /\ MailAdds({"close", "sweep", "replace", "stop"})
    BY <1>1, SameMail DEF Inv, Types, Lanes, Post
  <1>4. runtime'.closing => \A l \in ActiveLoops : closing'[l]
    BY <1>1 DEF Inv, Closes
  <1> QED BY <1>1, <1>2, <1>3, <1>4, RoundKeeps

\* Only the mail loses a letter, a door closes, or nothing that is meant here changes.
LEMMA IdleKeeps ==
    ASSUME Inv, mail' \in [Loops -> Seq(Letters)], NoNewNotice,
           \A l \in Loops : CloseQueued(l) => CloseQueued(l)',
           door' \in [Loops -> BOOLEAN], \A l \in Loops : ~door[l] => ~door'[l],
           runtime' \in [closing : BOOLEAN, claimed : BOOLEAN, stopped : BOOLEAN],
           runtime'.closing = runtime.closing,
           UNCHANGED <<served, slot, engine, lane, registry, policy, marked, closing,
                       task, sessions>>
    PROVE  Inv'
  <1>1. Types' /\ Lanes'
    BY DEF Inv, Types, Tasks, Post, Rooms, Books, Lanes
  <1>2. SameRooms /\ Winds /\ SameWork /\ SamePending /\ SameUse
    BY DEF SameRooms, Winds, SameWork, Making, SamePending, SameUse
  <1>3. KeepsClosing
    BY DEF KeepsClosing
  <1> QED BY <1>1, <1>2, <1>3, Calm

\* accept_failure_task.
LEMMA StopTaskKeeps ==
    ASSUME Inv, StopTask
    PROVE  Inv'
  <1>1. /\ Pops(Main, "stop") /\ mail' = Popped(Main)
        /\ runtime' = [runtime EXCEPT !.stopped = TRUE]
        /\ UNCHANGED <<served, slot, engine, lane, registry, policy, marked, closing, door,
                       task, sessions>>
    BY DEF StopTask
  <1>2. /\ mail' \in [Loops -> Seq(Letters)] /\ NoNewNotice
        /\ \A k \in Loops : \A n \in ToSet(mail[k]) : n.kind # "stop" => n \in ToSet(mail'[k])
    BY <1>1, PoppedStep, MainLoop
  <1>3. \A k \in Loops : CloseQueued(k) => CloseQueued(k)'
    BY <1>2, TaskLetters DEF CloseQueued
  <1>4. /\ runtime' \in [closing : BOOLEAN, claimed : BOOLEAN, stopped : BOOLEAN]
        /\ runtime'.closing = runtime.closing
    BY <1>1 DEF Inv, Types, Post
  <1>5. door' \in [Loops -> BOOLEAN]
    BY <1>1 DEF Inv, Types, Post
  <1> QED BY <1>1, <1>2, <1>3, <1>4, <1>5, IdleKeeps

\* A listener that stops by itself.
LEMMA ListenerStopsKeeps ==
    ASSUME Inv, ListenerStops
    PROVE  Inv'
  <1>1. /\ door' = [door EXCEPT ![Main] = FALSE]
        /\ UNCHANGED <<served, slot, engine, lane, registry, policy, mail, marked, closing,
                       task, runtime, sessions>>
    BY DEF ListenerStops
  <1>2. /\ door' \in [Loops -> BOOLEAN] /\ \A l \in Loops : ~door[l] => ~door'[l]
        /\ mail' \in [Loops -> Seq(Letters)]
        /\ runtime' \in [closing : BOOLEAN, claimed : BOOLEAN, stopped : BOOLEAN]
    BY <1>1, MainLoop DEF Inv, Types, Post
  <1>3. NoNewNotice /\ \A l \in Loops : CloseQueued(l) => CloseQueued(l)'
    BY <1>1 DEF NoNewNotice, CloseQueued
  <1> QED BY <1>1, <1>2, <1>3, IdleKeeps

\* A loop that exits, and a server that has.
LEMMA NothingKeeps ==
    ASSUME Inv,
           UNCHANGED <<served, slot, engine, lane, registry, policy, mail, marked, closing,
                       door, task, runtime, sessions>>
    PROVE  Inv'
  <1>1. /\ door' \in [Loops -> BOOLEAN] /\ \A l \in Loops : ~door[l] => ~door'[l]
        /\ mail' \in [Loops -> Seq(Letters)]
        /\ runtime' \in [closing : BOOLEAN, claimed : BOOLEAN, stopped : BOOLEAN]
    BY DEF Inv, Types, Post
  <1>2. NoNewNotice /\ \A l \in Loops : CloseQueued(l) => CloseQueued(l)'
    BY DEF NoNewNotice, CloseQueued
  <1> QED BY <1>1, <1>2, IdleKeeps

-----------------------------------------------------------------------------
(* The invariant. *)

\* The server starts in the invariant.
LEMMA InitInv == Init => Inv
  <1> SUFFICES ASSUME Init PROVE Inv
    OBVIOUS
  <1>1. /\ FreeSlot \in SlotRecord /\ ~FreeSlot.starting /\ ~FreeSlot.held
        /\ IdleLane \in Lane /\ IdleLane.phase = "idle" /\ IdleLane.pending = 0
    BY SizeAssumption, PendingAssumption DEF FreeSlot, SlotRecord, IdleLane, Lane
  <1>2. \A l \in Loops : TaskOK(task[l]) /\ ~Reporting(task[l]) /\ ~Establishing(task[l])
    BY DEF Init, TaskOK, Idle, Reporting, Establishing
  <1>3. Tasks
    BY <1>2 DEF Init, Tasks
  <1>4. Post /\ Rooms
    <2>1. [st |-> "none", loop |-> Main, slot |-> 1] \in EngineRecord
      BY MainLoop, SizeAssumption DEF EngineRecord, Slots
    <2>2. engine \in [1..MaxSessions -> EngineRecord]
      BY <2>1 DEF Init
    <2>3. slot \in [Loops -> [Slots -> SlotRecord]]
      BY <1>1 DEF Init
    <2>4. sessions \in 0..MaxSessions
      BY SizeAssumption DEF Init
    <2> QED BY <2>2, <2>3, <2>4 DEF Init, Post, Rooms
  <1>5. Books
    BY DEF Init, Books
  <1>6. Lanes
    BY <1>1 DEF Init, Lanes, ArmedOK, Running
  <1>7. Counted
    <2>1. \A l \in Loops : Pending(l) = {}
      BY <1>1 DEF Init, Pending
    <2>2. Cardinality({}) = 0
      BY FS_EmptySet
    <2>3. \A l \in Loops : lane[l].pending = 0
      BY <1>1 DEF Init
    <2> QED BY <1>2, <2>1, <2>2, <2>3 DEF Counted
  <1>8. Held
    BY <1>1, <1>2 DEF Init, Held, Placed, Owned, Making
  <1>9. Noticed /\ Listed
    BY <1>1 DEF Init, Noticed, ToSet, Listed, SlotListed
  <1>10. Closes
    BY DEF Init, Closes
  <1> QED BY <1>3, <1>4, <1>5, <1>6, <1>7, <1>8, <1>9, <1>10 DEF Inv, Types

\* Every step of a loop's thread keeps the invariant,
LEMMA ThreadKeeps ==
    ASSUME Inv, NEW l \in ActiveLoops, ThreadStep(l)
    PROVE  Inv'
  <1>0. l \in Loops
    BY MainLoop
  <1>1. CASE Launch(l) \/ Launched(l)
    BY <1>0, <1>1, LaunchKeeps, LaunchedKeeps
  <1>2. CASE StartAccept(l) \/ StartFailsInline(l) \/ StartRefused(l) \/ PassDone(l)
    BY <1>0, <1>2, StartAcceptKeeps, StartFailsInlineKeeps, StartRefusedKeeps, PassDoneKeeps
  <1>3. CASE RetryFires(l) \/ Established(l) \/ ReadPolicy(l)
    BY <1>0, <1>3, RetryFiresKeeps, EstablishedKeeps, ReadPolicyKeeps
  <1>4. CASE \E fails \in BOOLEAN : Watch(l, fails)
    BY <1>0, <1>4, WatchKeeps
  <1>5. CASE Admit(l) \/ AdmitAlone(l)
    BY <1>0, <1>5, AdmitKeeps, AdmitAloneKeeps
  <1>6. CASE \E o \in Loops : Tell(l, o)
    BY <1>0, <1>6, TellKeeps
  <1>7. CASE Ended(l) \/ ReplaceBegins(l) \/ ReplaceStops(l) \/ CloseOnContext(l)
    BY <1>0, <1>7, EndedKeeps, ReplaceBeginsKeeps, ReplaceStopsKeeps, CloseOnContextKeeps
  <1>8. CASE SweepTask(l) \/ TrimGoesOn(l) \/ Trimmed(l)
    BY <1>0, <1>8, SweepTaskKeeps, TrimGoesOnKeeps, TrimmedKeeps
  <1>9. CASE \E id \in Ids : Trim(l, id)
    BY <1>0, <1>9, TrimKeeps
  <1>10. CASE LoopExits(l)
    BY <1>10, NothingKeeps DEF LoopExits
  <1> QED BY <1>1, <1>2, <1>3, <1>4, <1>5, <1>6, <1>7, <1>8, <1>9, <1>10 DEF ThreadStep

\* and so does every step of the server.
LEMMA NextInv == Inv /\ [Next]_vars => Inv'
  <1> SUFFICES ASSUME Inv, [Next]_vars PROVE Inv'
    OBVIOUS
  <1>1. CASE UNCHANGED vars
    BY <1>1, NothingKeeps DEF vars
  <1>2. ASSUME NEW l \in ActiveLoops, ThreadStep(l) PROVE Inv'
    BY <1>2, ThreadKeeps
  <1>3. ASSUME NEW l \in ActiveLoops, NEW s \in Slots, Arrivals(l, s) PROVE Inv'
    <2>1. l \in Loops
      BY MainLoop
    <2> QED BY <1>3, <2>1, StartFailsKeeps, StartSucceedsKeeps DEF Arrivals
  <1>4. CASE MainStep
    BY <1>4, ReloadSweepsKeeps, RoundDoneKeeps, StopTaskKeeps, FanOutKeeps, CloseLoopKeeps
       DEF MainStep
  <1>5. ASSUME NEW g \in DOMAIN engine, EngineFails(g) \/ EngineCloses(g) PROVE Inv'
    <2>1. g \in 1..MaxSessions
      BY DEF Inv, Types, Rooms
    <2> QED BY <1>5, <2>1, EngineFailsKeeps, EngineClosesKeeps
  <1>6. ASSUME NEW p \in Policies, Reload(p) PROVE Inv'
    BY <1>6, ReloadKeeps
  <1>7. CASE RuntimeClose \/ ListenerStops
    BY <1>7, RuntimeCloseKeeps, ListenerStopsKeeps
  <1>8. CASE Terminated
    BY <1>8, NothingKeeps DEF Terminated, vars
  <1> QED BY <1>1, <1>2, <1>3, <1>4, <1>5, <1>6, <1>7, <1>8 DEF Next

-----------------------------------------------------------------------------
(* What it says of the server. *)

\* The types and the exact count follow from the invariant,
LEMMA InvTypeOK == Inv => TypeOK
  <1> SUFFICES ASSUME Inv PROVE TypeOK
    OBVIOUS
  <1>1. \A l \in Loops : lane[l] \in Lane
    BY DEF Inv, Lanes
  <1>2. registry \in Seq([loop : Loops, slot : Slots, gen : 1..MaxSessions,
                           id : Ids, replaced : BOOLEAN])
    BY DEF Inv, Types, Books, EntryRecord
  <1>3. ASSUME NEW l \in Loops, NEW s \in Slots PROVE slot[l][s].gen \in 0..MaxSessions
    <2>1. slot[l][s] \in SlotRecord
      BY DEF Inv, Types, Rooms
    <2> QED BY <2>1 DEF SlotRecord
  <1>4. ASSUME NEW l \in Loops
        PROVE  lane[l].pending = Cardinality({s \in Slots : slot[l][s].starting})
                                 + IF \/ task[l].pc \in {"watch", "policy", "admit"}
                                      \/ At(l, "tell") /\ task[l].then = "report"
                                   THEN 1 ELSE 0
    BY DEF Inv, Counted, Pending, Reporting, Establishing, At
  <1> QED BY <1>1, <1>2, <1>3, <1>4 DEF TypeOK

\* so does that sessions are owned and listed,
LEMMA InvSessionsOwned == Inv => SessionsOwned
  <1> SUFFICES ASSUME Inv PROVE SessionsOwned
    OBVIOUS
  <1>1. ASSUME NEW g \in DOMAIN engine, engine[g].st = "active"
        PROVE  /\ slot[engine[g].loop][engine[g].slot].held
               /\ slot[engine[g].loop][engine[g].slot].gen = g
    <2>1. g \in 1..MaxSessions
      BY DEF Inv, Types, Rooms
    <2> QED BY <1>1, <2>1 DEF Inv, Held, Owned
  <1>2. ASSUME served, NEW l \in Loops, ThreadIdle(l), NEW s \in Slots, slot[l][s].held
        PROVE  \E i \in DOMAIN registry : [registry[i] EXCEPT !.replaced = FALSE] = Entry(l, s)
    <2>1. ~Making(l, s)
      BY <1>2 DEF ThreadIdle, At, Making, Establishing
    <2>2. PICK i \in DOMAIN registry : Names(registry[i], l, s)
      BY <1>2, <2>1 DEF Inv, Listed, SlotListed
    <2>3. registry[i] \in EntryRecord
      BY EntryTyped DEF Inv, Types
    <2> QED BY <2>2, <2>3, EntryNames
  <1>3. ASSUME served, NEW i \in DOMAIN registry
        PROVE  /\ slot[registry[i].loop][registry[i].slot].held
               /\ slot[registry[i].loop][registry[i].slot].gen = registry[i].gen
    BY <1>3 DEF Inv, Listed, EntryHeld, Names
  <1> QED BY <1>1, <1>2, <1>3 DEF SessionsOwned

\* and that a closing server at rest is dark.
LEMMA InvClosedAtRest == Inv => ClosedAtRest
  <1> SUFFICES ASSUME Inv, runtime.closing, AtRest, NEW l \in ActiveLoops
               PROVE  ~door[l] /\ \A s \in Slots : ~Active(l, s)
    BY DEF ClosedAtRest
  <1>1. Main \in ActiveLoops /\ l \in Loops
    BY MainLoop DEF ActiveLoops
  <1>2. ~At(Main, "closing") /\ mail[l] = <<>>
    BY <1>1 DEF AtRest, ThreadIdle, At
  <1>3. closing[l]
    BY <1>2 DEF Inv, Closes
  <1>4. ~CloseQueued(l)
    BY <1>2 DEF CloseQueued, ToSet
  <1> QED BY <1>1, <1>3, <1>4 DEF Inv, Closes, Dark

\* accept_scheduler.hpp and native_endpoint.cpp settled(): a lane's count of
\* pending starts is exact between two arming passes, whatever fails inline, is
\* refused, closes or overruns; with it, the types of the server's state.
THEOREM LanesCountExactly == Spec => []TypeOK
  <1>1. Inv => TypeOK
    BY InvTypeOK
  <1> QED BY InitInv, NextInv, <1>1, PTL DEF Spec

\* accept_scheduler.hpp:26, for any number of loops, lanes and sessions: a
\* running listener always has a pending start or a scheduled retry.
THEOREM ListenersStayArmed == Spec => []LaneArmed
  <1>1. Inv => LaneArmed
    BY MainLoop DEF Inv, Lanes, ArmedOK, LaneArmed
  <1> QED BY InitInv, NextInv, <1>1, PTL DEF Spec

\* native_endpoint.cpp settled(), ended() and the SessionRegistry: a running
\* engine is the one its slot holds, and the registry lists what the slots hold.
THEOREM SessionsAlwaysOwned == Spec => []SessionsOwned
  <1>1. Inv => SessionsOwned
    BY InvSessionsOwned
  <1> QED BY InitInv, NextInv, <1>1, PTL DEF Spec

\* native_server_runtime.cpp close() and close_on_context: once a closing
\* server is at rest, no session runs and no listener is open.
THEOREM ClosedServersGoDark == Spec => []ClosedAtRest
  <1>1. Inv => ClosedAtRest
    BY InvClosedAtRest
  <1> QED BY InitInv, NextInv, <1>1, PTL DEF Spec

-----------------------------------------------------------------------------
(* Counting. *)

\* Of a finite set ordered by f, those with fewer than `limit` above them are
\* at most `limit`.
LEMMA KeepLast ==
    ASSUME NEW S, IsFiniteSet(S), NEW f \in [S -> Nat],
           \A a, b \in S : f[a] = f[b] => a = b,
           NEW limit \in Nat, limit # 0, NEW R, R \subseteq S,
           \A a \in R : ~(Cardinality({b \in S : f[b] > f[a]}) >= limit)
    PROVE  IsFiniteSet(R) /\ Cardinality(R) <= limit
  <1>1. IsFiniteSet(R) /\ Cardinality(R) \in Nat
    BY FS_Subset, FS_CardinalityType
  <1>2. CASE R = {}
    BY <1>1, <1>2, FS_EmptySet
  <1>3. CASE R # {}
    <2> DEFINE G == {f[a] : a \in R}
    <2>1. G \subseteq Nat /\ G # {}
      BY <1>3
    <2>2. PICK n \in G : \A m \in G : n <= m
      <3> HIDE DEF G
      <3> QED BY <2>1, LeastNumber
    <2>3. PICK a \in R : \A b \in R : f[a] <= f[b]
      BY <2>2
    <2> HIDE DEF G
    <2> DEFINE A == {b \in S : f[b] > f[a]}
    <2>4. IsFiniteSet(A) /\ Cardinality(A) \in Nat /\ ~(Cardinality(A) >= limit)
      BY FS_Subset, FS_CardinalityType
    <2>5. R \ {a} \subseteq A
      <3> SUFFICES ASSUME NEW b \in R, b # a PROVE f[b] > f[a]
        OBVIOUS
      <3>1. f[a] \in Nat /\ f[b] \in Nat /\ f[a] <= f[b] /\ f[a] # f[b]
        BY <2>3
      <3> QED BY <3>1
    <2> HIDE DEF A
    <2>6. Cardinality(R \ {a}) = Cardinality(R) - 1
      BY <1>1, FS_RemoveElement
    <2>7. Cardinality(R \ {a}) <= Cardinality(A)
      BY <2>4, <2>5, FS_Subset
    <2> QED BY <1>1, <2>4, <2>6, <2>7
  <1> QED BY <1>2, <1>3

\* A set covered by the image of a finite one is no larger.
LEMMA Covered ==
    ASSUME NEW S, IsFiniteSet(S), NEW T, NEW f, f = [i \in S |-> f[i]],
           \A t \in T : \E i \in S : f[i] = t
    PROVE  IsFiniteSet(T) /\ Cardinality(T) <= Cardinality(S)
  <1> DEFINE V == {i \in S : f[i] \in T}
             h == [i \in V |-> f[i]]
  <1>1. IsFiniteSet(V) /\ Cardinality(V) <= Cardinality(S)
    BY FS_Subset
  <1>2. h \in Surjection(V, T)
    BY DEF Surjection
  <1>3. IsFiniteSet(T) /\ Cardinality(T) <= Cardinality(V)
    <2> HIDE DEF V, h
    <2> QED BY <1>1, <1>2, FS_Surjection
  <1>4. Cardinality(T) \in Nat /\ Cardinality(V) \in Nat /\ Cardinality(S) \in Nat
    <2> HIDE DEF V, h
    <2> QED BY <1>1, <1>3, FS_CardinalityType
  <1> HIDE DEF V, h
  <1> QED BY <1>1, <1>3, <1>4

-----------------------------------------------------------------------------
(* The policy. *)

InTrim(t) == t.pc = "trim" \/ (t.pc = "tell" /\ t.then = "trim")
TrimOf(t) == IF t.pc = "tell" THEN t.trim ELSE t
Trimming(t, id) == InTrim(t) /\ id \in TrimOf(t).ids

\* A thread that has read the limit of a policy, and the limit.
Limited(t) == t.pc = "admit" \/ InTrim(t)
LimitOf(t) == IF t.pc = "admit" THEN t.limit ELSE TrimOf(t).limit

Unvetted(t) == t.pc \in {"watch", "policy"}
Tells(t, o) == t.pc = "tell" /\ o \in t.owners

\* A reload that has still to ask loop l to sweep, now or after its own trim.
FansOut(t, l) ==
    \/ t.pc = "reload"
    \/ t.pc = "fanout" /\ l \in t.todo
    \/ InTrim(t) /\ TrimOf(t).then.pc = "fanout" /\ l \in TrimOf(t).then.todo

\* What a closing loop holds is stopped by its close, what a loop with a sweep
\* ahead holds is looked at by the sweep: the policy need not hold of it yet.
SweepQueued(l) == Task("sweep") \in ToSet(mail[l])
Excused(l) == closing[l] \/ SweepQueued(l) \/ FansOut(task[Main], l)

\* An evicted session does not run.
Evicts == \A l \in Loops, s \in Slots : slot[l][s].evicted => ~Active(l, s)

\* A session that runs is known to the policy, or will be looked at.
Known(l, s) ==
    Active(l, s) => \/ slot[l][s].id \in policy.known
                    \/ Excused(l)
                    \/ Making(l, s) /\ Unvetted(task[l])

AllKnown == \A l \in ActiveLoops, s \in Slots : Known(l, s)

\* A limit in use is the limit of the policy in force.
LimitCurrent(l) == Limited(task[l]) => Excused(l) \/ LimitOf(task[l]) = policy.limit
AllCurrent == \A l \in ActiveLoops : LimitCurrent(l)

\* The sessions of an identity that nothing under way will look at again are
\* within the limit.
Unmarked(l, s) ==
    served => \E i \in DOMAIN registry : Names(registry[i], l, s) /\ ~registry[i].replaced
Stays(l, s, id) ==
    /\ slot[l][s].held /\ ~slot[l][s].evicted /\ slot[l][s].id = id
    /\ ~Making(l, s) /\ Unmarked(l, s)
    /\ ~Excused(l) /\ ~(served /\ Trimming(task[l], id))
Staying(id) == {ls \in Loops \X Slots : Stays(ls[1], ls[2], id)}
WithinLimit == policy.limit # 0 => \A id \in Ids : Cardinality(Staying(id)) <= policy.limit

\* A replaced session is evicted, or its loop will come to it.
ReplaceQueued(l) == Task("replace") \in ToSet(mail[l])
Coming(l) ==
    ReplaceQueued(l) \/ task[l].pc = "replace" \/ \E k \in ActiveLoops : Tells(task[k], l)
Marks == \A l \in Loops : marked[l] => ReplaceQueued(l)
Replaces(i) ==
    registry[i].replaced => \/ slot[registry[i].loop][registry[i].slot].evicted
                            \/ Coming(registry[i].loop)
Replacing == Marks /\ (served => \A i \in DOMAIN registry : Replaces(i))

Orders ==
    /\ Evicts
    /\ AllKnown
    /\ AllCurrent
    /\ WithinLimit
    /\ Replacing

-----------------------------------------------------------------------------
(* What a step leaves of it. *)

KeepsExcuses == \A l \in ActiveLoops : Excused(l) => Excused(l)'
KeepsComing == \A l \in Loops : Coming(l) => Coming(l)'

\* No session comes, and none that was evicted is not.
FewerHeld ==
    \A l \in Loops, s \in Slots : slot'[l][s].held =>
      /\ slot[l][s].held /\ slot'[l][s].gen = slot[l][s].gen /\ slot'[l][s].id = slot[l][s].id
      /\ slot[l][s].evicted => slot'[l][s].evicted
FewerRun == \A l \in Loops, s \in Slots : Active(l, s)' => Active(l, s)
FewerEntries == ToSet(registry') \subseteq ToSet(registry)

\* Limits are the ones read before, or those of the policy.
LimitsGoOn ==
    \A l \in Loops : Limited(task'[l]) =>
      \/ LimitOf(task'[l]) = policy.limit
      \/ Limited(task[l]) /\ LimitOf(task'[l]) = LimitOf(task[l])
TrimsGoOn == \A l \in Loops, id \in Ids : Trimming(task[l], id) => Trimming(task'[l], id)
MakingGoesOn ==
    \A l \in Loops, s \in Slots : Making(l, s) /\ slot'[l][s].held => Making(l, s)'
VettingGoesOn ==
    \A l \in Loops, s \in Slots : Making(l, s) /\ Unvetted(task[l]) /\ slot'[l][s].held =>
      (Making(l, s)' /\ Unvetted(task'[l])) \/ slot[l][s].id \in policy.known

\* Sessions stay recognized.
LEMMA KnownKept ==
    ASSUME AllKnown, UNCHANGED <<served, policy>>, KeepsExcuses, FewerHeld, FewerRun,
           VettingGoesOn
    PROVE  AllKnown'
  <1>0. ActiveLoops' = ActiveLoops
    BY DEF ActiveLoops
  <1> SUFFICES ASSUME NEW l \in ActiveLoops, NEW s \in Slots, Active(l, s)'
               PROVE  \/ slot'[l][s].id \in policy.known
                      \/ Excused(l)'
                      \/ Making(l, s)' /\ Unvetted(task'[l])
    BY <1>0 DEF AllKnown, Known
  <1>1. slot'[l][s].held /\ slot'[l][s].id = slot[l][s].id /\ Active(l, s)
    BY MainLoop DEF Active, FewerHeld, FewerRun
  <1> QED BY <1>1, MainLoop DEF AllKnown, Known, KeepsExcuses, VettingGoesOn

\* Limits in use stay current.
LEMMA LimitsKept ==
    ASSUME AllCurrent, UNCHANGED <<served, policy>>, KeepsExcuses, LimitsGoOn
    PROVE  AllCurrent'
  <1>1. ActiveLoops' = ActiveLoops
    BY DEF ActiveLoops
  <1> QED BY <1>1, MainLoop DEF AllCurrent, LimitCurrent, KeepsExcuses, LimitsGoOn

\* Unmarked sessions were unmarked when no entry is new.
LEMMA UnmarkedKept ==
    ASSUME FewerEntries, FewerHeld, served' = served, NEW l \in Loops, NEW s \in Slots,
           slot'[l][s].held, Unmarked(l, s)'
    PROVE  Unmarked(l, s)
  <1> SUFFICES ASSUME served
               PROVE  \E i \in DOMAIN registry : Names(registry[i], l, s) /\ ~registry[i].replaced
    BY DEF Unmarked
  <1>1. PICK j \in DOMAIN registry' : Names(registry[j], l, s)' /\ ~registry'[j].replaced
    BY DEF Unmarked
  <1>2. registry'[j] \in ToSet(registry)
    BY DEF FewerEntries, ToSet
  <1>3. PICK i \in DOMAIN registry : registry[i] = registry'[j]
    BY <1>2 DEF ToSet
  <1> QED BY <1>1, <1>3 DEF Names, FewerHeld

\* The sets that the limit is about are finite.
LEMMA StayingFinite == \A id : IsFiniteSet(Staying(id))
  <1>1. IsFiniteSet(Loops) /\ IsFiniteSet(Slots)
    BY SizeAssumption, FS_Interval DEF Loops, Slots
  <1>2. IsFiniteSet(Loops \X Slots)
    BY <1>1, FS_Product
  <1>3. \A id : Staying(id) \subseteq Loops \X Slots
    BY DEF Staying
  <1> QED BY <1>2, <1>3, FS_Subset

\* A set of staying sessions that does not grow stays within its limit.
LEMMA FewerStaying ==
    ASSUME WithinLimit, policy' = policy, NEW id \in Ids, policy.limit \in Nat, policy.limit # 0,
           \A l \in Loops, s \in Slots : Stays(l, s, id)' => Stays(l, s, id)
    PROVE  Cardinality(Staying(id)') <= policy.limit
  <1>1. Staying(id)' \subseteq Staying(id)
    BY DEF Staying
  <1>2. Cardinality(Staying(id)') <= Cardinality(Staying(id))
    BY <1>1, StayingFinite, FS_Subset
  <1>3. Cardinality(Staying(id)) <= policy.limit
    BY DEF WithinLimit
  <1>4. Cardinality(Staying(id)) \in Nat /\ Cardinality(Staying(id)') \in Nat
    BY <1>1, StayingFinite, FS_Subset, FS_CardinalityType
  <1> QED BY <1>2, <1>3, <1>4

\* No session begins to stay when nothing under way lets it go.
LEMMA StaysKept ==
    ASSUME Held, FewerHeld, FewerEntries, served' = served, KeepsExcuses, TrimsGoOn, MakingGoesOn,
           NEW id \in Ids, NEW l \in Loops, NEW s \in Slots, Stays(l, s, id)'
    PROVE  Stays(l, s, id)
  <1>1. /\ slot'[l][s].held /\ ~slot'[l][s].evicted /\ slot'[l][s].id = id
        /\ ~Making(l, s)' /\ Unmarked(l, s)' /\ ~Excused(l)' /\ ~(served /\ Trimming(task'[l], id))
    BY DEF Stays
  <1>2. /\ slot[l][s].held /\ slot[l][s].id = id /\ ~slot[l][s].evicted
    BY <1>1 DEF FewerHeld
  <1>3. Unmarked(l, s)
    BY <1>1, UnmarkedKept
  <1>4. l \in ActiveLoops
    BY <1>2 DEF Held, Placed
  <1>5. ~Making(l, s) /\ ~Excused(l) /\ ~(served /\ Trimming(task[l], id))
    BY <1>1, <1>4 DEF MakingGoesOn, KeepsExcuses, TrimsGoOn
  <1> QED BY <1>2, <1>3, <1>5 DEF Stays

\* Replaced sessions stay slated when no entry is new.
LEMMA ReplacingKept ==
    ASSUME Books, Replacing, Listed', FewerEntries, FewerHeld, KeepsComing, Marks', served' = served
    PROVE  Replacing'
  <1> SUFFICES ASSUME served, NEW j \in DOMAIN registry', registry'[j].replaced
               PROVE  Replaces(j)'
    BY DEF Replacing, Replaces
  <1>1. registry'[j] \in ToSet(registry)
    BY DEF FewerEntries, ToSet
  <1>2. PICK i \in DOMAIN registry : registry[i] = registry'[j]
    BY <1>1 DEF ToSet
  <1>3. PICK l \in Loops, s \in Slots : l = registry[i].loop /\ s = registry[i].slot
    BY EntryTyped
  <1>4. slot'[l][s].held
    BY <1>2, <1>3 DEF Listed, EntryHeld
  <1>5. slot[l][s].evicted \/ Coming(l)
    BY <1>2, <1>3 DEF Replacing, Replaces
  <1>6. slot'[l][s].evicted \/ Coming(l)'
    BY <1>4, <1>5 DEF FewerHeld, KeepsComing
  <1>7. registry'[j].loop = l /\ registry'[j].slot = s
    BY <1>2, <1>3
  <1>8. Coming(l)' => Coming(registry[j].loop)'
    BY <1>7
  <1> QED BY <1>6, <1>7, <1>8 DEF Replaces

\* A step that reads no policy, with what it does to replacements shown apart.
LEMMA SteadyOrders ==
    ASSUME Inv, Orders, UNCHANGED <<served, policy>>, KeepsExcuses, Replacing',
           Evicts', FewerHeld, FewerRun, FewerEntries, LimitsGoOn, TrimsGoOn, MakingGoesOn,
           VettingGoesOn
    PROVE  Orders'
  <1>1. AllKnown'
    BY KnownKept DEF Orders
  <1>2. AllCurrent'
    BY LimitsKept DEF Orders
  <1>3. WithinLimit'
    <2> SUFFICES ASSUME policy.limit # 0, NEW id \in Ids
                 PROVE  Cardinality(Staying(id)') <= policy.limit
      BY DEF WithinLimit
    <2>1. policy.limit \in Nat
      BY PolicyTyped
    <2>2. \A l \in Loops, s \in Slots : Stays(l, s, id)' => Stays(l, s, id)
      BY StaysKept DEF Inv
    <2> QED BY <2>1, <2>2, FewerStaying DEF Orders
  <1> QED BY <1>1, <1>2, <1>3 DEF Orders

\* All of it together.
LEMMA SteadyKeeps ==
    ASSUME Inv, Inv', Orders, UNCHANGED <<served, policy>>, KeepsExcuses, KeepsComing, Marks',
           Evicts', FewerHeld, FewerRun, FewerEntries, LimitsGoOn, TrimsGoOn, MakingGoesOn,
           VettingGoesOn
    PROVE  Orders'
  <1>1. Replacing'
    BY ReplacingKept DEF Orders, Inv, Types
  <1> QED BY <1>1, SteadyOrders

-----------------------------------------------------------------------------
(* Steps in which no thread reads a policy, marks or admits. *)

MailKept(kind) ==
    \A l \in Loops : Task(kind) \in ToSet(mail[l]) => Task(kind) \in ToSet(mail'[l])
StaysClosing == \A l \in Loops : closing[l] => closing'[l]

\* Excuses and visits last as long as the mail and the threads that promise them.
LEMMA ExcusesKept ==
    ASSUME StaysClosing, MailKept("sweep"),
           \A l \in Loops : FansOut(task[Main], l) => FansOut(task'[Main], l)
    PROVE  KeepsExcuses
  BY MainLoop DEF StaysClosing, MailKept, KeepsExcuses, Excused, SweepQueued

\* A loop that will be come to stays one, while its mail and the threads that tell it last.
LEMMA ComingKept ==
    ASSUME served' = served, MailKept("replace"),
           \A l \in Loops : task[l].pc = "replace" => task'[l].pc = "replace",
           \A l, k \in Loops : Tells(task[k], l) => Tells(task'[k], l)
    PROVE  KeepsComing
  <1>1. ActiveLoops' = ActiveLoops
    BY DEF ActiveLoops
  <1> QED BY <1>1, MainLoop DEF MailKept, KeepsComing, Coming, ReplaceQueued

\* A marked loop keeps its replace task.
LEMMA MarksKept ==
    ASSUME Marks, marked' = marked, MailKept("replace")
    PROVE  Marks'
  BY DEF Marks, MailKept, ReplaceQueued

\* Threads that do not move.
LEMMA StillKeeps ==
    ASSUME Inv, Inv', Orders, UNCHANGED <<served, policy, marked, task>>, StaysClosing,
           MailKept("sweep"), MailKept("replace"), Evicts', FewerHeld, FewerRun, FewerEntries
    PROVE  Orders'
  <1>1. KeepsExcuses
    BY ExcusesKept
  <1>2. KeepsComing
    BY ComingKept
  <1>3. Marks'
    BY MarksKept DEF Orders, Replacing
  <1>4. LimitsGoOn /\ TrimsGoOn
    BY DEF LimitsGoOn, TrimsGoOn
  <1>5. MakingGoesOn /\ VettingGoesOn
    BY DEF MakingGoesOn, VettingGoesOn, Making
  <1> QED BY <1>1, <1>2, <1>3, <1>4, <1>5, SteadyKeeps

\* Threads at rooms that do not change.
LEMMA SameSlots ==
    ASSUME Orders, slot' = slot, engine' = engine
    PROVE  Evicts' /\ FewerHeld /\ FewerRun
  BY DEF Orders, Evicts, FewerHeld, FewerRun, Active

\* A registry left alone has no new entry.
LEMMA SameEntries ==
    ASSUME registry' = registry
    PROVE  FewerEntries
  BY DEF FewerEntries

\* Sessions only stop.
LEMMA StopsOnly ==
    ASSUME Inv, Orders, slot' = slot, Winds
    PROVE  Evicts' /\ FewerHeld /\ FewerRun
  <1>1. SameHeld
    BY DEF SameHeld, Inv, Held, Placed
  <1>2. FewerRun
    BY <1>1, ActiveKept DEF FewerRun, Inv, Types
  <1>3. FewerHeld
    BY DEF FewerHeld
  <1>4. Evicts'
    BY <1>2 DEF Orders, Evicts, FewerRun
  <1> QED BY <1>2, <1>3, <1>4

\* A task that owes nothing to anybody, but for the start it reports.
Dull(t) ==
    /\ ~Limited(t) /\ ~Establishing(t) /\ t.pc # "replace"
    /\ \A l \in Loops : ~FansOut(t, l) /\ ~Tells(t, l)

\* A thread that goes from one dull task to another.
LEMMA DullKeeps ==
    ASSUME Inv, Inv', Orders, UNCHANGED <<served, slot, engine, registry, policy, marked>>,
           StaysClosing, MailKept("sweep"), MailKept("replace"),
           NEW l \in Loops, NEW t, Become(l, t), Dull(task[l]), Dull(t)
    PROVE  Orders'
  <1>1. task'[l] = t /\ \A k \in Loops : k # l => task'[k] = task[k]
    BY DEF Become, Inv, Types, Tasks
  <1>2. KeepsExcuses
    BY <1>1, ExcusesKept, MainLoop DEF Dull
  <1>3. KeepsComing
    BY <1>1, ComingKept DEF Dull
  <1>4. Marks'
    BY MarksKept DEF Orders, Replacing
  <1>5. LimitsGoOn
    BY <1>1 DEF LimitsGoOn, Dull
  <1>6. TrimsGoOn
    BY <1>1 DEF TrimsGoOn, Trimming, Dull, Limited
  <1>7. MakingGoesOn /\ VettingGoesOn
    BY <1>1 DEF MakingGoesOn, VettingGoesOn, Making, Dull
  <1>8. Evicts' /\ FewerHeld /\ FewerRun /\ FewerEntries
    BY SameSlots, SameEntries
  <1> QED BY <1>2, <1>3, <1>4, <1>5, <1>6, <1>7, <1>8, SteadyKeeps

\* Tasks that are dull.
LEMMA DullTasks ==
    ASSUME NEW t, t.pc \in {"idle", "launch", "closing"}
    PROVE  Dull(t)
  BY DEF Dull, Limited, InTrim, Establishing, FansOut, Tells

\* Mail that only gains tasks keeps its sweeps and replacements.
LEMMA MailAddsKept ==
    ASSUME NEW K, MailAdds(K)
    PROVE  MailKept("sweep") /\ MailKept("replace")
  BY DEF MailAdds, MailKept

\* Taking a letter of one kind keeps the others.
LEMMA PoppedKept ==
    ASSUME Inv, NEW l \in Loops, NEW kind, Pops(l, kind), mail' = Popped(l)
    PROVE  /\ kind # "sweep" => MailKept("sweep")
           /\ kind # "replace" => MailKept("replace")
  <1>1. \A k \in Loops : \A n \in ToSet(mail[k]) : n.kind # kind \/ k # l => n \in ToSet(mail'[k])
    BY PoppedStep
  <1>2. Task("sweep").kind = "sweep" /\ Task("replace").kind = "replace"
    BY DEF Task
  <1> QED BY <1>1, <1>2 DEF MailKept

\* The scheduler's report.
LEMMA LaneKept ==
    ASSUME Inv, NEW l \in Loops, NEW next, LaneBecomes(l, next, mail)
    PROVE  StaysClosing /\ MailKept("sweep") /\ MailKept("replace")
  <1> DEFINE fails == lane[l].phase = "running" /\ next.phase = "failed"
             close == fails /\ ~closing[l]
             claim == fails /\ ~runtime.claimed
             one == IF close THEN Submitted(mail, l, Task("close")) ELSE mail
  <1>1. /\ closing' = [closing EXCEPT ![l] = @ \/ fails]
        /\ mail' = IF claim THEN Submitted(one, Main, Task("stop")) ELSE one
    BY DEF LaneBecomes
  <1>2. /\ one \in [Loops -> Seq(Letters)]
        /\ \A k \in Loops : ToSet(mail[k]) \subseteq ToSet(one[k])
    <2>0. mail \in [Loops -> Seq(Letters)]
      BY DEF Inv, Types, Post
    <2>1. CASE close
      BY <2>0, <2>1, SubmittedMail, TaskLetters
    <2>2. CASE ~close
      BY <2>0, <2>2
    <2> QED BY <2>1, <2>2
  <1> HIDE DEF one, close, claim, fails
  <1>3. \A k \in Loops : ToSet(one[k]) \subseteq ToSet(mail'[k])
    <2>1. CASE claim
      BY <1>1, <1>2, <2>1, SubmittedMail, TaskLetters, MainLoop
    <2>2. CASE ~claim
      BY <1>1, <2>2
    <2> QED BY <2>1, <2>2
  <1>4. StaysClosing
    BY <1>1 DEF Inv, Lanes, StaysClosing
  <1> QED BY <1>2, <1>3, <1>4 DEF MailKept

\* The report of a start, the same.
LEMMA ReportsKept ==
    ASSUME Inv, NEW l \in Loops, NEW ok, Reports(l, ok, mail)
    PROVE  StaysClosing /\ MailKept("sweep") /\ MailKept("replace")
  BY LaneKept DEF Reports

\* Mail and closing left alone.
LEMMA MailStill ==
    ASSUME mail' = mail
    PROVE  MailKept("sweep") /\ MailKept("replace")
  BY DEF MailKept

\* Loops whose closing is left alone stay closing.
LEMMA ClosingStill ==
    ASSUME closing' = closing
    PROVE  StaysClosing
  BY DEF StaysClosing

\* Steps that touch neither rooms nor registry.
LEMMA LaneOrders ==
    ASSUME Inv, Inv', Orders, UNCHANGED <<served, slot, engine, registry, policy, marked, task>>,
           StaysClosing, MailKept("sweep"), MailKept("replace")
    PROVE  Orders'
  BY SameSlots, SameEntries, StillKeeps

\* Launches, arming passes, retries and exits leave the policy alone.
LEMMA ArmOrders ==
    ASSUME Inv, Inv', Orders, NEW l \in Loops,
           Launch(l) \/ PassDone(l) \/ RetryFires(l) \/ LoopExits(l)
    PROVE  Orders'
  <1>1. UNCHANGED <<served, slot, engine, registry, policy, marked, task, closing, mail>>
    BY DEF Launch, PassDone, RetryFires, LoopExits
  <1> QED BY <1>1, MailStill, ClosingStill, LaneOrders

\* Starts that fail or are refused inside the arming pass.
LEMMA FizzleOrders ==
    ASSUME Inv, Inv', Orders, NEW l \in Loops, StartFailsInline(l) \/ StartRefused(l)
    PROVE  Orders'
  <1>1. UNCHANGED <<served, slot, engine, registry, policy, marked, task>>
    BY DEF StartFailsInline, StartRefused
  <1>2. \E next : LaneBecomes(l, next, mail)
    BY DEF StartFailsInline, StartRefused
  <1> QED BY <1>1, <1>2, LaneKept, LaneOrders

\* begin_start takes a slot that holds no session.
LEMMA StartAcceptOrders ==
    ASSUME Inv, Inv', Orders, NEW l \in Loops, StartAccept(l)
    PROVE  Orders'
  <1> DEFINE s == NextSlot(l)
             r == [FreeSlot EXCEPT !.gen = slot[l][s].gen, !.starting = TRUE]
  <1>1. s \in Slots /\ ~slot[l][s].held
    BY MinSlot DEF StartAccept, NextSlot, FreeSlots
  <1>2. /\ SetsSlot(l, s, r)
        /\ UNCHANGED <<served, engine, registry, policy, mail, marked, closing, task>>
    BY DEF StartAccept, SetsSlot
  <1>3. slot[l][s] \in SlotRecord
    BY <1>1 DEF Inv, Types, Rooms
  <1>4. r \in SlotRecord /\ ~r.held
    BY <1>3 DEF SlotRecord, FreeSlot
  <1> HIDE DEF r, s
  <1>5. /\ slot'[l][s] = r
        /\ \A k \in Loops, u \in Slots : k # l \/ u # s => slot'[k][u] = slot[k][u]
    BY <1>1, <1>2, <1>4, SlotSet DEF Inv, Types
  <1>6. FewerHeld
    BY <1>4, <1>5 DEF FewerHeld
  <1>7. FewerRun /\ Evicts'
    BY <1>2, <1>4, <1>5 DEF FewerRun, Evicts, Active, Orders
  <1> QED BY <1>2, <1>6, <1>7, MailStill, ClosingStill, SameEntries, StillKeeps

\* A slot whose start or session goes.
LEMMA SlotGoes ==
    ASSUME Inv, Orders, NEW l \in Loops, NEW s \in Slots, NEW r \in SlotRecord,
           SetsSlot(l, s, r), ~r.held, Winds
    PROVE  FewerHeld /\ FewerRun /\ Evicts' /\ ~slot'[l][s].held
  <1>1. /\ slot'[l][s] = r
        /\ \A k \in Loops, u \in Slots : k # l \/ u # s => slot'[k][u] = slot[k][u]
    BY SlotSet DEF Inv, Types
  <1>2. FewerHeld
    BY <1>1 DEF FewerHeld
  <1>3. ASSUME NEW k \in Loops, NEW u \in Slots, Active(k, u)'
        PROVE  Active(k, u) /\ slot'[k][u] = slot[k][u]
    <2>1. slot'[k][u] = slot[k][u] /\ slot[k][u].held
      BY <1>1, <1>3 DEF Active
    <2>2. slot[k][u].gen \in 1..MaxSessions
      BY <2>1, SizeAssumption DEF Inv, Held, Placed, Types, Rooms
    <2> QED BY <1>3, <2>1, <2>2 DEF Active, Winds
  <1>4. FewerRun /\ Evicts'
    BY <1>3 DEF FewerRun, Evicts, Orders
  <1> QED BY <1>1, <1>2, <1>4

\* Engines left alone.
LEMMA SameWinds == ASSUME engine' = engine PROVE Winds
  BY DEF Winds

\* settled() with a failure, or with a session that comes too late.
LEMMA GivenUpOrders ==
    ASSUME Inv, Inv', Orders, NEW l \in Loops, NEW s \in Slots, slot[l][s].starting,
           slot' = [slot EXCEPT ![l][s].starting = FALSE], Reports(l, FALSE, mail),
           UNCHANGED <<served, engine, registry, policy, marked, task>>
    PROVE  Orders'
  <1> DEFINE r == [slot[l][s] EXCEPT !.starting = FALSE]
  <1>1. slot[l][s] \in SlotRecord /\ ~slot[l][s].held /\ SetsSlot(l, s, r)
    BY DEF Inv, Types, Rooms, Held, Placed, SetsSlot
  <1>2. r \in SlotRecord /\ ~r.held
    BY <1>1 DEF SlotRecord
  <1> HIDE DEF r
  <1>3. FewerHeld /\ FewerRun /\ Evicts'
    BY <1>1, <1>2, SlotGoes, SameWinds
  <1> QED BY <1>3, ReportsKept, SameEntries, StillKeeps

\* settled() with a failure.
LEMMA StartFailsOrders ==
    ASSUME Inv, Inv', Orders, NEW l \in Loops, NEW s \in Slots, StartFails(l, s)
    PROVE  Orders'
  BY GivenUpOrders DEF StartFails

\* Engines that stop or close.
LEMMA EngineOrders ==
    ASSUME Inv, Inv', Orders, NEW g \in 1..MaxSessions, EngineFails(g) \/ EngineCloses(g)
    PROVE  Orders'
  <1>1. UNCHANGED <<served, slot, registry, policy, marked, task, closing>>
    BY DEF EngineFails, EngineCloses
  <1>2. engine[g] \in EngineRecord /\ DOMAIN engine = 1..MaxSessions
    BY DEF Inv, Types, Rooms
  <1>3. \E st \in {"stopping", "closed"} : engine' = [engine EXCEPT ![g].st = st]
    BY DEF EngineFails, EngineCloses
  <1>4. engine[g].st \in {"active", "stopping"}
    BY DEF EngineFails, EngineCloses
  <1>5. Winds
    BY <1>2, <1>3, <1>4 DEF Winds, EngineRecord
  <1>6. MailKept("sweep") /\ MailKept("replace")
    <2>1. CASE mail' = mail
      BY <2>1, MailStill
    <2>2. CASE mail' = Submitted(mail, engine[g].loop, Notice(engine[g].slot, g))
      <3> DEFINE n == Notice(engine[g].slot, g)
                 k == engine[g].loop
      <3>1. n \in Letters /\ k \in Loops /\ mail \in [Loops -> Seq(Letters)]
        BY <1>2 DEF EngineRecord, Notice, Letters, Notices, Inv, Types, Post
      <3>2. mail' = Submitted(mail, k, n)
        BY <2>2
      <3> HIDE DEF n, k
      <3> QED BY <3>1, <3>2, SubmittedMail DEF MailKept
    <2> QED BY <2>1, <2>2 DEF EngineFails, EngineCloses
  <1> QED BY <1>1, <1>5, <1>6, StopsOnly, ClosingStill, SameEntries, StillKeeps

\* ended(): a session and its entry go together.
LEMMA EndedOrders ==
    ASSUME Inv, Inv', Orders, NEW l \in Loops, Ended(l)
    PROVE  Orders'
  <1> DEFINE n == Head(mail[l])
  <1>1. /\ Pops(l, "ended") /\ mail' = Popped(l)
        /\ UNCHANGED <<served, engine, policy, marked, closing, task>>
    BY DEF Ended
  <1>2. n \in Letters /\ n.kind = "ended"
    BY <1>1, PoppedStep
  <1>3. n.slot \in Slots
    BY <1>2 DEF Letters, Notices
  <1>4. MailKept("sweep") /\ MailKept("replace")
    BY <1>1, PoppedKept
  <1>5. CASE CurrentNotice(l, n)
    <2> DEFINE s == n.slot
               r == [slot[l][s] EXCEPT !.held = FALSE]
               x == Entry(l, s)
    <2>1. /\ SetsSlot(l, s, r)
          /\ registry' = IF served THEN Forgotten(registry, x) ELSE registry
      BY <1>5 DEF Ended, SetsSlot
    <2>2. s \in Slots /\ slot[l][s] \in SlotRecord
      BY <1>3 DEF Inv, Types, Rooms
    <2>3. r \in SlotRecord /\ ~r.held
      BY <2>2 DEF SlotRecord
    <2> HIDE DEF s, r, x, n
    <2>4. FewerHeld /\ FewerRun /\ Evicts'
      BY <1>1, <2>1, <2>2, <2>3, SlotGoes, SameWinds
    <2>5. FewerEntries
      <3>1. registry \in Seq(EntryRecord)
        BY DEF Inv, Types, Books
      <3>2. Besides(registry, x) \subseteq ToSet(registry)
        BY DEF Besides
      <3> QED BY <2>1, <3>1, <3>2, ForgottenFacts DEF FewerEntries
    <2> QED BY <1>1, <1>4, <2>4, <2>5, ClosingStill, StillKeeps
  <1>6. CASE ~CurrentNotice(l, n)
    <2>1. UNCHANGED <<slot, registry>>
      BY <1>6 DEF Ended
    <2> HIDE DEF n
    <2> QED BY <1>1, <1>4, <2>1, ClosingStill, LaneOrders
  <1> QED BY <1>5, <1>6

\* close_on_context stops what the loop's slots hold.
LEMMA CloseOnContextOrders ==
    ASSUME Inv, Inv', Orders, NEW l \in Loops, CloseOnContext(l)
    PROVE  Orders'
  <1>1. /\ Pops(l, "close") /\ mail' = Popped(l) /\ Stopped(l, Slots)
        /\ UNCHANGED <<served, slot, registry, policy, marked, closing, task>>
    BY DEF CloseOnContext
  <1>2. MailKept("sweep") /\ MailKept("replace") /\ Winds
    BY <1>1, PoppedKept, StoppedRooms DEF Inv, Types
  <1> QED BY <1>1, <1>2, StopsOnly, ClosingStill, SameEntries, StillKeeps

\* The runtime's tasks.
LEMMA StopTaskOrders ==
    ASSUME Inv, Inv', Orders, StopTask
    PROVE  Orders'
  <1>1. /\ Pops(Main, "stop") /\ mail' = Popped(Main)
        /\ UNCHANGED <<served, slot, engine, registry, policy, marked, closing, task>>
    BY DEF StopTask
  <1>2. MailKept("sweep") /\ MailKept("replace")
    BY <1>1, PoppedKept, MainLoop
  <1> QED BY <1>1, <1>2, ClosingStill, LaneOrders

\* The main thread goes on to launch the next loop.
LEMMA LaunchedOrders ==
    ASSUME Inv, Inv', Orders, NEW l \in Loops, Launched(l)
    PROVE  Orders'
  <1> DEFINE t == IF l + 1 \in ActiveLoops THEN [pc |-> "launch", next |-> l + 1] ELSE Idle
  <1>1. /\ Become(Main, t) /\ task[Main].pc = "launch"
        /\ UNCHANGED <<served, slot, engine, registry, policy, mail, marked, closing>>
    BY DEF Launched, At
  <1>2. t.pc \in {"idle", "launch"}
    BY DEF Idle
  <1> HIDE DEF t
  <1>3. Dull(t) /\ Dull(task[Main])
    BY <1>1, <1>2, DullTasks
  <1> QED BY <1>1, <1>3, MailStill, ClosingStill, DullKeeps, MainLoop

\* The session is established and nobody is left to be told.
LEMMA EstablishedOrders ==
    ASSUME Inv, Inv', Orders, NEW l \in Loops, Established(l)
    PROVE  Orders'
  <1>1. /\ task[l].pc = "tell" /\ task[l].owners = {} /\ task[l].then = "report"
        /\ Become(l, Idle) /\ Reports(l, TRUE, mail)
        /\ UNCHANGED <<served, slot, engine, registry, policy, marked>>
    BY DEF Established, At
  <1>2. Dull(task[l])
    BY <1>1 DEF Dull, Limited, InTrim, Establishing, FansOut, Tells
  <1>3. Dull(Idle)
    BY DullTasks DEF Idle
  <1> QED BY <1>1, <1>2, <1>3, ReportsKept, DullKeeps

\* close() begins its round over the loops,
LEMMA RuntimeCloseOrders ==
    ASSUME Inv, Inv', Orders, RuntimeClose
    PROVE  Orders'
  <1> DEFINE t == [pc |-> "closing", todo |-> ActiveLoops]
  <1>1. /\ Become(Main, t) /\ task[Main].pc = "idle" /\ t.pc = "closing"
        /\ UNCHANGED <<served, slot, engine, registry, policy, mail, marked, closing>>
    BY DEF RuntimeClose, ThreadIdle, At
  <1> HIDE DEF t
  <1>2. Dull(t) /\ Dull(task[Main])
    BY <1>1, DullTasks
  <1> QED BY <1>1, <1>2, MailStill, ClosingStill, DullKeeps, MainLoop

\* closes one of them,
LEMMA CloseLoopOrders ==
    ASSUME Inv, Inv', Orders, NEW l \in Loops, CloseLoop(l)
    PROVE  Orders'
  <1> DEFINE t == [task[Main] EXCEPT !.todo = @ \ {l}]
  <1>1. /\ Become(Main, t) /\ task[Main].pc = "closing"
        /\ closing' = [closing EXCEPT ![l] = TRUE]
        /\ mail' = Submitted(mail, l, Task("close")) \/ mail' = mail
        /\ UNCHANGED <<served, slot, engine, registry, policy, marked>>
    BY DEF CloseLoop, At
  <1>2. task[Main] \in Rounds
    BY <1>1, MainLoop DEF Inv, Types, Tasks, TaskOK
  <1>3. t.pc = "closing"
    BY <1>1, <1>2 DEF Rounds
  <1> HIDE DEF t
  <1>4. Dull(t) /\ Dull(task[Main])
    BY <1>1, <1>3, DullTasks
  <1>5. MailKept("sweep") /\ MailKept("replace")
    BY <1>1, SentMail, MailAddsKept DEF Inv, Types
  <1>6. StaysClosing
    BY <1>1 DEF StaysClosing, Inv, Lanes
  <1> QED BY <1>1, <1>4, <1>5, <1>6, DullKeeps, MainLoop

\* and is done, as a reload's round is.
LEMMA RoundDoneOrders ==
    ASSUME Inv, Inv', Orders, RoundDone
    PROVE  Orders'
  <1>1. /\ Become(Main, Idle) /\ task[Main].pc \in {"fanout", "closing"} /\ task[Main].todo = {}
        /\ UNCHANGED <<served, slot, engine, registry, policy, mail, marked, closing>>
    BY DEF RoundDone
  <1>2. Dull(task[Main])
    BY <1>1 DEF Dull, Limited, InTrim, Establishing, FansOut, Tells
  <1>3. Dull(Idle)
    BY DullTasks DEF Idle
  <1> QED BY <1>1, <1>2, <1>3, MailStill, ClosingStill, DullKeeps, MainLoop

-----------------------------------------------------------------------------
(* Threads that move on. *)

\* A refused session leaves its slot, and its thread is idle.
LEMMA RefusesOrders ==
    ASSUME Inv, Inv', Orders, NEW l \in Loops, task[l].pc \in {"watch", "policy"},
           Refuses(l, task[l].slot), UNCHANGED <<served, registry, policy, marked>>
    PROVE  Orders'
  <1> DEFINE s == task[l].slot
             r == [slot[l][s] EXCEPT !.held = FALSE]
  <1>1. /\ Stopped(l, {s}) /\ SetsSlot(l, s, r) /\ Reports(l, FALSE, mail) /\ Become(l, Idle)
    BY DEF Refuses, SetsSlot
  <1>2. s \in Slots
    BY DEF Inv, Types, Tasks, TaskOK, Watches
  <1>3. slot[l][s] \in SlotRecord
    BY <1>2 DEF Inv, Types, Rooms
  <1>4. r \in SlotRecord /\ ~r.held
    BY <1>3 DEF SlotRecord
  <1>5. \A u \in Slots : Making(l, u) => u = s
    BY DEF Making
  <1> HIDE DEF r, s
  <1>6. Winds
    BY <1>1, StoppedRooms DEF Inv, Types
  <1>7. FewerHeld /\ FewerRun /\ Evicts' /\ ~slot'[l][s].held
    BY <1>1, <1>2, <1>4, <1>6, SlotGoes
  <1>8. task'[l] = Idle /\ \A k \in Loops : k # l => task'[k] = task[k]
    BY <1>1 DEF Become, Inv, Types, Tasks
  <1>9. /\ ~Limited(task[l]) /\ \A k \in Loops : ~FansOut(task[l], k) /\ ~Tells(task[l], k)
        /\ task[l].pc # "replace" /\ ~Limited(Idle)
    BY DEF Limited, InTrim, FansOut, Tells, Idle
  <1>10. StaysClosing /\ MailKept("sweep") /\ MailKept("replace")
    BY <1>1, ReportsKept
  <1>11. KeepsExcuses
    BY <1>8, <1>9, <1>10, ExcusesKept, MainLoop
  <1>12. KeepsComing
    BY <1>8, <1>9, <1>10, ComingKept
  <1>13. Marks'
    BY <1>10, MarksKept DEF Orders, Replacing
  <1>14. LimitsGoOn
    BY <1>8, <1>9 DEF LimitsGoOn
  <1>15. TrimsGoOn
    BY <1>8, <1>9 DEF TrimsGoOn, Trimming, Limited
  <1>16. MakingGoesOn /\ VettingGoesOn
    BY <1>5, <1>7, <1>8 DEF MakingGoesOn, VettingGoesOn, Making
  <1> QED BY <1>7, <1>11, <1>12, <1>13, <1>14, <1>15, <1>16, SameEntries, SteadyKeeps

\* A thread that goes from one task to another, slots and registry unchanged.
LEMMA MovesOrders ==
    ASSUME Inv, Inv', Orders, UNCHANGED <<served, slot, engine, registry, policy>>,
           NEW l \in Loops, NEW t, Become(l, t), KeepsExcuses, KeepsComing, Marks',
           Limited(t) => \/ LimitOf(t) = policy.limit
                         \/ Limited(task[l]) /\ LimitOf(t) = LimitOf(task[l]),
           \A id \in Ids : Trimming(task[l], id) => Trimming(t, id),
           \A s \in Slots : Making(l, s) => Establishing(t) /\ t.slot = s,
           \A s \in Slots : Making(l, s) /\ Unvetted(task[l]) =>
             Unvetted(t) \/ slot[l][s].id \in policy.known
    PROVE  Orders'
  <1>1. task'[l] = t /\ \A k \in Loops : k # l => task'[k] = task[k]
    BY DEF Become, Inv, Types, Tasks
  <1>2. LimitsGoOn /\ TrimsGoOn
    BY <1>1 DEF LimitsGoOn, TrimsGoOn
  <1>3. MakingGoesOn
    BY <1>1 DEF MakingGoesOn, Making
  <1>4. VettingGoesOn
    BY <1>1, <1>3 DEF VettingGoesOn, MakingGoesOn
  <1> QED BY <1>2, <1>3, <1>4, SameSlots, SameEntries, SteadyKeeps

\* Where a thread stands, before and after.
LEMMA Moves ==
    ASSUME Inv, NEW l \in Loops, NEW t, Become(l, t)
    PROVE  task'[l] = t /\ \A k \in Loops : k # l => task'[k] = task[k]
  BY DEF Become, Inv, Types, Tasks

\* A session looked at further: nobody is told or asked meanwhile.
LEMMA VettingOrders ==
    ASSUME Inv, Inv', Orders, NEW l \in Loops, task[l].pc \in {"watch", "policy"},
           NEW t, Become(l, t), Establishing(t), t.slot = task[l].slot,
           t.pc = "admit" => /\ t.limit = policy.limit
                             /\ slot[l][task[l].slot].id \in policy.known,
           UNCHANGED <<served, slot, engine, registry, policy, mail, marked, closing>>
    PROVE  Orders'
  <1>1. task'[l] = t /\ \A k \in Loops : k # l => task'[k] = task[k]
    BY Moves
  <1>2. /\ ~Limited(task[l]) /\ \A k \in Loops : ~FansOut(task[l], k) /\ ~Tells(task[l], k)
        /\ task[l].pc # "replace"
    BY DEF Limited, InTrim, FansOut, Tells
  <1>3. KeepsExcuses
    BY <1>1, <1>2, ExcusesKept, MailStill, ClosingStill, MainLoop
  <1>4. KeepsComing
    BY <1>1, <1>2, ComingKept, MailStill
  <1>5. Marks'
    BY MarksKept, MailStill DEF Orders, Replacing
  <1>6. Limited(t) => LimitOf(t) = policy.limit
    BY DEF Limited, InTrim, LimitOf, Establishing
  <1>7. \A id \in Ids : ~Trimming(task[l], id)
    BY <1>2 DEF Trimming, Limited
  <1>8. \A s \in Slots : Making(l, s) => /\ t.slot = s
                                         /\ Unvetted(t) \/ slot[l][s].id \in policy.known
    BY DEF Making, Unvetted, Establishing
  <1> QED BY <1>3, <1>4, <1>5, <1>6, <1>7, <1>8, MovesOrders

\* observe_session, observe_epochs and arm_rekey_watchdog.
LEMMA WatchOrders ==
    ASSUME Inv, Inv', Orders, NEW l \in Loops, NEW fails, Watch(l, fails)
    PROVE  Orders'
  <1>1. CASE closing[l] \/ fails
    BY <1>1, RefusesOrders DEF Watch, At
  <1>2. CASE ~(closing[l] \/ fails)
    <2> DEFINE t == [task[l] EXCEPT !.pc = "policy"]
    <2>1. /\ Become(l, t) /\ task[l].pc = "watch"
          /\ UNCHANGED <<served, slot, engine, registry, policy, mail, marked, closing>>
      BY <1>2 DEF Watch, At
    <2>2. task[l] \in Watches
      BY <2>1 DEF Inv, Types, Tasks, TaskOK
    <2>3. t.pc = "policy" /\ t.slot = task[l].slot
      BY <2>2 DEF Watches
    <2> HIDE DEF t
    <2> QED BY <2>1, <2>3, VettingOrders DEF Establishing
  <1> QED BY <1>1, <1>2

\* admit_identity reads the policy: the identity is known, the limit current.
LEMMA ReadPolicyOrders ==
    ASSUME Inv, Inv', Orders, NEW l \in Loops, ReadPolicy(l)
    PROVE  Orders'
  <1>1. CASE slot[l][task[l].slot].id \notin policy.known
    BY <1>1, RefusesOrders DEF ReadPolicy, At
  <1>2. CASE slot[l][task[l].slot].id \in policy.known
    <2> DEFINE t == [pc |-> "admit", slot |-> task[l].slot, limit |-> policy.limit]
    <2>1. /\ Become(l, t) /\ task[l].pc = "policy"
          /\ UNCHANGED <<served, slot, engine, registry, policy, mail, marked, closing>>
      BY <1>2 DEF ReadPolicy, At
    <2>2. t.pc = "admit" /\ t.slot = task[l].slot /\ t.limit = policy.limit
      OBVIOUS
    <2> HIDE DEF t
    <2> QED BY <1>2, <2>1, <2>2, VettingOrders DEF Establishing
  <1> QED BY <1>1, <1>2

\* Trims have their parts.
LEMMA TrimParts ==
    ASSUME Inv, NEW l \in Loops, InTrim(task[l])
    PROVE  /\ TrimOf(task[l]) \in Trims
           /\ task[l].pc = "tell" => task[l] \in TellsTrim /\ TrimOf(task[l]) = task[l].trim
           /\ task[l].pc = "trim" => task[l] \in Trims /\ TrimOf(task[l]) = task[l]
  <1>1. TaskOK(task[l])
    BY DEF Inv, Types, Tasks
  <1>2. task[l].pc = "tell" => task[l] \in TellsTrim
    BY <1>1 DEF TaskOK, TellsReport, InTrim
  <1>3. task[l].pc = "tell" => task[l].trim \in Trims
    BY <1>2 DEF TellsTrim
  <1> QED BY <1>1, <1>2, <1>3 DEF InTrim, TrimOf, TaskOK

\* replacements_marked() of one owner: the replacement is queued there instead.
LEMMA TellOrders ==
    ASSUME Inv, Inv', Orders, NEW l \in Loops, NEW o \in Loops, Tell(l, o)
    PROVE  Orders'
  <1> DEFINE t == [task[l] EXCEPT !.owners = @ \ {o}]
  <1>1. /\ Become(l, t) /\ task[l].pc = "tell" /\ marked' = [marked EXCEPT ![o] = TRUE]
        /\ mail' = IF marked[o] THEN mail ELSE Submitted(mail, o, Task("replace"))
        /\ UNCHANGED <<served, slot, engine, registry, policy, closing>>
    BY DEF Tell, At
  <1>2. task[l] \in TellsReport \/ task[l] \in TellsTrim
    BY <1>1 DEF Inv, Types, Tasks, TaskOK
  <1>3. /\ t.pc = "tell" /\ t.then = task[l].then /\ t.owners = task[l].owners \ {o}
        /\ task[l].then = "trim" => t.trim = task[l].trim
    BY <1>2 DEF TellsReport, TellsTrim
  <1> HIDE DEF t
  <1>4. task'[l] = t /\ \A k \in Loops : k # l => task'[k] = task[k]
    BY <1>1, Moves
  <1>5. /\ InTrim(t) <=> InTrim(task[l])
        /\ InTrim(t) => TrimOf(t) = TrimOf(task[l])
    BY <1>1, <1>3 DEF InTrim, TrimOf
  <1>6. mail \in [Loops -> Seq(Letters)] /\ Task("replace") \in Letters
    BY TaskLetters DEF Inv, Types, Post
  <1>7. MailKept("sweep") /\ MailKept("replace")
    BY <1>1, <1>6, SubmittedMail DEF MailKept
  <1>8. ReplaceQueued(o)'
    <2>1. CASE marked[o]
      BY <1>1, <2>1 DEF Orders, Replacing, Marks, ReplaceQueued
    <2>2. CASE ~marked[o]
      BY <1>1, <1>6, <2>2, SubmittedMail DEF ReplaceQueued
    <2> QED BY <2>1, <2>2
  <1>9. Marks'
    <2> SUFFICES ASSUME NEW k \in Loops, marked'[k] PROVE ReplaceQueued(k)'
      BY DEF Marks
    <2>1. CASE k = o
      BY <1>8, <2>1
    <2>2. CASE k # o
      <3>1. marked[k]
        BY <1>1, <2>2 DEF Inv, Types, Post
      <3> QED BY <1>7, <3>1 DEF Orders, Replacing, Marks, MailKept, ReplaceQueued
    <2> QED BY <2>1, <2>2
  <1>10. KeepsExcuses
    <2>1. \A k \in Loops : FansOut(task[l], k) => FansOut(t, k)
      BY <1>1, <1>5 DEF FansOut
    <2> QED BY <1>1, <1>4, <1>7, <2>1, ExcusesKept, ClosingStill, MainLoop
  <1>11. KeepsComing
    <2> SUFFICES ASSUME NEW k \in Loops, Coming(k) PROVE Coming(k)'
      BY DEF KeepsComing
    <2>1. CASE k = o
      <3>1. ReplaceQueued(k)'
        BY <1>8, <2>1
      <3> QED BY <3>1 DEF Coming
    <2>2. CASE k # o /\ ReplaceQueued(k)
      BY <1>7, <2>2 DEF Coming, MailKept, ReplaceQueued
    <2>3. CASE task[k].pc = "replace"
      <3>1. task'[k].pc = "replace"
        BY <1>1, <1>4, <2>3
      <3> QED BY <3>1 DEF Coming
    <2>4. CASE k # o /\ \E m \in ActiveLoops : Tells(task[m], k)
      <3>1. PICK m \in ActiveLoops : Tells(task[m], k)
        BY <2>4
      <3>2. Tells(task'[m], k)
        <4>1. m \in Loops
          BY MainLoop
        <4> QED BY <1>3, <1>4, <2>4, <3>1, <4>1 DEF Tells
      <3>3. ActiveLoops' = ActiveLoops
        BY <1>1 DEF ActiveLoops
      <3> QED BY <3>2, <3>3 DEF Coming
    <2> QED BY <2>1, <2>2, <2>3, <2>4 DEF Coming
  <1>12. Limited(t) => Limited(task[l]) /\ LimitOf(t) = LimitOf(task[l])
    BY <1>1, <1>3, <1>5 DEF Limited, LimitOf
  <1>13. \A id \in Ids : Trimming(task[l], id) => Trimming(t, id)
    BY <1>5 DEF Trimming
  <1>14. \A s \in Slots : ~Making(l, s)
    BY <1>1 DEF Making, Establishing
  <1> QED BY <1>1, <1>9, <1>10, <1>11, <1>12, <1>13, <1>14, MovesOrders

\* A thread that was telling, or trimming, goes on with a task that promises as much.
LEMMA ResumesOrders ==
    ASSUME Inv, Inv', Orders, NEW l \in Loops, NEW t, Become(l, t), InTrim(task[l]),
           \A k \in Loops : ~Tells(task[l], k),
           Limited(t) => LimitOf(t) = LimitOf(task[l]),
           \A id \in Ids : Trimming(task[l], id) => Trimming(t, id),
           \A k \in Loops : FansOut(task[l], k) => FansOut(t, k),
           UNCHANGED <<served, slot, engine, registry, policy, mail, marked, closing>>
    PROVE  Orders'
  <1>1. task'[l] = t /\ \A k \in Loops : k # l => task'[k] = task[k]
    BY Moves
  <1>2. task[l].pc # "replace" /\ Limited(task[l]) /\ \A s \in Slots : ~Making(l, s)
    BY DEF InTrim, Limited, Making, Establishing
  <1>3. KeepsExcuses
    BY <1>1, ExcusesKept, MailStill, ClosingStill, MainLoop
  <1>4. KeepsComing
    BY <1>1, <1>2, ComingKept, MailStill
  <1>5. Marks'
    BY MarksKept, MailStill DEF Orders, Replacing
  <1> QED BY <1>2, <1>3, <1>4, <1>5, MovesOrders

\* A trim goes on after the owner was told.
LEMMA TrimGoesOnOrders ==
    ASSUME Inv, Inv', Orders, NEW l \in Loops, TrimGoesOn(l)
    PROVE  Orders'
  <1> DEFINE t == task[l].trim
  <1>1. /\ task[l].pc = "tell" /\ task[l].owners = {} /\ task[l].then = "trim" /\ Become(l, t)
        /\ UNCHANGED <<served, slot, engine, registry, policy, mail, marked, closing>>
    BY DEF TrimGoesOn, At
  <1>2. InTrim(task[l]) /\ TrimOf(task[l]) = t /\ t \in Trims
    BY <1>1, TrimParts DEF InTrim
  <1> HIDE DEF t
  <1>3. t.pc = "trim" /\ TrimOf(t) = t /\ InTrim(t)
    BY <1>2 DEF Trims, TrimOf, InTrim
  <1>4. \A k \in Loops : ~Tells(task[l], k)
    BY <1>1 DEF Tells
  <1>5. LimitOf(t) = LimitOf(task[l])
    BY <1>1, <1>2, <1>3 DEF LimitOf
  <1>6. \A id \in Ids : Trimming(task[l], id) => Trimming(t, id)
    BY <1>2, <1>3 DEF Trimming
  <1>7. \A k \in Loops : FansOut(task[l], k) => FansOut(t, k)
    BY <1>1, <1>2, <1>3 DEF FansOut
  <1> QED BY <1>1, <1>2, <1>4, <1>5, <1>6, <1>7, ResumesOrders

\* A trim that is over leaves no identity to look at.
LEMMA TrimmedOrders ==
    ASSUME Inv, Inv', Orders, NEW l \in Loops, Trimmed(l)
    PROVE  Orders'
  <1> DEFINE t == task[l].then
  <1>1. /\ task[l].pc = "trim" /\ task[l].ids = {} /\ Become(l, t)
        /\ UNCHANGED <<served, slot, engine, registry, policy, mail, marked, closing>>
    BY DEF Trimmed, At
  <1>2. InTrim(task[l]) /\ TrimOf(task[l]) = task[l] /\ task[l] \in Trims
    BY <1>1, TrimParts DEF InTrim
  <1>3. t \in Afters
    BY <1>2 DEF Trims
  <1>4. t.pc \in {"idle", "fanout"}
    BY <1>3 DEF Afters, Rounds, Idle
  <1>5. \A k \in Loops : FansOut(task[l], k) => FansOut(t, k)
    BY <1>1, <1>2 DEF FansOut
  <1> HIDE DEF t
  <1>6. \A k \in Loops : ~Tells(task[l], k)
    BY <1>1 DEF Tells
  <1>7. ~Limited(t)
    BY <1>4 DEF Limited, InTrim
  <1>8. \A id \in Ids : ~Trimming(task[l], id)
    BY <1>1, <1>2 DEF Trimming
  <1> QED BY <1>1, <1>2, <1>5, <1>6, <1>7, <1>8, ResumesOrders

\* request_sweep() of one loop: it is closing or has its sweep queued.
LEMMA FanOutOrders ==
    ASSUME Inv, Inv', Orders, NEW l \in Loops, FanOut(l)
    PROVE  Orders'
  <1> DEFINE t == [task[Main] EXCEPT !.todo = @ \ {l}]
  <1>1. /\ Become(Main, t) /\ task[Main].pc = "fanout"
        /\ mail' = IF closing[l] THEN mail ELSE Submitted(mail, l, Task("sweep"))
        /\ UNCHANGED <<served, slot, engine, registry, policy, marked, closing>>
    BY DEF FanOut, At
  <1>2. task[Main] \in Rounds
    BY <1>1, MainLoop DEF Inv, Types, Tasks, TaskOK
  <1>3. t.pc = "fanout" /\ t.todo = task[Main].todo \ {l}
    BY <1>1, <1>2 DEF Rounds
  <1> HIDE DEF t
  <1>4. task'[Main] = t /\ \A k \in Loops : k # Main => task'[k] = task[k]
    BY <1>1, Moves, MainLoop
  <1>5. mail \in [Loops -> Seq(Letters)] /\ Task("sweep") \in Letters
    BY TaskLetters DEF Inv, Types, Post
  <1>6. MailKept("sweep") /\ MailKept("replace") /\ (closing[l] \/ SweepQueued(l)')
    BY <1>1, <1>5, SubmittedMail DEF MailKept, SweepQueued
  <1>7. KeepsExcuses
    <2> SUFFICES ASSUME NEW k \in Loops, Excused(k) PROVE Excused(k)'
      BY MainLoop DEF KeepsExcuses
    <2>1. CASE k = l
      <3>1. closing'[k] \/ SweepQueued(k)'
        BY <1>1, <1>6, <2>1
      <3> QED BY <3>1 DEF Excused
    <2>2. CASE k # l /\ FansOut(task[Main], k)
      <3>1. FansOut(task'[Main], k)
        BY <1>1, <1>3, <1>4, <2>2 DEF FansOut, InTrim
      <3> QED BY <3>1 DEF Excused
    <2>3. CASE closing[k] \/ SweepQueued(k)
      BY <1>1, <1>6, <2>3 DEF Excused, MailKept, SweepQueued
    <2> QED BY <2>1, <2>2, <2>3 DEF Excused
  <1>8. KeepsComing
    BY <1>1, <1>3, <1>4, <1>6, ComingKept DEF Tells
  <1>9. Marks'
    BY <1>1, <1>6, MarksKept DEF Orders, Replacing
  <1>10. ~Limited(t) /\ ~Limited(task[Main])
    BY <1>1, <1>3 DEF Limited, InTrim
  <1>11. /\ \A id \in Ids : ~Trimming(task[Main], id)
         /\ \A s \in Slots : ~Making(Main, s)
    BY <1>1, <1>10 DEF Trimming, Limited, Making, Establishing
  <1> QED BY <1>1, <1>7, <1>8, <1>9, <1>10, <1>11, MovesOrders, MainLoop

\* replace_on_context takes its task: its thread comes instead.
LEMMA ReplaceBeginsOrders ==
    ASSUME Inv, Inv', Orders, NEW l \in Loops, ReplaceBegins(l)
    PROVE  Orders'
  <1> DEFINE t == [pc |-> "replace"]
  <1>1. /\ Pops(l, "replace") /\ mail' = Popped(l) /\ task[l].pc = "idle" /\ Become(l, t)
        /\ marked' = [marked EXCEPT ![l] = FALSE] /\ t.pc = "replace"
        /\ UNCHANGED <<served, slot, engine, registry, policy, closing>>
    BY DEF ReplaceBegins, Pops, ThreadIdle, At
  <1> HIDE DEF t
  <1>2. task'[l] = t /\ \A k \in Loops : k # l => task'[k] = task[k]
    BY <1>1, Moves
  <1>3. MailKept("sweep") /\ \A k \in Loops : k # l /\ ReplaceQueued(k) => ReplaceQueued(k)'
    BY <1>1, PoppedKept, PoppedStep DEF ReplaceQueued
  <1>4. Dull(task[l])
    BY <1>1, DullTasks
  <1>5. KeepsExcuses
    BY <1>1, <1>2, <1>3, <1>4, ExcusesKept, ClosingStill, MainLoop DEF Dull
  <1>6. KeepsComing
    <2> SUFFICES ASSUME NEW k \in Loops, Coming(k) PROVE Coming(k)'
      BY DEF KeepsComing
    <2>1. CASE k = l
      <3>1. task'[k].pc = "replace"
        BY <1>1, <1>2, <2>1
      <3> QED BY <3>1 DEF Coming
    <2>2. CASE k # l /\ (ReplaceQueued(k) \/ task[k].pc = "replace")
      BY <1>2, <1>3, <2>2 DEF Coming
    <2>3. CASE \E m \in ActiveLoops : Tells(task[m], k)
      <3>1. PICK m \in ActiveLoops : Tells(task[m], k)
        BY <2>3
      <3>2. Tells(task'[m], k) /\ ActiveLoops' = ActiveLoops
        BY <1>1, <1>2, <1>4, <3>1, MainLoop DEF Dull, ActiveLoops
      <3> QED BY <3>2 DEF Coming
    <2> QED BY <2>1, <2>2, <2>3 DEF Coming
  <1>7. Marks'
    <2> SUFFICES ASSUME NEW k \in Loops, marked'[k] PROVE ReplaceQueued(k)'
      BY DEF Marks
    <2>1. k # l /\ marked[k]
      BY <1>1 DEF Inv, Types, Post
    <2> QED BY <1>3, <2>1 DEF Orders, Replacing, Marks
  <1>8. ~Limited(t) /\ \A id \in Ids : ~Trimming(task[l], id)
    BY <1>1, <1>4 DEF Limited, InTrim, Trimming, Dull
  <1>9. \A s \in Slots : ~Making(l, s)
    BY <1>4 DEF Dull, Making
  <1> QED BY <1>1, <1>5, <1>6, <1>7, <1>8, <1>9, MovesOrders

-----------------------------------------------------------------------------
(* Sessions that are evicted or begin. *)

\* What is evicted is stopped.
LEMMA EvictStops ==
    ASSUME Inv, Orders, NEW l \in Loops, NEW S, Evicted(l, S), Stopped(l, S)
    PROVE  /\ FewerHeld /\ FewerRun /\ Evicts' /\ SameHeld
           /\ \A k \in Loops, s \in Slots :
                slot'[k][s].evicted <=> slot[k][s].evicted \/ (k = l /\ s \in S)
  <1>1. /\ SameRooms
        /\ \A k \in Loops, s \in Slots :
             slot'[k][s].evicted <=> slot[k][s].evicted \/ (k = l /\ s \in S)
    BY EvictedRooms DEF Inv, Types
  <1>2. Winds /\ SameHeld
    BY <1>1, StoppedRooms, SameRoomsHeld DEF Inv, Types
  <1>3. FewerHeld
    BY <1>1 DEF FewerHeld, SameRooms
  <1>4. FewerRun
    BY <1>2, ActiveKept DEF FewerRun, Inv, Types
  <1>5. ASSUME NEW s \in Slots, s \in S PROVE ~Active(l, s)'
    <2> SUFFICES ASSUME Active(l, s)' PROVE FALSE
      OBVIOUS
    <2>1. Active(l, s)
      BY <1>4 DEF FewerRun
    <2>2. slot'[l][s].gen = slot[l][s].gen /\ slot[l][s].held /\ engine[slot[l][s].gen].st = "active"
      BY <1>1, <2>1 DEF SameRooms, Active
    <2>3. slot[l][s].gen \in 1..MaxSessions
      BY <2>2, SizeAssumption DEF Inv, Held, Placed, Types, Rooms
    <2> DEFINE g == slot[l][s].gen
    <2>4. engine[g] \in EngineRecord /\ g \in DOMAIN engine
      BY <2>3 DEF Inv, Types, Rooms
    <2>5. engine'[g] = [engine[g] EXCEPT !.st = "stopping"]
      BY <1>5, <2>2, <2>4 DEF Stopped
    <2>6. engine'[g].st = "stopping"
      BY <2>4, <2>5 DEF EngineRecord
    <2> QED BY <2>2, <2>6 DEF Active
  <1>6. Evicts'
    BY <1>1, <1>4, <1>5 DEF Evicts, Orders, FewerRun
  <1> QED BY <1>1, <1>2, <1>3, <1>4, <1>6

\* replace_on_context stops what is marked as replaced.
LEMMA ReplaceStopsOrders ==
    ASSUME Inv, Inv', Orders, NEW l \in Loops, ReplaceStops(l)
    PROVE  Orders'
  <1> DEFINE gone == {s \in Slots : Stoppable(l, s) /\ IsReplaced(registry, Entry(l, s))}
  <1>1. /\ task[l].pc = "replace" /\ Evicted(l, gone) /\ Stopped(l, gone) /\ Become(l, Idle)
        /\ UNCHANGED <<served, registry, policy, mail, marked, closing>>
    BY DEF ReplaceStops, At
  <1>2. task'[l] = Idle /\ \A k \in Loops : k # l => task'[k] = task[k]
    BY <1>1, Moves
  <1> HIDE DEF gone
  <1>3. /\ FewerHeld /\ FewerRun /\ Evicts'
        /\ \A k \in Loops, s \in Slots :
             slot'[k][s].evicted <=> slot[k][s].evicted \/ (k = l /\ s \in gone)
    BY <1>1, EvictStops
  <1>4. /\ ~Limited(task[l]) /\ ~Establishing(task[l])
        /\ \A k \in Loops : ~FansOut(task[l], k) /\ ~Tells(task[l], k)
    BY <1>1 DEF Limited, InTrim, Establishing, FansOut, Tells
  <1>5. ~Limited(Idle)
    BY DEF Limited, InTrim, Idle
  <1>6. KeepsExcuses
    BY <1>1, <1>2, <1>4, ExcusesKept, MailStill, ClosingStill, MainLoop
  <1>7. LimitsGoOn /\ TrimsGoOn
    BY <1>2, <1>4, <1>5 DEF LimitsGoOn, TrimsGoOn, Trimming, Limited
  <1>8. MakingGoesOn /\ VettingGoesOn
    BY <1>2, <1>4 DEF MakingGoesOn, VettingGoesOn, Making
  <1>9. Marks'
    BY <1>1, MarksKept, MailStill DEF Orders, Replacing
  <1>10. \A k \in Loops : k # l /\ Coming(k) => Coming(k)'
    <2>1. ActiveLoops' = ActiveLoops
      BY <1>1 DEF ActiveLoops
    <2> QED BY <1>1, <1>2, <1>4, <2>1, MainLoop DEF Coming, ReplaceQueued
  <1>11. Replacing'
    <2> SUFFICES ASSUME served, NEW i \in DOMAIN registry, registry[i].replaced
                 PROVE  Replaces(i)'
      BY <1>1, <1>9 DEF Replacing, Replaces
    <2>1. PICK k \in Loops, u \in Slots : k = registry[i].loop /\ u = registry[i].slot
      BY EntryTyped DEF Inv, Types
    <2>2. slot[k][u].evicted \/ Coming(k)
      BY <2>1 DEF Orders, Replacing, Replaces
    <2>3. slot[k][u].held /\ Names(registry[i], k, u) /\ registry[i] \in EntryRecord
      BY <2>1, EntryTyped DEF Inv, Types, Listed, EntryHeld
    <2>4. CASE k = l
      <3>1. IsReplaced(registry, Entry(l, u))
        BY <2>3, <2>4, EntryNames DEF IsReplaced
      <3>2. slot[k][u].evicted \/ u \in gone
        BY <2>3, <2>4, <3>1 DEF gone, Stoppable
      <3>3. slot'[k][u].evicted
        BY <1>3, <2>4, <3>2
      <3> QED BY <1>1, <2>1, <3>3 DEF Replaces
    <2>5. CASE k # l
      <3>1. slot'[k][u].evicted \/ Coming(k)'
        BY <1>3, <1>10, <2>2, <2>5
      <3>2. registry'[i].loop = k /\ registry'[i].slot = u
        BY <1>1, <2>1
      <3>3. Coming(k)' => Coming(registry[i].loop)'
        BY <3>2
      <3> QED BY <3>1, <3>2, <3>3 DEF Replaces
    <2> QED BY <2>4, <2>5
  <1> QED BY <1>1, <1>3, <1>6, <1>7, <1>8, <1>11, SameEntries, SteadyOrders

\* A slot that takes a session.
LEMMA HeldRecord ==
    ASSUME NEW g \in 1..MaxSessions, NEW id \in Ids
    PROVE  /\ [FreeSlot EXCEPT !.gen = g, !.held = TRUE, !.id = id] \in SlotRecord
           /\ ~[FreeSlot EXCEPT !.gen = g, !.held = TRUE, !.id = id].evicted
  <1>1. g \in 0..MaxSessions
    BY SizeAssumption
  <1> QED BY <1>1 DEF FreeSlot, SlotRecord

\* A start settled with a session: it is being looked at.
LEMMA EnteredOrders ==
    ASSUME Inv, Inv', Orders, NEW l \in ActiveLoops, NEW s \in Slots, NEW id \in Ids, NEW g,
           At(l, "idle"), slot[l][s].starting, sessions < MaxSessions, g = sessions + 1,
           SetsSlot(l, s, [FreeSlot EXCEPT !.gen = g, !.held = TRUE, !.id = id]),
           engine' = [engine EXCEPT ![g] = [st |-> "active", loop |-> l, slot |-> s]],
           Become(l, [pc |-> "watch", slot |-> s]),
           UNCHANGED <<closing, mail, served, registry, policy, marked>>
    PROVE  Orders'
  <1>0. /\ l \in Loops /\ g \in 1..MaxSessions /\ sessions \in Nat /\ MaxSessions \in Nat
    BY MainLoop, SizeAssumption DEF Inv, Types, Rooms
  <1> DEFINE r == [FreeSlot EXCEPT !.gen = g, !.held = TRUE, !.id = id]
             t == [pc |-> "watch", slot |-> s]
  <1>1. r \in SlotRecord /\ ~r.evicted
    BY <1>0, HeldRecord
  <1>2. t.pc = "watch" /\ t.slot = s /\ Become(l, t) /\ SetsSlot(l, s, r)
    OBVIOUS
  <1> HIDE DEF r, t
  <1>3. /\ slot'[l][s] = r
        /\ \A k \in Loops, u \in Slots : k # l \/ u # s => slot'[k][u] = slot[k][u]
    BY <1>0, <1>1, <1>2, SlotSet DEF Inv, Types
  <1>4. \A h \in 1..MaxSessions : h # g => engine'[h] = engine[h]
    BY <1>0 DEF Inv, Types, Rooms
  <1>5. task'[l] = t /\ \A k \in Loops : k # l => task'[k] = task[k]
    BY <1>0, <1>2, Moves
  <1>6. Dull(task[l]) /\ ~slot[l][s].held
    BY <1>0, DullTasks DEF At, Inv, Held, Placed
  <1>7. ~Limited(t) /\ Establishing(t) /\ Unvetted(t)
    BY <1>2 DEF Limited, InTrim, Establishing, Unvetted
  <1>8. KeepsExcuses
    BY <1>0, <1>5, <1>6, ExcusesKept, MailStill, ClosingStill, MainLoop DEF Dull
  <1>9. KeepsComing
    BY <1>0, <1>5, <1>6, ComingKept, MailStill DEF Dull
  <1>10. ASSUME NEW k \in Loops, NEW u \in Slots, k # l \/ u # s
         PROVE  /\ slot'[k][u] = slot[k][u] /\ (Making(k, u) => Making(k, u)')
                /\ Active(k, u)' => Active(k, u)
                /\ Making(k, u) /\ Unvetted(task[k]) => Unvetted(task'[k])
    <2>1. slot'[k][u] = slot[k][u]
      BY <1>3, <1>10
    <2>2. Making(k, u) => k # l
      BY <1>6 DEF Making, Dull
    <2>3. slot[k][u].held => slot[k][u].gen \in 1..MaxSessions /\ slot[k][u].gen # g
      BY <1>0 DEF Inv, Held, Placed
    <2> QED BY <1>4, <1>5, <2>1, <2>2, <2>3 DEF Making, Active
  <1>11. Evicts'
    BY <1>1, <1>3, <1>10 DEF Evicts, Orders
  <1>12. Making(l, s)' /\ Unvetted(task'[l])
    BY <1>2, <1>5, <1>7 DEF Making
  <1>13. ActiveLoops' = ActiveLoops
    BY DEF ActiveLoops
  <1>14. AllKnown'
    <2> SUFFICES ASSUME NEW k \in ActiveLoops, NEW u \in Slots PROVE Known(k, u)'
      BY <1>13 DEF AllKnown
    <2>1. CASE k = l /\ u = s
      BY <1>12, <2>1 DEF Known
    <2>2. CASE k # l \/ u # s
      <3>1. k \in Loops /\ Known(k, u)
        BY MainLoop DEF Orders, AllKnown
      <3> QED BY <1>8, <1>10, <2>2, <3>1 DEF Known, KeepsExcuses
    <2> QED BY <2>1, <2>2
  <1>15. AllCurrent'
    <2>1. LimitsGoOn
      BY <1>5, <1>7 DEF LimitsGoOn
    <2> QED BY <1>8, <2>1, LimitsKept DEF Orders
  <1>16. WithinLimit'
    <2> SUFFICES ASSUME policy.limit # 0, NEW i \in Ids
                 PROVE  Cardinality(Staying(i)') <= policy.limit
      BY DEF WithinLimit
    <2>1. policy.limit \in Nat
      BY PolicyTyped
    <2>2. ASSUME NEW k \in Loops, NEW u \in Slots, Stays(k, u, i)' PROVE Stays(k, u, i)
      <3>1. k # l \/ u # s
        BY <1>12, <2>2 DEF Stays
      <3>2. slot'[k][u] = slot[k][u] /\ ~Making(k, u) /\ slot[k][u].held /\ ~slot[k][u].evicted
            /\ slot[k][u].id = i
        BY <1>10, <2>2, <3>1 DEF Stays
      <3>3. k \in ActiveLoops
        BY <3>2 DEF Inv, Held, Placed
      <3>4. ~Excused(k)
        BY <1>8, <2>2, <3>3 DEF Stays, KeepsExcuses
      <3>5. Unmarked(k, u)
        BY <2>2, <3>2 DEF Stays, Unmarked, Names
      <3>6. ~(served /\ Trimming(task[k], i))
        <4>1. CASE k = l
          BY <1>6, <4>1 DEF Dull, Trimming, Limited
        <4>2. CASE k # l
          BY <1>5, <2>2, <4>2 DEF Stays
        <4> QED BY <4>1, <4>2
      <3> QED BY <3>2, <3>4, <3>5, <3>6 DEF Stays
    <2> QED BY <2>1, <2>2, FewerStaying DEF Orders
  <1>17. Marks'
    BY MarksKept, MailStill DEF Orders, Replacing
  <1>18. Replacing'
    <2> SUFFICES ASSUME served, NEW i \in DOMAIN registry, registry[i].replaced
                 PROVE  Replaces(i)'
      BY <1>17 DEF Replacing, Replaces
    <2>1. PICK k \in Loops, u \in Slots : k = registry[i].loop /\ u = registry[i].slot
      BY EntryTyped DEF Inv, Types
    <2>2. slot[k][u].evicted \/ Coming(k)
      BY <2>1 DEF Orders, Replacing, Replaces
    <2>3. slot[k][u].held
      BY <2>1 DEF Inv, Listed, EntryHeld
    <2>4. slot'[k][u] = slot[k][u]
      BY <1>3, <1>6, <2>3
    <2>5. slot'[k][u].evicted \/ Coming(k)'
      BY <1>9, <2>2, <2>4 DEF KeepsComing
    <2>6. registry'[i].loop = k /\ registry'[i].slot = u
      BY <2>1
    <2>7. Coming(k)' => Coming(registry[i].loop)'
      BY <2>6
    <2> QED BY <2>5, <2>6, <2>7 DEF Replaces
  <1> QED BY <1>11, <1>14, <1>15, <1>16, <1>18 DEF Orders

\* settled() with an engine.
LEMMA StartSucceedsOrders ==
    ASSUME Inv, Inv', Orders, NEW l \in ActiveLoops, NEW s \in Slots, NEW id \in Ids,
           NEW overrun, StartSucceeds(l, s, id, overrun)
    PROVE  Orders'
  <1>1. CASE closing[l] \/ overrun
    <2>1. /\ slot[l][s].starting /\ slot' = [slot EXCEPT ![l][s].starting = FALSE]
          /\ Reports(l, FALSE, mail)
          /\ UNCHANGED <<served, engine, registry, policy, marked, task>>
      BY <1>1 DEF StartSucceeds
    <2> QED BY <2>1, GivenUpOrders, MainLoop
  <1>2. CASE ~(closing[l] \/ overrun)
    <2> DEFINE g == sessions + 1
    <2>1. /\ At(l, "idle") /\ slot[l][s].starting /\ sessions < MaxSessions /\ sessions' = g
      BY <1>2 DEF StartSucceeds, ThreadIdle
    <2>2. /\ SetsSlot(l, s, [FreeSlot EXCEPT !.gen = g, !.held = TRUE, !.id = id])
          /\ engine' = [engine EXCEPT ![g] = [st |-> "active", loop |-> l, slot |-> s]]
          /\ Become(l, [pc |-> "watch", slot |-> s])
          /\ UNCHANGED <<closing, mail, served, registry, policy, marked>>
      BY <1>2, <2>1 DEF StartSucceeds, SetsSlot
    <2>3. g = sessions + 1
      OBVIOUS
    <2> HIDE DEF g
    <2> QED BY <2>1, <2>2, <2>3, EnteredOrders
  <1> QED BY <1>1, <1>2

-----------------------------------------------------------------------------
(* Admissions and trims: who is marked, and who may stay. *)

\* The sets that the limit is about stay finite.
LEMMA StayingFinitePrime == \A id : IsFiniteSet(Staying(id)')
  <1>1. IsFiniteSet(Loops) /\ IsFiniteSet(Slots)
    BY SizeAssumption, FS_Interval DEF Loops, Slots
  <1>2. IsFiniteSet(Loops \X Slots)
    BY <1>1, FS_Product
  <1>3. \A id : Staying(id)' \subseteq Loops \X Slots
    BY DEF Staying
  <1> QED BY <1>2, <1>3, FS_Subset

\* Staying sessions have unmarked entries of their identity.
LEMMA StayingCovered ==
    ASSUME Inv', served', NEW id
    PROVE  /\ IsFiniteSet(Unreplaced(registry, id)')
           /\ Cardinality(Staying(id)') <= Cardinality(Unreplaced(registry, id)')
  <1> DEFINE S == Unreplaced(registry, id)'
             T == Staying(id)'
             f == [i \in S |-> <<registry'[i].loop, registry'[i].slot>>]
  <1>1. registry' \in Seq(EntryRecord)
    BY DEF Inv, Types, Books
  <1>2. S = {i \in DOMAIN registry' : registry'[i].id = id /\ ~registry'[i].replaced}
    BY DEF Unreplaced
  <1>3. IsFiniteSet(S)
    <2>1. DOMAIN registry' = 1..Len(registry') /\ Len(registry') \in Nat
      BY <1>1
    <2>2. IsFiniteSet(1..Len(registry'))
      BY <2>1, FS_Interval
    <2>3. S \subseteq 1..Len(registry')
      BY <1>2, <2>1
    <2> HIDE DEF S
    <2> QED BY <2>2, <2>3, FS_Subset
  <1>4. ASSUME NEW x \in T PROVE \E i \in S : f[i] = x
    <2>1. PICK k \in Loops, u \in Slots : x = <<k, u>> /\ Stays(k, u, id)'
      BY <1>4 DEF Staying
    <2>2. PICK i \in DOMAIN registry' : Names(registry[i], k, u)' /\ ~registry'[i].replaced
      BY <2>1 DEF Stays, Unmarked
    <2>3. registry'[i].loop = k /\ registry'[i].slot = u /\ registry'[i].id = id
      BY <2>1, <2>2 DEF Names, Stays
    <2>4. i \in S
      BY <1>2, <2>2, <2>3
    <2> HIDE DEF S
    <2> QED BY <2>1, <2>3, <2>4
  <1>5. f = [i \in S |-> f[i]]
    OBVIOUS
  <1> HIDE DEF S, T, f
  <1>6. Cardinality(T) <= Cardinality(S)
    BY <1>3, <1>4, <1>5, Covered
  <1> QED BY <1>3, <1>6 DEF S, T

\* Entries that admit() or trim() would leave unmarked are within the limit.
LEMMA MarkedWithin ==
    ASSUME NEW reg \in Seq(EntryRecord), NEW id, NEW limit \in Nat, limit # 0,
           NEW R, R \subseteq Unreplaced(reg, id), R \cap Excess(reg, id, limit) = {}
    PROVE  Cardinality(R) <= limit
  <1> DEFINE S == Unreplaced(reg, id)
             f == [i \in S |-> i]
  <1>1. DOMAIN reg = 1..Len(reg) /\ Len(reg) \in Nat
    OBVIOUS
  <1>2. S \subseteq 1..Len(reg)
    BY <1>1 DEF Unreplaced
  <1>3. IsFiniteSet(S)
    <2>1. IsFiniteSet(1..Len(reg))
      BY <1>1, FS_Interval
    <2> HIDE DEF S
    <2> QED BY <1>2, <2>1, FS_Subset
  <1>4. Excess(reg, id, limit) = {i \in S : Cardinality({j \in S : j > i}) >= limit}
    BY DEF Excess
  <1>5. f \in [S -> Nat] /\ \A a, b \in S : f[a] = f[b] => a = b
    BY <1>1, <1>2
  <1>6. R \subseteq S
    OBVIOUS
  <1>7. ASSUME NEW a \in R PROVE ~(Cardinality({b \in S : f[b] > f[a]}) >= limit)
    <2>1. a \in S /\ f[a] = a /\ \A b \in S : f[b] = b
      BY <1>6
    <2>2. {b \in S : f[b] > f[a]} = {b \in S : b > a}
      BY <2>1
    <2> HIDE DEF S, f
    <2> QED BY <1>4, <1>7, <2>1, <2>2
  <1> HIDE DEF S, f
  <1> QED BY <1>3, <1>5, <1>6, <1>7, KeepLast

\* Sessions marked now are told of by the thread that marked them.
LEMMA MarkedReplacing ==
    ASSUME Inv, Inv', Orders, NEW l \in ActiveLoops, NEW marks, NEW reg \in Seq(EntryRecord),
           registry' = Marked(reg, marks), KeepsComing, FewerHeld, Marks', served' = served,
           \A i \in DOMAIN reg : reg[i].replaced => i \in DOMAIN registry /\ registry[i] = reg[i],
           \A i \in DOMAIN reg : i \in marks => Tells(task'[l], reg[i].loop)
    PROVE  Replacing'
  <1>1. /\ DOMAIN registry' = DOMAIN reg
        /\ \A i \in DOMAIN reg :
             /\ registry'[i].loop = reg[i].loop /\ registry'[i].slot = reg[i].slot
             /\ registry'[i].replaced <=> reg[i].replaced \/ i \in marks
    BY MarkedFacts
  <1>2. ActiveLoops' = ActiveLoops
    BY DEF ActiveLoops
  <1> SUFFICES ASSUME served, NEW i \in DOMAIN registry', registry'[i].replaced
               PROVE  Replaces(i)'
    BY DEF Replacing, Replaces
  <1>3. PICK k \in Loops, u \in Slots : k = reg[i].loop /\ u = reg[i].slot
    <2>1. reg[i] \in EntryRecord
      BY <1>1
    <2> QED BY <2>1 DEF EntryRecord
  <1>4. slot'[k][u].evicted \/ Coming(k)'
    <2>1. CASE i \in marks
      <3>1. Tells(task'[l], k)
        BY <1>1, <1>3, <2>1
      <3> QED BY <1>2, <3>1 DEF Coming
    <2>2. CASE i \notin marks
      <3>1. i \in DOMAIN registry /\ registry[i] = reg[i] /\ registry[i].replaced
        BY <1>1, <2>2
      <3>2. slot[k][u].evicted \/ Coming(k)
        BY <1>3, <3>1 DEF Orders, Replacing, Replaces
      <3>3. slot'[k][u].held
        BY <1>1, <1>3 DEF Inv, Listed, EntryHeld
      <3> QED BY <3>2, <3>3 DEF KeepsComing, FewerHeld
    <2> QED BY <2>1, <2>2
  <1>5. registry'[i].loop = k /\ registry'[i].slot = u
    BY <1>1, <1>3
  <1>6. Coming(k)' => Coming(registry[i].loop)'
    BY <1>5
  <1> QED BY <1>4, <1>5, <1>6 DEF Replaces

\* SessionRegistry::admit: of the identity admitted, no more than the limit stay.
LEMMA AdmitOrders ==
    ASSUME Inv, Inv', Orders, NEW l \in ActiveLoops, Admit(l)
    PROVE  Orders'
  <1> DEFINE s == task[l].slot
             x == Entry(l, s)
             added == Append(registry, x)
             limit == task[l].limit
             marks == Excess(added, x.id, limit)
             owners == AdmitOwners(registry, x, limit)
             t == [pc |-> "tell", then |-> "report", owners |-> owners]
  <1>0. l \in Loops
    BY MainLoop
  <1>1. /\ served /\ task[l].pc = "admit" /\ registry' = Marked(added, marks) /\ Become(l, t)
        /\ UNCHANGED <<served, slot, engine, policy, mail, marked, closing>>
    BY DEF Admit, Admitted, At
  <1>2. s \in Slots /\ Making(l, s) /\ limit \in Nat
    BY <1>0, <1>1 DEF Inv, Types, Tasks, TaskOK, Admits, Making, Establishing
  <1>3. /\ slot[l][s].held /\ slot[l][s].gen \in 1..MaxSessions /\ slot[l][s].id \in Ids
    BY <1>0, <1>2, SizeAssumption DEF Inv, Held, Placed, Types, Rooms
  <1>4. x \in EntryRecord /\ x.loop = l /\ x.slot = s /\ x.id = slot[l][s].id /\ x.replaced = FALSE
    BY <1>0, <1>2, <1>3 DEF Entry, EntryRecord
  <1>5. registry \in Seq(EntryRecord)
    BY DEF Inv, Types, Books
  <1>6. owners = {added[i].loop : i \in marks} /\ t.pc = "tell" /\ t.then = "report" /\ t.owners = owners
    BY DEF AdmitOwners
  <1>7. \A u \in Slots : Making(l, u) => u = s
    BY DEF Making
  <1>8. LimitOf(task[l]) = limit /\ Limited(task[l])
    BY <1>1 DEF LimitOf, Limited
  <1> HIDE DEF x, s, owners, limit, t
  <1>9. /\ added \in Seq(EntryRecord) /\ Len(added) = Len(registry) + 1
        /\ added[Len(registry) + 1] = x
        /\ \A i \in 1..Len(registry) : added[i] = registry[i]
        /\ DOMAIN added = 1..(Len(registry) + 1) /\ DOMAIN registry = 1..Len(registry)
        /\ Len(registry) \in Nat
    BY <1>4, <1>5, AppendProperties
  <1> HIDE DEF added, marks
  <1>10. task'[l] = t /\ \A k \in Loops : k # l => task'[k] = task[k]
    BY <1>0, <1>1, Moves
  <1>11. /\ \A k \in Loops : ~FansOut(task[l], k) /\ ~Tells(task[l], k)
         /\ task[l].pc # "replace" /\ ~Limited(t) /\ ~Unvetted(task[l]) /\ ~InTrim(task[l])
         /\ ~Establishing(t)
    BY <1>1, <1>6 DEF Limited, InTrim, FansOut, Tells, Unvetted, Establishing
  <1>12. KeepsExcuses
    BY <1>1, <1>10, <1>11, ExcusesKept, MailStill, ClosingStill, MainLoop
  <1>13. KeepsComing
    BY <1>1, <1>10, <1>11, ComingKept, MailStill
  <1>14. Marks'
    BY <1>1, MarksKept, MailStill DEF Orders, Replacing
  <1>15. Evicts' /\ FewerHeld /\ FewerRun
    BY <1>1, SameSlots
  <1>16. AllKnown'
    <2>1. VettingGoesOn
      BY <1>10, <1>11 DEF VettingGoesOn, Making
    <2> QED BY <1>1, <1>12, <1>15, <2>1, KnownKept DEF Orders
  <1>17. AllCurrent'
    <2>1. LimitsGoOn
      BY <1>10, <1>11 DEF LimitsGoOn
    <2> QED BY <1>1, <1>12, <2>1, LimitsKept DEF Orders
  <1>18. Replacing'
    <2>1. \A i \in DOMAIN added : i \in marks => Tells(task'[l], added[i].loop)
      BY <1>6, <1>10 DEF Tells
    <2>2. \A i \in DOMAIN added : added[i].replaced => i \in DOMAIN registry /\ registry[i] = added[i]
      BY <1>4, <1>9
    <2> QED BY <1>1, <1>9, <1>13, <1>14, <1>15, <2>1, <2>2, MarkedReplacing
  <1>19. /\ DOMAIN registry' = DOMAIN added
         /\ \A i \in DOMAIN added :
              /\ registry'[i].loop = added[i].loop /\ registry'[i].slot = added[i].slot
              /\ registry'[i].gen = added[i].gen /\ registry'[i].id = added[i].id
              /\ registry'[i].replaced <=> added[i].replaced \/ i \in marks
    BY <1>1, <1>9, MarkedFacts
  <1>20. WithinLimit'
    <2> SUFFICES ASSUME policy.limit # 0, NEW id \in Ids
                 PROVE  Cardinality(Staying(id)') <= policy.limit
      BY <1>1 DEF WithinLimit
    <2>1. policy.limit \in Nat
      BY PolicyTyped
    <2>2. CASE id = x.id /\ ~Excused(l)
      <3>1. limit = policy.limit
        BY <1>8, <2>2 DEF Orders, AllCurrent, LimitCurrent
      <3> DEFINE R == Unreplaced(registry, id)'
      <3>2. R = {i \in DOMAIN registry' : registry'[i].id = id /\ ~registry'[i].replaced}
        BY DEF Unreplaced
      <3>3. R \subseteq Unreplaced(added, id)
        BY <1>19, <3>2 DEF Unreplaced
      <3>4. R \cap Excess(added, id, limit) = {}
        BY <1>19, <2>2, <3>2 DEF marks
      <3>5. served'
        BY <1>1
      <3>6. IsFiniteSet(R) /\ Cardinality(Staying(id)') <= Cardinality(R)
        BY <3>5, StayingCovered
      <3> HIDE DEF R
      <3>7. Cardinality(R) <= limit
        BY <1>2, <1>9, <2>1, <3>1, <3>3, <3>4, MarkedWithin
      <3>8. Cardinality(R) \in Nat /\ Cardinality(Staying(id)') \in Nat
        <4>1. IsFiniteSet(Staying(id)')
          BY StayingFinitePrime
        <4> QED BY <3>6, <4>1, FS_CardinalityType
      <3> QED BY <2>1, <3>1, <3>6, <3>7, <3>8
    <2>3. CASE ~(id = x.id /\ ~Excused(l))
      <3>1. ASSUME NEW k \in Loops, NEW u \in Slots, Stays(k, u, id)' PROVE Stays(k, u, id)
        <4>1. /\ slot[k][u].held /\ ~slot[k][u].evicted /\ slot[k][u].id = id
              /\ ~Making(k, u)' /\ Unmarked(k, u)' /\ ~Excused(k)'
              /\ ~(served /\ Trimming(task'[k], id))
          BY <1>1, <3>1 DEF Stays
        <4>2. k \in ActiveLoops
          BY <4>1 DEF Inv, Held, Placed
        <4>3. ~Excused(k)
          BY <1>12, <4>1, <4>2 DEF KeepsExcuses
        <4>4. ~(k = l /\ u = s)
          BY <1>4, <2>3, <4>1, <4>3
        <4>5. ~Making(k, u) /\ ~(served /\ Trimming(task[k], id))
          <5>1. CASE k = l
            BY <1>7, <1>11, <4>4, <5>1 DEF Trimming
          <5>2. CASE k # l
            BY <1>10, <4>1, <5>2 DEF Making
          <5> QED BY <5>1, <5>2
        <4>6. PICK j \in DOMAIN registry' : Names(registry[j], k, u)' /\ ~registry'[j].replaced
          BY <1>1, <4>1 DEF Unmarked
        <4>7. j # Len(registry) + 1
          BY <1>4, <1>9, <1>19, <4>4, <4>6 DEF Names
        <4>8. j \in DOMAIN registry /\ added[j] = registry[j]
          BY <1>9, <1>19, <4>7
        <4>9. Names(registry[j], k, u) /\ ~registry[j].replaced
          BY <1>1, <1>19, <4>6, <4>8 DEF Names
        <4>10. Unmarked(k, u)
          BY <4>8, <4>9 DEF Unmarked
        <4> QED BY <4>1, <4>3, <4>5, <4>10 DEF Stays
      <3> QED BY <1>1, <2>1, <3>1, FewerStaying DEF Orders
    <2> QED BY <2>2, <2>3
  <1> QED BY <1>15, <1>16, <1>17, <1>18, <1>20 DEF Orders

\* One turn of SessionRegistry::trim: an identity that is done has no excess.
LEMMA TrimOrders ==
    ASSUME Inv, Inv', Orders, NEW l \in ActiveLoops, NEW x \in Ids, Trim(l, x)
    PROVE  Orders'
  <1> DEFINE limit == task[l].limit
             victims == TrimVictims(registry, x, limit)
             owners == {registry[v].loop : v \in victims}
             less == [task[l] EXCEPT !.ids = @ \ {x}]
             tell == [pc |-> "tell", then |-> "trim", trim |-> task[l], owners |-> owners]
             t == IF victims = {} THEN less ELSE tell
  <1>0. l \in Loops
    BY MainLoop
  <1>1. /\ task[l].pc = "trim" /\ registry' = Marked(registry, victims) /\ Become(l, t)
        /\ UNCHANGED <<served, slot, engine, policy, mail, marked, closing>>
    BY DEF Trim, At
  <1>2. InTrim(task[l]) /\ TrimOf(task[l]) = task[l] /\ task[l] \in Trims
    BY <1>0, <1>1, TrimParts DEF InTrim
  <1>3. /\ less.pc = "trim" /\ less.then = task[l].then /\ less.limit = limit
        /\ less.ids = task[l].ids \ {x} /\ limit \in Nat
    BY <1>2 DEF Trims
  <1>4. tell.pc = "tell" /\ tell.then = "trim" /\ tell.trim = task[l] /\ tell.owners = owners
    OBVIOUS
  <1>5. registry \in Seq(EntryRecord)
    BY DEF Inv, Types, Books
  <1>6. /\ Excess(registry, x, limit) \subseteq DOMAIN registry
        /\ victims \subseteq DOMAIN registry
        /\ victims = {} => Excess(registry, x, limit) = {}
    <2> HIDE DEF limit
    <2> QED BY <1>5, VictimsFacts
  <1>7. LimitOf(task[l]) = limit /\ Limited(task[l])
    BY <1>1, <1>2 DEF LimitOf, Limited
  <1> HIDE DEF less, tell, limit
  <1>8. /\ InTrim(t) /\ TrimOf(t).then = task[l].then /\ TrimOf(t).limit = limit
        /\ \A id \in task[l].ids : id # x \/ victims # {} => id \in TrimOf(t).ids
    <2>1. CASE victims = {}
      BY <1>3, <2>1 DEF InTrim, TrimOf
    <2>2. CASE victims # {}
      BY <1>4, <2>2 DEF InTrim, TrimOf, limit
    <2> QED BY <2>1, <2>2
  <1>9. \A i \in victims : Tells(t, registry[i].loop)
    BY <1>4 DEF Tells
  <1> HIDE DEF t, victims
  <1>10. task'[l] = t /\ \A k \in Loops : k # l => task'[k] = task[k]
    BY <1>0, <1>1, Moves
  <1>11. /\ \A k \in Loops : ~Tells(task[l], k)
         /\ task[l].pc # "replace" /\ ~Establishing(task[l])
         /\ \A k \in Loops : FansOut(task[l], k) => FansOut(t, k)
    BY <1>1, <1>2, <1>8 DEF FansOut, Tells, Establishing
  <1>12. KeepsExcuses
    BY <1>1, <1>10, <1>11, ExcusesKept, MailStill, ClosingStill, MainLoop
  <1>13. KeepsComing
    BY <1>1, <1>10, <1>11, ComingKept, MailStill
  <1>14. Marks'
    BY <1>1, MarksKept, MailStill DEF Orders, Replacing
  <1>15. Evicts' /\ FewerHeld /\ FewerRun
    BY <1>1, SameSlots
  <1>16. AllKnown'
    <2>1. VettingGoesOn
      BY <1>10, <1>11 DEF VettingGoesOn, Making
    <2> QED BY <1>1, <1>12, <1>15, <2>1, KnownKept DEF Orders
  <1>17. AllCurrent'
    <2>1. LimitOf(t) = limit
      BY <1>8 DEF LimitOf, InTrim
    <2>2. LimitsGoOn
      BY <1>7, <1>10, <2>1 DEF LimitsGoOn
    <2> QED BY <1>1, <1>12, <2>2, LimitsKept DEF Orders
  <1>18. Replacing'
    <2>1. \A i \in DOMAIN registry : i \in victims => Tells(task'[l], registry[i].loop)
      BY <1>9, <1>10
    <2> QED BY <1>1, <1>5, <1>13, <1>14, <1>15, <2>1, MarkedReplacing
  <1>19. /\ DOMAIN registry' = DOMAIN registry
         /\ \A i \in DOMAIN registry :
              /\ registry'[i].loop = registry[i].loop /\ registry'[i].slot = registry[i].slot
              /\ registry'[i].gen = registry[i].gen /\ registry'[i].id = registry[i].id
              /\ registry'[i].replaced <=> registry[i].replaced \/ i \in victims
    BY <1>1, <1>5, MarkedFacts
  <1>20. WithinLimit'
    <2> SUFFICES ASSUME policy.limit # 0, NEW id \in Ids
                 PROVE  Cardinality(Staying(id)') <= policy.limit
      BY <1>1 DEF WithinLimit
    <2>1. policy.limit \in Nat
      BY PolicyTyped
    <2>2. CASE served /\ id = x /\ victims = {} /\ ~Excused(l)
      <3>1. limit = policy.limit
        BY <1>7, <2>2 DEF Orders, AllCurrent, LimitCurrent
      <3> DEFINE R == Unreplaced(registry, id)'
      <3>2. R = {i \in DOMAIN registry' : registry'[i].id = id /\ ~registry'[i].replaced}
        BY DEF Unreplaced
      <3>3. R \subseteq Unreplaced(registry, id)
        BY <1>19, <3>2 DEF Unreplaced
      <3>4. R \cap Excess(registry, id, limit) = {}
        BY <1>6, <2>2
      <3>5. served'
        BY <1>1, <2>2
      <3>6. IsFiniteSet(R) /\ Cardinality(Staying(id)') <= Cardinality(R)
        BY <3>5, StayingCovered
      <3> HIDE DEF R
      <3>7. Cardinality(R) <= limit
        BY <1>5, <2>1, <3>1, <3>3, <3>4, MarkedWithin
      <3>8. Cardinality(R) \in Nat /\ Cardinality(Staying(id)') \in Nat
        <4>1. IsFiniteSet(Staying(id)')
          BY StayingFinitePrime
        <4> QED BY <3>6, <4>1, FS_CardinalityType
      <3> QED BY <2>1, <3>1, <3>6, <3>7, <3>8
    <2>3. CASE ~(served /\ id = x /\ victims = {} /\ ~Excused(l))
      <3>1. ASSUME NEW k \in Loops, NEW u \in Slots, Stays(k, u, id)' PROVE Stays(k, u, id)
        <4>1. /\ slot[k][u].held /\ ~slot[k][u].evicted /\ slot[k][u].id = id
              /\ ~Making(k, u)' /\ Unmarked(k, u)' /\ ~Excused(k)'
              /\ ~(served /\ Trimming(task'[k], id))
          BY <1>1, <3>1 DEF Stays
        <4>2. k \in ActiveLoops
          BY <4>1 DEF Inv, Held, Placed
        <4>3. ~Excused(k)
          BY <1>12, <4>1, <4>2 DEF KeepsExcuses
        <4>4. ~Making(k, u)
          <5>1. CASE k = l
            BY <1>11, <5>1 DEF Making
          <5>2. CASE k # l
            BY <1>10, <4>1, <5>2 DEF Making
          <5> QED BY <5>1, <5>2
        <4>5. ~(served /\ Trimming(task[k], id))
          <5>1. CASE k = l
            BY <1>2, <1>8, <1>10, <2>3, <4>1, <4>3, <5>1 DEF Trimming
          <5>2. CASE k # l
            BY <1>10, <4>1, <5>2
          <5> QED BY <5>1, <5>2
        <4>6. Unmarked(k, u)
          BY <1>1, <1>19, <4>1 DEF Unmarked, Names
        <4> QED BY <4>1, <4>3, <4>4, <4>5, <4>6 DEF Stays
      <3> QED BY <1>1, <2>1, <3>1, FewerStaying DEF Orders
    <2> QED BY <2>2, <2>3
  <1> QED BY <1>15, <1>16, <1>17, <1>18, <1>20 DEF Orders

-----------------------------------------------------------------------------
(* An endpoint without a share evicts by itself. *)

\* evict_beyond_limit leaves no more than the limit.
LEMMA AloneWithin ==
    ASSUME Inv, NEW l \in Loops, NEW id, NEW limit \in Nat, limit # 0,
           NEW R, R \subseteq {u \in Slots : Stoppable(l, u) /\ slot[l][u].id = id},
           R \cap BeyondLimit(l, id, limit) = {}
    PROVE  IsFiniteSet(R) /\ Cardinality(R) <= limit
  <1> DEFINE S == {u \in Slots : Stoppable(l, u) /\ slot[l][u].id = id}
             f == [u \in S |-> slot[l][u].gen]
  <1>1. IsFiniteSet(S)
    <2>1. IsFiniteSet(Slots)
      BY SizeAssumption, FS_Interval DEF Slots
    <2>2. S \subseteq Slots
      OBVIOUS
    <2> HIDE DEF S
    <2> QED BY <2>1, <2>2, FS_Subset
  <1>2. \A u \in S : slot[l][u].gen \in Nat /\ engine[slot[l][u].gen].slot = u
    BY DEF Stoppable, Inv, Held, Placed, Types, Rooms
  <1>3. f \in [S -> Nat] /\ \A a, b \in S : f[a] = f[b] => a = b
    <2> HIDE DEF S
    <2> QED BY <1>2
  <1>4. BeyondLimit(l, id, limit) =
          {u \in S : Cardinality({v \in S : slot[l][v].gen > slot[l][u].gen}) >= limit}
    BY DEF BeyondLimit
  <1>5. R \subseteq S
    OBVIOUS
  <1>6. ASSUME NEW a \in R PROVE ~(Cardinality({b \in S : f[b] > f[a]}) >= limit)
    <2> HIDE DEF S
    <2>1. a \in S /\ \A b \in S : f[b] = slot[l][b].gen
      BY <1>5, <1>6
    <2>2. {b \in S : f[b] > f[a]} = {b \in S : slot[l][b].gen > slot[l][a].gen}
      BY <2>1
    <2> HIDE DEF f
    <2> QED BY <1>4, <1>6, <2>1, <2>2
  <1> HIDE DEF S, f
  <1> QED BY <1>1, <1>3, <1>5, <1>6, KeepLast

\* With one loop, the sessions that stay are those of its slots.
LEMMA AloneStaying ==
    ASSUME Inv, Inv', ~served', NEW id, NEW limit \in Nat, limit # 0,
           \A u \in Slots : Stays(Main, u, id)' =>
              /\ Stoppable(Main, u) /\ slot[Main][u].id = id
              /\ u \notin BeyondLimit(Main, id, limit)
    PROVE  Cardinality(Staying(id)') <= limit
  <1> DEFINE R == {u \in Slots : Stays(Main, u, id)'}
             T == Staying(id)'
             f == [u \in R |-> <<Main, u>>]
  <1>1. IsFiniteSet(R) /\ Cardinality(R) <= limit
    <2>1. R \subseteq {u \in Slots : Stoppable(Main, u) /\ slot[Main][u].id = id}
      OBVIOUS
    <2>2. R \cap BeyondLimit(Main, id, limit) = {}
      OBVIOUS
    <2> HIDE DEF R
    <2> QED BY <2>1, <2>2, AloneWithin, MainLoop
  <1>2. ASSUME NEW x \in T PROVE \E u \in R : f[u] = x
    <2>1. PICK k \in Loops, u \in Slots : x = <<k, u>> /\ Stays(k, u, id)'
      BY <1>2 DEF Staying
    <2>2. slot'[k][u].held
      BY <2>1 DEF Stays
    <2>3. k \in ActiveLoops'
      BY <2>2 DEF Inv, Held, Placed
    <2>4. k = Main
      BY <2>3 DEF ActiveLoops
    <2>5. u \in R
      BY <2>1, <2>4
    <2> HIDE DEF R
    <2> QED BY <2>1, <2>4, <2>5
  <1>3. f = [u \in R |-> f[u]]
    OBVIOUS
  <1> HIDE DEF R, T, f
  <1>4. IsFiniteSet(T) /\ Cardinality(T) <= Cardinality(R)
    BY <1>1, <1>2, <1>3, Covered
  <1>5. Cardinality(T) \in Nat /\ Cardinality(R) \in Nat
    BY <1>1, <1>4, FS_CardinalityType
  <1> QED BY <1>1, <1>4, <1>5 DEF T

\* admit_identity without a share.
LEMMA AdmitAloneOrders ==
    ASSUME Inv, Inv', Orders, NEW l \in ActiveLoops, AdmitAlone(l)
    PROVE  Orders'
  <1> DEFINE s == task[l].slot
             x == slot[l][s].id
             limit == task[l].limit
             gone == BeyondLimit(l, x, limit)
             t == [pc |-> "tell", then |-> "report", owners |-> {}]
  <1>0. l \in Loops
    BY MainLoop
  <1>1. /\ ~served /\ task[l].pc = "admit" /\ Evicted(l, gone) /\ Stopped(l, gone) /\ Become(l, t)
        /\ UNCHANGED <<served, registry, policy, mail, marked, closing>>
    BY DEF AdmitAlone, At
  <1>2. s \in Slots /\ limit \in Nat /\ l = Main
    BY <1>0, <1>1 DEF Inv, Types, Tasks, TaskOK, Admits, ActiveLoops
  <1>3. \A u \in Slots : Making(l, u) => u = s
    BY DEF Making
  <1>4. LimitOf(task[l]) = limit /\ Limited(task[l])
    BY <1>1 DEF LimitOf, Limited
  <1>5. t.pc = "tell" /\ t.then = "report" /\ t.owners = {}
    OBVIOUS
  <1> HIDE DEF s, limit, t, gone
  <1>6. task'[l] = t /\ \A k \in Loops : k # l => task'[k] = task[k]
    BY <1>0, <1>1, Moves
  <1>7. /\ \A k \in Loops : ~FansOut(task[l], k) /\ ~Tells(task[l], k)
        /\ task[l].pc # "replace" /\ ~Limited(t) /\ ~Unvetted(task[l])
    BY <1>1, <1>5 DEF Limited, InTrim, FansOut, Tells, Unvetted
  <1>8. /\ FewerHeld /\ FewerRun /\ Evicts'
        /\ \A k \in Loops, u \in Slots :
             slot'[k][u].evicted <=> slot[k][u].evicted \/ (k = l /\ u \in gone)
    BY <1>0, <1>1, EvictStops
  <1>9. KeepsExcuses
    BY <1>1, <1>6, <1>7, ExcusesKept, MailStill, ClosingStill, MainLoop
  <1>10. Marks'
    BY <1>1, MarksKept, MailStill DEF Orders, Replacing
  <1>11. AllKnown'
    <2>1. VettingGoesOn
      BY <1>6, <1>7 DEF VettingGoesOn, Making
    <2> QED BY <1>1, <1>8, <1>9, <2>1, KnownKept DEF Orders
  <1>12. AllCurrent'
    <2>1. LimitsGoOn
      BY <1>6, <1>7 DEF LimitsGoOn
    <2> QED BY <1>1, <1>9, <2>1, LimitsKept DEF Orders
  <1>13. WithinLimit'
    <2> SUFFICES ASSUME policy.limit # 0, NEW id \in Ids
                 PROVE  Cardinality(Staying(id)') <= policy.limit
      BY <1>1 DEF WithinLimit
    <2>1. policy.limit \in Nat
      BY PolicyTyped
    <2>2. ASSUME NEW k \in Loops, NEW u \in Slots, Stays(k, u, id)'
          PROVE  /\ k = l /\ slot[l][u].held /\ ~slot[l][u].evicted /\ slot[l][u].id = id
                 /\ u \notin gone /\ ~Excused(l)
      <3>1. slot'[k][u].held /\ ~slot'[k][u].evicted /\ slot'[k][u].id = id /\ ~Excused(k)'
        BY <2>2 DEF Stays
      <3>2. slot[k][u].held /\ ~slot[k][u].evicted /\ slot[k][u].id = id
        BY <1>8, <3>1 DEF FewerHeld
      <3>3. k = l
        BY <1>1, <1>2, <3>2 DEF Inv, Held, Placed, ActiveLoops
      <3> QED BY <1>8, <1>9, <3>1, <3>2, <3>3 DEF KeepsExcuses
    <2>3. CASE id = x /\ ~Excused(l)
      <3>1. limit = policy.limit
        BY <1>4, <2>3 DEF Orders, AllCurrent, LimitCurrent
      <3>2. gone = BeyondLimit(Main, id, policy.limit)
        BY <1>2, <2>3, <3>1 DEF gone
      <3>3. \A u \in Slots : Stays(Main, u, id)' =>
              /\ Stoppable(Main, u) /\ slot[Main][u].id = id
              /\ u \notin BeyondLimit(Main, id, policy.limit)
        BY <1>2, <2>2, <3>2, MainLoop DEF Stoppable
      <3>4. ~served'
        BY <1>1
      <3> QED BY <2>1, <3>3, <3>4, AloneStaying
    <2>4. CASE ~(id = x /\ ~Excused(l))
      <3>1. ASSUME NEW k \in Loops, NEW u \in Slots, Stays(k, u, id)' PROVE Stays(k, u, id)
        <4>1. /\ k = l /\ slot[l][u].held /\ ~slot[l][u].evicted /\ slot[l][u].id = id
              /\ ~Excused(l)
          BY <2>2, <3>1
        <4>2. u # s
          BY <2>4, <4>1
        <4>3. ~Making(l, u) /\ Unmarked(l, u)
          BY <1>1, <1>3, <4>2 DEF Unmarked
        <4> QED BY <1>1, <4>1, <4>3 DEF Stays
      <3> QED BY <1>1, <2>1, <3>1, FewerStaying DEF Orders
    <2> QED BY <2>3, <2>4
  <1>14. Replacing'
    BY <1>1, <1>10 DEF Replacing
  <1> QED BY <1>8, <1>11, <1>12, <1>13, <1>14 DEF Orders

-----------------------------------------------------------------------------
(* Reloads and sweeps. *)

\* end_unrecognized: what the loop still holds is recognized, and within the
\* limit or listed for the trim.
LEMMA SweepOrders ==
    ASSUME Inv, Inv', Orders, NEW l \in ActiveLoops, NEW then \in Afters, Sweep(l, then),
           task[l].pc \in {"idle", "reload"},
           UNCHANGED <<served, registry, policy, marked, closing>>, MailKept("replace"),
           \A k \in ActiveLoops : k # l /\ Excused(k) => Excused(k)'
    PROVE  Orders'
  <1>0. l \in Loops /\ ActiveLoops' = ActiveLoops
    BY MainLoop DEF ActiveLoops
  <1>1. then.pc \in {"idle", "fanout"}
    BY DEF Afters, Rounds, Idle
  <1>2. ~Limited(then) /\ ~Limited(task[l]) /\ ~Establishing(task[l])
        /\ \A k \in Loops : ~Tells(task[l], k)
    BY <1>1 DEF Limited, InTrim, Establishing, Tells
  <1>3. \A id : ~Trimming(task[l], id)
    BY <1>2 DEF Trimming, Limited
  <1>4. Marks'
    BY MarksKept DEF Orders, Replacing
  <1>5. CASE closing[l]
    <2>1. Become(l, then) /\ slot' = slot /\ engine' = engine
      BY <1>5 DEF Sweep
    <2>2. task'[l] = then /\ \A k \in Loops : k # l => task'[k] = task[k]
      BY <1>0, <2>1, Moves
    <2>3. KeepsExcuses
      BY <1>5 DEF KeepsExcuses, Excused
    <2>4. KeepsComing
      BY <1>2, <2>2, ComingKept
    <2>5. \A s \in Slots : ~Making(l, s)
      BY <1>2 DEF Making
    <2> QED BY <1>0, <1>2, <1>3, <1>4, <2>1, <2>3, <2>4, <2>5, MovesOrders
  <1>6. CASE ~closing[l]
    <2> DEFINE gone == {s \in Slots : Stoppable(l, s) /\ slot[l][s].id \notin policy.known}
               over == IF served THEN {}
                       ELSE UNION {BeyondLimit(l, id, policy.limit) : id \in policy.known}
               ids == {slot[l][s].id : s \in {u \in Slots : Stoppable(l, u)} \ gone}
               trim == [pc |-> "trim", limit |-> policy.limit, then |-> then, ids |-> ids]
               t == IF served THEN trim ELSE then
               S == gone \cup over
    <2>1. Evicted(l, S) /\ Stopped(l, S) /\ Become(l, t)
      BY <1>6 DEF Sweep
    <2>2. trim.pc = "trim" /\ trim.limit = policy.limit /\ trim.ids = ids
      OBVIOUS
    <2> HIDE DEF gone, over, ids, trim, S
    <2>3. Limited(t) => LimitOf(t) = policy.limit
      BY <1>2, <2>2 DEF LimitOf, Limited, TrimOf
    <2>4. served => \A id \in ids : Trimming(t, id)
      BY <2>2 DEF Trimming, InTrim, TrimOf
    <2> HIDE DEF t
    <2>5. task'[l] = t /\ \A k \in Loops : k # l => task'[k] = task[k]
      BY <1>0, <2>1, Moves
    <2>6. /\ FewerHeld /\ FewerRun /\ Evicts'
          /\ \A k \in Loops, u \in Slots :
               slot'[k][u].evicted <=> slot[k][u].evicted \/ (k = l /\ u \in S)
      BY <1>0, <2>1, EvictStops
    <2>7. KeepsComing
      BY <1>2, <2>5, ComingKept
    <2>8. FewerEntries
      BY SameEntries
    <2>9. Replacing'
      BY <1>4, <2>6, <2>7, <2>8, ReplacingKept DEF Orders, Inv, Types
    <2>10. ASSUME NEW u \in Slots, slot'[l][u].held, ~slot'[l][u].evicted
           PROVE  /\ Stoppable(l, u) /\ slot[l][u].id \in policy.known
                  /\ slot'[l][u].id = slot[l][u].id /\ u \notin S
      <3>1. /\ slot[l][u].held /\ ~slot[l][u].evicted /\ u \notin S
            /\ slot'[l][u].id = slot[l][u].id
        BY <1>0, <2>6, <2>10 DEF FewerHeld
      <3> QED BY <3>1 DEF Stoppable, S, gone
    <2>11. AllKnown'
      <3> SUFFICES ASSUME NEW k \in ActiveLoops, NEW u \in Slots, Active(k, u)'
                   PROVE  \/ slot'[k][u].id \in policy.known
                          \/ Excused(k)'
                          \/ Making(k, u)' /\ Unvetted(task'[k])
        BY <1>0 DEF AllKnown, Known
      <3>0. k \in Loops
        BY MainLoop
      <3>1. CASE k = l
        <4>1. slot'[l][u].held /\ ~slot'[l][u].evicted
          BY <1>0, <2>6, <3>1 DEF Evicts, Active
        <4> QED BY <2>10, <3>1, <4>1
      <3>2. CASE k # l
        <4>1. Active(k, u) /\ slot'[k][u].id = slot[k][u].id
          BY <2>6, <3>0 DEF FewerRun, FewerHeld, Active
        <4> QED BY <2>5, <3>0, <3>2, <4>1 DEF Orders, AllKnown, Known, Making
      <3> QED BY <3>1, <3>2
    <2>12. AllCurrent'
      <3> SUFFICES ASSUME NEW k \in ActiveLoops, Limited(task'[k])
                   PROVE  Excused(k)' \/ LimitOf(task'[k]) = policy.limit
        BY <1>0 DEF AllCurrent, LimitCurrent
      <3>1. CASE k = l
        BY <2>3, <2>5, <3>1
      <3>2. CASE k # l
        BY <2>5, <3>2, MainLoop DEF Orders, AllCurrent, LimitCurrent
      <3> QED BY <3>1, <3>2
    <2>13. WithinLimit'
      <3> SUFFICES ASSUME policy.limit # 0, NEW id \in Ids
                   PROVE  Cardinality(Staying(id)') <= policy.limit
        BY DEF WithinLimit
      <3>1. policy.limit \in Nat
        BY PolicyTyped
      <3>2. CASE served
        <4>1. ASSUME NEW k \in Loops, NEW u \in Slots, Stays(k, u, id)' PROVE Stays(k, u, id)
          <5>1. /\ slot'[k][u].held /\ ~slot'[k][u].evicted /\ slot'[k][u].id = id
                /\ ~Making(k, u)' /\ Unmarked(k, u)' /\ ~Excused(k)' /\ ~Trimming(task'[k], id)
            BY <3>2, <4>1 DEF Stays
          <5>2. k # l
            <6> SUFFICES ASSUME k = l PROVE FALSE
              OBVIOUS
            <6>1. Stoppable(l, u) /\ slot[l][u].id = id /\ u \notin S
              BY <2>10, <5>1
            <6>2. id \in ids
              BY <6>1 DEF ids, S
            <6> QED BY <2>4, <2>5, <3>2, <5>1, <6>2
          <5>3. slot[k][u].held /\ slot[k][u].id = id /\ ~slot[k][u].evicted
            BY <2>6, <5>1 DEF FewerHeld
          <5>4. Unmarked(k, u)
            BY <2>6, <2>8, <5>1, UnmarkedKept
          <5>5. k \in ActiveLoops
            BY <5>3 DEF Inv, Held, Placed
          <5>6. ~Making(k, u) /\ ~Excused(k) /\ ~Trimming(task[k], id)
            BY <2>5, <5>1, <5>2, <5>5 DEF Making
          <5> QED BY <5>3, <5>4, <5>6 DEF Stays
        <4> QED BY <3>1, <4>1, FewerStaying DEF Orders
      <3>3. CASE ~served
        <4>1. l = Main /\ ~served'
          BY <3>3 DEF ActiveLoops
        <4>2. ASSUME NEW u \in Slots, Stays(Main, u, id)'
              PROVE  /\ Stoppable(Main, u) /\ slot[Main][u].id = id
                     /\ u \notin BeyondLimit(Main, id, policy.limit)
          <5>1. slot'[l][u].held /\ ~slot'[l][u].evicted /\ slot'[l][u].id = id
            BY <4>1, <4>2 DEF Stays
          <5>2. Stoppable(l, u) /\ id \in policy.known /\ slot[l][u].id = id /\ u \notin S
            BY <2>10, <5>1
          <5>3. u \notin UNION {BeyondLimit(l, i, policy.limit) : i \in policy.known}
            BY <3>3, <5>2 DEF S, over
          <5> QED BY <4>1, <5>2, <5>3
        <4> QED BY <3>1, <4>1, <4>2, AloneStaying
      <3> QED BY <3>2, <3>3
    <2> QED BY <2>6, <2>9, <2>11, <2>12, <2>13 DEF Orders
  <1> QED BY <1>5, <1>6

\* end_unrecognized on a loop that was asked to sweep.
LEMMA SweepTaskOrders ==
    ASSUME Inv, Inv', Orders, NEW l \in ActiveLoops, SweepTask(l)
    PROVE  Orders'
  <1>0. l \in Loops
    BY MainLoop
  <1>1. /\ Pops(l, "sweep") /\ mail' = Popped(l) /\ Sweep(l, Idle) /\ task[l].pc = "idle"
        /\ UNCHANGED <<served, registry, policy, marked, closing>>
    BY DEF SweepTask, Pops, ThreadIdle, At
  <1>2. MailKept("replace") /\ \A k \in Loops : k # l /\ SweepQueued(k) => SweepQueued(k)'
    BY <1>0, <1>1, PoppedKept, PoppedStep DEF SweepQueued
  <1>3. Idle \in Afters
    BY DEF Afters
  <1>4. \A k \in Loops : k # l => task'[k] = task[k]
    BY <1>0, <1>1 DEF Sweep, Become, Inv, Types, Tasks
  <1>5. Dull(task[l])
    BY <1>1, DullTasks
  <1>6. ASSUME NEW k \in ActiveLoops, k # l, Excused(k) PROVE Excused(k)'
    <2>1. k \in Loops
      BY MainLoop
    <2>2. FansOut(task[Main], k) => FansOut(task'[Main], k)
      BY <1>4, <1>5, <2>1, MainLoop DEF Dull
    <2> QED BY <1>1, <1>2, <1>6, <2>1, <2>2 DEF Excused
  <1> QED BY <1>1, <1>2, <1>3, <1>6, SweepOrders

\* end_unrecognized on the loop of the reload: the others are asked after it.
LEMMA ReloadSweepsOrders ==
    ASSUME Inv, Inv', Orders, ReloadSweeps
    PROVE  Orders'
  <1> DEFINE then == [pc |-> "fanout", todo |-> ActiveLoops \ {Main}]
  <1>1. /\ Sweep(Main, then) /\ task[Main].pc = "reload"
        /\ UNCHANGED <<served, registry, policy, mail, marked, closing>>
    BY DEF ReloadSweeps, At
  <1>2. then \in Afters /\ then.pc = "fanout" /\ then.todo = ActiveLoops \ {Main}
    BY MainLoop DEF Afters, Rounds
  <1> HIDE DEF then
  <1>3. Main \in ActiveLoops /\ Main \in Loops
    BY MainLoop DEF ActiveLoops
  <1>4. ASSUME NEW k \in ActiveLoops, k # Main PROVE Excused(k)'
    <2>1. FansOut(then, k)
      BY <1>2, <1>4 DEF FansOut
    <2>2. \E t : Become(Main, t) /\ FansOut(t, k)
      <3>1. CASE closing[Main] \/ ~served
        BY <1>1, <2>1, <3>1 DEF Sweep
      <3>2. CASE ~closing[Main] /\ served
        <4>1. \E ids : Become(Main, [pc |-> "trim", limit |-> policy.limit, then |-> then, ids |-> ids])
          BY <1>1, <3>2 DEF Sweep
        <4>2. PICK ids : Become(Main, [pc |-> "trim", limit |-> policy.limit, then |-> then, ids |-> ids])
          BY <4>1
        <4> DEFINE t == [pc |-> "trim", limit |-> policy.limit, then |-> then, ids |-> ids]
        <4>3. t.pc = "trim" /\ t.then = then /\ Become(Main, t)
          BY <4>2
        <4> HIDE DEF t
        <4>4. FansOut(t, k)
          BY <1>2, <1>4, <4>3 DEF FansOut, InTrim, TrimOf
        <4> QED BY <4>3, <4>4
      <3> QED BY <3>1, <3>2
    <2>3. FansOut(task'[Main], k)
      BY <1>3, <2>2, Moves
    <2> QED BY <2>3 DEF Excused
  <1> QED BY <1>1, <1>2, <1>3, <1>4, MailStill, SweepOrders

\* reload(): with a new policy, every loop has its sweep ahead.
LEMMA ReloadOrders ==
    ASSUME Inv, Inv', Orders, NEW p \in Policies, Reload(p)
    PROVE  Orders'
  <1> DEFINE t == [pc |-> "reload"]
  <1>1. /\ task[Main].pc = "idle" /\ Become(Main, t) /\ policy' = p /\ t.pc = "reload"
        /\ UNCHANGED <<served, slot, engine, registry, mail, marked, closing>>
    BY DEF Reload, ThreadIdle, At
  <1> HIDE DEF t
  <1>2. task'[Main] = t /\ \A k \in Loops : k # Main => task'[k] = task[k]
    BY <1>1, Moves, MainLoop
  <1>3. \A k \in Loops : Excused(k)'
    BY <1>1, <1>2 DEF Excused, FansOut
  <1>4. Dull(task[Main])
    BY <1>1, DullTasks
  <1>5. KeepsComing
    BY <1>1, <1>2, <1>4, ComingKept, MailStill DEF Dull
  <1>6. Marks'
    BY <1>1, MarksKept, MailStill DEF Orders, Replacing
  <1>7. Evicts' /\ FewerHeld /\ FewerRun
    BY <1>1, SameSlots
  <1>8. FewerEntries
    BY <1>1, SameEntries
  <1>9. Replacing'
    BY <1>1, <1>5, <1>6, <1>7, <1>8, ReplacingKept DEF Orders, Inv, Types
  <1>10. AllKnown' /\ AllCurrent'
    <2>1. \A k \in ActiveLoops' : k \in Loops
      BY MainLoop DEF ActiveLoops
    <2> QED BY <1>3, <2>1 DEF AllKnown, Known, AllCurrent, LimitCurrent
  <1>11. WithinLimit'
    <2>1. p.limit \in Nat
      BY PolicyAssumption
    <2>2. \A id \in Ids : Staying(id)' = {}
      BY <1>3 DEF Staying, Stays
    <2>3. Cardinality({}) = 0
      BY FS_EmptySet
    <2> QED BY <1>1, <2>1, <2>2, <2>3 DEF WithinLimit
  <1> QED BY <1>7, <1>9, <1>10, <1>11 DEF Orders

-----------------------------------------------------------------------------
(* The policy, from the first step on. *)

\* The server starts with no session.
LEMMA InitOrders == Init => Orders
  <1> SUFFICES ASSUME Init PROVE Orders
    OBVIOUS
  <1>1. \A l \in Loops, s \in Slots : ~slot[l][s].held /\ ~slot[l][s].evicted
    BY DEF Init, FreeSlot
  <1>2. \A l \in Loops : ~Limited(task[l])
    BY DEF Init, Limited, InTrim, Idle
  <1>3. Evicts /\ AllKnown /\ AllCurrent
    BY <1>1, <1>2, MainLoop DEF Evicts, AllKnown, Known, AllCurrent, LimitCurrent, Active
  <1>4. WithinLimit
    <2>1. \A id \in Ids : Staying(id) = {}
      BY <1>1 DEF Staying, Stays
    <2>2. Cardinality({}) = 0
      BY FS_EmptySet
    <2>3. policy.limit \in Nat
      BY PolicyAssumption DEF Init
    <2> QED BY <2>1, <2>2, <2>3 DEF WithinLimit
  <1>5. Replacing
    BY DEF Init, Replacing, Marks
  <1> QED BY <1>3, <1>4, <1>5 DEF Orders

\* Every step of a loop's thread keeps the policy's orders,
LEMMA ThreadOrders ==
    ASSUME Inv, Inv', Orders, NEW l \in ActiveLoops, ThreadStep(l)
    PROVE  Orders'
  <1>0. l \in Loops
    BY MainLoop
  <1>1. CASE Launch(l) \/ PassDone(l) \/ RetryFires(l) \/ LoopExits(l)
    BY <1>0, <1>1, ArmOrders
  <1>2. CASE StartAccept(l) \/ StartFailsInline(l) \/ StartRefused(l) \/ Launched(l)
    BY <1>0, <1>2, StartAcceptOrders, FizzleOrders, LaunchedOrders
  <1>3. CASE Established(l) \/ ReadPolicy(l)
    BY <1>0, <1>3, EstablishedOrders, ReadPolicyOrders
  <1>4. CASE \E fails \in BOOLEAN : Watch(l, fails)
    BY <1>0, <1>4, WatchOrders
  <1>5. CASE Admit(l) \/ AdmitAlone(l)
    BY <1>5, AdmitOrders, AdmitAloneOrders
  <1>6. CASE \E o \in Loops : Tell(l, o)
    BY <1>0, <1>6, TellOrders
  <1>7. CASE Ended(l) \/ ReplaceBegins(l) \/ ReplaceStops(l) \/ CloseOnContext(l)
    BY <1>0, <1>7, EndedOrders, ReplaceBeginsOrders, ReplaceStopsOrders, CloseOnContextOrders
  <1>8. CASE SweepTask(l) \/ TrimGoesOn(l) \/ Trimmed(l)
    BY <1>0, <1>8, SweepTaskOrders, TrimGoesOnOrders, TrimmedOrders
  <1>9. CASE \E id \in Ids : Trim(l, id)
    BY <1>9, TrimOrders
  <1> QED BY <1>1, <1>2, <1>3, <1>4, <1>5, <1>6, <1>7, <1>8, <1>9 DEF ThreadStep

\* and so does every step of the server.
LEMMA NextOrders == Inv /\ Inv' /\ Orders /\ [Next]_vars => Orders'
  <1> SUFFICES ASSUME Inv, Inv', Orders, [Next]_vars PROVE Orders'
    OBVIOUS
  <1>1. CASE UNCHANGED vars
    <2>1. UNCHANGED <<served, slot, engine, registry, policy, marked, task, mail, closing>>
      BY <1>1 DEF vars
    <2> QED BY <2>1, MailStill, ClosingStill, LaneOrders
  <1>2. ASSUME NEW l \in ActiveLoops, ThreadStep(l) PROVE Orders'
    BY <1>2, ThreadOrders
  <1>3. ASSUME NEW l \in ActiveLoops, NEW s \in Slots, Arrivals(l, s) PROVE Orders'
    <2>1. l \in Loops
      BY MainLoop
    <2> QED BY <1>3, <2>1, StartFailsOrders, StartSucceedsOrders DEF Arrivals
  <1>4. CASE MainStep
    BY <1>4, ReloadSweepsOrders, RoundDoneOrders, StopTaskOrders, FanOutOrders, CloseLoopOrders
       DEF MainStep
  <1>5. ASSUME NEW g \in DOMAIN engine, EngineFails(g) \/ EngineCloses(g) PROVE Orders'
    <2>1. g \in 1..MaxSessions
      BY DEF Inv, Types, Rooms
    <2> QED BY <1>5, <2>1, EngineOrders
  <1>6. ASSUME NEW p \in Policies, Reload(p) PROVE Orders'
    BY <1>6, ReloadOrders
  <1>7. CASE RuntimeClose
    BY <1>7, RuntimeCloseOrders
  <1>8. CASE ListenerStops
    <2>1. UNCHANGED <<served, slot, engine, registry, policy, marked, task, mail, closing>>
      BY <1>8 DEF ListenerStops
    <2> QED BY <2>1, MailStill, ClosingStill, LaneOrders
  <1>9. CASE Terminated
    BY <1>1, <1>9 DEF Terminated
  <1> QED BY <1>1, <1>2, <1>3, <1>4, <1>5, <1>6, <1>7, <1>8, <1>9 DEF Next

\* At rest nothing is under way: every session that runs stays.
LEMMA RestStays ==
    ASSUME Inv, Orders, AtRest, NEW l \in Loops, NEW s \in Slots, Active(l, s)
    PROVE  slot[l][s].id \in policy.known /\ Stays(l, s, slot[l][s].id)
  <1>1. slot[l][s].held /\ l \in ActiveLoops /\ Main \in ActiveLoops
    BY MainLoop DEF Active, Inv, Held, Placed, ActiveLoops
  <1>2. \A k \in ActiveLoops : task[k].pc = "idle" /\ mail[k] = <<>>
    BY DEF AtRest, ThreadIdle, At
  <1>3. \A k \in ActiveLoops : Dull(task[k])
    BY <1>2, DullTasks
  <1>4. \A k \in ActiveLoops : \A n : n \notin ToSet(mail[k])
    BY <1>2 DEF ToSet
  <1>5. ~closing[l]
    BY <1>1, <1>4 DEF Inv, Closes, CloseQueued, Dark
  <1>6. ~Excused(l)
    BY <1>1, <1>3, <1>4, <1>5 DEF Excused, SweepQueued, Dull
  <1>7. ~Making(l, s) /\ ~slot[l][s].evicted /\ ~Trimming(task[l], slot[l][s].id)
    BY <1>1, <1>3 DEF Making, Dull, Trimming, Limited, Orders, Evicts
  <1>8. slot[l][s].id \in policy.known
    BY <1>1, <1>6, <1>7 DEF Orders, AllKnown, Known
  <1>9. ~Coming(l)
    BY <1>1, <1>2, <1>3, <1>4 DEF Coming, ReplaceQueued, Dull
  <1>10. ASSUME served PROVE \E i \in DOMAIN registry : Names(registry[i], l, s) /\ ~registry[i].replaced
    <2>1. PICK i \in DOMAIN registry : Names(registry[i], l, s)
      BY <1>1, <1>7, <1>10 DEF Inv, Listed, SlotListed
    <2>2. registry[i].loop = l /\ registry[i].slot = s
      BY <2>1 DEF Names
    <2>3. ~registry[i].replaced
      BY <1>7, <1>9, <1>10, <2>2 DEF Orders, Replacing, Replaces
    <2> QED BY <2>1, <2>3
  <1> QED BY <1>1, <1>6, <1>7, <1>8, <1>10 DEF Stays, Unmarked

\* So the policy holds of the sessions that run.
LEMMA OrdersAtRest == Inv /\ Orders => PolicyHoldsAtRest
  <1> SUFFICES ASSUME Inv, Orders, AtRest, NEW id \in Ids
               PROVE  LET running == {ls \in Loops \X Slots :
                                        Active(ls[1], ls[2]) /\ slot[ls[1]][ls[2]].id = id}
                      IN  /\ running # {} => id \in policy.known
                          /\ policy.limit = 0 \/ Cardinality(running) <= policy.limit
    BY DEF PolicyHoldsAtRest
  <1> DEFINE running == {ls \in Loops \X Slots :
                           Active(ls[1], ls[2]) /\ slot[ls[1]][ls[2]].id = id}
  <1>1. running # {} => id \in policy.known
    BY RestStays
  <1>2. running \subseteq Staying(id)
    BY RestStays DEF Staying
  <1>3. policy.limit = 0 \/ Cardinality(running) <= policy.limit
    <2> SUFFICES ASSUME policy.limit # 0 PROVE Cardinality(running) <= policy.limit
      OBVIOUS
    <2> HIDE DEF running
    <2>1. policy.limit \in Nat /\ Cardinality(Staying(id)) <= policy.limit
      BY PolicyTyped DEF Orders, WithinLimit
    <2>2. IsFiniteSet(Staying(id))
      BY StayingFinite
    <2>3. IsFiniteSet(running) /\ Cardinality(running) <= Cardinality(Staying(id))
      BY <1>2, <2>2, FS_Subset
    <2>4. Cardinality(running) \in Nat /\ Cardinality(Staying(id)) \in Nat
      BY <2>2, <2>3, FS_CardinalityType
    <2> QED BY <2>1, <2>3, <2>4
  <1> QED BY <1>1, <1>3

\* native_endpoint.cpp admit_identity, replace_on_context, end_unrecognized and
\* native_server_runtime.cpp reload(): when nothing is left to do, the sessions
\* that run are of identities the last policy knows, within its limit, whatever
\* admissions, replacements and reloads overlapped on however many loops.
THEOREM LastPolicyPrevails == Spec => []PolicyHoldsAtRest
  <1>1. Init => Inv /\ Orders
    BY InitInv, InitOrders
  <1>2. Inv /\ Orders /\ [Next]_vars => Inv' /\ Orders'
    BY NextInv, NextOrders
  <1>3. Inv /\ Orders => PolicyHoldsAtRest
    BY OrdersAtRest
  <1> QED BY <1>1, <1>2, <1>3, PTL DEF Spec
=============================================================================

----------------------- MODULE ClientReconnectProofs -----------------------
(***************************************************************************)
(* Proofs about ClientReconnect, for any number of engines and any backoff *)
(* limits.  The argument: between handlers a client does one of three      *)
(* things, in the middle of a handler it may do none of them, and every    *)
(* part of a handler leads from the one to the other.                      *)
(***************************************************************************)
EXTENDS ClientReconnect, TLAPS

Waits == [fresh : BOOLEAN, state : {"armed", "due", "cancelled"}]
Deadlines == [fresh : BOOLEAN, due : BOOLEAN]
Engine == [state : {"free", "active", "ending", "ended"},
           observed : BOOLEAN, fresh : BOOLEAN]
Keeper == [started : BOOLEAN, closing : BOOLEAN, waiting : BOOLEAN,
           session : Sessions \cup {None}, counted : Sessions \cup {None},
           backoff : ReconnectInitial..ReconnectMax,
           status : {"Idle", "Connecting", "Connected", "Waiting", "Closed"},
           waits : SUBSET Waits]
Slot == [closing : BOOLEAN, closeQueued : BOOLEAN, starting : BOOLEAN,
         session : Sessions \cup {None}, timed_out : BOOLEAN,
         late : BOOLEAN, cancelled : BOOLEAN, deadlines : SUBSET Deadlines]
Engines == [Sessions -> Engine]
Whole == [k : Keeper, s : Slot, e : Engines, tried : BOOLEAN]

(***************************************************************************)
(* The parts of the invariant.  Of the waits only one is current, and it   *)
(* is not cancelled while the client runs; an engine that runs is the      *)
(* slot's; and the only end that is still told apart from the slot's own   *)
(* is that of its session, so no late notice is taken for another's.       *)
(***************************************************************************)
OneWait(x) ==
    /\ \A v, w \in x.waits : v.fresh /\ w.fresh => v = w
    /\ ~x.closing => \A w \in x.waits : w.fresh => w.state # "cancelled"

NoWait(x) == \A w \in x.waits : ~w.fresh

Owned(x, g) == \A i \in Sessions : g[i].state = "active" => x.session = i

Outdated(g) == \A i \in Sessions : ~g[i].fresh

Told(x, g) ==
    /\ x.starting => x.session = None /\ Outdated(g)
    /\ x.session # None => \A i \in Sessions : g[i].fresh => i = x.session

Sound(p) ==
    /\ p \in Whole
    /\ OneWait(p.k)
    /\ Owned(p.s, p.e)
    /\ Told(p.s, p.e)

\* What the client does between handlers, and in the middle of one.
NoSession(x, y) == x.session = None /\ x.counted = None /\ y.session = None

Starting(x, y) == y.starting /\ ~x.waiting /\ NoWait(x) /\ NoSession(x, y)

Waiting(x, y) ==
    ~y.starting /\ x.waiting /\ (\E w \in x.waits : w.fresh) /\ NoSession(x, y)

Having(x, y) ==
    /\ ~y.starting /\ ~x.waiting /\ NoWait(x)
    /\ x.session # None /\ x.counted = x.session /\ y.session = x.session

Idle(x, y) == ~y.starting /\ ~x.waiting /\ NoWait(x) /\ NoSession(x, y)

Busy(p) ==
    p.k.closing \/ Starting(p.k, p.s) \/ Waiting(p.k, p.s) \/ Having(p.k, p.s)

Free(p) == p.k.closing \/ Idle(p.k, p.s)

Rests(p) == IF p.k.started THEN Busy(p) ELSE Free(p)

Inv == Sound(Now) /\ Rests(Now)
-----------------------------------------------------------------------------
(* Waits and deadlines. *)

\* Cancelling and outdating waits keeps them waits.
LEMMA WaitsTyped ==
    ASSUME NEW w, w \in SUBSET Waits
    PROVE  /\ CancelWaits(w) \in SUBSET Waits
           /\ OutdateWaits(w) \in SUBSET Waits
           /\ \A v \in OutdateWaits(w) : ~v.fresh
  BY DEF CancelWaits, OutdateWaits, Waits

\* Of the waits of a timer, cancelled, still one is current at most.
LEMMA CancelKeepsOne ==
    ASSUME NEW w, w \in SUBSET Waits,
           \A u, v \in w : u.fresh /\ v.fresh => u = v
    PROVE  \A u, v \in CancelWaits(w) : u.fresh /\ v.fresh => u = v
  <1> SUFFICES ASSUME NEW u \in CancelWaits(w), NEW v \in CancelWaits(w), u.fresh, v.fresh
               PROVE  u = v
    OBVIOUS
  <1> DEFINE C(a) == [a EXCEPT !.state = IF @ = "armed" THEN "cancelled" ELSE @]
  <1>1. \A a \in Waits : C(a).fresh = a.fresh
    BY DEF Waits
  <1>2. PICK a \in w : u = C(a)
    BY DEF CancelWaits
  <1>3. PICK b \in w : v = C(b)
    BY DEF CancelWaits
  <1> HIDE DEF C
  <1>4. a \in Waits /\ b \in Waits
    OBVIOUS
  <1>5. a = b
    BY <1>1, <1>2, <1>3, <1>4
  <1> QED BY <1>2, <1>3, <1>5

\* The runtime's close() leaves a sound client that is closing.
LEMMA CloseAllKeeps ==
    ASSUME NEW p, Sound(p)
    PROVE  /\ Sound(CloseAll(p)) /\ CloseAll(p).k.closing
           /\ CloseAll(p).k.started = p.k.started
           /\ CloseAll(p).s.session = p.s.session
           /\ CloseAll(p).e = p.e
  <1>1. CASE p.k.closing
    BY <1>1 DEF CloseAll
  <1>2. CASE ~p.k.closing
    <2> DEFINE q == CloseAll(p)
    <2> DEFINE c == CancelWaits(p.k.waits)
    <2>0. /\ p \in Whole /\ p.k \in Keeper /\ p.s \in Slot
          /\ p.e \in Engines /\ p.tried \in BOOLEAN
      BY DEF Sound, Whole
    <2>1. p.k.waits \in SUBSET Waits
      BY <2>0 DEF Keeper
    <2>2. c \in SUBSET Waits
      BY <2>1, WaitsTyped
    <2>3. \A u, v \in c : u.fresh /\ v.fresh => u = v
      BY <2>1, CancelKeepsOne DEF Sound, OneWait
    <2>4. q = [p EXCEPT !.k.closing = TRUE, !.k.waiting = FALSE,
                   !.k.waits = c, !.k.session = None,
                   !.k.counted = None, !.k.status = "Closed",
                   !.s.closing = TRUE, !.s.closeQueued = TRUE]
      BY <1>2, <2>0 DEF CloseAll, Whole, Keeper
    <2> HIDE DEF q, c
    <2>5. /\ q.k = [p.k EXCEPT !.closing = TRUE, !.waiting = FALSE, !.waits = c, !.session = None,
                   !.counted = None, !.status = "Closed"]
          /\ q.s = [p.s EXCEPT !.closing = TRUE, !.closeQueued = TRUE]
          /\ q.e = p.e /\ q.tried = p.tried
          /\ q = [k |-> q.k, s |-> q.s, e |-> q.e, tried |-> q.tried]
      BY <2>0, <2>4 DEF Whole, Keeper, Slot
    <2>6. q.k \in Keeper /\ q.s \in Slot
      BY <2>0, <2>2, <2>5 DEF Keeper, Slot
    <2>7. q \in Whole
      BY <2>0, <2>5, <2>6 DEF Whole
    <2>8. /\ q.k.closing /\ q.k.started = p.k.started /\ q.k.waits = c
          /\ q.s.session = p.s.session /\ q.s.starting = p.s.starting
      BY <2>0, <2>5 DEF Keeper, Slot
    <2>9. Sound(q)
      BY <2>3, <2>5, <2>7, <2>8 DEF Sound, OneWait, Owned, Told
    <2> QED BY <2>5, <2>8, <2>9 DEF q
  <1> QED BY <1>1, <1>2

\* A doubled and capped backoff is within the limits.
LEMMA BackoffTyped ==
    ASSUME NEW b \in ReconnectInitial..ReconnectMax
    PROVE  NextBackoff(b) \in ReconnectInitial..ReconnectMax
  BY ReconnectAssumption DEF NextBackoff, Least

\* A change of the keeper's backoff, status, counts or attempt keeps a client
\* sound and doing what it does.
LEMMA SameKeeps ==
    ASSUME NEW p, NEW q, Sound(p), q \in Whole,
           q.k.closing = p.k.closing, q.k.waiting = p.k.waiting,
           q.k.waits = p.k.waits, q.k.session = p.k.session,
           q.k.counted = p.k.counted, q.k.started = p.k.started,
           q.s.session = p.s.session, q.s.starting = p.s.starting, q.e = p.e
    PROVE  /\ Sound(q)
           /\ Free(p) => Free(q)
           /\ Busy(p) => Busy(q)
  BY DEF Sound, OneWait, Owned, Told, Outdated, Free, Busy, Idle, Starting,
         Waiting, Having, NoWait, NoSession

\* schedule_reconnect() of a client that does nothing else leaves it waiting, or
\* closing.
LEMMA ScheduleKeeps ==
    ASSUME NEW p, NEW z, Sound(p), Free(p), z \in ScheduleReconnect(p)
    PROVE  Sound(z) /\ Busy(z) /\ z.k.started = p.k.started
  <1>1. CASE p.k.closing
    BY <1>1 DEF ScheduleReconnect, Busy
  <1>2. CASE ~p.k.closing
    <2> DEFINE q == [p EXCEPT !.k.backoff = NextBackoff(@)]
    <2> DEFINE new == OutdateWaits(CancelWaits(p.k.waits)) \cup
                          {[fresh |-> TRUE, state |-> "armed"]}
    <2> DEFINE r == [q EXCEPT !.k.waiting = TRUE, !.k.status = "Waiting",
                              !.k.waits = OutdateWaits(CancelWaits(@)) \cup
                                          {[fresh |-> TRUE, state |-> "armed"]}]
    <2>0. /\ p \in Whole /\ p.k \in Keeper /\ p.s \in Slot
          /\ p.e \in Engines /\ p.tried \in BOOLEAN
      BY DEF Sound, Whole
    <2>1. z = r \/ z = CloseAll(q)
      BY <1>2 DEF ScheduleReconnect
    <2>2. p.k.waits \in SUBSET Waits /\ p.k.backoff \in ReconnectInitial..ReconnectMax
      BY <2>0 DEF Keeper
    <2>3. NextBackoff(p.k.backoff) \in ReconnectInitial..ReconnectMax
      BY <2>2, BackoffTyped
    <2>4. /\ new \in SUBSET Waits
          /\ \A w \in new : w.fresh => w = [fresh |-> TRUE, state |-> "armed"]
      <3>1. CancelWaits(p.k.waits) \in SUBSET Waits
        BY <2>2, WaitsTyped
      <3>2. /\ OutdateWaits(CancelWaits(p.k.waits)) \in SUBSET Waits
            /\ \A v \in OutdateWaits(CancelWaits(p.k.waits)) : ~v.fresh
        BY <3>1, WaitsTyped
      <3>3. [fresh |-> TRUE, state |-> "armed"] \in Waits
        BY DEF Waits
      <3> QED BY <3>2, <3>3
    <2>5. /\ q.k = [p.k EXCEPT !.backoff = NextBackoff(p.k.backoff)]
          /\ q.s = p.s /\ q.e = p.e /\ q.tried = p.tried
          /\ q = [k |-> q.k, s |-> q.s, e |-> q.e, tried |-> q.tried]
      BY <2>0 DEF Whole
    <2>6. /\ q.k \in Keeper /\ q.k.closing = p.k.closing
          /\ q.k.waiting = p.k.waiting /\ q.k.waits = p.k.waits
          /\ q.k.session = p.k.session /\ q.k.counted = p.k.counted
          /\ q.k.started = p.k.started
      <3> HIDE DEF q
      <3> QED BY <2>0, <2>3, <2>5 DEF Keeper
    <2>7. q \in Whole
      <3> HIDE DEF q
      <3> QED BY <2>0, <2>5, <2>6 DEF Whole
    <2>8. Sound(q) /\ Free(q)
      <3> HIDE DEF q
      <3> QED BY <2>5, <2>6, <2>7, SameKeeps
    <2>9. CASE z = CloseAll(q)
      <3> HIDE DEF q
      <3>1. CloseAll(q).k.closing /\ Sound(CloseAll(q)) /\ CloseAll(q).k.started = q.k.started
        BY <2>8, CloseAllKeeps
      <3> QED BY <2>6, <2>9, <3>1 DEF Busy
    <2>10. CASE z = r
      <3>1. r = [q EXCEPT !.k.waiting = TRUE, !.k.status = "Waiting", !.k.waits = new]
        <4> HIDE DEF q
        <4>1. r = [q EXCEPT !.k.waiting = TRUE, !.k.status = "Waiting",
                            !.k.waits = OutdateWaits(CancelWaits(q.k.waits)) \cup
                                          {[fresh |-> TRUE, state |-> "armed"]}]
          BY <2>7, <2>6 DEF Whole, Keeper
        <4> QED BY <2>6, <4>1
      <3> HIDE DEF q, r, new
      <3>2. /\ r.k = [q.k EXCEPT !.waiting = TRUE, !.status = "Waiting", !.waits = new]
            /\ r.s = q.s /\ r.e = q.e /\ r.tried = q.tried
            /\ r = [k |-> r.k, s |-> r.s, e |-> r.e, tried |-> r.tried]
        BY <3>1, <2>7, <2>6 DEF Whole, Keeper
      <3>3. /\ r.k \in Keeper /\ r.k.waits = new /\ r.k.waiting
            /\ r.k.session = q.k.session /\ r.k.counted = q.k.counted
            /\ r.k.started = q.k.started /\ r.k.closing = q.k.closing
        BY <2>4, <2>6, <3>2 DEF Keeper
      <3>4. r \in Whole
        BY <2>0, <2>5, <3>2, <3>3 DEF Whole
      <3>5. OneWait(r.k)
        <4> DEFINE a == [fresh |-> TRUE, state |-> "armed"]
        <4>1. a.state # "cancelled" /\ \A w \in new : w.fresh => w = a
          BY <2>4 DEF new
        <4> HIDE DEF a
        <4> QED BY <3>3, <4>1 DEF OneWait
      <3>6. Sound(r)
        BY <2>8, <3>2, <3>4, <3>5 DEF Sound
      <3>7. \E w \in new : w.fresh
        <4> DEFINE a == [fresh |-> TRUE, state |-> "armed"]
        <4>1. a.fresh /\ a \in new
          BY DEF new
        <4> QED BY <4>1
      <3>8. Waiting(r.k, r.s)
        BY <1>2, <2>6, <2>8, <3>2, <3>3, <3>7 DEF Free, Idle, Waiting, NoSession
      <3> QED BY <2>10, <2>6, <3>3, <3>6, <3>8 DEF Busy
    <2> QED BY <2>1, <2>9, <2>10
  <1> QED BY <1>1, <1>2

\* settled() ends the start, and the client does nothing else.
LEMMA EndStartKeeps ==
    ASSUME NEW p, Sound(p), Starting(p.k, p.s) \/ p.k.closing
    PROVE  /\ Sound(EndStart(p)) /\ Free(EndStart(p))
           /\ EndStart(p).k = p.k /\ EndStart(p).e = p.e
           /\ EndStart(p).s.session = p.s.session /\ ~EndStart(p).s.starting
           /\ EndStart(p).s.closing = p.s.closing
  <1> DEFINE q == EndStart(p)
  <1>0. /\ p \in Whole /\ p.k \in Keeper /\ p.s \in Slot
        /\ p.e \in Engines /\ p.tried \in BOOLEAN
    BY DEF Sound, Whole
  <1>1. CancelDeadlines(p.s.deadlines) \in SUBSET Deadlines
    BY <1>0 DEF Slot, CancelDeadlines
  <1>2. /\ q.s = [p.s EXCEPT !.starting = FALSE, !.deadlines = CancelDeadlines(p.s.deadlines)]
        /\ q.k = p.k /\ q.e = p.e /\ q.tried = p.tried
        /\ q = [k |-> q.k, s |-> q.s, e |-> q.e, tried |-> q.tried]
    <2> DEFINE c == CancelDeadlines(p.s.deadlines)
    <2>1. q = [p EXCEPT !.s.starting = FALSE, !.s.deadlines = c]
      BY <1>0 DEF Whole, Slot, EndStart
    <2> HIDE DEF q, c
    <2>2. /\ q.s = [p.s EXCEPT !.starting = FALSE, !.deadlines = c]
          /\ q.k = p.k /\ q.e = p.e /\ q.tried = p.tried
          /\ q = [k |-> q.k, s |-> q.s, e |-> q.e, tried |-> q.tried]
      BY <1>0, <2>1 DEF Whole, Slot
    <2> QED BY <2>2 DEF c
  <1> HIDE DEF q
  <1>3. /\ q.s \in Slot /\ q.s.session = p.s.session /\ ~q.s.starting
        /\ q.s.closing = p.s.closing
    BY <1>0, <1>1, <1>2 DEF Slot
  <1>4. q \in Whole
    BY <1>0, <1>2, <1>3 DEF Whole
  <1>5. Sound(q)
    BY <1>2, <1>3, <1>4 DEF Sound, Owned, Told
  <1>6. Free(q)
    BY <1>2, <1>3 DEF Free, Starting, Idle, NoSession
  <1> QED BY <1>2, <1>3, <1>5, <1>6 DEF q

\* begin_start() outdates every handler of earlier starts and sessions.
LEMMA BeginStartKeeps ==
    ASSUME NEW p, Sound(p), Idle(p.k, p.s)
    PROVE  /\ Sound(BeginStart(p)) /\ Starting(BeginStart(p).k, BeginStart(p).s)
           /\ BeginStart(p).k = p.k
  <1> DEFINE q == BeginStart(p)
  <1> DEFINE g == [i \in Sessions |-> [p.e[i] EXCEPT !.fresh = FALSE]]
  <1> DEFINE c == {[d EXCEPT !.fresh = FALSE] : d \in p.s.deadlines} \cup
                      {[fresh |-> TRUE, due |-> FALSE]}
  <1>0. /\ p \in Whole /\ p.k \in Keeper /\ p.s \in Slot
        /\ p.e \in Engines /\ p.tried \in BOOLEAN
    BY DEF Sound, Whole
  <1>1. c \in SUBSET Deadlines
    <2>1. \A d \in p.s.deadlines : d \in Deadlines
      BY <1>0 DEF Slot
    <2>2. \A d \in Deadlines : [d EXCEPT !.fresh = FALSE] \in Deadlines
      BY DEF Deadlines
    <2>3. [fresh |-> TRUE, due |-> FALSE] \in Deadlines
      BY DEF Deadlines
    <2> QED BY <2>1, <2>2, <2>3
  <1>2. /\ g \in Engines
        /\ \A i \in Sessions : ~g[i].fresh /\ g[i].state = p.e[i].state
    BY <1>0 DEF Engines, Engine
  <1>3. q = [p EXCEPT !.s.starting = TRUE, !.s.timed_out = FALSE, !.s.late = FALSE,
                      !.s.cancelled = FALSE, !.s.deadlines = c, !.e = g]
    BY <1>0 DEF Whole, Slot, BeginStart
  <1> HIDE DEF q, c, g
  <1>4. /\ q.s = [p.s EXCEPT !.starting = TRUE, !.timed_out = FALSE, !.late = FALSE,
                             !.cancelled = FALSE, !.deadlines = c]
        /\ q.k = p.k /\ q.e = g /\ q.tried = p.tried
        /\ q = [k |-> q.k, s |-> q.s, e |-> q.e, tried |-> q.tried]
    BY <1>0, <1>3 DEF Whole, Slot
  <1>5. q.s \in Slot /\ q.s.session = p.s.session /\ q.s.starting
    BY <1>0, <1>1, <1>4 DEF Slot
  <1>6. q \in Whole
    BY <1>0, <1>2, <1>4, <1>5 DEF Whole
  <1>7. Sound(q)
    BY <1>2, <1>4, <1>5, <1>6 DEF Sound, Owned, Told, Outdated, Idle, NoSession
  <1>8. Starting(q.k, q.s)
    BY <1>4, <1>5 DEF Starting, Idle, NoSession
  <1> QED BY <1>4, <1>7, <1>8 DEF q

\* connect() of a client that does nothing starts a session, waits to start one
\* or closes.
LEMMA ConnectKeeps ==
    ASSUME NEW p, NEW z, Sound(p), Free(p), z \in Connect(p)
    PROVE  Sound(z) /\ Busy(z) /\ z.k.started = p.k.started
  <1>1. CASE p.k.closing
    BY <1>1 DEF Connect, Busy
  <1>2. CASE ~p.k.closing
    <2> DEFINE q == [p EXCEPT !.tried = ~@]
    <2> DEFINE begun == BeginStart(q)
    <2> DEFINE inline == ScheduleReconnect(EndStart(begun))
    <2>0. /\ p \in Whole /\ p.k \in Keeper /\ p.s \in Slot
          /\ p.e \in Engines /\ p.tried \in BOOLEAN
      BY DEF Sound, Whole
    <2>1. /\ q.k = p.k /\ q.s = p.s /\ q.e = p.e /\ q.tried \in BOOLEAN
          /\ q = [k |-> q.k, s |-> q.s, e |-> q.e, tried |-> q.tried]
      BY <2>0 DEF Whole
    <2>2. q \in Whole
      <3> HIDE DEF q
      <3> QED BY <2>0, <2>1 DEF Whole
    <2>3. Sound(q) /\ Free(q) /\ Idle(q.k, q.s)
      <3> HIDE DEF q
      <3>1. Sound(q) /\ Free(q)
        BY <2>1, <2>2, SameKeeps
      <3> QED BY <1>2, <2>1, <3>1 DEF Free
    <2>4. Sound(begun) /\ Starting(begun.k, begun.s) /\ begun.k = p.k
      <3> HIDE DEF q
      <3> QED BY <2>1, <2>3, BeginStartKeeps
    <2>5. ASSUME NEW x \in inline
          PROVE  Sound(x) /\ Busy(x) /\ x.k.started = p.k.started
      <3> HIDE DEF begun
      <3>1. Sound(EndStart(begun)) /\ Free(EndStart(begun)) /\ EndStart(begun).k = p.k
        BY <2>4, EndStartKeeps
      <3> QED BY <2>5, <3>1, ScheduleKeeps
    <2>6. z \in ScheduleReconnect(q) \/ \E x \in {begun} \cup inline : z = [x EXCEPT !.k.status = "Connecting"]
      BY <1>2 DEF Connect
    <2> HIDE DEF q, begun, inline
    <2>7. CASE z \in ScheduleReconnect(q)
      BY <2>1, <2>3, <2>7, ScheduleKeeps
    <2>8. ASSUME NEW x, Sound(x), Busy(x), x.k.started = p.k.started,
                 z = [x EXCEPT !.k.status = "Connecting"]
          PROVE  Sound(z) /\ Busy(z) /\ z.k.started = p.k.started
      <3>0. /\ x \in Whole /\ x.k \in Keeper /\ x.s \in Slot
            /\ x.e \in Engines /\ x.tried \in BOOLEAN
        BY <2>8 DEF Sound, Whole
      <3>1. /\ z.k = [x.k EXCEPT !.status = "Connecting"] /\ z.s = x.s
            /\ z.e = x.e /\ z.tried = x.tried
            /\ z = [k |-> z.k, s |-> z.s, e |-> z.e, tried |-> z.tried]
        BY <2>8, <3>0 DEF Whole
      <3>2. /\ z.k \in Keeper /\ z.k.closing = x.k.closing
            /\ z.k.waiting = x.k.waiting /\ z.k.waits = x.k.waits
            /\ z.k.session = x.k.session /\ z.k.counted = x.k.counted
            /\ z.k.started = x.k.started
        BY <3>0, <3>1 DEF Keeper
      <3>3. z \in Whole
        BY <3>0, <3>1, <3>2 DEF Whole
      <3> QED BY <2>8, <3>1, <3>2, <3>3, SameKeeps
    <2>9. Busy(begun) /\ begun.k.started = p.k.started
      BY <2>4 DEF Busy
    <2> QED BY <2>4, <2>5, <2>6, <2>7, <2>8, <2>9
  <1> QED BY <1>1, <1>2

\* on_session() with a failure.
LEMMA StartFailedKeeps ==
    ASSUME NEW p, NEW z, Sound(p), Free(p), z \in StartFailed(p)
    PROVE  Sound(z) /\ Busy(z) /\ z.k.started = p.k.started
  BY ScheduleKeeps DEF StartFailed, Busy

\* on_session_ended() of the keeper's session leaves a client that waits, starts
\* the next session or closes; any other end changes nothing.
LEMMA SessionDownKeeps ==
    ASSUME NEW p, NEW z, NEW ended, Sound(p),
           p.k.closing \/ (Idle([p.k EXCEPT !.session = None, !.counted = None], p.s)
                             /\ p.k.session = ended),
           z \in SessionDown(p, ended)
    PROVE  Sound(z) /\ Busy(z) /\ z.k.started = p.k.started
  <1>1. CASE p.k.closing
    BY <1>1 DEF SessionDown, Busy
  <1>2. CASE ~p.k.closing
    <2> DEFINE q == [p EXCEPT !.k.session = None, !.k.counted = None]
    <2> DEFINE r == [q EXCEPT !.k.backoff = ReconnectInitial]
    <2>0. /\ p \in Whole /\ p.k \in Keeper /\ p.s \in Slot
          /\ p.e \in Engines /\ p.tried \in BOOLEAN
      BY DEF Sound, Whole
    <2>1. z \in ScheduleReconnect(q) \/ z \in Connect(r)
      BY <1>2 DEF SessionDown
    <2>2. /\ q.k = [p.k EXCEPT !.session = None, !.counted = None]
          /\ q.s = p.s /\ q.e = p.e /\ q.tried = p.tried
          /\ q = [k |-> q.k, s |-> q.s, e |-> q.e, tried |-> q.tried]
      <3>1. q = [p EXCEPT !.k.session = None, !.k.counted = None]
        OBVIOUS
      <3> HIDE DEF q
      <3> QED BY <2>0, <3>1 DEF Whole, Keeper
    <2> HIDE DEF q
    <2>3. /\ q.k \in Keeper /\ q.k.closing = p.k.closing
          /\ q.k.waits = p.k.waits /\ q.k.started = p.k.started
      BY <2>0, <2>2 DEF Keeper
    <2>4. q \in Whole
      BY <2>0, <2>2, <2>3 DEF Whole
    <2>5. Sound(q) /\ Free(q)
      BY <1>2, <2>2, <2>3, <2>4 DEF Sound, OneWait, Owned, Told, Free
    <2>6. /\ r.k = [q.k EXCEPT !.backoff = ReconnectInitial]
          /\ r.s = q.s /\ r.e = q.e /\ r.tried = q.tried
          /\ r = [k |-> r.k, s |-> r.s, e |-> r.e, tried |-> r.tried]
      BY <2>4 DEF Whole
    <2> HIDE DEF r
    <2>7. /\ r.k \in Keeper /\ r.k.closing = q.k.closing
          /\ r.k.waiting = q.k.waiting /\ r.k.waits = q.k.waits
          /\ r.k.session = q.k.session /\ r.k.counted = q.k.counted
          /\ r.k.started = q.k.started
      BY <2>3, <2>6, ReconnectAssumption DEF Keeper
    <2>8. r \in Whole
      BY <2>4, <2>6, <2>7 DEF Whole
    <2>9. Sound(r) /\ Free(r)
      BY <2>5, <2>6, <2>7, <2>8, SameKeeps
    <2> QED BY <2>1, <2>3, <2>5, <2>7, <2>9, ScheduleKeeps, ConnectKeeps
  <1> QED BY <1>1, <1>2
-----------------------------------------------------------------------------
(* The handlers. *)

\* The client is its parts.
LEMMA NowParts ==
    /\ Now.k = k /\ Now.s = s /\ Now.e = e /\ Now.tried = tried
    /\ Now \in Whole <=>
          k \in Keeper /\ s \in Slot /\ e \in Engines /\ tried \in BOOLEAN
  BY DEF Now, Whole

\* A handler that leaves a sound client that rests keeps the invariant.
LEMMA Ends ==
    ASSUME NEW p, Sound(p), Rests(p),
           k' = p.k, s' = p.s, e' = p.e, tried' = p.tried
    PROVE  Inv'
  <1>1. p = [k |-> p.k, s |-> p.s, e |-> p.e, tried |-> p.tried]
    BY DEF Sound, Whole
  <1>2. Now' = p
    BY <1>1 DEF Now
  <1> QED BY <1>2 DEF Inv

\* A client starts sound, and does nothing.
LEMMA InitInv == Init => Inv
  <1> SUFFICES ASSUME Init PROVE Inv
    OBVIOUS
  <1>1. k \in Keeper /\ s \in Slot
    BY ReconnectAssumption DEF Init, Keeper, Slot
  <1>2. e \in Engines /\ tried \in BOOLEAN
    BY DEF Init, Engines, Engine
  <1>3. \A i \in Sessions : ~e[i].fresh /\ e[i].state = "free"
    BY DEF Init
  <1>4. /\ k.waits = {} /\ ~k.waiting /\ ~k.started /\ k.session = None /\ k.counted = None
        /\ s.session = None /\ ~s.starting
    BY DEF Init
  <1>5. Now \in Whole
    BY <1>1, <1>2, NowParts
  <1>6. OneWait(k) /\ Owned(s, e) /\ Told(s, e) /\ Idle(k, s)
    BY <1>3, <1>4 DEF OneWait, Owned, Told, Outdated, Idle, NoWait, NoSession
  <1> QED BY <1>4, <1>5, <1>6, NowParts DEF Inv, Sound, Rests, Free

\* Start() of the keeper.
LEMMA StartKeeps == ASSUME Inv, Start PROVE Inv'
  <1> DEFINE p == [Now EXCEPT !.k.started = TRUE]
  <1>0. /\ Now \in Whole /\ k \in Keeper /\ s \in Slot
        /\ e \in Engines /\ tried \in BOOLEAN
        /\ Sound(Now) /\ Free(Now)
    BY NowParts DEF Inv, Sound, Rests, Start
  <1>1. /\ p.k = [k EXCEPT !.started = TRUE] /\ p.s = s /\ p.e = e /\ p.tried = tried
        /\ p = [k |-> p.k, s |-> p.s, e |-> p.e, tried |-> p.tried]
    <2>1. p = [Now EXCEPT !.k.started = TRUE]
      OBVIOUS
    <2> HIDE DEF p
    <2> QED BY <1>0, <2>1, NowParts DEF Whole
  <1>2. PICK z \in Connect(p) : k' = z.k /\ s' = z.s /\ e' = z.e /\ tried' = z.tried
    BY DEF Start, Becomes
  <1> HIDE DEF p
  <1>3. /\ p.k \in Keeper /\ p.k.closing = k.closing
        /\ p.k.waiting = k.waiting /\ p.k.waits = k.waits
        /\ p.k.session = k.session /\ p.k.counted = k.counted
        /\ p.k.started
    BY <1>0, <1>1 DEF Keeper
  <1>4. p \in Whole
    BY <1>0, <1>1, <1>3 DEF Whole
  <1>5. Sound(p) /\ Free(p)
    BY <1>0, <1>1, <1>3, <1>4, NowParts
    DEF Sound, OneWait, Owned, Told, Free, Idle, NoWait, NoSession
  <1>6. Sound(z) /\ Busy(z) /\ z.k.started = p.k.started
    BY <1>2, <1>5, ConnectKeeps
  <1>7. Rests(z)
    BY <1>3, <1>6 DEF Rests
  <1> QED BY <1>2, <1>6, <1>7, Ends

\* A wait runs out.
LEMMA WaitExpiresKeeps == ASSUME Inv, WaitExpires PROVE Inv'
  <1>0. /\ Now \in Whole /\ k \in Keeper /\ s \in Slot
        /\ e \in Engines /\ tried \in BOOLEAN
        /\ Sound(Now) /\ Rests(Now)
    BY NowParts DEF Inv, Sound
  <1>1. PICK w \in k.waits :
            /\ w.state = "armed"
            /\ k' = [k EXCEPT !.waits = (@ \ {w}) \cup {[w EXCEPT !.state = "due"]}]
            /\ UNCHANGED <<s, e, tried>>
    BY DEF WaitExpires
  <1> DEFINE d == [w EXCEPT !.state = "due"]
  <1> DEFINE c == (k.waits \ {w}) \cup {d}
  <1>2. w \in Waits /\ k.waits \in SUBSET Waits
    BY <1>0 DEF Keeper
  <1>3. d \in Waits /\ d.fresh = w.fresh /\ d.state = "due"
    BY <1>2 DEF Waits
  <1>4. k' = [k EXCEPT !.waits = c]
    BY <1>0, <1>1 DEF Keeper
  <1> HIDE DEF d
  <1>5. /\ c \in SUBSET Waits
        /\ OneWait(k) => \A u, v \in c : u.fresh /\ v.fresh => u = v
        /\ OneWait(k) => (~k.closing => \A v \in c : v.fresh => v.state # "cancelled")
        /\ (\E v \in c : v.fresh) <=> (\E v \in k.waits : v.fresh)
    BY <1>2, <1>3 DEF OneWait
  <1> HIDE DEF c
  <1>6. /\ k' \in Keeper /\ k'.waits = c /\ k'.closing = k.closing /\ k'.waiting = k.waiting
        /\ k'.session = k.session /\ k'.counted = k.counted /\ k'.started = k.started
    BY <1>0, <1>4, <1>5 DEF Keeper
  <1> DEFINE q == [k |-> k', s |-> s, e |-> e, tried |-> tried]
  <1>7. q \in Whole /\ q.k = k' /\ q.s = s /\ q.e = e /\ q.tried = tried
    BY <1>0, <1>6 DEF Whole
  <1> HIDE DEF q
  <1>8. OneWait(q.k)
    BY <1>0, <1>5, <1>6, <1>7, NowParts DEF OneWait, Sound
  <1>9. Sound(q)
    BY <1>0, <1>7, <1>8, NowParts DEF Sound
  <1>10. Rests(q)
    BY <1>0, <1>5, <1>6, <1>7, NowParts
    DEF Rests, Busy, Free, Idle, Starting, Waiting, Having, NoWait, NoSession
  <1> QED BY <1>1, <1>7, <1>9, <1>10 DEF Inv, Now, q

\* The end of a wait, in time, cancelled or outdated.
LEMMA DeliverWaitKeeps == ASSUME Inv, DeliverWait PROVE Inv'
  <1>0. /\ Now \in Whole /\ k \in Keeper /\ s \in Slot
        /\ e \in Engines /\ tried \in BOOLEAN
        /\ Sound(Now) /\ Rests(Now)
    BY NowParts DEF Inv, Sound
  <1>1. PICK w \in k.waits : w.state # "armed" /\ Becomes(WaitHandler([Now EXCEPT !.k.waits = @ \ {w}], w))
    BY DEF DeliverWait
  <1> DEFINE p == [Now EXCEPT !.k.waits = @ \ {w}]
             c == k.waits \ {w}
  <1>2. PICK z \in WaitHandler(p, w) : k' = z.k /\ s' = z.s /\ e' = z.e /\ tried' = z.tried
    BY <1>1 DEF Becomes
  <1>3. /\ p.k = [k EXCEPT !.waits = c] /\ p.s = s /\ p.e = e /\ p.tried = tried
        /\ p = [k |-> p.k, s |-> p.s, e |-> p.e, tried |-> p.tried]
    BY <1>0 DEF Now, Keeper
  <1> HIDE DEF p
  <1>4. /\ c \in SUBSET Waits
        /\ OneWait(k) => \A u, v \in c : u.fresh /\ v.fresh => u = v
        /\ OneWait(k) => (~k.closing => \A v \in c : v.fresh => v.state # "cancelled")
        /\ OneWait(k) /\ w.fresh => \A v \in c : ~v.fresh
        /\ ~w.fresh => ((\E v \in c : v.fresh) <=> (\E v \in k.waits : v.fresh))
    BY <1>0 DEF OneWait, Keeper
  <1> HIDE DEF c
  <1>5. /\ p.k \in Keeper /\ p.k.waits = c /\ p.k.closing = k.closing /\ p.k.waiting = k.waiting
        /\ p.k.session = k.session /\ p.k.counted = k.counted /\ p.k.started = k.started
    BY <1>0, <1>3, <1>4 DEF Keeper
  <1>6. p \in Whole
    BY <1>0, <1>3, <1>5 DEF Whole
  <1>7. OneWait(k) /\ OneWait(p.k)
    BY <1>0, <1>4, <1>5, NowParts DEF OneWait, Sound
  <1>8. Sound(p)
    BY <1>0, <1>3, <1>6, <1>7, NowParts DEF Sound
  <1>9. CASE k.closing \/ ~w.fresh
    <2>1. z = p
      BY <1>2, <1>5, <1>9 DEF WaitHandler
    <2>2. Rests(p)
      BY <1>0, <1>3, <1>4, <1>5, <1>9, NowParts
      DEF Rests, Busy, Free, Idle, Starting, Waiting, Having, NoWait, NoSession
    <2> QED BY <1>2, <1>8, <2>1, <2>2, Ends
  <1>10. CASE ~k.closing /\ w.fresh
    <2> DEFINE q == [p EXCEPT !.k.waiting = FALSE]
    <2>1. z = CloseAll(q) \/ z \in Connect(q)
      BY <1>2, <1>5, <1>10 DEF WaitHandler
    <2>2. /\ q.k = [p.k EXCEPT !.waiting = FALSE] /\ q.s = p.s /\ q.e = p.e /\ q.tried = p.tried
          /\ q = [k |-> q.k, s |-> q.s, e |-> q.e, tried |-> q.tried]
      <3>1. q = [p EXCEPT !.k.waiting = FALSE]
        OBVIOUS
      <3> HIDE DEF q
      <3> QED BY <1>6, <3>1 DEF Whole
    <2> HIDE DEF q
    <2>3. /\ q.k \in Keeper /\ q.k.waits = c /\ q.k.closing = k.closing /\ ~q.k.waiting
          /\ q.k.session = k.session /\ q.k.counted = k.counted /\ q.k.started = k.started
      BY <1>5, <2>2 DEF Keeper
    <2>4. q \in Whole
      BY <1>6, <2>2, <2>3 DEF Whole
    <2>5. Sound(q)
      BY <1>5, <1>8, <2>2, <2>3, <2>4 DEF Sound, OneWait
    <2>6. Waiting(k, s) /\ k.started
      BY <1>0, <1>10, NowParts DEF Rests, Busy, Free, Idle, Starting, Having, NoWait
    <2>7. Free(q)
      BY <1>3, <1>4, <1>7, <1>10, <2>2, <2>3, <2>6 DEF Free, Idle, Waiting, NoWait, NoSession
    <2>8. Sound(z) /\ Busy(z) /\ z.k.started
      BY <2>1, <2>3, <2>5, <2>6, <2>7, ConnectKeeps, CloseAllKeeps DEF Busy
    <2> QED BY <1>2, <2>8, Ends DEF Rests
  <1> QED BY <1>9, <1>10

\* retry_now() outdates the wait it replaces.
LEMMA RetryNowKeeps == ASSUME Inv, RetryNow PROVE Inv'
  <1> DEFINE p == [Now EXCEPT !.k.waiting = FALSE,
                              !.k.waits = OutdateWaits(CancelWaits(@)),
                              !.k.backoff = ReconnectInitial]
             c == OutdateWaits(CancelWaits(k.waits))
  <1>0. /\ Now \in Whole /\ k \in Keeper /\ s \in Slot
        /\ e \in Engines /\ tried \in BOOLEAN
        /\ Sound(Now) /\ Rests(Now) /\ ~k.closing /\ k.waiting
    BY NowParts DEF Inv, Sound, RetryNow
  <1>1. PICK z \in Connect(p) : k' = z.k /\ s' = z.s /\ e' = z.e /\ tried' = z.tried
    BY DEF RetryNow, Becomes
  <1>2. c \in SUBSET Waits /\ \A v \in c : ~v.fresh
    <2>1. CancelWaits(k.waits) \in SUBSET Waits
      BY <1>0, WaitsTyped DEF Keeper
    <2> QED BY <2>1, WaitsTyped
  <1>3. p = [Now EXCEPT !.k.waiting = FALSE, !.k.waits = c, !.k.backoff = ReconnectInitial]
    BY <1>0, NowParts DEF Whole, Keeper
  <1> HIDE DEF p, c
  <1>4. /\ p.k = [k EXCEPT !.waiting = FALSE, !.waits = c, !.backoff = ReconnectInitial]
        /\ p.s = s /\ p.e = e /\ p.tried = tried
        /\ p = [k |-> p.k, s |-> p.s, e |-> p.e, tried |-> p.tried]
    BY <1>0, <1>3, NowParts DEF Whole, Keeper
  <1>5. /\ p.k \in Keeper /\ p.k.waits = c /\ p.k.closing = k.closing /\ ~p.k.waiting
        /\ p.k.session = k.session /\ p.k.counted = k.counted /\ p.k.started = k.started
    <2>1. ReconnectInitial \in ReconnectInitial..ReconnectMax
      BY ReconnectAssumption
    <2> QED BY <1>0, <1>2, <1>4, <2>1 DEF Keeper
  <1>6. p \in Whole
    BY <1>0, <1>4, <1>5 DEF Whole
  <1>7. Sound(p)
    BY <1>0, <1>2, <1>4, <1>5, <1>6, NowParts DEF Sound, OneWait
  <1>8. Waiting(k, s) /\ k.started
    BY <1>0, NowParts DEF Rests, Busy, Free, Idle, Starting, Having
  <1>9. Free(p)
    BY <1>2, <1>4, <1>5, <1>8 DEF Free, Idle, Waiting, NoWait, NoSession
  <1>10. Sound(z) /\ Busy(z) /\ z.k.started
    BY <1>1, <1>5, <1>7, <1>8, <1>9, ConnectKeeps
  <1> QED BY <1>1, <1>10, Ends DEF Rests

\* close() of the runtime.
LEMMA CloseKeeps == ASSUME Inv, Close PROVE Inv'
  <1>1. Sound(Now)
    BY DEF Inv
  <1>2. Sound(CloseAll(Now)) /\ Rests(CloseAll(Now))
    BY <1>1, CloseAllKeeps DEF Rests, Busy, Free
  <1>3. PICK z \in {CloseAll(Now)} : k' = z.k /\ s' = z.s /\ e' = z.e /\ tried' = z.tried
    BY DEF Close, Becomes
  <1> QED BY <1>2, <1>3, Ends

\* Handlers that only change the slot's deadlines and flags.
LEMMA SlotKeeps ==
    ASSUME Inv, s' \in Slot, s'.session = s.session, s'.starting = s.starting,
           UNCHANGED <<k, e, tried>>
    PROVE  Inv'
  <1> DEFINE q == [k |-> k, s |-> s', e |-> e, tried |-> tried]
  <1>0. /\ Now \in Whole /\ k \in Keeper /\ s \in Slot
        /\ e \in Engines /\ tried \in BOOLEAN
        /\ Sound(Now) /\ Rests(Now)
    BY NowParts DEF Inv, Sound
  <1>1. q \in Whole /\ q.k = k /\ q.s = s' /\ q.e = e /\ q.tried = tried
    BY <1>0 DEF Whole
  <1> HIDE DEF q
  <1>2. Sound(q) /\ (Free(Now) => Free(q)) /\ (Busy(Now) => Busy(q))
    BY <1>0, <1>1, NowParts, SameKeeps
  <1>3. Rests(q)
    BY <1>0, <1>1, <1>2, NowParts DEF Rests
  <1> QED BY <1>1, <1>2, <1>3, Ends

\* A start's deadline passes.
LEMMA DeadlinePassesKeeps == ASSUME Inv, DeadlinePasses PROVE Inv'
  <1>0. s \in Slot
    BY NowParts DEF Inv, Sound
  <1>1. PICK d \in s.deadlines :
           s' = [s EXCEPT !.late = TRUE,
                     !.deadlines = (@ \ {d}) \cup {[d EXCEPT !.due = TRUE]}]
    BY DEF DeadlinePasses
  <1> DEFINE c == (s.deadlines \ {d}) \cup {[d EXCEPT !.due = TRUE]}
  <1>2. c \in SUBSET Deadlines
    <2>1. d \in Deadlines /\ s.deadlines \in SUBSET Deadlines
      BY <1>0 DEF Slot
    <2>2. [d EXCEPT !.due = TRUE] \in Deadlines
      BY <2>1 DEF Deadlines
    <2> QED BY <2>1, <2>2
  <1>3. s' = [s EXCEPT !.late = TRUE, !.deadlines = c]
    BY <1>0, <1>1 DEF Slot
  <1> HIDE DEF c
  <1>4. s' \in Slot /\ s'.session = s.session /\ s'.starting = s.starting
    BY <1>0, <1>2, <1>3 DEF Slot
  <1> QED BY <1>4, SlotKeeps DEF DeadlinePasses

\* The handler of a passed deadline.
LEMMA DeliverDeadlineKeeps == ASSUME Inv, DeliverDeadline PROVE Inv'
  <1>0. s \in Slot
    BY NowParts DEF Inv, Sound
  <1>1. PICK d \in s.deadlines :
           s' = IF d.fresh /\ s.starting
                THEN [TimeOut(s) EXCEPT !.deadlines = s.deadlines \ {d}]
                ELSE [s EXCEPT !.deadlines = s.deadlines \ {d}]
    BY DEF DeliverDeadline
  <1> DEFINE c == s.deadlines \ {d}
  <1>2. c \in SUBSET Deadlines
    BY <1>0 DEF Slot
  <1> HIDE DEF c
  <1>3. s' = [s EXCEPT !.timed_out = TRUE, !.cancelled = TRUE, !.deadlines = c]
          \/ s' = [s EXCEPT !.deadlines = c]
    BY <1>1 DEF TimeOut, c
  <1>4. s' \in Slot /\ s'.session = s.session /\ s'.starting = s.starting
    BY <1>0, <1>2, <1>3 DEF Slot
  <1> QED BY <1>4, SlotKeeps DEF DeliverDeadline

\* A start that is under way is what the client does, unless it closes.
LEMMA StartingNow ==
    ASSUME Inv, s.starting
    PROVE  /\ Sound(EndStart(Now)) /\ Free(EndStart(Now))
           /\ EndStart(Now).k = k /\ EndStart(Now).e = e /\ EndStart(Now).s.session = None
           /\ ~EndStart(Now).s.starting
           /\ k.closing \/ k.started
           /\ Outdated(e)
  <1>1. (Starting(k, s) /\ k.started) \/ k.closing
    BY NowParts DEF Inv, Rests, Busy, Free, Idle, Waiting, Having
  <1>2. Sound(Now) /\ (Starting(Now.k, Now.s) \/ Now.k.closing)
    BY <1>1, NowParts DEF Inv
  <1>3. s.session = None /\ Outdated(e)
    BY <1>2, NowParts DEF Sound, Told
  <1> QED BY <1>1, <1>2, <1>3, EndStartKeeps, NowParts

\* What on_session() with a failure leaves of a client that did nothing else.
LEMMA FailureRests ==
    ASSUME NEW p, NEW z, Sound(p), Free(p), p.k.closing \/ p.k.started,
           z \in StartFailed(p)
    PROVE  Sound(z) /\ Rests(z)
  <1>1. CASE p.k.closing
    BY <1>1 DEF StartFailed, Rests, Busy, Free
  <1>2. CASE ~p.k.closing
    BY <1>2, StartFailedKeeps DEF Rests
  <1> QED BY <1>1, <1>2

\* settled() with a failed start.
LEMMA SettleFailedKeeps == ASSUME Inv, SettleFailed PROVE Inv'
  <1> DEFINE p == EndStart(Now)
  <1>1. s.starting
    BY DEF SettleFailed
  <1>2. PICK z \in StartFailed(p) : k' = z.k /\ s' = z.s /\ e' = z.e /\ tried' = z.tried
    BY DEF SettleFailed, Becomes
  <1>3. Sound(p) /\ Free(p) /\ (p.k.closing \/ p.k.started)
    BY <1>1, StartingNow
  <1> HIDE DEF p
  <1>4. Sound(z) /\ Rests(z)
    BY <1>2, <1>3, FailureRests
  <1> QED BY <1>2, <1>4, Ends

\* settled() stops a session that came too late or cannot be observed.
LEMMA RefuseKeeps ==
    ASSUME NEW p, NEW z, NEW i \in Sessions, Sound(p), Free(p), ~p.s.starting,
           p.s.session = None, p.k.closing \/ p.k.started, z \in RefuseSession(p, i)
    PROVE  Sound(z) /\ Rests(z)
  <1>1. PICK o \in BOOLEAN :
          z \in StartFailed([p EXCEPT !.e[i] =
                    [state |-> "ending", observed |-> o, fresh |-> TRUE]])
    BY DEF RefuseSession
  <1> DEFINE r == [state |-> "ending", observed |-> o, fresh |-> TRUE]
             q == [p EXCEPT !.e[i] = r]
  <1>2. r \in Engine /\ r.state # "active"
    BY DEF Engine
  <1>3. /\ p \in Whole /\ p.k \in Keeper /\ p.s \in Slot
        /\ p.e \in Engines /\ p.tried \in BOOLEAN
    BY DEF Sound, Whole
  <1> HIDE DEF r
  <1>4. /\ q.e = [p.e EXCEPT ![i] = r] /\ q.k = p.k /\ q.s = p.s /\ q.tried = p.tried
        /\ q = [k |-> q.k, s |-> q.s, e |-> q.e, tried |-> q.tried]
    <2>1. q = [p EXCEPT !.e[i] = r]
      OBVIOUS
    <2> HIDE DEF q
    <2> QED BY <1>3, <2>1 DEF Whole
  <1> HIDE DEF q
  <1>5. q.e \in Engines /\ \A j \in Sessions : q.e[j] = IF j = i THEN r ELSE p.e[j]
    BY <1>2, <1>3, <1>4 DEF Engines
  <1>6. q \in Whole
    BY <1>3, <1>4, <1>5 DEF Whole
  <1>7. Sound(q) /\ Free(q)
    BY <1>2, <1>4, <1>5, <1>6 DEF Sound, Owned, Told, Free
  <1>8. z \in StartFailed(q)
    BY <1>1 DEF q, r
  <1> QED BY <1>4, <1>7, <1>8, FailureRests

\* settled() takes the session into the slot.
LEMMA TakeKeeps ==
    ASSUME NEW p, NEW z, NEW i \in Sessions, Sound(p), Free(p), ~p.s.starting,
           p.s.session = None, p.k.closing \/ p.k.started, Outdated(p.e),
           z \in TakeSession(p, i)
    PROVE  Sound(z) /\ Rests(z)
  <1> DEFINE r == [state |-> "active", observed |-> TRUE, fresh |-> TRUE]
             q == [p EXCEPT !.s.session = i, !.e[i] = r]
  <1>1. z \in SessionUp(q, i)
    BY DEF TakeSession
  <1>2. r \in Engine
    BY DEF Engine
  <1>3. /\ p \in Whole /\ p.k \in Keeper /\ p.s \in Slot
        /\ p.e \in Engines /\ p.tried \in BOOLEAN
    BY DEF Sound, Whole
  <1>4. /\ q.s = [p.s EXCEPT !.session = i] /\ q.e = [p.e EXCEPT ![i] = r]
        /\ q.k = p.k /\ q.tried = p.tried
        /\ q = [k |-> q.k, s |-> q.s, e |-> q.e, tried |-> q.tried]
    <2>1. q = [p EXCEPT !.s.session = i, !.e[i] = r]
      OBVIOUS
    <2> HIDE DEF q, r
    <2> QED BY <1>3, <2>1 DEF Whole
  <1> HIDE DEF q, r
  <1>5. q.e \in Engines /\ \A j \in Sessions : q.e[j] = IF j = i THEN r ELSE p.e[j]
    BY <1>2, <1>3, <1>4 DEF Engines
  <1>6. q.s \in Slot /\ q.s.session = i /\ q.s.starting = p.s.starting
    BY <1>3, <1>4 DEF Slot
  <1>7. q \in Whole
    BY <1>3, <1>4, <1>5, <1>6 DEF Whole
  <1>8. i # None /\ None \notin Sessions
    BY ReconnectAssumption
  <1>9. \A j \in Sessions : ~p.e[j].fresh /\ p.e[j].state # "active"
    BY <1>8 DEF Outdated, Sound, Owned
  <1>10. Sound(q)
    BY <1>4, <1>5, <1>6, <1>7, <1>9 DEF Sound, Owned, Told
  <1>11. CASE p.k.closing
    <2> DEFINE y == [q EXCEPT !.e = StopEngine(@, i)]
    <2>1. z = y
      BY <1>1, <1>4, <1>11 DEF SessionUp
    <2>2. /\ y.e = StopEngine(q.e, i) /\ y.k = q.k /\ y.s = q.s /\ y.tried = q.tried
          /\ y = [k |-> y.k, s |-> y.s, e |-> y.e, tried |-> y.tried]
      BY <1>7 DEF Whole
    <2> HIDE DEF y
    <2>3. /\ y.e \in Engines
          /\ \A j \in Sessions : y.e[j].fresh = q.e[j].fresh
          /\ \A j \in Sessions : y.e[j].state = "active" => q.e[j].state = "active"
      BY <1>5, <2>2 DEF Engines, Engine, StopEngine
    <2>4. y \in Whole
      BY <1>7, <2>2, <2>3 DEF Whole
    <2>5. Sound(y)
      BY <1>10, <1>6, <2>2, <2>3, <2>4 DEF Sound, Owned, Told, Outdated
    <2> QED BY <1>4, <1>11, <2>1, <2>2, <2>5 DEF Rests, Busy, Free
  <1>12. CASE ~p.k.closing
    <2> DEFINE y == [q EXCEPT !.k.session = i, !.k.counted = i, !.k.status = "Connected"]
    <2>1. z = y
      BY <1>1, <1>4, <1>12 DEF SessionUp
    <2>2. /\ y.k = [q.k EXCEPT !.session = i, !.counted = i, !.status = "Connected"]
          /\ y.e = q.e /\ y.s = q.s /\ y.tried = q.tried
          /\ y = [k |-> y.k, s |-> y.s, e |-> y.e, tried |-> y.tried]
      <3>1. y = [q EXCEPT !.k.session = i, !.k.counted = i, !.k.status = "Connected"]
        OBVIOUS
      <3> HIDE DEF y
      <3> QED BY <1>7, <3>1 DEF Whole, Keeper
    <2> HIDE DEF y
    <2>3. /\ y.k \in Keeper /\ y.k.session = i /\ y.k.counted = i
          /\ y.k.closing = p.k.closing /\ y.k.waiting = p.k.waiting
          /\ y.k.waits = p.k.waits /\ y.k.started = p.k.started
      <3>1. q.k \in Keeper /\ q.k = p.k /\ i \in Sessions \cup {None}
        BY <1>3, <1>4
      <3>2. y.k \in Keeper
        BY <2>2, <3>1 DEF Keeper
      <3> QED BY <2>2, <3>1, <3>2 DEF Keeper
    <2>4. y \in Whole
      BY <1>7, <2>2, <2>3 DEF Whole
    <2>5. Sound(y)
      BY <1>4, <1>10, <2>2, <2>3, <2>4 DEF Sound, OneWait
    <2>6. Having(y.k, y.s)
      BY <1>6, <1>8, <1>12, <2>2, <2>3 DEF Having, Free, Idle, NoWait
    <2> QED BY <1>12, <2>1, <2>3, <2>5, <2>6 DEF Rests, Busy
  <1> QED BY <1>11, <1>12

\* settled() with a session.
LEMMA SettleUpKeeps == ASSUME Inv, SettleUp PROVE Inv'
  <1> DEFINE p == EndStart(Now)
             i == CHOOSE j \in Sessions : e[j].state = "free"
  <1>1. s.starting /\ i \in Sessions
    BY DEF SettleUp
  <1>2. PICK z \in TakeSession(p, i) \cup RefuseSession(p, i) :
            k' = z.k /\ s' = z.s /\ e' = z.e /\ tried' = z.tried
    <2>1. Becomes(RefuseSession(p, i)) \/ Becomes(TakeSession(p, i) \cup RefuseSession(p, i))
      BY DEF SettleUp
    <2> HIDE DEF p, i
    <2> QED BY <2>1 DEF Becomes
  <1>3. /\ Sound(p) /\ Free(p) /\ p.k = k /\ p.e = e /\ p.s.session = None
        /\ ~p.s.starting /\ (p.k.closing \/ p.k.started) /\ Outdated(p.e)
    BY <1>1, StartingNow
  <1> HIDE DEF p, i
  <1>4. Sound(z) /\ Rests(z)
    BY <1>1, <1>2, <1>3, TakeKeeps, RefuseKeeps
  <1> QED BY <1>2, <1>4, Ends

\* Engines that end or are stopped, with changes of the slot's flags.
LEMMA EnginesKeep ==
    ASSUME Inv, s' \in Slot, s'.session = s.session, s'.starting = s.starting,
           e' \in Engines, UNCHANGED <<k, tried>>,
           \A j \in Sessions : e'[j].fresh = e[j].fresh,
           \A j \in Sessions : e'[j].state = "active" => e[j].state = "active"
    PROVE  Inv'
  <1> DEFINE q == [k |-> k, s |-> s', e |-> e', tried |-> tried]
  <1>0. /\ Now \in Whole /\ k \in Keeper /\ s \in Slot
        /\ e \in Engines /\ tried \in BOOLEAN
        /\ Sound(Now) /\ Rests(Now)
    BY NowParts DEF Inv, Sound
  <1>1. q \in Whole /\ q.k = k /\ q.s = s' /\ q.e = e' /\ q.tried = tried
    BY <1>0 DEF Whole
  <1> HIDE DEF q
  <1>2. Sound(q)
    BY <1>0, <1>1, NowParts DEF Sound, OneWait, Owned, Told, Outdated
  <1>3. Rests(q)
    BY <1>0, <1>1, NowParts
    DEF Rests, Busy, Free, Idle, Starting, Waiting, Having, NoSession
  <1> QED BY <1>1, <1>2, <1>3, Ends

\* close_on_context().
LEMMA CloseOnContextKeeps == ASSUME Inv, CloseOnContext PROVE Inv'
  <1>0. s \in Slot /\ e \in Engines
    BY NowParts DEF Inv, Sound
  <1> DEFINE c == CancelDeadlines(s.deadlines)
             b == s.cancelled \/ s.starting
  <1>1. c \in SUBSET Deadlines /\ b \in BOOLEAN
    BY <1>0 DEF Slot, CancelDeadlines
  <1>2. s' = [s EXCEPT !.closeQueued = FALSE, !.cancelled = b, !.deadlines = c]
    BY <1>0 DEF CloseOnContext, Slot
  <1> HIDE DEF c, b
  <1>3. s' \in Slot /\ s'.session = s.session /\ s'.starting = s.starting
    BY <1>0, <1>1, <1>2 DEF Slot
  <1>4. /\ e' \in Engines
        /\ \A j \in Sessions : e'[j].fresh = e[j].fresh
        /\ \A j \in Sessions : e'[j].state = "active" => e[j].state = "active"
    <2>1. s.session \in Sessions \cup {None}
      BY <1>0 DEF Slot
    <2>2. e' = e \/ (s.session \in Sessions /\ e' = StopEngine(e, s.session))
      BY <2>1 DEF CloseOnContext
    <2> QED BY <1>0, <2>2 DEF Engines, Engine, StopEngine
  <1> QED BY <1>3, <1>4, EnginesKeep DEF CloseOnContext

\* A session fails or is stopped.
LEMMA SessionEndsKeeps == ASSUME Inv, SessionEnds PROVE Inv'
  <1>0. s \in Slot /\ e \in Engines
    BY NowParts DEF Inv, Sound
  <1>1. /\ e' \in Engines
        /\ \A j \in Sessions : e'[j].fresh = e[j].fresh
        /\ \A j \in Sessions : e'[j].state = "active" => e[j].state = "active"
    BY <1>0 DEF SessionEnds, Engines, Engine, StopEngine
  <1> QED BY <1>0, <1>1, EnginesKeep DEF SessionEnds

\* An engine's teardown is complete.
LEMMA TeardownKeeps == ASSUME Inv, TeardownCompletes PROVE Inv'
  <1>0. s \in Slot /\ e \in Engines
    BY NowParts DEF Inv, Sound
  <1>1. PICK i \in Sessions : e' = [e EXCEPT ![i].state = IF e[i].observed THEN "ended" ELSE "free"]
    BY DEF TeardownCompletes
  <1> DEFINE v == IF e[i].observed THEN "ended" ELSE "free"
  <1>2. v \in {"free", "ended"} /\ e' = [e EXCEPT ![i].state = v]
    BY <1>1
  <1> HIDE DEF v
  <1>3. /\ e' \in Engines
        /\ \A j \in Sessions : e'[j].fresh = e[j].fresh
        /\ \A j \in Sessions : e'[j].state = "active" => e[j].state = "active"
    BY <1>0, <1>2 DEF Engines, Engine
  <1> QED BY <1>0, <1>3, EnginesKeep DEF TeardownCompletes

\* An engine whose end was delivered is free again.
LEMMA FreedKeeps ==
    ASSUME NEW p, NEW i \in Sessions, Sound(p), Rests(p)
    PROVE  Sound([p EXCEPT !.e[i].state = "free"]) /\ Rests([p EXCEPT !.e[i].state = "free"])
  <1> DEFINE q == [p EXCEPT !.e[i].state = "free"]
  <1>0. /\ p \in Whole /\ p.k \in Keeper /\ p.s \in Slot
        /\ p.e \in Engines /\ p.tried \in BOOLEAN
    BY DEF Sound, Whole
  <1>1. /\ q.e = [p.e EXCEPT ![i].state = "free"] /\ q.k = p.k /\ q.s = p.s /\ q.tried = p.tried
        /\ q = [k |-> q.k, s |-> q.s, e |-> q.e, tried |-> q.tried]
    <2>1. q = [p EXCEPT !.e[i].state = "free"]
      OBVIOUS
    <2> HIDE DEF q
    <2> QED BY <1>0, <2>1 DEF Whole
  <1> HIDE DEF q
  <1>2. /\ q.e \in Engines
        /\ \A j \in Sessions : q.e[j].fresh = p.e[j].fresh
        /\ \A j \in Sessions : q.e[j].state = "active" => p.e[j].state = "active"
    BY <1>0, <1>1 DEF Engines, Engine
  <1>3. q \in Whole
    BY <1>0, <1>1, <1>2 DEF Whole
  <1>4. Sound(q)
    BY <1>1, <1>2, <1>3 DEF Sound, Owned, Told, Outdated
  <1>5. Rests(q)
    BY <1>1 DEF Rests, Busy, Free
  <1> QED BY <1>4, <1>5 DEF q

\* ended(): the notice of the slot's session, or of an earlier one.
LEMMA DeliverEndKeeps == ASSUME Inv, DeliverEnd PROVE Inv'
  <1>0. /\ Now \in Whole /\ k \in Keeper /\ s \in Slot
        /\ e \in Engines /\ tried \in BOOLEAN
        /\ Sound(Now) /\ Rests(Now)
    BY NowParts DEF Inv, Sound
  <1>1. PICK i \in Sessions : /\ e[i].state = "ended"
                              /\ Becomes({[p EXCEPT !.e[i].state = "free"] : p \in Ended(Now, i)})
    BY DEF DeliverEnd
  <1>2. PICK p \in Ended(Now, i) :
            LET z == [p EXCEPT !.e[i].state = "free"]
            IN  k' = z.k /\ s' = z.s /\ e' = z.e /\ tried' = z.tried
    BY <1>1 DEF Becomes
  <1>3. Sound(p) /\ Rests(p)
    <2>1. CASE ~e[i].fresh \/ s.session = None
      BY <1>0, <1>2, <2>1, NowParts DEF Ended
    <2>2. CASE e[i].fresh /\ s.session # None
      <3> DEFINE q == [Now EXCEPT !.s.session = None]
      <3>1. p \in SessionDown(q, s.session)
        BY <1>2, <2>2, NowParts DEF Ended
      <3>2. /\ q.s = [s EXCEPT !.session = None] /\ q.k = k /\ q.e = e /\ q.tried = tried
            /\ q = [k |-> q.k, s |-> q.s, e |-> q.e, tried |-> q.tried]
        <4>1. q = [Now EXCEPT !.s.session = None]
          OBVIOUS
        <4> HIDE DEF q
        <4> QED BY <1>0, <4>1, NowParts DEF Whole
      <3> HIDE DEF q
      <3>3. q.s \in Slot /\ q.s.session = None /\ q.s.starting = s.starting
        BY <1>0, <3>2 DEF Slot
      <3>4. q \in Whole
        BY <1>0, <3>2, <3>3 DEF Whole
      <3>5. s.session = i /\ ~s.starting
        BY <1>0, <2>2, NowParts DEF Sound, Told, Outdated
      <3>6. \A j \in Sessions : e[j].state # "active"
        BY <1>0, <1>1, <3>5, NowParts DEF Sound, Owned
      <3>7. Sound(q)
        BY <1>0, <3>2, <3>3, <3>4, <3>5, <3>6, NowParts DEF Sound, Owned, Told
      <3>8. k.closing \/ (k.started /\ Having(k, s))
        BY <1>0, <2>2, NowParts DEF Rests, Busy, Free, Idle, Starting, Waiting, NoSession
      <3>9. CASE k.closing
        BY <3>1, <3>2, <3>7, <3>9 DEF SessionDown, Rests, Busy, Free
      <3>10. CASE ~k.closing
        <4> DEFINE x == [q.k EXCEPT !.session = None, !.counted = None]
        <4>1. /\ x.session = None /\ x.counted = None /\ x.waiting = k.waiting
              /\ x.waits = k.waits
          BY <1>0, <3>2 DEF Keeper
        <4> HIDE DEF x
        <4>2. Idle(x, q.s) /\ q.k.session = s.session
          BY <3>2, <3>3, <3>8, <3>10, <4>1 DEF Idle, Having, NoWait, NoSession
        <4>3. Sound(p) /\ Busy(p) /\ p.k.started = q.k.started
          BY <3>1, <3>7, <4>2, SessionDownKeeps DEF x
        <4> QED BY <3>2, <3>8, <3>10, <4>3 DEF Rests
      <3> QED BY <3>9, <3>10
    <2> QED BY <2>1, <2>2
  <1> DEFINE z == [p EXCEPT !.e[i].state = "free"]
  <1>4. Sound(z) /\ Rests(z)
    BY <1>3, FreedKeeps
  <1>5. k' = z.k /\ s' = z.s /\ e' = z.e /\ tried' = z.tried
    BY <1>2
  <1> HIDE DEF z
  <1> QED BY <1>4, <1>5, Ends
-----------------------------------------------------------------------------

\* Every handler keeps the invariant.
LEMMA NextInv == Inv /\ [Next]_vars => Inv'
  <1> SUFFICES ASSUME Inv, [Next]_vars PROVE Inv'
    OBVIOUS
  <1>1. CASE Next
    BY <1>1, StartKeeps, WaitExpiresKeeps, DeliverWaitKeeps, RetryNowKeeps,
       CloseKeeps, DeadlinePassesKeeps, DeliverDeadlineKeeps, SettleFailedKeeps,
       SettleUpKeeps, CloseOnContextKeeps, SessionEndsKeeps, TeardownKeeps,
       DeliverEndKeeps
    DEF Next
  <1>2. CASE UNCHANGED vars
    <2>1. Now' = Now
      BY <1>2 DEF vars, Now
    <2> QED BY <2>1 DEF Inv
  <1> QED BY <1>1, <1>2

\* The invariant is about one thing at a time, and about owned sessions.
LEMMA InvOne == Inv => TypeOK /\ OneOwnedSession
  <1> SUFFICES ASSUME Inv PROVE TypeOK /\ OneOwnedSession
    OBVIOUS
  <1>0. /\ k \in Keeper /\ s \in Slot /\ e \in Engines /\ tried \in BOOLEAN
        /\ OneWait(k) /\ Owned(s, e) /\ Rests(Now)
    BY NowParts DEF Inv, Sound
  <1>1. TypeOK
    BY <1>0 DEF TypeOK, Keeper, Slot, Engines, Engine, Waits, Deadlines
  <1>2. SessionsAreOwned
    BY <1>0 DEF Owned, SessionsAreOwned
  <1>3. OneThingAtATime
    <2> SUFFICES ASSUME k.started, ~k.closing
                 PROVE  /\ (IF s.starting THEN 1 ELSE 0) + (IF k.waiting THEN 1 ELSE 0)
                              + (IF k.session # None THEN 1 ELSE 0) = 1
                        /\ k.waiting <=> \E w \in k.waits : w.fresh /\ w.state # "cancelled"
                        /\ k.session = s.session /\ k.counted = k.session
      BY DEF OneThingAtATime
    <2>1. Starting(k, s) \/ Waiting(k, s) \/ Having(k, s)
      BY <1>0, NowParts DEF Rests, Busy
    <2>2. \A w \in k.waits : w.fresh => w.state # "cancelled"
      BY <1>0 DEF OneWait
    <2> QED BY <2>1, <2>2 DEF Starting, Waiting, Having, NoWait, NoSession
  <1> QED BY <1>1, <1>2, <1>3 DEF OneOwnedSession

\* A client that is not closed does exactly one thing, starting a session,
\* waiting to start one or having one, and the keeper, its traffic count and the
\* endpoint agree on it; and no session runs that the endpoint does not hold:
\* for any number of engines still tearing down, any backoff limits, and all
\* orders of late timers, late starts and late notices.
THEOREM ClientHasOneSession == Spec => [](TypeOK /\ OneOwnedSession)
  <1> QED BY InitInv, NextInv, InvOne, PTL DEF Spec
=============================================================================

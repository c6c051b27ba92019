----------------------------- MODULE CircuitPool -----------------------------
(***************************************************************************)
(* src/src/runtime/circuit_pool.cpp: the circuits of a client.  It fetches *)
(* the routes view of its session, builds circuits of the length in use,   *)
(* opens every stream through one of them, and may use a shorter length    *)
(* only with the configuration's or the user's approval.                   *)
(*                                                                         *)
(* Everything runs on one context, so a handler is one action.  A handler  *)
(* is a function from the pool's state x to its next state, as the methods *)
(* of CircuitPool::State call each other.  A route appears through its     *)
(* length: which lengths the chooser finds a route of (a) depends on the   *)
(* view, on exclusions and on time, and may differ at every handler.       *)
(***************************************************************************)
EXTENDS Integers, Sequences, SequencesExt, FiniteSetsExt

CONSTANTS Hops,         \* options.hops, the configured length
          MinHops,      \* options.min_hops
          Attempts,     \* options.attempts
          Capacity,     \* streams a circuit takes at once
          Opens,        \* requests for a stream in a behaviour
          Plain,        \* the ones to port 80, with plain HTTP refused
          MaxSessions,  \* bound on set_session calls
          MaxEntries    \* bound on circuits kept: further builds fail

ASSUME PoolAssumption ==
    /\ Hops \in 2..3 /\ MinHops \in 1..Hops
    /\ {Attempts, Capacity, MaxEntries} \subseteq Nat \ {0}
    /\ MaxSessions \in Nat /\ Plain \subseteq Opens

VARIABLES pool,     \* CircuitPool::State
          req,      \* what became of each request
          consent   \* shortest length the user accepted since a circuit of
                    \* the configured length was last built
vars == <<pool, req, consent>>

Lengths == 2..Hops
NoConsent == Hops

\* What routes() may find: a route of three nodes without its middle is one of two.
Routes == {2..longest : longest \in 1..Hops}

Init ==
    /\ pool = [gen |-> 0, session |-> FALSE, view |-> "idle", expired |-> FALSE,
               chooser |-> FALSE, entries |-> <<>>, waiters |-> <<>>,
               building |-> FALSE, ops |-> {}, fetches |-> {}, attempts |-> 0,
               current |-> Hops, accepted |-> 0, proposal |-> 0,
               spareLater |-> FALSE, posted |-> FALSE, closed |-> FALSE,
               \* requests the handler settles, or hands to a circuit or the session
               told |-> {}, handed |-> {}]
    /\ req = [o \in Opens |-> [state |-> "new", cancelled |-> FALSE]]
    /\ consent = NoConsent

-----------------------------------------------------------------------------
(* Helpers of the state.                                                   *)

\* The elements of a sequence that are in S, in their order.
Only(s, S) ==
    LET kept[n \in 0..Len(s)] ==
            IF n = 0 THEN <<>>
            ELSE IF s[n] \in S THEN Append(kept[n - 1], s[n])
            ELSE kept[n - 1]
    IN  kept[Len(s)]

FailWaiters(x) == [x EXCEPT !.told = @ \cup ToSet(x.waiters), !.waiters = <<>>]

DiscardProposal(x) ==
    IF x.current # 0 THEN [x EXCEPT !.proposal = 0]
    ELSE [x EXCEPT !.proposal = 0, !.current = Hops, !.attempts = 0]

ProposalCurrent(x) ==
    ~x.closed /\ x.session /\ x.view = "ready" /\ x.chooser /\ ~x.expired /\ x.proposal # 0

AllowedMin(x) == IF x.accepted = 0 THEN MinHops ELSE Min({MinHops, x.accepted})

Usable(x, e) == e.open /\ e.len = x.current /\ e.streams < Capacity /\ e.age # "old"

FetchView(x) ==
    [DiscardProposal(x) EXCEPT !.view = "fetching", !.fetches = @ \cup {x.gen}]

\* A circuit takes a stream.
Taken(e) == [e EXCEPT !.streams = @ + 1, !.age = "used"]

\* One waiter of the loop in pump_now; blocked once one finds no circuit.
ServeOne(acc, o) ==
    LET x == acc.x
        free == {i \in DOMAIN x.entries : Usable(x, x.entries[i])}
        waits == [x EXCEPT !.waiters = Append(@, o)]
        fails == [x EXCEPT !.told = @ \cup {o}]
        direct == [x EXCEPT !.handed = @ \cup {o}]
        through(i) == [x EXCEPT !.handed = @ \cup {o},
                                !.entries = [x.entries EXCEPT ![i] = Taken(@)]]
    IN  IF acc.blocked THEN [x |-> waits, blocked |-> TRUE]
        ELSE IF x.current = 0 \/ (o \in Plain /\ x.current # 1)
             THEN [x |-> fails, blocked |-> FALSE]
        ELSE IF x.current = 1 THEN [x |-> direct, blocked |-> FALSE]
        ELSE IF free = {} THEN [x |-> waits, blocked |-> TRUE]
        ELSE [x |-> through(Min(free)), blocked |-> FALSE]

ServeWaiters(x) ==
    LET after[n \in 0..Len(x.waiters)] ==
            IF n = 0 THEN [x |-> [x EXCEPT !.waiters = <<>>], blocked |-> FALSE]
            ELSE ServeOne(after[n - 1], x.waiters[n])
    IN  after[Len(x.waiters)].x

\* pump_now up to its last decision, whether to build.
Serve(x) ==
    LET live == Only(x.waiters, {o \in Opens : ~req[o].cancelled})
        y == [x EXCEPT !.entries = Only(@, {e \in ToSet(@) : e.open}),
                       !.waiters = live,
                       !.told = @ \cup (ToSet(x.waiters) \ ToSet(live))]
    IN  IF x.closed THEN FailWaiters(x)
        ELSE IF live = <<>> /\ (~x.session \/ x.view = "failed") THEN y
        ELSE IF ~x.session \/ x.view = "failed" THEN FailWaiters(y)
        ELSE IF x.view = "idle" THEN FetchView(y)
        ELSE IF x.view = "fetching" THEN y
        ELSE ServeWaiters(y)

NoSpare(x) ==
    ~x.spareLater /\ ~\E e \in ToSet(x.entries) : Usable(x, e) /\ e.streams = 0

BuildingNeeded(x) ==
    /\ ~x.closed /\ x.session /\ x.view = "ready" /\ ~x.building /\ x.current >= 2
    /\ x.waiters # <<>> \/ NoSpare(x)

BeginBuild(x, len, probe) ==
    [x EXCEPT !.building = TRUE,
              !.ops = @ \cup {[stage |-> "opening", gen |-> x.gen, len |-> len,
                               probe |-> probe]}]

\* propose(), from the given length down.
Propose(x, a, longest) ==
    LET lengths == {l \in 1..longest : l = 1 \/ l \in a}
        able == x.chooser /\ x.view = "ready" /\ x.session /\ ~x.closed /\ ~x.expired
    IN  [x EXCEPT !.proposal = IF able /\ lengths # {} THEN Max(lengths) ELSE 0]

\* length_failed() and the shorter lengths it tries in turn, as approved.
LengthFailed(x, a, len) ==
    LET approved == {l \in 1..(len - 1) : l >= AllowedMin(x)}
        taken == {l \in approved : l = 1 \/ l \in a \/ ~x.chooser}
        use == Max(taken)
        y == [x EXCEPT !.attempts = 0, !.current = use]
    IN  IF taken = {}
        THEN FailWaiters(Propose([x EXCEPT !.attempts = 0, !.current = 0], a,
                                 Min({len - 1, AllowedMin(x) - 1})))
        ELSE IF use = 1 THEN Serve(y)
        ELSE IF x.chooser THEN BeginBuild(y, use, FALSE) ELSE y

StartBuild(x, a, len) ==
    IF ~x.chooser THEN x
    ELSE IF len \in a THEN BeginBuild(x, len, FALSE)
    ELSE LengthFailed(x, a, len)

Pump(x, a) == LET y == Serve(x) IN IF BuildingNeeded(y) THEN StartBuild(y, a, y.current) ELSE y

\* Mutant: after a probe that fails, the requests that came meanwhile are left.
BuildFailedQuietly(x, a, op) ==
    IF op.probe THEN x
    ELSE IF op.len = x.current /\ \E e \in ToSet(x.entries) : Usable(x, e)
         THEN Pump([x EXCEPT !.spareLater = TRUE], a)
    ELSE IF x.attempts + 1 < Attempts
         THEN StartBuild([x EXCEPT !.attempts = @ + 1], a, op.len)
    ELSE LengthFailed(x, a, op.len)

BuildFailed(x, a, op) ==
    IF op.probe THEN Pump(x, a)
    ELSE IF op.len = x.current /\ \E e \in ToSet(x.entries) : Usable(x, e)
         THEN Pump([x EXCEPT !.spareLater = TRUE], a)
    ELSE IF x.attempts + 1 < Attempts
         THEN StartBuild([x EXCEPT !.attempts = @ + 1], a, op.len)
    ELSE LengthFailed(x, a, op.len)

NewEntry(op) == [len |-> op.len, gen |-> op.gen, open |-> TRUE, streams |-> 0,
                 age |-> "new", idle |-> FALSE]

\* Mutant: any circuit that works, of the accepted length too, ends the acceptance.
BuiltForgets(x, a, op) ==
    LET longer == op.probe \/ op.len > x.current
    IN  Pump([x EXCEPT !.attempts = 0, !.accepted = 0,
                       !.current = IF longer THEN op.len ELSE @,
                       !.proposal = IF longer THEN 0 ELSE @,
                       !.entries = Append(@, NewEntry(op))], a)

Built(x, a, op) ==
    LET y == IF op.probe \/ op.len > x.current
             THEN [x EXCEPT !.attempts = 0, !.current = op.len, !.accepted = 0,
                            !.proposal = 0]
             ELSE [x EXCEPT !.attempts = 0]
    IN  Pump([y EXCEPT !.entries = Append(@, NewEntry(op))], a)

\* Closing a circuit of the pool posts a pump through its observer.
CloseEntries(x) ==
    [x EXCEPT !.posted = @ \/ \E e \in ToSet(x.entries) : e.open, !.entries = <<>>]

\* Mutant: the circuit being built is left to end by itself.
EndPendingLater(x) == x

EndPending(x) == [x EXCEPT !.ops = {op \in @ : op.stage # "building"}]

\* A circuit that closed waits to be erased; what it was no longer matters.
Ended(e) == [e EXCEPT !.open = FALSE, !.streams = 0, !.age = "old", !.idle = FALSE]

\* maintain(): idle and rotated circuits close, but one current spare stays.
MaintainEntries(x, long) ==
    LET kept(i) == LET e == x.entries[i]
                   IN  e.open /\ e.streams = 0 /\ e.idle /\ e.age # "old" /\ e.len = x.current
        ends(i) == LET e == x.entries[i]
                   IN  /\ e.open /\ e.streams = 0
                       /\ \/ e.age = "old"
                          \/ e.idle /\ long /\ (kept(i) => \E j \in 1..(i - 1) : kept(j))
        next(i) == LET e == x.entries[i]
                   IN  IF ends(i) THEN Ended(e)
                       ELSE IF e.open THEN [e EXCEPT !.idle = e.streams = 0] ELSE e
    IN  [x EXCEPT !.entries = [i \in DOMAIN x.entries |-> next(i)],
                  !.posted = @ \/ \E i \in DOMAIN x.entries : ends(i)]

RefreshView(x) ==
    IF (x.view = "failed" /\ x.session) \/ (x.view = "ready" /\ x.expired)
    THEN [DiscardProposal(x) EXCEPT !.view = "idle", !.expired = FALSE] ELSE x

\* probe_configured().  Whether next_recheck has come needs no choice of its own:
\* a probe that is not due leaves what one without a route leaves.
Probe(x, a) ==
    IF /\ x.current < Hops /\ ~x.building /\ x.view = "ready"
       /\ x.session /\ x.chooser /\ Hops \in a
    THEN BeginBuild(x, Hops, TRUE) ELSE x

-----------------------------------------------------------------------------
(* Actions.  Finish applies a handler's result: it tells the requests that *)
(* were settled and marks the ones handed over.                            *)

Finish(x) ==
    /\ pool' = [x EXCEPT !.told = {}, !.handed = {}]
    /\ req' = [o \in Opens |->
                 IF o \in x.told THEN [req[o] EXCEPT !.state = "settled"]
                 ELSE IF o \in x.handed THEN [req[o] EXCEPT !.state = "handed"]
                 ELSE IF o \in ToSet(x.waiters) THEN [req[o] EXCEPT !.state = "waiting"]
                 ELSE req[o]]

Stale(gen) == gen # pool.gen \/ pool.closed

\* No build starts before the view, so what routes there are does not matter.
SetSession(session) ==
    /\ pool.gen < MaxSessions /\ ~pool.closed
    /\ session \/ pool.session
    /\ LET x == [DiscardProposal([pool EXCEPT !.gen = @ + 1, !.session = session])
                   EXCEPT !.building = FALSE, !.attempts = 0, !.view = "idle",
                          !.expired = FALSE, !.chooser = FALSE]
       IN  Finish(Pump(EndPending(CloseEntries(x)), {}))
    /\ UNCHANGED consent

Open(o, a) ==
    /\ req[o].state = "new"
    /\ Finish(Pump([pool EXCEPT !.waiters = Append(@, o)], a))
    /\ UNCHANGED consent

\* The token of a request is cancelled, from any thread: it posts a pump.
Cancel(o) ==
    /\ req[o].state = "waiting" /\ ~req[o].cancelled
    /\ req' = [req EXCEPT ![o].cancelled = TRUE]
    /\ pool' = [pool EXCEPT !.posted = TRUE]
    /\ UNCHANGED consent

PostedPump(a) ==
    /\ pool.posted
    /\ Finish(Pump([pool EXCEPT !.posted = FALSE], a))
    /\ UNCHANGED consent

\* The circuit or the session answers a request it was handed.
Delivered(o) ==
    /\ req[o].state = "handed"
    /\ req' = [req EXCEPT ![o].state = "settled"]
    /\ UNCHANGED <<pool, consent>>

ViewArrives(gen, a) ==
    /\ gen \in pool.fetches
    /\ LET x == [pool EXCEPT !.fetches = @ \ {gen}]
           y == [DiscardProposal(x) EXCEPT !.view = "ready", !.expired = FALSE, !.chooser = TRUE]
       IN  Finish(IF Stale(gen) THEN x ELSE Pump(y, a))
    /\ UNCHANGED consent

ViewFails(gen) ==
    /\ gen \in pool.fetches
    /\ LET x == [pool EXCEPT !.fetches = @ \ {gen}]
           y == [DiscardProposal(x) EXCEPT !.view = "failed", !.chooser = FALSE]
       IN  Finish(IF Stale(gen) THEN x ELSE FailWaiters(y))
    /\ UNCHANGED consent

\* The circuit service of the entry opens: build_on.
BuildOpens(op) ==
    /\ op.stage = "opening"
    /\ LET x == [pool EXCEPT !.ops = @ \ {op}]
       IN  Finish(IF Stale(op.gen) THEN x
                  ELSE [x EXCEPT !.ops = @ \cup {[op EXCEPT !.stage = "building"]}])
    /\ UNCHANGED consent

BuildFails(op, a) ==
    /\ LET x == [pool EXCEPT !.ops = @ \ {op}]
       IN  Finish(IF Stale(op.gen) THEN x
                  ELSE BuildFailed([x EXCEPT !.building = FALSE], a, op))
    /\ UNCHANGED consent

BuildSucceeds(op, a) ==
    /\ op.stage = "building"
    /\ Len(pool.entries) < MaxEntries
    /\ LET x == [pool EXCEPT !.ops = @ \ {op}]
       IN  /\ Finish(IF Stale(op.gen) THEN x ELSE Built([x EXCEPT !.building = FALSE], a, op))
           /\ consent' = IF Stale(op.gen) \/ op.len # Hops THEN consent ELSE NoConsent

\* A circuit fails, a stream of it ends, or its rotation time comes.
EntryChanges(i) ==
    /\ LET e == pool.entries[i]
           entries(f) == [pool.entries EXCEPT ![i] = f]
       IN  \/ /\ e.open
              /\ pool' = [pool EXCEPT !.entries = entries(Ended(e)), !.posted = TRUE]
           \/ /\ e.open /\ e.streams > 0
              /\ pool' = [pool EXCEPT !.entries = entries([e EXCEPT !.streams = @ - 1])]
           \/ /\ e.age = "used"
              /\ pool' = [pool EXCEPT !.entries = entries([e EXCEPT !.age = "old"])]
    /\ UNCHANGED <<req, consent>>

TimePasses ==
    /\ \/ /\ pool.view = "ready" /\ ~pool.expired
          /\ pool' = [pool EXCEPT !.expired = TRUE]
       \/ /\ pool.spareLater
          /\ pool' = [pool EXCEPT !.spareLater = FALSE]
    /\ UNCHANGED <<req, consent>>

\* The tick's wait completes.  long says whether the time has come after which a
\* circuit found idle earlier closes.
Maintain(long, a) ==
    /\ pool.gen > 0 /\ ~pool.closed
    /\ Finish(Pump(Probe(RefreshView(MaintainEntries(pool, long)), a), a))
    /\ UNCHANGED consent

\* The user accepts the id of a proposal of this length, current or not.
Accept(len) ==
    /\ LET x == [pool EXCEPT !.accepted = len, !.current = len, !.proposal = 0,
                             !.attempts = 0]
       IN  IF ~ProposalCurrent(pool) THEN /\ Finish(DiscardProposal(pool))
                                          /\ UNCHANGED consent
           ELSE /\ pool.proposal = len
                /\ \E a \in Routes : Finish(Pump(x, a))
                /\ consent' = Min({consent, len})

Close ==
    /\ ~pool.closed
    /\ LET x == DiscardProposal([pool EXCEPT !.closed = TRUE])
       IN  Finish(FailWaiters(EndPending(CloseEntries(x))))
    /\ UNCHANGED consent

Generations == 0..MaxSessions

Next ==
    \/ \E a \in Routes :
        \/ PostedPump(a)
        \/ \E gen \in pool.fetches : ViewArrives(gen, a)
        \/ \E op \in pool.ops : BuildFails(op, a) \/ BuildSucceeds(op, a)
        \/ \E o \in Opens : Open(o, a)
        \/ \E long \in BOOLEAN : Maintain(long, a)
    \/ \E gen \in pool.fetches : ViewFails(gen)
    \/ \E op \in pool.ops : BuildOpens(op)
    \/ \E session \in BOOLEAN : SetSession(session)
    \/ \E o \in Opens : Cancel(o) \/ Delivered(o)
    \/ \E i \in DOMAIN pool.entries : EntryChanges(i)
    \/ TimePasses
    \/ \E len \in 1..(Hops - 1) : Accept(len)
    \/ Close

Spec == Init /\ [][Next]_vars

-----------------------------------------------------------------------------
Entry == [len : Lengths, gen : Generations, open : BOOLEAN, streams : 0..Capacity,
          age : {"new", "used", "old"}, idle : BOOLEAN]
Build == [stage : {"opening", "building"}, gen : Generations, len : Lengths, probe : BOOLEAN]

\* CircuitPool::State, between handlers and inside one.
PoolState ==
    [gen : Generations, session : BOOLEAN, view : {"idle", "fetching", "ready", "failed"},
     expired : BOOLEAN, chooser : BOOLEAN, entries : Seq(Entry), waiters : Seq(Opens),
     building : BOOLEAN, ops : SUBSET Build, fetches : SUBSET Generations,
     attempts : 0..(Attempts - 1), current : 0..Hops, accepted : 0..Hops,
     proposal : 0..(Hops - 1), spareLater : BOOLEAN, posted : BOOLEAN, closed : BOOLEAN,
     told : SUBSET Opens, handed : SUBSET Opens]

TypeOK ==
    /\ pool \in PoolState
    /\ req \in [Opens -> [state : {"new", "waiting", "handed", "settled"},
                          cancelled : BOOLEAN]]
    /\ consent \in 1..Hops

\* circuit_pool.hpp:30: the client never shortens a route on its own.  The
\* length in use, and so that of every stream, is one that circuits.min_hops
\* approves or the acceptance the pool still holds covers, whatever failed
\* builds, views, sessions and probes cross.  A proposal asks only for a length
\* that neither of them covers, and while the user has not answered it no
\* length is in use.
RoutesAllowed ==
    /\ pool.current # 0 => pool.current >= AllowedMin(pool)
    /\ pool.proposal # 0 => pool.current = 0 /\ pool.proposal < AllowedMin(pool)

\* CLUSTER_1.md:350: an accepted policy "lasts until the configured length works
\* again".  A length below circuits.min_hops is in use only if the user accepted
\* it since a circuit of the configured length was last built.  The code breaks
\* it: built() keeps the acceptance when the length in use is the configured one
\* already, as it is after a change of the view.
RoutesApproved ==
    pool.current # 0 => pool.current >= Min({MinHops, consent})

\* The pool builds one circuit at a time and knows of it: what it counts as
\* building is under way for its present session, and no circuit of an earlier
\* session, or of a closed pool, is kept, used or still being built.
BuildsOwned ==
    /\ ~pool.closed => (pool.building <=> \E op \in pool.ops : op.gen = pool.gen)
    /\ \A op, other \in pool.ops : op.gen = other.gen => op = other
    /\ \A op \in pool.ops : op.stage = "building" => ~Stale(op.gen)
    /\ \A e \in ToSet(pool.entries) : ~Stale(e.gen)

\* No request waits for nothing: a waiting one has a view being fetched or a
\* circuit being built for the present session, whose end serves or fails it or
\* starts the next, and a cancelled one has a pump that is posted and answers it.
\* Lost circuits, expired views and new sessions may come at any point.
WaitersAwaited ==
    \A o \in Opens : req[o].state = "waiting" =>
        /\ o \in ToSet(pool.waiters) /\ pool.session /\ ~pool.closed
        /\ (pool.view = "fetching" /\ pool.gen \in pool.fetches)
           \/ \E op \in pool.ops : op.gen = pool.gen
        /\ req[o].cancelled => pool.posted
=============================================================================

-------------------------- MODULE ClientReconnect --------------------------
(***************************************************************************)
(* How a client keeps its session up: SessionKeeper                        *)
(* (src/runtime/session_keeper.cpp), the one slot of its NativeEndpoint    *)
(* (src/runtime/native_endpoint.cpp) and the owner that closes both        *)
(* (src/runtime/native_client_runtime.cpp).  All of them run on one        *)
(* execution context, so a handler is one step; what races are the         *)
(* handlers already queued on the context: a timer that expired before it  *)
(* was cancelled, the end of a session, the end of a start.                *)
(*                                                                         *)
(* The code numbers waits and starts and compares numbers.  Here a handler *)
(* carries `fresh': whether its number is still the current one.  Clocks   *)
(* are abstract: a timer may expire at any time, a session may have lasted *)
(* long enough or not.  An allocation may fail wherever the code catches   *)
(* it.  Status texts, counters and traffic totals are left out.            *)
(***************************************************************************)
EXTENDS Integers, FiniteSets

CONSTANTS Sessions,          \* engines that may exist at once
          ReconnectInitial,  \* options_.reconnect_initial
          ReconnectMax,      \* options_.reconnect_max
          None               \* no session

ASSUME ReconnectAssumption ==
    /\ ReconnectInitial \in Nat \ {0}
    /\ ReconnectMax \in Nat /\ ReconnectInitial <= ReconnectMax
    /\ None \notin Sessions

VARIABLES
    k,      \* the keeper, with the wait handlers it has on the context
    s,      \* the endpoint's slot, with its deadline handlers
    e,      \* the session engines
    tried   \* flips with every attempt (history)

vars == <<k, s, e, tried>>

Least(a, b) == IF a <= b THEN a ELSE b

Init ==
    /\ k = [started |-> FALSE, closing |-> FALSE, waiting |-> FALSE,
            session |-> None, counted |-> None, backoff |-> ReconnectInitial,
            status |-> "Idle", waits |-> {}]
    /\ s = [closing |-> FALSE, closeQueued |-> FALSE, starting |-> FALSE,
            session |-> None, timed_out |-> FALSE, late |-> FALSE,
            cancelled |-> FALSE, deadlines |-> {}]
    /\ e = [i \in Sessions |->
              [state |-> "free", observed |-> FALSE, fresh |-> FALSE]]
    /\ tried = FALSE

(***************************************************************************)
(* A handler calls into keeper, slot and engines in turn, so its parts map *)
(* a record p of all four to the set of what they may leave behind.        *)
(***************************************************************************)
Now == [k |-> k, s |-> s, e |-> e, tried |-> tried]

Becomes(outcomes) ==
    \E p \in outcomes :
        k' = p.k /\ s' = p.s /\ e' = p.e /\ tried' = p.tried

-----------------------------------------------------------------------------
(* Parts of handlers. *)

\* Cancelling a timer turns the handlers that have not run out into
\* cancellations.  Those that expired already are still delivered as expired.
CancelWaits(waits) ==
    {[w EXCEPT !.state = IF @ = "armed" THEN "cancelled" ELSE @] : w \in waits}

OutdateWaits(waits) == {[w EXCEPT !.fresh = FALSE] : w \in waits}

\* A cancelled deadline handler returns at once, so it is not kept.
CancelDeadlines(deadlines) == {d \in deadlines : d.due}

StopEngine(engines, i) ==
    [engines EXCEPT ![i].state = IF @ = "active" THEN "ending" ELSE @]

\* NativeClientRuntime's close(): the keeper closes, then the endpoint is told.
CloseAll(p) ==
    IF p.k.closing THEN p
    ELSE [p EXCEPT !.k.closing = TRUE, !.k.waiting = FALSE,
                   !.k.waits = CancelWaits(@), !.k.session = None,
                   !.k.counted = None, !.k.status = "Closed",
                   !.s.closing = TRUE, !.s.closeQueued = TRUE]

NextBackoff(backoff) == Least(2 * backoff, ReconnectMax)

\* schedule_reconnect().  A wait that cannot be armed fails the client.
ScheduleReconnect(p) ==
    LET q == [p EXCEPT !.k.backoff = NextBackoff(@)]
    IN  IF p.k.closing
        THEN {p}
        ELSE { [q EXCEPT !.k.waiting = TRUE, !.k.status = "Waiting",
                         !.k.waits = OutdateWaits(CancelWaits(@)) \cup
                                     {[fresh |-> TRUE, state |-> "armed"]}],
               CloseAll(q) }

CanBegin(slot) == ~slot.closing /\ ~slot.starting /\ slot.session = None

\* begin_start(): the slot takes a new number, which outdates every handler of
\* its earlier starts and sessions, and its deadline is armed.
BeginStart(p) ==
    [p EXCEPT !.s.starting = TRUE, !.s.timed_out = FALSE, !.s.late = FALSE,
              !.s.cancelled = FALSE,
              !.s.deadlines = {[d EXCEPT !.fresh = FALSE] : d \in @} \cup
                              {[fresh |-> TRUE, due |-> FALSE]},
              !.e = [i \in Sessions |-> [@[i] EXCEPT !.fresh = FALSE]]]

\* settled(), as far as it does not depend on the result.
EndStart(p) ==
    [p EXCEPT !.s.starting = FALSE, !.s.deadlines = CancelDeadlines(@)]

\* connect(): the endpoint refuses the start; or takes it; or takes it and
\* reports its failure before it returns.
Connect(p) ==
    LET q == [p EXCEPT !.tried = ~@]
        begun == BeginStart(q)
        connecting(x) == [x EXCEPT !.k.status = "Connecting"]
        inline == ScheduleReconnect(EndStart(begun))
    IN  IF p.k.closing
        THEN {p}
        ELSE ScheduleReconnect(q) \cup
             (IF CanBegin(p.s)
              THEN {connecting(x) : x \in {begun} \cup inline}
              ELSE {})

\* on_session() with a failure.
StartFailed(p) == IF p.k.closing THEN {p} ELSE ScheduleReconnect(p)

\* on_session() with session i.
SessionUp(p, i) ==
    IF p.k.closing
    THEN {[p EXCEPT !.e = StopEngine(@, i)]}
    ELSE {[p EXCEPT !.k.session = i, !.k.counted = i, !.k.status = "Connected"]}

\* on_session_ended(): a session that lasted is replaced at once, a short one
\* after the backoff.
SessionDown(p, ended) ==
    LET q == [p EXCEPT !.k.session = None, !.k.counted = None]
    IN  IF p.k.closing \/ p.k.session # ended
        THEN {p}
        ELSE ScheduleReconnect(q)
             \cup Connect([q EXCEPT !.k.backoff = ReconnectInitial])

-----------------------------------------------------------------------------
(* Handlers of the keeper. *)

Start ==
    /\ ~k.started
    /\ Becomes(Connect([Now EXCEPT !.k.started = TRUE]))

WaitExpires ==
    \E w \in k.waits :
        /\ w.state = "armed"
        /\ k' = [k EXCEPT !.waits = (@ \ {w}) \cup {[w EXCEPT !.state = "due"]}]
        /\ UNCHANGED <<s, e, tried>>

\* The handler of schedule_reconnect's wait.
WaitHandler(p, w) ==
    IF p.k.closing \/ ~w.fresh THEN {p}
    ELSE LET q == [p EXCEPT !.k.waiting = FALSE]
         IN  IF w.state = "cancelled" THEN {CloseAll(q)} ELSE Connect(q)

DeliverWait ==
    \E w \in k.waits :
        /\ w.state # "armed"
        /\ Becomes(WaitHandler([Now EXCEPT !.k.waits = @ \ {w}], w))

\* retry_now(), when its rate limit lets it.
RetryNow ==
    /\ ~k.closing /\ k.waiting
    /\ Becomes(Connect([Now EXCEPT !.k.waiting = FALSE,
                                   !.k.waits = OutdateWaits(CancelWaits(@)),
                                   !.k.backoff = ReconnectInitial]))

\* close() of the runtime, by its owner.
Close ==
    /\ k.started /\ ~k.closing
    /\ Becomes({CloseAll(Now)})

-----------------------------------------------------------------------------
(* Handlers of the endpoint. *)

DeadlinePasses ==
    /\ s.starting
    /\ \E d \in s.deadlines :
          /\ d.fresh /\ ~d.due
          /\ s' = [s EXCEPT !.late = TRUE,
                     !.deadlines = (@ \ {d}) \cup {[d EXCEPT !.due = TRUE]}]
    /\ UNCHANGED <<k, e, tried>>

\* Mutant: the expired start is marked and not cancelled.
TimeOutMarkOnly(slot) == [slot EXCEPT !.timed_out = TRUE]

\* The handler of arm_deadline(): the start is cancelled, and still settles.
TimeOut(slot) == [slot EXCEPT !.timed_out = TRUE, !.cancelled = TRUE]

DeliverDeadline ==
    \E d \in s.deadlines :
        LET rest == s.deadlines \ {d}
        IN
        /\ d.due
        /\ s' = IF d.fresh /\ s.starting
                THEN [TimeOut(s) EXCEPT !.deadlines = rest]
                ELSE [s EXCEPT !.deadlines = rest]
        /\ UNCHANGED <<k, e, tried>>

\* settled() with a failed start.
SettleFailed ==
    /\ s.starting
    /\ Becomes(StartFailed(EndStart(Now)))

Overrun == s.timed_out \/ s.late

\* settled() stops a session that came too late, or that it cannot observe.
RefuseSession(p, i) ==
    UNION {StartFailed([p EXCEPT !.e[i] =
               [state |-> "ending", observed |-> o, fresh |-> TRUE]]) :
           o \in BOOLEAN}

\* settled() takes the session into the slot and delivers it.
TakeSession(p, i) ==
    SessionUp([p EXCEPT !.s.session = i,
                        !.e[i] = [state |-> "active", observed |-> TRUE,
                                  fresh |-> TRUE]], i)

\* settled() with a session.  A cancelled bootstrap never succeeds.
SettleUp ==
    LET p == EndStart(Now)
        i == CHOOSE j \in Sessions : e[j].state = "free"
    IN
    /\ s.starting /\ ~s.cancelled
    /\ \E j \in Sessions : e[j].state = "free"
    /\ IF s.closing \/ Overrun
       THEN Becomes(RefuseSession(p, i))
       ELSE Becomes(TakeSession(p, i) \cup RefuseSession(p, i))

\* Mutant: a closed endpoint forgets its session instead of stopping it.
CloseKeepsSession ==
    /\ s.closeQueued
    /\ s' = [s EXCEPT !.closeQueued = FALSE, !.cancelled = @ \/ s.starting,
                      !.deadlines = CancelDeadlines(@)]
    /\ UNCHANGED <<k, e, tried>>

\* close_on_context().
CloseOnContext ==
    /\ s.closeQueued
    /\ s' = [s EXCEPT !.closeQueued = FALSE, !.cancelled = @ \/ s.starting,
                      !.deadlines = CancelDeadlines(@)]
    /\ e' = IF s.session # None THEN StopEngine(e, s.session) ELSE e
    /\ UNCHANGED <<k, tried>>

\* A session fails, is closed by its peer or is stopped by its user.
SessionEnds ==
    \E i \in Sessions :
        /\ e[i].state = "active"
        /\ e' = StopEngine(e, i)
        /\ UNCHANGED <<k, s, tried>>

\* The engine's teardown is complete: it submits the notice of its end.
TeardownCompletes ==
    \E i \in Sessions :
        /\ e[i].state = "ending"
        /\ e' = [e EXCEPT ![i].state = IF e[i].observed THEN "ended" ELSE "free"]
        /\ UNCHANGED <<k, s, tried>>

\* Mutant: the notice is not compared with the slot's number.
EndedUnchecked(p, i) ==
    IF p.s.session = None THEN {p}
    ELSE SessionDown([p EXCEPT !.s.session = None], p.s.session)

\* ended(): the slot's session is over, if the notice is about it.
Ended(p, i) ==
    IF ~p.e[i].fresh \/ p.s.session = None THEN {p}
    ELSE SessionDown([p EXCEPT !.s.session = None], p.s.session)

DeliverEnd ==
    \E i \in Sessions :
        /\ e[i].state = "ended"
        /\ LET outcomes == Ended(Now, i)
           IN  Becomes({[p EXCEPT !.e[i].state = "free"] : p \in outcomes})

-----------------------------------------------------------------------------

Next ==
    \/ Start
    \/ WaitExpires
    \/ DeliverWait
    \/ RetryNow
    \/ Close
    \/ DeadlinePasses
    \/ DeliverDeadline
    \/ SettleFailed
    \/ SettleUp
    \/ CloseOnContext
    \/ SessionEnds
    \/ TeardownCompletes
    \/ DeliverEnd

(***************************************************************************)
(* The context runs what is queued on it, clocks advance, a cancelled      *)
(* start settles (providers report a cancelled operation) and a stopped    *)
(* engine tears down.  Nobody has to close, retry or fail.                 *)
(***************************************************************************)
Fairness ==
    /\ WF_vars(WaitExpires) /\ WF_vars(DeliverWait)
    /\ WF_vars(DeadlinePasses) /\ WF_vars(DeliverDeadline)
    /\ WF_vars(s.cancelled /\ SettleFailed)
    /\ WF_vars(CloseOnContext)
    /\ WF_vars(TeardownCompletes) /\ WF_vars(DeliverEnd)

Spec == Init /\ [][Next]_vars /\ Fairness

-----------------------------------------------------------------------------
(* Properties. *)

TypeOK ==
    /\ k \in [started : BOOLEAN, closing : BOOLEAN, waiting : BOOLEAN,
              session : Sessions \cup {None}, counted : Sessions \cup {None},
              backoff : ReconnectInitial..ReconnectMax,
              status : {"Idle", "Connecting", "Connected", "Waiting", "Closed"},
              waits : SUBSET [fresh : BOOLEAN,
                              state : {"armed", "due", "cancelled"}]]
    /\ s \in [closing : BOOLEAN, closeQueued : BOOLEAN, starting : BOOLEAN,
              session : Sessions \cup {None}, timed_out : BOOLEAN,
              late : BOOLEAN, cancelled : BOOLEAN,
              deadlines : SUBSET [fresh : BOOLEAN, due : BOOLEAN]]
    /\ e \in [Sessions -> [state : {"free", "active", "ending", "ended"},
                           observed : BOOLEAN, fresh : BOOLEAN]]
    /\ tried \in BOOLEAN

\* "Keeps one outbound session of a client endpoint up": a client that is not
\* closed is doing exactly one of three things, starting a session, waiting to
\* start one (with a wait that will be delivered to it) or having one, and the
\* keeper, its traffic count and the endpoint agree on which session that is.
OneThingAtATime ==
    k.started /\ ~k.closing =>
        /\ (IF s.starting THEN 1 ELSE 0) + (IF k.waiting THEN 1 ELSE 0)
             + (IF k.session # None THEN 1 ELSE 0) = 1
        /\ k.waiting <=> \E w \in k.waits : w.fresh /\ w.state # "cancelled"
        /\ k.session = s.session /\ k.counted = k.session

\* No session runs on unowned: a start that overran its deadline or outlived
\* its client leaves no engine behind.
SessionsAreOwned ==
    \A i \in Sessions : e[i].state = "active" => s.session = i

\* A client has one session at most, and it is the one it knows of.
OneOwnedSession == OneThingAtATime /\ SessionsAreOwned

\* A client without a session makes another attempt, whichever way the last one
\* ended, until it is closed.
KeepsTrying ==
    \A b \in BOOLEAN :
        (k.started /\ tried = b) ~> (tried # b \/ k.session # None \/ k.closing)

\* Closing ends everything: the start under way, the session, and nothing
\* starts again.
CloseEnds ==
    k.closing ~> [](~s.starting /\ \A i \in Sessions : e[i].state # "active")

\* The published state says what the keeper is doing: "Connecting" while "one
\* dial, TLS, carrier and AUTH attempt is in flight", "Waiting" while "backing
\* off before the next attempt".
StatusTellsTheTruth ==
    k.started =>
        k.status = IF k.closing THEN "Closed"
                   ELSE IF k.waiting THEN "Waiting"
                   ELSE IF k.session # None THEN "Connected"
                   ELSE "Connecting"
=============================================================================

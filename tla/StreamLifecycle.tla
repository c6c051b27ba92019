-------------------------- MODULE StreamLifecycle --------------------------
(***************************************************************************)
(* The life of the streams of a session (src/engine/session_engine.cpp):   *)
(* OPEN, acceptance or refusal, data, the two FINs, aborts, the settlement *)
(* that ends a stream, and the removal of its entry on each side.  Two     *)
(* peers run the same code over an ordered record channel; a rotation may  *)
(* hold a peer's records back.                                             *)
(*                                                                         *)
(* Flow-credit amounts are FlowControl's business: here a STREAM_CREDIT    *)
(* record is the acceptance, or a later return, of some credit.            *)
(*                                                                         *)
(* A handler ends with drain_owed_controls(), which queues what the engine *)
(* owes and stops when the outbound byte budget refuses a record.  The     *)
(* drain is the action QueueControl.  In a scenario without refusals       *)
(* nothing else happens at a peer before its drain is done; with them the  *)
(* budget, which other traffic may fill, can stop it at any point.         *)
(***************************************************************************)
EXTENDS Integers, Sequences, FiniteSets, SequencesExt

CONSTANTS
    Streams,        \* stream numbers: odd ones are the client's
    MaxStreams,     \* limits_.max_streams
    MaxPending,     \* limits_.max_pending_opens
    Writes,         \* records each application writes on each stream
    Scenarios       \* what the two ends of a session may do, see Scenario

Peers == {"client", "server"}

\* A scenario fixes who may do what: the peers whose application shuts down its
\* write side, closes (aborts) streams, refuses or cancels an OPEN, the peers
\* that rotate keys, and whether the outbound budget may be full.
Scenario ==
    [shutters : SUBSET Peers, closers : SUBSET Peers, refusing : SUBSET Peers,
     rotating : SUBSET Peers, refusals : BOOLEAN]

ASSUME LifecycleAssumption ==
    /\ Streams \subseteq Nat \ {0}
    /\ MaxStreams \in Nat \ {0} /\ MaxPending \in 1..MaxStreams
    /\ Writes \in Nat
    /\ Scenarios \subseteq Scenario

VARIABLES
    env,        \* the scenario of this session
    st,         \* st[p][s]: streams_ of peer p (StreamStateData)
    outbox,     \* outbound_queue_, its first element possibly active_send_
    sending,    \* send_in_progress_: the first element is on the carrier
    wire,       \* wire[p]: records from p that the other has not received
    deferred,   \* deferred_records_
    barred,     \* a rotation of p holds records back
    failed      \* fail() was called

lvars == <<env, st, outbox, sending, wire, deferred, barred, failed>>

Other(p) == CHOOSE q \in Peers : q # p
Opener(s) == IF s % 2 = 1 THEN "client" ELSE "server"
Own(p) == {s \in Streams : Opener(s) = p}

Kinds == {"OPEN", "CREDIT", "DATA", "FIN", "TERMINAL", "SETTLED"}
CloseKinds == {"FIN", "TERMINAL", "SETTLED"}
Record == [kind : Kinds, s : Streams]

\* An entry of streams_.  `wrote' and `got' count what the application handed
\* over and was given, open_completed the calls of the OPEN's completion.
NoEntry ==
    [entry |-> "none", opening |-> FALSE, open_published |-> FALSE,
     acceptance_ready |-> FALSE, closed |-> FALSE,
     terminal_sent |-> FALSE, terminal_received |-> FALSE,
     settlement_sent |-> FALSE, settlement_received |-> FALSE,
     fin_owed |-> FALSE, terminal_owed |-> FALSE, settlement_owed |-> FALSE,
     fin_queued |-> FALSE, terminal_queued |-> FALSE,
     settlement_queued |-> FALSE, queued_controls |-> 0,
     credit_owed |-> FALSE, outbound_credit |-> FALSE,
     local_write_shutdown_requested |-> FALSE, local_write_closed |-> FALSE,
     peer_write_closed |-> FALSE, inbound |-> 0, pending_writes |-> 0,
     wrote |-> 0, got |-> 0, open_completed |-> 0]

NewEntry == [NoEntry EXCEPT !.entry = "here", !.opening = TRUE]

Here(p) == {s \in Streams : st[p][s].entry = "here"}
PendingOpens(p) == {s \in Here(p) : st[p][s].opening}
Full(p) ==
    \/ Cardinality(Here(p)) >= MaxStreams
    \/ Cardinality(PendingOpens(p)) >= MaxPending

Init ==
    /\ env \in Scenarios
    /\ st = [p \in Peers |-> [s \in Streams |-> NoEntry]]
    /\ outbox = [p \in Peers |-> <<>>] /\ sending = [p \in Peers |-> FALSE]
    /\ wire = [p \in Peers |-> <<>>] /\ deferred = [p \in Peers |-> <<>>]
    /\ barred = [p \in Peers |-> FALSE] /\ failed = [p \in Peers |-> FALSE]

-----------------------------------------------------------------------------
(* What happens to one entry. *)

ExpectsPeerSettlement(e) ==
    e.terminal_sent \/ (e.local_write_closed /\ e.peer_write_closed)

\* Mutant: an entry leaves before the peer settled.
RetireUnsettled(e) ==
    LET localSettled == \/ e.settlement_sent
                        \/ e.terminal_sent /\ ~e.terminal_received
        owes == \/ e.queued_controls # 0 \/ e.credit_owed \/ e.fin_owed
                \/ e.terminal_owed \/ e.settlement_owed
    IN  IF e.closed /\ localSettled /\ ~owes
        THEN [e EXCEPT !.entry = "gone"] ELSE e

\* retire_stream_locked()
RetireStream(e) ==
    LET peerSettled == ExpectsPeerSettlement(e) => e.settlement_received
        localSettled == \/ e.settlement_sent
                        \/ e.terminal_sent /\ ~e.terminal_received
        owes == \/ e.queued_controls # 0 \/ e.credit_owed \/ e.fin_owed
                \/ e.terminal_owed \/ e.settlement_owed
    IN  IF e.closed /\ peerSettled /\ localSettled /\ ~owes
        THEN [e EXCEPT !.entry = "gone"] ELSE e

\* remove_stream(): an OPEN still waiting is completed with an error, queued
\* records and waiting writes are dropped.
RemoveStream(e, own) ==
    IF e.closed THEN e
    ELSE [e EXCEPT !.closed = TRUE, !.opening = FALSE, !.credit_owed = FALSE,
                   !.open_completed =
                       IF own /\ (e.opening \/ e.acceptance_ready)
                       THEN @ + 1 ELSE @,
                   !.inbound = 0, !.pending_writes = 0]

\* abort_stream(): a stream the peer never saw vanishes; otherwise a terminal
\* CLOSE is owed, and a FIN not queued yet no longer is.
AbortStream(e, own) ==
    CASE e.terminal_sent \/ e.settlement_sent -> e
      [] own /\ ~e.open_published /\ ~e.terminal_sent /\ ~e.settlement_sent ->
            [RemoveStream(e, own) EXCEPT !.entry = "gone"]
      [] OTHER ->
            RemoveStream([e EXCEPT !.terminal_sent = TRUE, !.terminal_owed = TRUE,
                             !.fin_owed = @ /\ e.fin_queued], own)

\* Mutant: only an aborted stream is settled.
SettleAbortsOnly(e) ==
    LET due == e.closed /\ ~e.settlement_sent /\ e.terminal_received
    IN  RetireStream([e EXCEPT !.settlement_sent = @ \/ due,
                         !.settlement_owed = @ \/ due])

\* settle_handshake(), up to its drain.
SettleHandshake(e) ==
    LET due == /\ e.closed /\ ~e.settlement_sent
               /\ \/ e.terminal_received
                  \/ e.local_write_closed /\ e.peer_write_closed
    IN  RetireStream([e EXCEPT !.settlement_sent = @ \/ due,
                         !.settlement_owed = @ \/ due])

\* Mutant: the stream is removed with records still unread.
CloseUnread(e, own) ==
    IF e.local_write_closed /\ e.peer_write_closed
    THEN SettleHandshake(RemoveStream(e, own)) ELSE e

\* Both write sides are closed and everything was read.
CloseIfDone(e, own) ==
    IF e.local_write_closed /\ e.peer_write_closed /\ e.inbound = 0
    THEN SettleHandshake(RemoveStream(e, own)) ELSE e

\* finish_stream_shutdown_if_ready()
FinishShutdown(e, own) ==
    IF /\ e.entry = "here" /\ ~e.closed /\ ~e.opening
       /\ e.local_write_shutdown_requested /\ ~e.local_write_closed
       /\ e.pending_writes = 0
    THEN CloseIfDone([e EXCEPT !.local_write_closed = TRUE, !.fin_owed = TRUE],
                     own)
    ELSE e

\* reserve_control_locked(), admit_control_locked() and
\* complete_control_locked() of the engine's own records.
Reserve(e, kind) ==
    CASE kind = "CREDIT" ->
            [e EXCEPT !.queued_controls = @ + 1, !.credit_owed = FALSE]
      [] kind = "FIN" ->
            [e EXCEPT !.queued_controls = @ + 1, !.fin_queued = TRUE]
      [] kind = "TERMINAL" ->
            [e EXCEPT !.queued_controls = @ + 1, !.terminal_queued = TRUE]
      [] kind = "SETTLED" ->
            [e EXCEPT !.queued_controls = @ + 1, !.settlement_queued = TRUE]
      [] OTHER -> e

Admit(e, kind) ==
    CASE kind = "FIN" -> [e EXCEPT !.fin_owed = FALSE]
      [] kind = "TERMINAL" -> [e EXCEPT !.terminal_owed = FALSE]
      [] kind = "SETTLED" -> [e EXCEPT !.settlement_owed = FALSE]
      [] kind = "OPEN" -> [e EXCEPT !.open_published = TRUE]
      [] OTHER -> e

Completed(e, kind) ==
    IF e.entry # "here" \/ kind \in {"OPEN", "DATA"} THEN e
    ELSE RetireStream(
            [e EXCEPT !.queued_controls = @ - 1,
                      !.fin_queued = @ /\ kind # "FIN",
                      !.terminal_queued = @ /\ kind # "TERMINAL",
                      !.settlement_queued = @ /\ kind # "SETTLED"])

\* Mutant: the FIN goes ahead of the credit.
OwedFinFirst(e) ==
    IF e.entry # "here" THEN {}
    ELSE IF e.terminal_owed /\ ~e.terminal_queued THEN {"TERMINAL"}
    ELSE IF e.fin_owed /\ ~e.fin_queued THEN {"FIN"}
    ELSE IF ~e.closed /\ e.credit_owed THEN {"CREDIT"}
    ELSE {k \in {"SETTLED"} : /\ e.settlement_owed /\ ~e.settlement_queued
                              /\ ~e.terminal_owed /\ ~e.fin_owed}

\* select_owed_control_locked(): what the drain queues next for a stream.
OwedControls(e) ==
    IF e.entry # "here" THEN {}
    ELSE IF e.terminal_owed /\ ~e.terminal_queued THEN {"TERMINAL"}
    ELSE IF ~e.closed /\ e.credit_owed THEN {"CREDIT"}
    ELSE IF e.fin_owed /\ ~e.fin_queued THEN {"FIN"}
    ELSE {k \in {"SETTLED"} : /\ e.settlement_owed /\ ~e.settlement_queued
                              /\ ~e.terminal_owed /\ ~e.fin_owed}

\* complete_local_acceptance(): the opener's application gets its stream once
\* the opener's own credit is queued.
Accepted(e) ==
    IF e.acceptance_ready /\ ~e.closed
    THEN [e EXCEPT !.acceptance_ready = FALSE, !.open_completed = @ + 1]
    ELSE e

-----------------------------------------------------------------------------
(* Queueing a record: on the outbound queue, or behind a rotation. *)

Enqueue(p, kind, s) ==
    LET r == [kind |-> kind, s |-> s]
    IN  IF barred[p]
        THEN /\ deferred' = [deferred EXCEPT ![p] = Append(@, r)]
             /\ UNCHANGED outbox
        ELSE /\ outbox' = [outbox EXCEPT ![p] = Append(@, r)]
             /\ UNCHANGED deferred

\* The entry once its record is queued: admitted now, or when it is flushed.
Queued(p, e, kind) ==
    IF barred[p] THEN Reserve(e, kind) ELSE Admit(Reserve(e, kind), kind)

Put(p, s, e) == st' = [st EXCEPT ![p][s] = e]

\* drain_owed_controls() has nothing left to do at p.
Drained(p) == \A s \in Streams : OwedControls(st[p][s]) = {}

Alive == \A p \in Peers : ~failed[p]

Ready(p) == Alive /\ (env.refusals \/ Drained(p))

QueueControl(p, s) ==
    \E kind \in OwedControls(st[p][s]) :
        LET e == Queued(p, st[p][s], kind)
        IN  /\ Alive
            /\ Put(p, s, IF kind = "CREDIT" THEN Accepted(e) ELSE e)
            /\ Enqueue(p, kind, s)
            /\ UNCHANGED <<sending, wire, barred, failed>>

-----------------------------------------------------------------------------
(* Applications. *)

localVars == <<sending, wire, barred, failed>>

\* async_open(): identifiers are taken in order; an OPEN the budget refuses
\* fails alone.
Open(p, s) ==
    /\ Ready(p) /\ Opener(s) = p
    /\ st[p][s].entry = "none"
    /\ \A t \in Own(p) : t < s => st[p][t].entry # "none"
    /\ ~Full(p)
    /\ \/ /\ Put(p, s, Queued(p, NewEntry, "OPEN"))
          /\ Enqueue(p, "OPEN", s)
       \/ /\ env.refusals
          /\ Put(p, s, AbortStream(NewEntry, TRUE))
          /\ UNCHANGED <<outbox, deferred>>
    /\ UNCHANGED localVars

\* cancel_open()
CancelOpen(p, s) ==
    /\ Ready(p) /\ Opener(s) = p /\ p \in env.refusing
    /\ st[p][s].entry = "here" /\ ~st[p][s].closed
    /\ st[p][s].opening \/ st[p][s].acceptance_ready
    /\ Put(p, s, AbortStream(st[p][s], TRUE))
    /\ UNCHANGED <<outbox, deferred, localVars>>

\* complete_peer_open(): the service accepted, or refused, the OPEN.
Accept(p, s) ==
    LET e == st[p][s]
    IN
    /\ Ready(p) /\ Opener(s) # p
    /\ e.entry = "here" /\ ~e.closed /\ e.opening
    /\ \/ Put(p, s, FinishShutdown([e EXCEPT !.opening = FALSE,
                                            !.credit_owed = TRUE], FALSE))
       \/ p \in env.refusing /\ Put(p, s, AbortStream(e, FALSE))
    /\ UNCHANGED <<outbox, deferred, localVars>>

\* The application has the stream: it accepted it, or its OPEN completed.
Holds(p, s) ==
    /\ st[p][s].entry = "here"
    /\ Opener(s) # p \/ ~(st[p][s].opening \/ st[p][s].acceptance_ready)

\* stream_write(), which leaves the record to drain_pending_writes().
Write(p, s) ==
    /\ Ready(p) /\ Holds(p, s)
    /\ ~st[p][s].closed /\ ~st[p][s].local_write_shutdown_requested
    /\ st[p][s].wrote < Writes
    /\ Put(p, s, [st[p][s] EXCEPT !.wrote = @ + 1, !.pending_writes = @ + 1])
    /\ UNCHANGED <<outbox, deferred, localVars>>

Publish(p, s) ==
    LET e == [st[p][s] EXCEPT !.pending_writes = @ - 1]
    IN
    /\ Ready(p) /\ st[p][s].entry = "here" /\ ~st[p][s].closed
    /\ st[p][s].pending_writes # 0 /\ st[p][s].outbound_credit
    /\ barred[p] => deferred[p] = <<>>
    /\ Enqueue(p, "DATA", s)
    /\ Put(p, s, FinishShutdown(e, Opener(s) = p))
    /\ UNCHANGED localVars

\* stream_shutdown()
Shutdown(p, s) ==
    LET e == [st[p][s] EXCEPT !.local_write_shutdown_requested = TRUE]
    IN
    /\ Ready(p) /\ Holds(p, s) /\ p \in env.shutters
    /\ ~st[p][s].closed /\ ~st[p][s].local_write_shutdown_requested
    /\ Put(p, s, FinishShutdown(e, Opener(s) = p))
    /\ UNCHANGED <<outbox, deferred, localVars>>

\* stream_read() of a queued record; its credit may be returned.
Read(p, s) ==
    \E due \in BOOLEAN :
        LET e == [st[p][s] EXCEPT !.inbound = @ - 1, !.got = @ + 1,
                                  !.credit_owed = @ \/ due]
        IN  /\ Ready(p) /\ Holds(p, s)
            /\ ~st[p][s].closed /\ st[p][s].inbound # 0
            /\ Put(p, s, CloseIfDone(e, Opener(s) = p))
            /\ UNCHANGED <<outbox, deferred, localVars>>

\* stream_close()
CloseStream(p, s) ==
    /\ Ready(p) /\ Holds(p, s) /\ p \in env.closers
    /\ AbortStream(st[p][s], Opener(s) = p) # st[p][s]
    /\ Put(p, s, AbortStream(st[p][s], Opener(s) = p))
    /\ UNCHANGED <<outbox, deferred, localVars>>

-----------------------------------------------------------------------------
(* Records from the peer. *)

\* The checks of process_open(), process_stream_credit(),
\* process_application_data() and process_close(): anything else is a protocol
\* or resource failure of the whole session.
Legal(p, r) ==
    LET e == st[p][r.s]
        barrier == e.terminal_received \/ e.settlement_received
    IN
    CASE r.kind = "OPEN" ->
            /\ \A t \in Own(Other(p)) : t >= r.s => st[p][t].entry = "none"
            /\ ~Full(p)
      [] r.kind = "CREDIT" ->
            /\ e.entry = "here" /\ ~barrier
            /\ ~(e.opening /\ Opener(r.s) # p)
      [] r.kind = "DATA" ->
            e.entry = "here" /\ ~barrier /\ ~e.peer_write_closed
      [] r.kind = "FIN" ->
            /\ e.entry = "here" /\ ~barrier
            /\ ~e.peer_write_closed /\ ~e.opening
      [] r.kind = "TERMINAL" -> e.entry = "here" /\ ~barrier
      [] r.kind = "SETTLED" ->
            /\ e.entry = "here" /\ ~e.settlement_received
            /\ ExpectsPeerSettlement(e)

\* The entries a legal record may lead to.  A service may refuse an OPEN at
\* once; data goes to a waiting reader or into the queue.
Outcomes(p, r) ==
    LET e == st[p][r.s]
        own == Opener(r.s) = p
        accepts == e.opening /\ ~e.closed
    IN
    CASE r.kind = "OPEN" ->
            {NewEntry} \cup {AbortStream(NewEntry, own) : q \in env.refusing \cap {p}}
      [] r.kind = "CREDIT" ->
            {[e EXCEPT !.outbound_credit = TRUE,
                       !.opening = @ /\ ~accepts,
                       !.acceptance_ready = @ \/ accepts,
                       !.credit_owed = @ \/ accepts]}
      [] r.kind = "DATA" ->
            IF e.closed THEN {e}
            ELSE {[e EXCEPT !.inbound = @ + 1]} \cup
                 {[e EXCEPT !.got = @ + 1, !.credit_owed = @ \/ due] :
                    due \in {b \in BOOLEAN : e.inbound = 0}}
      [] r.kind = "FIN" ->
            LET f == [e EXCEPT !.peer_write_closed = TRUE]
            IN  {SettleHandshake(IF f.local_write_closed /\ f.inbound = 0
                                 THEN RemoveStream(f, own) ELSE f)}
      [] r.kind = "TERMINAL" ->
            {SettleHandshake(RemoveStream(
                [e EXCEPT !.terminal_received = TRUE], own))}
      [] r.kind = "SETTLED" ->
            {SettleHandshake([e EXCEPT !.settlement_received = TRUE])}

Receive(p) ==
    LET r == Head(wire[Other(p)])
    IN
    /\ Ready(p)
    /\ wire[Other(p)] # <<>>
    /\ wire' = [wire EXCEPT ![Other(p)] = Tail(@)]
    /\ IF Legal(p, r)
       THEN /\ \E e \in Outcomes(p, r) : Put(p, r.s, e)
            /\ UNCHANGED failed
       ELSE failed' = [failed EXCEPT ![p] = TRUE] /\ UNCHANGED st
    /\ UNCHANGED <<outbox, sending, deferred, barred>>

-----------------------------------------------------------------------------
(* The carrier and rotations. *)

\* request_send_pump(): one record at a time.
Send(p) ==
    /\ Ready(p)
    /\ outbox[p] # <<>> /\ ~sending[p]
    /\ wire' = [wire EXCEPT ![p] = Append(@, Head(outbox[p]))]
    /\ sending' = [sending EXCEPT ![p] = TRUE]
    /\ UNCHANGED <<st, outbox, deferred, barred, failed>>

\* on_send_complete(), which the peer's answer may overtake.
SendComplete(p) ==
    LET r == Head(outbox[p])
    IN
    /\ Ready(p) /\ sending[p]
    /\ sending' = [sending EXCEPT ![p] = FALSE]
    /\ outbox' = [outbox EXCEPT ![p] = Tail(@)]
    /\ Put(p, r.s, Completed(st[p][r.s], r.kind))
    /\ UNCHANGED <<wire, deferred, barred, failed>>

StartWaiting(p) ==
    /\ Ready(p) /\ p \in env.rotating /\ ~barred[p]
    /\ barred' = [barred EXCEPT ![p] = TRUE]
    /\ UNCHANGED <<st, outbox, sending, wire, deferred, failed>>

\* flush_deferred_records(), one record: those of streams closed meanwhile are
\* dropped, CLOSE records never are.
FlushOne(flush, r) ==
    LET e == flush.st[r.s]
    IN  IF r.kind \notin CloseKinds /\ (e.entry # "here" \/ e.closed)
        THEN [flush EXCEPT !.st[r.s] = Completed(@, r.kind)]
        ELSE [flush EXCEPT !.st[r.s] = Admit(@, r.kind),
                           !.out = Append(@, r)]

Flush(p) ==
    LET start == [st |-> st[p], out |-> outbox[p]]
        flush == FoldLeft(FlushOne, start, deferred[p])
    IN
    /\ Ready(p) /\ barred[p]
    /\ barred' = [barred EXCEPT ![p] = FALSE]
    /\ st' = [st EXCEPT ![p] = flush.st]
    /\ outbox' = [outbox EXCEPT ![p] = flush.out]
    /\ deferred' = [deferred EXCEPT ![p] = <<>>]
    /\ UNCHANGED <<sending, wire, failed>>

\* What the engines and the carrier do by themselves; a handler answers, and a
\* reader that was given a stream reads it.
Engine(p) ==
    \/ Send(p) \/ SendComplete(p) \/ Receive(p)
    \/ \E s \in Streams :
          QueueControl(p, s) \/ Publish(p, s) \/ Accept(p, s) \/ Read(p, s)

Application(p) ==
    \/ StartWaiting(p) \/ Flush(p)
    \/ \E s \in Streams :
          \/ Open(p, s) \/ CancelOpen(p, s)
          \/ Write(p, s) \/ Shutdown(p, s) \/ CloseStream(p, s)

Next == UNCHANGED env /\ \E p \in Peers : Engine(p) \/ Application(p)

(***************************************************************************)
(* Executors and carriers keep running, services answer OPENs, rotations   *)
(* end, and an application reads what a stream it holds has queued.        *)
(* Nothing obliges an application to open, write, shut down or close.      *)
(***************************************************************************)
Fairness ==
    \A p \in Peers :
        /\ WF_lvars(Engine(p) /\ UNCHANGED env)
        /\ WF_lvars(Flush(p) /\ UNCHANGED env)

Spec == Init /\ [][Next]_lvars /\ Fairness

-----------------------------------------------------------------------------
(* Properties. *)

TypeOK ==
    /\ env \in Scenarios
    /\ \A p \in Peers, s \in Streams :
          /\ DOMAIN st[p][s] = DOMAIN NoEntry
          /\ st[p][s].entry \in {"none", "here", "gone"}
          /\ st[p][s].queued_controls \in Nat
          /\ st[p][s].wrote \in 0..Writes
    /\ outbox \in [Peers -> Seq(Record)] /\ wire \in [Peers -> Seq(Record)]
    /\ deferred \in [Peers -> Seq(Record)]
    /\ sending \in [Peers -> BOOLEAN] /\ barred \in [Peers -> BOOLEAN]
    /\ failed \in [Peers -> BOOLEAN]

\* However OPENs, refusals, cancellations, FINs, aborts and settlements cross,
\* no record of one peer ends the session of the other.
NoProtocolFailure == \A p \in Peers : ~failed[p]

\* "The receiver's first STREAM_CREDIT is the authenticated acceptance barrier.
\* A refusal uses terminal CLOSE": a FIN reaches an opener that is still
\* waiting only behind the credit that accepts its OPEN.
AcceptancePrecedesFin ==
    \A p \in Peers : \A i \in 1..Len(wire[p]) :
        LET s == wire[p][i].s
        IN  wire[p][i].kind = "FIN" /\ st[Other(p)][s].opening
                => \E j \in 1..(i - 1) :
                      wire[p][j] = [kind |-> "CREDIT", s |-> s]

\* "completes that pending OPEN once": the completion of an OPEN runs at most
\* once, and has run before its entry leaves the table.
OpenCompletesOnce ==
    \A p \in Peers : \A s \in Own(p) :
        /\ st[p][s].open_completed <= 1
        /\ st[p][s].entry = "gone" => st[p][s].open_completed = 1

\* An OPEN is answered once and in order.
OpensAnswered == OpenCompletesOnce /\ AcceptancePrecedesFin

\* "Already accepted inbound records remain readable": a stream that ended
\* with both FINs and no abort gave each application everything the other one
\* had written.
Aborted(s) == \E p \in Peers : st[p][s].terminal_sent

GracefulDeliversAll ==
    \A p \in Peers, s \in Streams :
        st[p][s].closed /\ st[p][s].peer_write_closed /\ ~Aborted(s)
            => st[p][s].got = st[Other(p)][s].wrote

\* The same where no record is ever held back: a close of a stream that is
\* graceful on both sides loses nothing in any crossing order.
UnheldDeliversAll ==
    env.rotating = {} /\ ~env.refusals => GracefulDeliversAll

\* "each side sends code 5 and retains the stream's closing state until
\* receiving the peer's code 5": an entry that waits for a settlement has a
\* peer entry, or a record on its way, that will bring it.
Awaits(p, s) ==
    /\ st[p][s].entry = "here" /\ st[p][s].closed
    /\ ExpectsPeerSettlement(st[p][s]) /\ ~st[p][s].settlement_received

NothingStranded ==
    \A p \in Peers, s \in Streams :
        Awaits(p, s) /\ st[Other(p)][s].entry = "gone"
            => [kind |-> "SETTLED", s |-> s] \in Range(wire[Other(p)])

\* A closed stream gives its slot in the table back, where no application aborts
\* a stream that it had shut down: then a peer may be stranded (NothingStranded).
ClosedEntriesLeave ==
    \A p \in Peers, s \in Streams :
        [](st[p][s].closed /\ env.shutters \cap env.closers = {}
             => <>(st[p][s].entry = "gone"))
=============================================================================

--------------------------- MODULE DuplexCarrier ---------------------------
(***************************************************************************)
(* The HTTP/2 carrier a session sends its records through, both ends of    *)
(* one connection (src/src/providers/h2_duplex_carrier.cpp), over the H2   *)
(* stream it drives (src/src/stealth/h2_carrier.cpp) and the WebSocket     *)
(* frames in it.                                                           *)
(*                                                                         *)
(* Each end runs on one executor: a handler is one action.  Sends and      *)
(* receives of the session, its cancellation, its close and the return of  *)
(* credit come from other threads and meet the carrier through a control   *)
(* task.  A handler is written as a function from the end's state x to its *)
(* next state, the way the methods of H2DuplexCarrierState call each       *)
(* other; the actions at the end of the module apply them.                 *)
(*                                                                         *)
(* Bytes are counted in pieces.  A record is one piece of envelope and     *)
(* RecordBytes pieces of payload; CLOSE, PING and PONG are one piece each; *)
(* all of them spend the stream's HTTP/2 window.  One write to the secure  *)
(* channel is one sequence of pieces and one TLS record: a read returns a  *)
(* part of one write, never parts of two.                                  *)
(***************************************************************************)
EXTENDS Integers, Sequences

CONSTANTS ClientRecords, ServerRecords,  \* records each session sends
          RecordBytes,  \* pieces of payload in a record
          Window,       \* admitted_receive_window_bytes, in pieces
          FirstWindow,  \* the stream's window before it is admitted
          MaxBuffered,  \* max_buffered_records
          Stoppers      \* ends whose session may stop of its own accord

ASSUME LimitsAssumption ==
    /\ {RecordBytes, Window, MaxBuffered} \subseteq Nat \ {0}
    /\ {ClientRecords, ServerRecords, FirstWindow} \subseteq Nat
    /\ RecordBytes <= Window - 1
    /\ FirstWindow <= Window
    /\ Stoppers \subseteq {"client", "server"}

VARIABLE carrier  \* the state of each end and of the session above it
vars == <<carrier>>

Sides == {"client", "server"}
Peer(s) == IF s = "client" THEN "server" ELSE "client"
MaxRecords(s) == IF s = "client" THEN ClientRecords ELSE ServerRecords

Piece(kind, n) == [kind |-> kind, n |-> n]
Update(n) == Piece("update", n)
RecordPieces(r) ==
    <<Piece("envelope", r)>> \o [i \in 1..RecordBytes |-> Piece("payload", r)]
\* WINDOW_UPDATE and the answer to CONNECT are not DATA: they spend no window.
IsData(p) == p.kind \notin {"update", "accept", "refuse"}

MaxRetained == Window

Fresh(s) ==
    [role |-> s, opening |-> s = "client", created |-> "ok", cancelled |-> FALSE,
     queue |-> <<>>, ctl |-> <<>>, window |-> FirstWindow, consumed |-> 0,
     active |-> s = "server", refused |-> FALSE, closeSent |-> FALSE,
     wsClosed |-> FALSE, pinged |-> FALSE,
     input |-> <<>>, expected |-> FALSE, records |-> <<>>, owned |-> 0,
     receiving |-> FALSE, sending |-> FALSE,
     writes |-> <<>>, writing |-> FALSE, wire |-> <<>>, reading |-> TRUE,
     peerClosed |-> FALSE, closing |-> FALSE, initiated |-> FALSE,
     completed |-> FALSE, terminal |-> FALSE, why |-> "none", deadline |-> FALSE,
     requested |-> FALSE, returned |-> 0, control |-> FALSE,
     rx |-> "idle", tx |-> "idle", got |-> <<>>, next |-> 1, sent |-> 0,
     held |-> 0, stage |-> "run"]

\* The client waits for the answer to its CONNECT.  A server that accepted it
\* has just been promoted and has enlarged its window.
Init ==
       \/ carrier = [client |-> [Fresh("client") EXCEPT !.created = "waiting"],
                     server |-> [Fresh("server") EXCEPT
                                    !.wire = <<<<Piece("accept", 0)>>,
                                               <<Update(Window - FirstWindow)>>>>]]
       \/ carrier = [client |-> [Fresh("client") EXCEPT !.created = "waiting"],
                     server |-> [Fresh("server") EXCEPT
                                    !.wire = <<<<Piece("refuse", 0)>>>>,
                                    !.created = "failed", !.terminal = TRUE,
                                    !.why = "refused", !.reading = FALSE]]

-----------------------------------------------------------------------------
(* Settlement of what the session asked for.                               *)

Told(was, result) == IF was = "asked" THEN result ELSE "twice"

SettleReceive(x, result) ==
    IF x.receiving
    THEN [x EXCEPT !.receiving = FALSE, !.rx = Told(@, result)]
    ELSE x

SettleSend(x, result) ==
    IF x.sending
    THEN [x EXCEPT !.sending = FALSE, !.tx = Told(@, result)]
    ELSE x

\* The end of the carrier.  The stream's own state and the operations on the
\* channel die with it and are cleared too: nothing reads them again.
Fail(x, why) ==
    IF x.terminal THEN x
    ELSE LET ended == [x EXCEPT !.terminal = TRUE, !.why = why, !.deadline = FALSE,
                                !.returned = 0, !.records = <<>>, !.writes = <<>>,
                                !.input = <<>>, !.owned = 0,
                                !.created = IF @ = "waiting" THEN "failed" ELSE @,
                                !.queue = <<>>, !.ctl = <<>>, !.window = 0,
                                !.consumed = 0, !.reading = FALSE, !.writing = FALSE,
                                !.control = FALSE]
         IN  SettleSend(SettleReceive(ended, why), why)

FinishGracefulClose(x, completed) ==
    IF x.closing /\ ~x.terminal
    THEN Fail([x EXCEPT !.completed = completed], "closed")
    ELSE x

-----------------------------------------------------------------------------
(* The H2 stream.                                                          *)

\* Credit returned to the stream is announced once it is half the window.
Consume(x, n) ==
    LET total == x.consumed + n
    IN  IF n > 0 /\ 2 * total >= Window
        THEN [x EXCEPT !.consumed = 0, !.ctl = Append(@, Update(total))]
        ELSE [x EXCEPT !.consumed = total]

QueueBytes(x, pieces) == [x EXCEPT !.queue = @ \o pieces]

\* One frame that arrived; payload goes to fresh, the decoded tunnel bytes.
FeedPiece(x, p) ==
    CASE p.kind = "update" -> [x EXCEPT !.window = @ + p.n]
      [] p.kind = "accept" -> [x EXCEPT !.active = TRUE]
      [] p.kind = "refuse" -> [x EXCEPT !.refused = TRUE]
      [] p.kind = "pong" -> Consume(x, 1)
      [] p.kind = "ping" -> QueueBytes(Consume(x, 1), <<Piece("pong", 0)>>)
      [] p.kind = "close" ->
            LET heard == [Consume(x, 1) EXCEPT !.wsClosed = TRUE, !.pinged = TRUE]
            IN  IF x.closeSent THEN heard
                ELSE QueueBytes([heard EXCEPT !.closeSent = TRUE],
                                <<Piece("close", 0)>>)
      [] OTHER -> IF x.role = "server" /\ ~x.pinged
                  THEN QueueBytes([x EXCEPT !.pinged = TRUE], <<Piece("ping", 0)>>)
                  ELSE x

Feed(x, pieces) ==
    LET fed[n \in 0..Len(pieces)] ==
            IF n = 0 THEN x ELSE FeedPiece(fed[n - 1], pieces[n])
    IN  fed[Len(pieces)]

Tunnel(pieces) ==
    LET kept[n \in 0..Len(pieces)] ==
            IF n = 0 THEN <<>>
            ELSE IF pieces[n].kind \in {"envelope", "payload"}
            THEN Append(kept[n - 1], pieces[n])
            ELSE kept[n - 1]
    IN  kept[Len(pieces)]

CarrierClosed(x) == x.wsClosed \/ x.refused

-----------------------------------------------------------------------------
(* Records in.                                                             *)

DeliverRecord(x) ==
    [x EXCEPT !.records = Tail(@), !.got = Append(@, Head(x.records)),
              !.rx = Told(@, "idle"), !.held = @ + 1]

MaybeDeliver(x) ==
    IF x.receiving /\ x.records # <<>>
    THEN DeliverRecord([x EXCEPT !.receiving = FALSE])
    ELSE x

ParseHeader(x) ==
    IF Head(x.input).kind # "envelope" THEN Fail(x, "malformed")
    ELSE IF x.owned < 1 THEN Fail(x, "ledger")
    ELSE Consume([x EXCEPT !.expected = TRUE, !.owned = @ - 1, !.input = Tail(@)], 1)

ParsePayload(x) ==
    IF RecordBytes * (Len(x.records) + 1) > MaxRetained THEN Fail(x, "overrun")
    ELSE MaybeDeliver(
           [x EXCEPT !.records = Append(@, Head(x.input).n), !.expected = FALSE,
                     !.input = SubSeq(@, RecordBytes + 1, Len(@))])

ParseStep(x) ==
    IF x.terminal \/ Len(x.records) >= MaxBuffered THEN x
    ELSE IF ~x.expected /\ x.input # <<>> THEN ParseHeader(x)
    ELSE IF x.expected /\ Len(x.input) >= RecordBytes THEN ParsePayload(x)
    ELSE x

ParseRecords(x) ==
    LET parsed[n \in 0..(Len(x.input) + 1)] ==
            IF n = 0 THEN x ELSE ParseStep(parsed[n - 1])
    IN  parsed[Len(x.input) + 1]

\* Mutant: bytes that arrive while closing keep their credit.
DrainKeepsCredit(x, bytes) ==
    IF bytes = <<>> \/ x.closing THEN x
    ELSE IF Len(bytes) > MaxRetained - x.owned THEN Fail(x, "overrun")
    ELSE ParseRecords([x EXCEPT !.input = @ \o bytes, !.owned = @ + Len(bytes)])

\* Takes the tunnel bytes that arrived; the credit they hold becomes the
\* carrier's to return.
DrainTunnelBytes(x, bytes) ==
    IF bytes = <<>> THEN x
    ELSE IF x.closing THEN Consume(x, Len(bytes))
    ELSE IF Len(bytes) > MaxRetained - x.owned THEN Fail(x, "overrun")
    ELSE ParseRecords([x EXCEPT !.input = @ \o bytes, !.owned = @ + Len(bytes)])

-----------------------------------------------------------------------------
(* Bytes out, and the pump every handler ends in.                          *)

\* What the stream can serialize now becomes one write.
CollectOutput(x) ==
    LET n == IF x.window < Len(x.queue) THEN x.window ELSE Len(x.queue)
        write == x.ctl \o SubSeq(x.queue, 1, n)
    IN  IF x.terminal \/ write = <<>> THEN x
        ELSE [x EXCEPT !.ctl = <<>>, !.queue = SubSeq(@, n + 1, Len(@)),
                       !.window = @ - n, !.writes = Append(@, write)]

StartWrite(x) ==
    IF x.terminal \/ x.writing \/ x.writes = <<>> THEN x
    ELSE [x EXCEPT !.writing = TRUE, !.wire = Append(@, Head(x.writes)),
                   !.writes = Tail(@)]

Flushed(x) == ~x.writing /\ x.writes = <<>> /\ x.queue = <<>>

MaybeCompleteSend(x) ==
    IF x.sending /\ ~x.terminal /\ Flushed(x)
    THEN SettleSend([x EXCEPT !.sent = @ + 1], "idle")
    ELSE x

CanRead(x) ==
    /\ ~x.terminal
    /\ ~x.reading
    /\ \/ x.closing
       \/ /\ ~x.peerClosed
          /\ Len(x.records) < MaxBuffered
          /\ x.owned < MaxRetained

StartRead(x) == IF CanRead(x) THEN [x EXCEPT !.reading = TRUE] ELSE x

\* A client ends the connection once its CLOSE is answered; a server leaves
\* that to its client.
MaybeFinishGracefulClose(x) ==
    IF /\ Flushed(x)
       /\ x.role = "client"
       /\ x.initiated => x.wsClosed
    THEN FinishGracefulClose(x, TRUE)
    ELSE x

Pump(x) ==
    IF x.terminal THEN x
    ELSE LET parsed == IF x.closing THEN x ELSE ParseRecords(x)
             collected == CollectOutput(parsed)
         IN  IF collected.terminal THEN collected
             ELSE MaybeFinishGracefulClose(
                    StartRead(MaybeCompleteSend(StartWrite(MaybeDeliver(collected)))))

-----------------------------------------------------------------------------
(* The peer's close, and this end's.                                       *)

HandlePeerClose(x) ==
    IF x.terminal \/ x.peerClosed THEN x
    ELSE IF x.closing THEN Pump([x EXCEPT !.peerClosed = TRUE])
    ELSE IF x.expected \/ x.input # <<>> THEN Fail(x, "truncated")
    ELSE LET heard == MaybeDeliver(SettleSend([x EXCEPT !.peerClosed = TRUE], "closed"))
         IN  Pump(IF heard.records = <<>> THEN SettleReceive(heard, "closed") ELSE heard)

CanCloseGracefully(x) ==
    /\ ~x.terminal
    /\ ~x.opening
    /\ ~x.closing
    /\ IF x.role = "client" /\ ~x.peerClosed
       THEN x.active /\ ~CarrierClosed(x)
       ELSE x.peerClosed

\* Mutant: the close settles the receive and drops the send.
CloseDropsSend(x) ==
    LET initiate == x.role = "client" /\ ~x.peerClosed
        settled == SettleReceive(
                     [x EXCEPT !.closing = TRUE, !.initiated = initiate,
                               !.records = <<>>, !.input = <<>>, !.expected = FALSE,
                               !.sending = FALSE], "closed")
        armed == [Consume(settled, settled.owned) EXCEPT !.owned = 0, !.deadline = TRUE]
    IN  Pump(IF initiate
             THEN QueueBytes([armed EXCEPT !.closeSent = TRUE], <<Piece("close", 0)>>)
             ELSE armed)

\* Everything pending settles, the credit still held is returned so that the
\* peer's window cannot hold back its CLOSE, and a client queues its own.
BeginGracefulClose(x) ==
    LET initiate == x.role = "client" /\ ~x.peerClosed
        settled == SettleSend(SettleReceive(
                     [x EXCEPT !.closing = TRUE, !.initiated = initiate,
                               !.records = <<>>, !.input = <<>>, !.expected = FALSE],
                     "closed"), "closed")
        retired == [Consume(settled, settled.owned) EXCEPT !.owned = 0]
        armed == [retired EXCEPT !.deadline = TRUE]
    IN  Pump(IF initiate
             THEN QueueBytes([armed EXCEPT !.closeSent = TRUE], <<Piece("close", 0)>>)
             ELSE armed)

ReturnCredit(x, n) ==
    IF n > x.owned THEN Fail(x, "ledger")
    ELSE Pump([Consume(x, n) EXCEPT !.owned = @ - n])

\* Requests of other threads leave a mark and submit the control task once.
NotifyControl(x) ==
    IF x.terminal \/ x.requested THEN x ELSE [x EXCEPT !.control = TRUE]

RequestTerminal(x) ==
    IF x.terminal \/ x.requested THEN x
    ELSE [x EXCEPT !.requested = TRUE, !.control = TRUE]

\* Mutant: returned credit waits for someone else's control task.
CreditUnannounced(x, n) ==
    IF x.terminal \/ x.requested THEN x ELSE [x EXCEPT !.returned = @ + n]

RequestCredit(x, n) ==
    IF x.terminal \/ x.requested THEN x
    ELSE NotifyControl([x EXCEPT !.returned = @ + n])

SettleControl(x) ==
    LET credit == x.returned
        run == [x EXCEPT !.control = FALSE, !.returned = 0]
        quiet == IF run.cancelled THEN SettleReceive(run, "cancelled") ELSE run
    IN  IF run.terminal \/ run.closing THEN run
        ELSE IF run.requested
        THEN IF CanCloseGracefully(run) THEN BeginGracefulClose(run)
             ELSE Fail(run, "closed")
        ELSE IF run.cancelled /\ (run.opening \/ run.sending) THEN Fail(run, "cancelled")
        ELSE IF credit > 0 THEN ReturnCredit(quiet, credit)
        ELSE quiet

-----------------------------------------------------------------------------
(* The remaining handlers.                                                 *)

\* The CONNECT was answered: the client enlarges its window and hands the
\* carrier to the session, or gives up.
AdvanceOpening(x) ==
    IF ~x.opening \/ x.terminal THEN x
    ELSE IF x.active
    THEN [x EXCEPT !.opening = FALSE, !.created = "ok",
                   !.ctl = Append(@, Update(Window - FirstWindow))]
    ELSE IF CarrierClosed(x) THEN Fail(x, "refused")
    ELSE x

OnRead(x, pieces) ==
    LET drained == DrainTunnelBytes(Feed([x EXCEPT !.reading = FALSE], pieces),
                                    Tunnel(pieces))
        advanced == AdvanceOpening(CollectOutput(drained))
    IN  IF drained.terminal \/ advanced.terminal THEN advanced
        ELSE IF CarrierClosed(advanced) THEN HandlePeerClose(advanced)
        ELSE Pump(advanced)

\* The connection ended under the carrier.  That completes a server's wait
\* for its client, and a client's once its CLOSE was answered.
OnReadEnd(x) ==
    LET y == [x EXCEPT !.reading = FALSE]
    IN  IF y.closing THEN FinishGracefulClose(y, ~y.initiated \/ y.wsClosed)
        ELSE Fail(y, "io")

OnWrite(x, ok) ==
    LET y == [x EXCEPT !.writing = FALSE]
    IN  IF ok THEN Pump(y) ELSE Fail(y, "io")

\* Mutant: the peer's close is reported before the records that precede it.
CloseBeforeRecords(x) ==
    LET asked == [x EXCEPT !.rx = "asked", !.receiving = TRUE]
    IN  IF x.closing \/ x.peerClosed THEN [x EXCEPT !.rx = "closed"]
        ELSE IF x.cancelled THEN [x EXCEPT !.rx = "cancelled"]
        ELSE Pump(MaybeDeliver(asked))

BeginReceive(x) ==
    LET asked == [x EXCEPT !.rx = "asked", !.receiving = TRUE]
    IN  IF x.closing THEN [x EXCEPT !.rx = "closed"]
        ELSE IF x.cancelled THEN [x EXCEPT !.rx = "cancelled"]
        ELSE IF x.records # <<>> THEN Pump(MaybeDeliver(asked))
        ELSE IF x.peerClosed THEN [x EXCEPT !.rx = "closed"]
        ELSE Pump(asked)

BeginSend(x) ==
    LET took == [x EXCEPT !.next = @ + 1]
    IN  IF x.closing \/ x.peerClosed \/ ~x.active THEN [took EXCEPT !.tx = "closed"]
        ELSE IF x.cancelled THEN [took EXCEPT !.tx = "cancelled"]
        ELSE Pump(QueueBytes([took EXCEPT !.tx = "asked", !.sending = TRUE],
                             RecordPieces(x.next)))

-----------------------------------------------------------------------------
(* Actions.  Becomes(s, x) is a step of end s alone.  Requests and         *)
(* completions that find the carrier terminal are refused or ignored, leave *)
(* it as it is, and are left out.                                          *)

Becomes(s, x) == carrier' = [carrier EXCEPT ![s] = x]

\* The session keeps one receive outstanding and sends one record at a time;
\* what it asked for before it stopped may reach the carrier afterwards.
Receive(s) ==
    /\ carrier[s].created = "ok" /\ carrier[s].rx = "idle" /\ ~carrier[s].terminal
    /\ Becomes(s, BeginReceive(carrier[s]))

Send(s) ==
    /\ carrier[s].created = "ok" /\ carrier[s].tx = "idle" /\ ~carrier[s].terminal
    /\ carrier[s].next <= MaxRecords(s)
    /\ Becomes(s, BeginSend(carrier[s]))

\* A sink is done with a record and drops the credit it came with.
Release(s) ==
    /\ carrier[s].held > 0 /\ ~carrier[s].terminal
    /\ Becomes(s, RequestCredit([carrier[s] EXCEPT !.held = @ - 1], RecordBytes))

\* A session that is told of the end stops.
MustStop(s) ==
    \/ carrier[s].rx \notin {"idle", "asked"}
    \/ carrier[s].tx \notin {"idle", "asked"}

\* stop() of the session engine cancels its token first ...
Cancel(s) ==
    LET x == carrier[s]
        marked == [x EXCEPT !.cancelled = TRUE, !.stage = "cancelled"]
    IN  /\ x.stage = "run" /\ ~x.terminal
        /\ s \in Stoppers \/ MustStop(s)
        /\ Becomes(s, IF x.opening \/ x.receiving \/ x.sending
                      THEN NotifyControl(marked) ELSE marked)

\* ... and then closes the carrier, if there is one.
Close(s) ==
    /\ carrier[s].stage = "cancelled" /\ carrier[s].created = "ok" /\ ~carrier[s].terminal
    /\ Becomes(s, RequestTerminal([carrier[s] EXCEPT !.stage = "closed"]))

Control(s) ==
    /\ carrier[s].control /\ ~carrier[s].terminal
    /\ Becomes(s, SettleControl(carrier[s]))

\* A read returns the front of the oldest write that is left.
Read(s) ==
    LET x == carrier[s]
        from == carrier[Peer(s)].wire
    IN  /\ x.reading /\ ~x.terminal /\ from # <<>>
        /\ \E n \in 1..Len(Head(from)) :
             LET left == SubSeq(Head(from), n + 1, Len(Head(from)))
             IN  carrier' = [carrier EXCEPT
                   ![s] = OnRead(x, SubSeq(Head(from), 1, n)),
                   ![Peer(s)].wire = IF left = <<>> THEN Tail(@) ELSE [@ EXCEPT ![1] = left]]

\* The peer's end of the connection is gone, which may overtake what it wrote.
ReadEnd(s) ==
    /\ carrier[s].reading /\ ~carrier[s].terminal
    /\ carrier[Peer(s)].terminal
    /\ Becomes(s, OnReadEnd(carrier[s]))

Write(s) ==
    /\ carrier[s].writing /\ ~carrier[s].terminal
    /\ \/ Becomes(s, OnWrite(carrier[s], TRUE))
       \/ /\ carrier[Peer(s)].terminal
          /\ Becomes(s, OnWrite(carrier[s], FALSE))

Deadline(s) ==
    /\ carrier[s].deadline
    /\ Becomes(s, FinishGracefulClose(carrier[s], FALSE))

Step(s) ==
    \/ Receive(s) \/ Send(s) \/ Release(s) \/ Cancel(s) \/ Close(s)
    \/ Control(s) \/ Read(s) \/ ReadEnd(s) \/ Write(s) \/ Deadline(s)

Next == \E s \in Sides : Step(s)

Spec == Init /\ [][Next]_vars

-----------------------------------------------------------------------------
(* Properties.                                                             *)

Sum(numbers) ==
    LET sum[n \in 0..Len(numbers)] ==
            IF n = 0 THEN 0 ELSE sum[n - 1] + numbers[n]
    IN  sum[Len(numbers)]

\* The DATA in one write and the credit it announces, and both in several.
DataIn(write) == Sum([i \in 1..Len(write) |-> IF IsData(write[i]) THEN 1 ELSE 0])
CreditIn(write) ==
    Sum([i \in 1..Len(write) |-> IF write[i].kind = "update" THEN write[i].n ELSE 0])
DataPieces(writes) == Sum([i \in 1..Len(writes) |-> DataIn(writes[i])])
Announced(writes) == Sum([i \in 1..Len(writes) |-> CreditIn(writes[i])])

\* What an end may still send or has sent, and what it holds of its peer's window.
Sendable(x) == x.window + DataPieces(x.wire) + DataPieces(x.writes)
Retained(x) ==
    x.owned + x.consumed + CreditIn(x.ctl) + Announced(x.wire) + Announced(x.writes)

\* Credit is neither lost nor made: from one end to the other, what the sender
\* may still send, what is under way, what the receiver owns, what it has
\* returned and not announced, and what is announced and not yet heard add up
\* to the receiver's window, while both ends live (the ledgers of
\* return_credit, parse_record_header, drain_tunnel_bytes and
\* begin_graceful_close against nghttp2's).
CreditConserved ==
    \A s \in Sides :
        LET x == carrier[s]
            y == carrier[Peer(s)]
        IN  ~x.terminal /\ ~y.terminal =>
                Sendable(x) + Retained(y) = IF y.opening THEN FirstWindow ELSE Window

\* Whatever the session asked of the carrier is still pending in it or was
\* settled, exactly once: no path (delivery, cancellation, peer close,
\* graceful close, failure) forgets a completion or runs one again.
SettledOnce ==
    \A s \in Sides :
        /\ (carrier[s].rx = "asked") <=> carrier[s].receiving
        /\ (carrier[s].tx = "asked") <=> carrier[s].sending
        /\ "twice" \notin {carrier[s].rx, carrier[s].tx}

\* A client's close loses nothing it was told is sent: when the server's
\* session hears that the peer closed, it has every record of a send that
\* completed, in order; and neither end ever takes the other's conforming
\* traffic for a truncated record, an overrun or a broken ledger.
CloseLosesNothing ==
    /\ \A s \in Sides :
         /\ carrier[s].why \notin {"truncated", "overrun", "ledger", "malformed"}
         /\ carrier[s].got = [i \in 1..Len(carrier[s].got) |-> i]
    /\ carrier["server"].rx = "closed" /\ carrier["server"].peerClosed
         /\ ~carrier["server"].requested
       => Len(carrier["server"].got) >= carrier["client"].sent

\* A close that is recorded as complete was answered by the other end: a
\* client's by the server's CLOSE, a server's by the end of its client.
CompletedMeansAnswered ==
    /\ carrier["client"].completed => carrier["server"].closeSent \/ carrier["client"].refused
    /\ carrier["server"].completed =>
         carrier["server"].wsClosed /\ carrier["client"].terminal

\* A close that counts as graceful was one: nothing lost, and answered.
ClosesCleanly == CloseLosesNothing /\ CompletedMeansAnswered

\* Every behaviour is finite: records, credit and requests run out.  So what
\* must eventually happen has happened when nothing is left to run.  Busy(s)
\* says that the executor, the connection, a sink or the session of s still
\* has something to do; a session that may stop of its own accord need not.
Busy(s) ==
    LET x == carrier[s]
    IN  /\ ~x.terminal
        /\ \/ x.created = "ok" /\ x.rx = "idle"
           \/ x.control \/ x.writing \/ x.held > 0
           \/ x.reading /\ (carrier[Peer(s)].wire # <<>> \/ carrier[Peer(s)].terminal)
           \/ x.stage = "run" /\ MustStop(s)
           \/ x.stage = "cancelled" /\ x.created = "ok"

\* When nothing is left to run and no deadline is armed, no send waits for
\* window that nobody will return, every close that was asked for has ended
\* the carrier, and the client's creation was answered.
NothingWaitsAtRest ==
    (\A s \in Sides : ~Busy(s) /\ ~carrier[s].deadline) =>
        \A s \in Sides :
            /\ carrier[s].tx # "asked"
            /\ carrier[s].requested => carrier[s].terminal
            /\ carrier[s].created # "waiting"

\* A server that waits for its client to end the connection notices that it
\* did, without its deadline.
ClientEndIsNoticed ==
    (\A s \in Sides : ~Busy(s)) =>
        (carrier["client"].completed => carrier["server"].terminal)
=============================================================================

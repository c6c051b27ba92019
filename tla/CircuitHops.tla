----------------------------- MODULE CircuitHops -----------------------------
(***************************************************************************)
(* One circuit: the client that builds it hop by hop and opens streams     *)
(* through it (src/src/runtime/circuit_client.cpp) and the nodes along it  *)
(* (src/src/runtime/circuit_node.cpp), each on a context of its own, so a  *)
(* handler is one action.  Handlers are functions from the circuit's state *)
(* x to its next, as the methods of the two classes call each other.       *)
(*                                                                         *)
(* link[i] is the YTP/1 stream between hop i - 1 (the client is hop 0) and *)
(* hop i: cells in order both ways, room for a few, FIN, and a close that  *)
(* discards what its peer has not read yet.  A cell carries the hop it is  *)
(* for, or comes from, in place of its layers.  Data is counted in cells.  *)
(***************************************************************************)
EXTENDS Integers, Sequences, SequencesExt, FiniteSetsExt

CONSTANTS Scenes,        \* hops, what each stream's two ends send, streams_per_circuit
                         \* (at the client and at the exit), and faults or not
          StreamWindow,  \* the first window of a stream, at both ends
          MaxWindow,     \* ClientLimits::max_stream_window
          CircuitWindow, \* ClientLimits::circuit_window
          QueueCells,    \* forward_queue_cells and backward_queue_cells
          LinkRoom       \* cells a link takes before a write waits

ASSUME CircuitAssumption ==
    /\ {StreamWindow, MaxWindow, CircuitWindow, QueueCells, LinkRoom}
         \subseteq Nat \ {0}
    /\ StreamWindow <= MaxWindow /\ StreamWindow <= CircuitWindow
    /\ \A k \in Scenes : /\ k.hops \in 2..3 /\ k.faults \in BOOLEAN
                         /\ k.most \in Nat \ {0} /\ Len(k.streams) \in Nat

VARIABLES scene, circuit
vars == <<scene, circuit>>

N == scene.hops
Streams == DOMAIN scene.streams
Hop == 1..N

Cell(hop, type, s, n) == [hop |-> hop, type |-> type, s |-> s, n |-> n]
Plain(hop, type) == Cell(hop, type, 0, 0)

NewStream(k) ==
    [at |-> "none", connected |-> FALSE, remoteDone |-> FALSE, shut |-> FALSE,
     endSent |-> FALSE, toWrite |-> k.writes, writes |-> 0, win |-> StreamWindow,
     allowed |-> StreamWindow, used |-> 0, sendWin |-> StreamWindow, got |-> 0, read |-> 0]
NewExit(k) ==
    [at |-> "none", queue |-> 0, writing |-> FALSE, reading |-> FALSE, later |-> FALSE,
     allowed |-> StreamWindow, used |-> 0, sendWin |-> StreamWindow,
     clientDone |-> FALSE, destDone |-> FALSE, shut |-> FALSE, replies |-> k.replies,
     wrote |-> 0]
NewNode == [phase |-> "create", opening |-> FALSE, held |-> <<>>, bq |-> <<>>,
            readNext |-> FALSE, closing |-> FALSE, closed |-> FALSE]

\* The client has queued CREATE for the entry.
Init ==
    /\ scene \in Scenes
    /\ circuit =
         [phase |-> "building", layers |-> 0, blame |-> -1, cursor |-> 0,
          fq |-> <<Plain(1, "create")>>,
          st |-> [s \in Streams |-> NewStream(scene.streams[s])],
          ex |-> [s \in Streams |-> NewExit(scene.streams[s])],
          node |-> [i \in Hop |-> NewNode],
          link |-> [i \in Hop |-> [live |-> i = 1, down |-> <<>>, up |-> <<>>, shut |-> {}]],
          \* what really happened: the hop or link that failed, a part that gave up
          \* waiting or was closed by its owner, a cell that its reader refused
          culprit |-> 0, gaveUp |-> FALSE, bad |-> FALSE]

-----------------------------------------------------------------------------
(* Links.                                                                  *)

CloseLink(x, i, side) ==
    IF ~x.link[i].live THEN x
    ELSE LET both == x.link[i].shut \cup {side} = {"near", "far"}
         IN  [x EXCEPT !.link[i].shut = @ \cup {side},
                       !.link[i].up = IF side = "near" \/ both THEN <<>> ELSE @,
                       !.link[i].down = IF side = "far" \/ both THEN <<>> ELSE @]

\* A record written to a side that closed the stream goes nowhere.
Down(x, i, cell) ==
    IF "far" \in x.link[i].shut THEN x ELSE [x EXCEPT !.link[i].down = Append(@, cell)]
Up(x, i, cell) ==
    IF "near" \in x.link[i].shut THEN x ELSE [x EXCEPT !.link[i].up = Append(@, cell)]

HasRoom(cells) == Len(cells) < LinkRoom

-----------------------------------------------------------------------------
(* The client.                                                             *)

CloseClient(x) ==
    CloseLink([x EXCEPT !.phase = "closed", !.fq = <<>>,
                        !.blame = IF @ = -1 THEN 0 ELSE @,
                        !.st = [s \in Streams |->
                                  IF @[s].at = "open" THEN [@[s] EXCEPT !.at = "gone", !.got = 0]
                                  ELSE @[s]]],
              1, "near")

Fail(x, hop) == IF x.phase = "closed" THEN x ELSE CloseClient([x EXCEPT !.blame = hop])
Protocol(x) == Fail([x EXCEPT !.bad = TRUE], 0)

QueueCell(x, cell) == [x EXCEPT !.fq = Append(@, cell)]
ToExit(x, type, s, n) == QueueCell(x, Cell(N, type, s, n))

ForwardRoom(x) == Max({0, QueueCells - Len(x.fq)})

InMap(x, s) == x.st[s].at = "open"

\* The windows of the circuit's streams and one more grant fit circuit_window.
WindowAvailable(x, grant) ==
    grant + MapThenSumSet(LAMBDA s : x.st[s].win, {s \in Streams : InMap(x, s)})
      <= CircuitWindow

\* pump(): data while the exit's window and the queue allow, then END.
SendData(x, s, most) ==
    LET k == x.st[s]
        n == IF ~InMap(x, s) THEN 0
             ELSE Min({most, k.writes, k.sendWin, ForwardRoom(x)})
    IN  [x EXCEPT !.st[s].writes = @ - n, !.st[s].sendWin = @ - n,
                  !.fq = @ \o [j \in 1..n |-> Cell(N, "data", s, 1)]]

SendEnd(x, s) ==
    LET k == x.st[s]
    IN  IF k.at = "open" /\ k.writes = 0 /\ k.shut /\ ~k.endSent
        THEN ToExit([x EXCEPT !.st[s].endSent = TRUE,
                              !.st[s].at = IF k.remoteDone THEN "left" ELSE "open"],
                    "done", s, 0)
        ELSE x

PumpStream(x, s, most) == SendEnd(SendData(x, s, most), s)

\* resume_writers(): a cell to each stream that can send, in turn, after the last.
ResumeWriters(x) ==
    LET order == SelectSeq([j \in Streams |-> ((x.cursor + j - 1) % Len(scene.streams)) + 1],
                           LAMBDA s : InMap(x, s) /\ x.st[s].writes > 0 /\ x.st[s].sendWin > 0)
        turn(y, s) ==
          IF ForwardRoom(y) > 0 /\ y.st[s].writes > 0 /\ y.st[s].sendWin > 0
          THEN [PumpStream(y, s, 1) EXCEPT !.cursor = s] ELSE y
        rounds == FlattenSeq([j \in 1..ForwardRoom(x) |-> order])
    IN  IF x.phase # "ready" \/ order = <<>> THEN x ELSE FoldLeft(turn, x, rounds)

\* add_layer(), with the next EXTEND or readiness.
AddLayer(x) ==
    LET y == [x EXCEPT !.layers = @ + 1]
    IN  IF y.layers = N THEN [y EXCEPT !.phase = "ready"]
        ELSE QueueCell(y, Plain(y.layers, "extend"))

ClientData(x, s) ==
    IF ~x.st[s].connected \/ x.st[s].remoteDone \/ x.st[s].allowed = 0 THEN Protocol(x)
    ELSE [x EXCEPT !.st[s].allowed = @ - 1, !.st[s].got = @ + 1]

ClientEnd(x, s, done) ==
    IF ~x.st[s].connected \/ ~done THEN [x EXCEPT !.st[s].at = "gone", !.st[s].got = 0]
    ELSE [x EXCEPT !.st[s].remoteDone = TRUE,
                   !.st[s].at = IF x.st[s].endSent THEN "left" ELSE @]

\* handle(): a stream that this client ended may still see what crossed its END.
HandleStream(x, c) ==
    IF ~InMap(x, c.s) THEN x
    ELSE CASE c.type = "connected" ->
                IF x.st[c.s].connected THEN Protocol(x)
                ELSE [x EXCEPT !.st[c.s].connected = TRUE]
           [] c.type = "data" -> ClientData(x, c.s)
           [] c.type \in {"done", "ended"} -> ClientEnd(x, c.s, c.type = "done")
           [] c.type = "credit" ->
                PumpStream([x EXCEPT !.st[c.s].sendWin = @ + c.n], c.s, QueueCells)

OnCell(x, c) ==
    CASE c.type = "fin" -> Fail(x, 0)
      [] c.type = "created" -> IF x.layers = 0 THEN AddLayer(x) ELSE Protocol(x)
      [] c.type = "failed" -> Fail(x, c.hop)
      [] c.type = "extended" ->
           IF x.phase = "building" /\ c.hop = x.layers THEN AddLayer(x) ELSE Protocol(x)
      [] c.type = "extend_failed" ->
           IF x.phase = "building" /\ c.hop = x.layers THEN Fail(x, c.hop + 1) ELSE Protocol(x)
      [] OTHER -> IF x.phase = "ready" /\ c.hop = N THEN HandleStream(x, c) ELSE Protocol(x)

-----------------------------------------------------------------------------
(* The nodes.                                                              *)

Held(x) == {s \in Streams : x.ex[s].at \in {"opening", "connected"}}

DropAll(x) == [x EXCEPT !.ex = [s \in Streams |-> IF s \in Held(x) THEN [@[s] EXCEPT !.at = "gone"]
                                                  ELSE @[s]]]

CloseNode(x, i) ==
    IF x.node[i].closed THEN x
    ELSE LET y == CloseLink([x EXCEPT !.node[i].closed = TRUE, !.node[i].bq = <<>>,
                                      !.node[i].held = <<>>], i, "far")
             z == IF i < N /\ x.node[i].phase \in {"extending", "extended"}
                  THEN CloseLink(y, i + 1, "near") ELSE y
         IN  IF i = N THEN DropAll(z) ELSE z

NodeProtocol(x, i) == CloseNode([x EXCEPT !.bad = TRUE], i)

Enqueue(x, i, cell, resume) ==
    [x EXCEPT !.node[i].bq = Append(@, [cell |-> cell, resume |-> resume])]
Send(x, i, type, s, n) == Enqueue(x, i, Cell(i, type, s, n), FALSE)

\* abandon_extension(): the circuit stays usable up to this hop.
AbandonExtension(x, i) ==
    LET y == IF x.node[i].phase = "extending" THEN CloseLink(x, i + 1, "near") ELSE x
    IN  Send([y EXCEPT !.node[i].phase = "open"], i, "extend_failed", 0, 0)


\* next_ended(): report it in order, then FIN, and read on until the end.
NextEnded(x, i) ==
    IF x.node[i].closed \/ x.node[i].closing THEN x
    ELSE Send([x EXCEPT !.node[i].closing = TRUE], i, "failed", 0, 0)

PumpWrite(x, s) ==
    LET e == x.ex[s]
    IN  IF e.at # "connected" \/ e.writing \/ x.node[N].closed THEN x
        ELSE IF e.queue > 0
             THEN [x EXCEPT !.ex[s].writing = TRUE, !.ex[s].queue = @ - 1]
        ELSE [x EXCEPT !.ex[s].shut = @ \/ e.clientDone]

PumpRead(x, s) ==
    LET e == x.ex[s]
    IN  IF /\ ~x.node[N].closed /\ e.at = "connected" /\ ~e.reading /\ ~e.destDone
           /\ e.sendWin > 0 /\ Len(x.node[N].bq) < QueueCells
        THEN [x EXCEPT !.ex[s].reading = TRUE] ELSE x

Drop(x, s) == [x EXCEPT !.ex[s].at = "gone"]

\* Mutant: a stream is let go while data waits for the destination.
SettleEarly(x, s) ==
    IF s \in Held(x) /\ x.ex[s].clientDone /\ x.ex[s].destDone
    THEN [x EXCEPT !.ex[s].at = "settled"] ELSE x

Settle(x, s) ==
    LET e == x.ex[s]
    IN  IF s \in Held(x) /\ e.clientDone /\ e.destDone /\ e.queue = 0 /\ ~e.writing THEN [x EXCEPT !.ex[s].at = "settled"] ELSE x

FailStream(x, s) == Send(Drop(x, s), N, "ended", s, 0)

Begin(x, i, s) ==
    IF x.node[i].phase # "open" \/ i # N \/ x.ex[s].at # "none" THEN NodeProtocol(x, i)
    ELSE IF Cardinality(Held(x)) >= scene.most
         THEN Send([x EXCEPT !.ex[s].at = "refused"], i, "ended", s, 0)
    ELSE [x EXCEPT !.ex[s].at = "opening"]

NodeData(x, i, s) ==
    IF s \notin Held(x) THEN x
    ELSE IF x.ex[s].clientDone \/ x.ex[s].allowed = 0 THEN NodeProtocol(x, i)
    ELSE PumpWrite([x EXCEPT !.ex[s].allowed = @ - 1, !.ex[s].queue = @ + 1], s)

NodeEnd(x, s, done) ==
    IF s \notin Held(x) THEN x
    ELSE IF ~done THEN Drop(x, s)
    ELSE Settle(PumpWrite([x EXCEPT !.ex[s].clientDone = TRUE], s), s)

NodeCredit(x, s, n) ==
    IF s \notin Held(x) THEN x ELSE PumpRead([x EXCEPT !.ex[s].sendWin = @ + n], s)

\* on_inbound() with a cell: CREATE, a cell for a later hop, or one for this hop.
OnInbound(x, i, c) ==
    LET phase == x.node[i].phase
    IN  IF x.node[i].closing THEN x
        ELSE IF c.type = "create"
        THEN IF phase = "create"
             THEN Enqueue([x EXCEPT !.node[i].phase = "open"], i, Plain(i, "created"), FALSE)
             ELSE NodeProtocol(x, i)
        ELSE IF phase = "create" THEN NodeProtocol(x, i)
        ELSE IF c.hop > i
        THEN IF phase = "extended" THEN [x EXCEPT !.node[i].held = <<c>>]
             ELSE NodeProtocol(x, i)
        ELSE CASE c.type = "extend" ->
                    IF phase # "open" \/ (i = N /\ \E s \in Streams : x.ex[s].at # "none")
                    THEN NodeProtocol(x, i)
                    ELSE [x EXCEPT !.node[i].phase = "opening", !.node[i].opening = TRUE]
               [] c.type = "begin" -> Begin(x, i, c.s)
               [] c.type = "data" -> NodeData(x, i, c.s)
               [] c.type \in {"done", "ended"} -> NodeEnd(x, c.s, c.type = "done")
               [] c.type = "credit" -> NodeCredit(x, c.s, c.n)

\* on_created() and on_next(): a cell from the next hop.
OnNext(x, i, c) ==
    IF x.node[i].closing THEN x
    ELSE IF x.node[i].phase = "extending"
         THEN IF c.type = "created"
              THEN Send([x EXCEPT !.node[i].phase = "extended", !.node[i].readNext = TRUE],
                        i, "extended", 0, 0)
              ELSE AbandonExtension(x, i)
    ELSE IF c.type = "fin" THEN NextEnded(x, i)
    ELSE IF c.type = "created" THEN NodeProtocol(x, i)
    ELSE Enqueue([x EXCEPT !.node[i].readNext = FALSE], i, c, TRUE)

\* Mutant: the next hop is not read again.
BackwardWrittenOnce(x, i) ==
    LET y == Up([x EXCEPT !.node[i].bq = Tail(@)], i, Head(x.node[i].bq).cell)
    IN  IF i = N THEN FoldLeft(PumpRead, y, SetToSeq(Streams)) ELSE y

\* on_backward_written().
BackwardWritten(x, i) ==
    LET sent == Head(x.node[i].bq)
        y == Up([x EXCEPT !.node[i].bq = Tail(@)], i, sent.cell)
        z == [y EXCEPT !.node[i].readNext = @ \/ sent.resume]
    IN  IF y.node[i].closing /\ y.node[i].bq = <<>>
        THEN Up(y, i, Plain(i, "fin"))
        ELSE IF i = N THEN FoldLeft(PumpRead, z, SetToSeq(Streams)) ELSE z

-----------------------------------------------------------------------------
(* Actions of the client and of its application.                           *)

Handle(x) == circuit' = x /\ UNCHANGED scene

ClientOpen == circuit.phase # "closed"
Gone(i, side) == circuit.link[i].live /\ side \in circuit.link[i].shut

ClientWrites ==
    /\ ClientOpen /\ circuit.fq # <<>> /\ HasRoom(circuit.link[1].down)
    /\ Handle(ResumeWriters(Down([circuit EXCEPT !.fq = Tail(@)], 1, Head(circuit.fq))))

ClientReads ==
    /\ ClientOpen /\ circuit.link[1].up # <<>>
    /\ Handle(OnCell([circuit EXCEPT !.link[1].up = Tail(@)], Head(circuit.link[1].up)))

\* A read or a write of the entry's stream fails.
EntryGone == ClientOpen /\ Gone(1, "far") /\ Handle(Fail(circuit, 0))

\* The build timer: the hop being extended to did not answer.
BuildTimeout ==
    /\ circuit.phase = "building" /\ scene.faults
    /\ Handle(Fail([circuit EXCEPT !.gaveUp = TRUE], circuit.layers + 1))

OpenStream(s) ==
    /\ circuit.phase = "ready" /\ circuit.st[s].at = "none"
    /\ Cardinality({t \in Streams : InMap(circuit, t)}) < scene.most
    /\ WindowAvailable(circuit, StreamWindow)
    /\ Handle(ToExit([circuit EXCEPT !.st[s].at = "open"], "begin", s, 0))

AppWrite(s) ==
    /\ InMap(circuit, s) /\ circuit.st[s].toWrite > 0
    /\ Handle(PumpStream([circuit EXCEPT !.st[s].toWrite = @ - 1, !.st[s].writes = @ + 1],
                         s, QueueCells))

AppShutdown(s) ==
    /\ InMap(circuit, s) /\ circuit.st[s].toWrite = 0 /\ ~circuit.st[s].shut
    /\ Handle(PumpStream([circuit EXCEPT !.st[s].shut = TRUE], s, QueueCells))

Growth(x, s) ==
    LET win == x.st[s].win
        grant == Min({win, MaxWindow - win})
    IN  IF WindowAvailable(x, grant) THEN grant ELSE 0

\* Mutant: the window grows at the exit before the client allows it.
ConsumedUncounted(x, s) ==
    LET k == x.st[s]
        growth == Growth(x, s)
    IN  IF k.used < k.win \div 2 \/ k.remoteDone \/ ~InMap(x, s) THEN x
        ELSE ToExit([x EXCEPT !.st[s].used = 0, !.st[s].win = @ + growth,
                              !.st[s].allowed = @ + k.used],
                    "credit", s, k.used + growth)

\* consumed(): half a window was read; the window grows with the same credit.
Consumed(x, s) ==
    LET k == x.st[s]
        growth == Growth(x, s)
    IN  IF k.used < k.win \div 2 \/ k.remoteDone \/ ~InMap(x, s) THEN x
        ELSE ToExit([x EXCEPT !.st[s].used = 0, !.st[s].win = @ + growth,
                              !.st[s].allowed = @ + k.used + growth],
                    "credit", s, k.used + growth)

AppRead(s) ==
    /\ circuit.st[s].at \in {"open", "left"} /\ circuit.st[s].got > 0
    /\ Handle(Consumed([circuit EXCEPT !.st[s].got = @ - 1, !.st[s].read = @ + 1,
                                       !.st[s].used = @ + 1], s))

\* close(): END closed ends both directions, unless both had finished.
AppClose(s) ==
    /\ scene.faults /\ circuit.st[s].at \in {"open", "left"}
    /\ LET x == IF InMap(circuit, s) THEN ToExit(circuit, "ended", s, 0) ELSE circuit
       IN  Handle([x EXCEPT !.st[s].at = "gone", !.st[s].got = 0, !.st[s].writes = 0])

ClientCloses ==
    /\ ClientOpen /\ scene.faults
    /\ Handle(CloseClient([circuit EXCEPT !.gaveUp = TRUE]))

-----------------------------------------------------------------------------
(* Actions of the nodes.                                                   *)

Live(i) == circuit.link[i].live /\ ~circuit.node[i].closed

\* The previous hop is read again only once the next one has the last cell.
ReadsInbound(i) == Live(i) /\ (circuit.node[i].held = <<>> \/ circuit.node[i].closing)

\* extending: the answer to CREATE; extended: a cell, once the last was written back.
ReadsNext(i) ==
    /\ i < N /\ Live(i) /\ ~circuit.node[i].closing
    /\ \/ circuit.node[i].phase = "extending"
       \/ circuit.node[i].phase = "extended" /\ circuit.node[i].readNext

ReadInbound(i) ==
    /\ ReadsInbound(i) /\ circuit.link[i].down # <<>>
    /\ Handle(OnInbound([circuit EXCEPT !.link[i].down = Tail(@)], i,
                        Head(circuit.link[i].down)))

InboundGone(i) ==
    /\ Gone(i, "near") /\ (ReadsInbound(i) \/ (Live(i) /\ circuit.node[i].bq # <<>>))
    /\ Handle(CloseNode(circuit, i))

ForwardHeld(i) ==
    /\ Live(i) /\ circuit.node[i].held # <<>> /\ HasRoom(circuit.link[i + 1].down)
    /\ Handle(Down([circuit EXCEPT !.node[i].held = <<>>], i + 1,
                   Head(circuit.node[i].held)))

ReadNext(i) ==
    /\ ReadsNext(i) /\ circuit.link[i + 1].up # <<>>
    /\ Handle(OnNext([circuit EXCEPT !.link[i + 1].up = Tail(@)], i,
                     Head(circuit.link[i + 1].up)))

\* A read, or the write of a held cell, fails.
NextGone(i) ==
    /\ i < N /\ Gone(i + 1, "far")
    /\ ReadsNext(i) \/ (Live(i) /\ circuit.node[i].held # <<>>)
    /\ LET x == [circuit EXCEPT !.node[i].held = <<>>]
       IN  Handle(IF x.node[i].phase = "extending" THEN AbandonExtension(x, i)
                  ELSE NextEnded(x, i))

WriteBackward(i) ==
    /\ Live(i) /\ circuit.node[i].bq # <<>> /\ HasRoom(circuit.link[i].up)
    /\ Handle(BackwardWritten(circuit, i))

\* Mutant: a stream that opens after its extension was abandoned is kept.
OnNextOpenLate(x, i) == [x EXCEPT !.link[i + 1].live = TRUE]

\* on_next_open() with a stream that nobody waits for any more.
OnNextOpenAbandoned(x, i) ==
    CloseLink([x EXCEPT !.link[i + 1].live = TRUE], i + 1, "near")

\* on_next_open(): CREATE for the next hop.
NextOpens(i) ==
    /\ circuit.node[i].opening
    /\ LET x == [circuit EXCEPT !.node[i].opening = FALSE]
       IN  Handle(IF x.node[i].closed \/ x.node[i].phase # "opening"
                  THEN OnNextOpenAbandoned(x, i)
                  ELSE Down([x EXCEPT !.node[i].phase = "extending",
                                      !.link[i + 1].live = TRUE],
                            i + 1, Plain(i + 1, "create")))

Blameless == scene.faults /\ circuit.culprit = 0

NextRefused(i) ==
    /\ Blameless /\ circuit.node[i].opening
    /\ LET x == [circuit EXCEPT !.node[i].opening = FALSE, !.culprit = i + 1]
       IN  Handle(IF x.node[i].closed \/ x.node[i].phase # "opening" THEN x
                  ELSE AbandonExtension(x, i))

\* handle_create() refuses for want of handshakes.
HandshakeRefused(i) ==
    /\ Blameless /\ ReadsInbound(i) /\ circuit.node[i].phase = "create"
    /\ circuit.link[i].down # <<>>
    /\ Handle(CloseNode([circuit EXCEPT !.culprit = i], i))

\* The session under a link ends.
LinkBreaks(i) ==
    /\ Blameless /\ circuit.link[i].live /\ circuit.link[i].shut = {}
    /\ Handle([circuit EXCEPT !.culprit = i, !.link[i].shut = {"near", "far"},
                              !.link[i].up = <<>>, !.link[i].down = <<>>])

\* sweep(): an extension that hung; the late answer finds it abandoned.
ExtendTimeout(i) ==
    /\ scene.faults /\ Live(i) /\ circuit.node[i].phase \in {"opening", "extending"}
    /\ Handle(AbandonExtension([circuit EXCEPT !.gaveUp = TRUE], i))

\* sweep(): a cell, or the end of a failed circuit, waited too long.
Stalled(i) ==
    /\ scene.faults /\ Live(i)
    /\ \/ circuit.node[i].held # <<>>
       \/ circuit.node[i].bq # <<>>
       \/ circuit.node[i].closing
    /\ Handle(CloseNode([circuit EXCEPT !.gaveUp = TRUE], i))

-----------------------------------------------------------------------------
(* Actions of the exit.                                                    *)

ExitOpens(s) ==
    /\ circuit.ex[s].at = "opening"
    /\ Handle(PumpRead(PumpWrite(Send([circuit EXCEPT !.ex[s].at = "connected"],
                                      N, "connected", s, 0), s), s))

ExitRefused(s) ==
    /\ scene.faults /\ circuit.ex[s].at = "opening"
    /\ Handle(FailStream(circuit, s))

Connected(s) == circuit.ex[s].at = "connected"

\* A write to the destination completes: window returns once half has drained.
WriteDone(s) ==
    /\ Connected(s) /\ circuit.ex[s].writing
    /\ LET used == circuit.ex[s].used + 1
           returns == used >= StreamWindow \div 2 /\ ~circuit.ex[s].clientDone
           x == [circuit EXCEPT !.ex[s].writing = FALSE, !.ex[s].wrote = @ + 1,
                                !.ex[s].used = IF returns THEN 0 ELSE used,
                                !.ex[s].allowed = IF returns THEN @ + used ELSE @]
           y == IF returns THEN Send(x, N, "credit", s, used) ELSE x
       IN  Handle(Settle(PumpWrite(y, s), s))

\* A read of the destination returns data, or its end.
ReadDone(s) ==
    /\ Connected(s) /\ circuit.ex[s].reading
    /\ LET x == [circuit EXCEPT !.ex[s].reading = FALSE]
       IN  IF x.ex[s].replies > 0
           THEN Handle(Send([x EXCEPT !.ex[s].replies = @ - 1, !.ex[s].sendWin = @ - 1,
                                      !.ex[s].later = TRUE], N, "data", s, 1))
           ELSE Handle(Settle(Send([x EXCEPT !.ex[s].destDone = TRUE], N, "done", s, 0), s))

PumpReadLater(s) ==
    /\ circuit.ex[s].later
    /\ Handle(PumpRead([circuit EXCEPT !.ex[s].later = FALSE], s))

DestinationFails(s) ==
    /\ scene.faults /\ Connected(s) /\ (circuit.ex[s].writing \/ circuit.ex[s].reading)
    /\ Handle(FailStream(circuit, s))

-----------------------------------------------------------------------------
Handlers ==
    \/ ClientWrites \/ ClientReads \/ EntryGone
    \/ \E i \in Hop : ReadInbound(i) \/ InboundGone(i) \/ WriteBackward(i)
    \/ \E i \in 1..(N - 1) : ForwardHeld(i) \/ ReadNext(i) \/ NextGone(i) \/ NextOpens(i)
    \/ \E s \in Streams : ExitOpens(s) \/ WriteDone(s) \/ ReadDone(s) \/ PumpReadLater(s)

Application ==
    \E s \in Streams : OpenStream(s) \/ AppWrite(s) \/ AppRead(s) \/ AppShutdown(s)

Faults ==
    \/ BuildTimeout \/ ClientCloses
    \/ \E i \in Hop : HandshakeRefused(i) \/ LinkBreaks(i) \/ ExtendTimeout(i) \/ Stalled(i)
    \/ \E i \in 1..(N - 1) : NextRefused(i)
    \/ \E s \in Streams : AppClose(s) \/ ExitRefused(s) \/ DestinationFails(s)

Next == Handlers \/ Application \/ Faults

\* Completions are delivered and posted handlers run; an application that
\* writes and reads goes on doing so.
Spec == Init /\ [][Next]_vars /\ WF_vars(Handlers) /\ WF_vars(Application)

-----------------------------------------------------------------------------
TypeOK ==
    /\ scene \in Scenes
    /\ circuit.phase \in {"building", "ready", "closed"}
    /\ circuit.layers \in 0..N /\ circuit.blame \in -1..(N + 1)
    /\ \A s \in Streams :
         /\ circuit.st[s].at \in {"none", "open", "left", "gone"}
         /\ circuit.ex[s].at \in {"none", "opening", "connected", "settled", "refused", "gone"}
         /\ circuit.st[s].win \in StreamWindow..MaxWindow
         /\ {circuit.st[s].sendWin, circuit.ex[s].sendWin, circuit.st[s].allowed,
             circuit.ex[s].allowed} \subseteq Nat
    /\ \A i \in Hop :
         circuit.node[i].phase \in {"create", "open", "opening", "extending", "extended"}

\* Every cell on its way in one direction, in any queue or link.
Forward == circuit.fq \o FlattenSeq([i \in Hop |-> circuit.link[i].down \o circuit.node[i].held])
Backward == FlattenSeq([i \in Hop |->
                circuit.link[i].up \o [j \in DOMAIN circuit.node[i].bq |-> circuit.node[i].bq[j].cell]])
InFlight(cells, s, type) ==
    FoldLeft(LAMBDA sum, c : IF c.s = s /\ c.type = type THEN sum + c.n ELSE sum, 0, cells)

Intact == circuit.phase = "ready" /\ circuit.culprit = 0 /\ ~circuit.gaveUp

\* No honest hop refuses a cell of another (circuit_client.cpp:733, circuit_node.cpp:828),
\* and while a circuit is intact each end of a stream may send exactly what the
\* other will still take: windows that grow, credit and data that cross, and
\* streams that end while cells are under way never open a gap between them.
CellsExpected ==
    /\ ~circuit.bad
    /\ Intact => \A s \in Streams :
         InMap(circuit, s) /\ s \in Held(circuit) =>
           /\ ~circuit.ex[s].clientDone =>
                circuit.ex[s].allowed = circuit.st[s].sendWin + InFlight(Forward, s, "data")
                                          + InFlight(Backward, s, "credit")
           /\ ~circuit.ex[s].destDone =>
                circuit.st[s].allowed = circuit.ex[s].sendWin + InFlight(Backward, s, "data")
                                          + InFlight(Forward, s, "credit")

\* An end is never a truncation: a destination that sees the end of its input,
\* or a stream that the exit let go as finished, took all that the application
\* wrote, and an application told of the end reads all that the destination sent.
EndMeansAll ==
    \A s \in Streams :
        LET k == scene.streams[s]
        IN  /\ circuit.ex[s].shut \/ circuit.ex[s].at = "settled" => circuit.ex[s].wrote = k.writes
            /\ circuit.st[s].remoteDone /\ circuit.st[s].at # "gone"
                 => circuit.st[s].read + circuit.st[s].got = k.replies


\* "While it was being built, hop names the hop that could not be reached"
\* (circuit_client.hpp:45): of the hop being reached, not of one that was reached
\* earlier in the same build, so this does not hold.
BuildNamesTheHop ==
    circuit.phase = "closed" /\ ~circuit.gaveUp /\ circuit.layers < N =>
        circuit.blame = IF circuit.culprit <= 1 THEN 0 ELSE circuit.culprit

\* Nothing outlives its circuit: once the client or a node has closed, every hop
\* that was ever reached closes, also one whose stream opened after the extension
\* was given up, and so do the exit's streams.
HopsLetGo ==
    (circuit.phase = "closed" \/ \E i \in Hop : circuit.node[i].closed)
      ~> /\ circuit.phase = "closed"
         /\ \A i \in Hop : circuit.link[i].live => circuit.node[i].closed
         /\ Held(circuit) = {}

\* A circuit without faults becomes ready and carries every stream that the exit
\* takes to its end in both directions, with hops that hold back and windows that
\* run out.
StreamsServed ==
    <>(~scene.faults => \A s \in Streams :
         \/ circuit.ex[s].at = "settled" /\ circuit.st[s].read = scene.streams[s].replies
         \/ circuit.ex[s].at = "refused")
=============================================================================

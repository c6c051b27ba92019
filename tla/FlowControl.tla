---------------------------- MODULE FlowControl ----------------------------
(***************************************************************************)
(* Flow control of one direction of a session (src/engine/session_engine   *)
(* .cpp): several streams share the connection window.  The sender takes   *)
(* turns between the streams that have credit of their own; the receiver's *)
(* application gives bytes back as it consumes them, or stalls; either     *)
(* side may be in a key rotation that holds its records back.              *)
(*                                                                         *)
(* Every stream s sends records of one size, Size[s]; with it the wire is  *)
(* a sequence of stream numbers.  Records and credit updates each keep     *)
(* their order.                                                            *)
(*                                                                         *)
(* The engine tries to queue owed credit at the end of every handler.      *)
(* The attempt is refused while the outbound queue is full and repeated    *)
(* when a send completes, so queueing a grant is a step of its own here.   *)
(***************************************************************************)
EXTENDS ReceiveWindow, Sequences, FiniteSetsExt, SequencesExt

CONSTANTS
    Streams,            \* stream identifiers, numbers as on the wire
    Size,               \* Size[s]: payload of every record of stream s
    Packets,            \* the streams that are packet channels
    Stalled,            \* streams whose reader may stop consuming
    Scenes,             \* the limits and the events of one behaviour, below
    MaxCredit           \* ytp1::kMaxCreditIncrement

\* initial_ and max_ credit of a stream or of the connection
Limits == [initial : 1..MaxCredit, maximum : 1..MaxCredit]

\* The session's limits, how many records are written to each stream, which
\* streams the receiver may close, and which sides rotate keys.
SceneSet == [stream : Limits, connection : Limits, todo : [Streams -> Nat],
             closing : SUBSET Streams, rotating : SUBSET {"sender", "receiver"}]

ASSUME StreamsAssumption ==
    /\ Streams \subseteq Nat \ {0} /\ IsFiniteSet(Streams)
    /\ Size \in [Streams -> 1..MaxFrame]
    /\ Packets \subseteq Streams /\ Stalled \subseteq Streams
ASSUME ScenesAssumption ==
    /\ MaxCredit \in Nat
    /\ Scenes \subseteq SceneSet
    /\ \A k \in Scenes :
         /\ k.stream.initial <= k.stream.maximum
         /\ k.connection.initial <= k.connection.maximum
         /\ k.stream.maximum <= k.connection.maximum

Connection == 0     \* the stream number of a connection-credit record

VARIABLES
    conn,       \* connection_window_ with inbound_connection_credit_
    win,        \* win[s]: receive_window with inbound_credit
    largest,    \* largest[s]: largest_packet
    held,       \* held[s]: delivered or queued bytes not consumed yet
    closed,     \* closed[s]: the receiver closed stream s
    outConn,    \* outbound_connection_credit_ of the sender
    out,        \* out[s]: outbound_credit of the sender
    todo,       \* todo[s]: records in pending_writes
    dead,       \* dead[s]: the sender closed stream s
    cursor,     \* last_scheduled_stream_id_
    parked,     \* the sender's deferred data records, by stream
    flight,     \* data records on the wire, by stream
    deferred,   \* the receiver's deferred credit records
    credits,    \* credit records on their way to the sender
    barred,     \* barred[side]: that side's rotation holds records back
    scene,      \* the scene of this behaviour
    failed      \* an accounting or protocol check failed the session

fvars == <<conn, win, largest, held, closed, outConn, out, todo, dead, cursor,
           parked, flight, deferred, credits, barred, scene, failed>>

sendVars == <<outConn, out, todo, dead, cursor, parked>>
recvVars == <<conn, win, largest, held, closed, deferred>>

Init ==
    /\ scene \in Scenes
    /\ conn = OpenWindow(scene.connection.initial)
    /\ win = [s \in Streams |-> OpenWindow(scene.stream.initial)]
    /\ largest = [s \in Streams |-> 0]
    /\ held = [s \in Streams |-> 0]
    /\ closed = [s \in Streams |-> FALSE]
    /\ outConn = 0
    /\ out = [s \in Streams |-> 0]
    /\ dead = [s \in Streams |-> FALSE]
    /\ cursor = 0
    /\ parked = <<>> /\ flight = <<>> /\ deferred = <<>> /\ credits = <<>>
    /\ barred = [side \in {"sender", "receiver"} |-> FALSE]
    /\ todo = scene.todo
    /\ failed = FALSE

-----------------------------------------------------------------------------
(* The sender: drain_pending_writes and flush_deferred_records. *)

\* Streams whose next record fits their own credit.
Ready == {s \in Streams : ~dead[s] /\ todo[s] # 0 /\ Size[s] <= out[s]}

\* The first of them after the one that had its turn last.
Turn ==
    LET later == {s \in Ready : s > cursor}
    IN  IF later # {} THEN Min(later) ELSE Min(Ready)

\* A stream that waits only for connection credit keeps its turn.
Publish ==
    /\ parked = <<>>
    /\ Ready # {}
    /\ Size[Turn] <= outConn
    /\ cursor' = Turn
    /\ todo' = [todo EXCEPT ![Turn] = @ - 1]
    /\ out' = [out EXCEPT ![Turn] = @ - Size[Turn]]
    /\ outConn' = outConn - Size[Turn]
    /\ IF barred["sender"]
       THEN parked' = Append(parked, Turn) /\ UNCHANGED flight
       ELSE flight' = Append(flight, Turn) /\ UNCHANGED parked
    /\ UNCHANGED <<recvVars, dead, credits, barred, scene, failed>>

\* Mutant: the flush keeps the credit of a dropped record.
FlushKeepsCredit ==
    LET s == Head(parked)
    IN
    /\ ~barred["sender"]
    /\ parked # <<>>
    /\ parked' = Tail(parked)
    /\ flight' = IF dead[s] THEN flight ELSE Append(flight, s)
    /\ UNCHANGED <<recvVars, outConn, out, todo, dead, cursor, credits, barred,
                   scene, failed>>

\* REKEY_ACK: the record that waited is sent, or, its stream closed, dropped
\* with its connection credit given back.
FlushData ==
    LET s == Head(parked)
    IN
    /\ ~barred["sender"]
    /\ parked # <<>>
    /\ parked' = Tail(parked)
    /\ IF dead[s]
       THEN outConn' = outConn + Size[s] /\ UNCHANGED flight
       ELSE flight' = Append(flight, s) /\ UNCHANGED outConn
    /\ UNCHANGED <<recvVars, out, todo, dead, cursor, credits, barred,
                   scene, failed>>

\* The sender learns that the receiver closed the stream and closes its side:
\* its pending writes are completed, not sent.
SenderCloses(s) ==
    /\ closed[s] /\ ~dead[s]
    /\ dead' = [dead EXCEPT ![s] = TRUE]
    /\ todo' = [todo EXCEPT ![s] = 0]
    /\ UNCHANGED <<recvVars, outConn, out, cursor, parked, flight, credits,
                   barred, scene, failed>>

\* process_connection_credit and process_stream_credit.
ReceiveCredit ==
    LET grant == Head(credits)
        now == IF grant.to = Connection THEN outConn ELSE out[grant.to]
    IN
    /\ credits # <<>>
    /\ credits' = Tail(credits)
    /\ IF grant.increment > MaxCredit - now
       THEN failed' = TRUE /\ UNCHANGED <<outConn, out>>
       ELSE /\ failed' = failed
            /\ IF grant.to = Connection
               THEN outConn' = outConn + grant.increment /\ UNCHANGED out
               ELSE /\ out' = [out EXCEPT ![grant.to] = @ + grant.increment]
                    /\ UNCHANGED outConn
    /\ UNCHANGED <<recvVars, todo, dead, cursor, parked, flight, barred, scene>>

-----------------------------------------------------------------------------
(* The receiver. *)

\* collect_stream_credit_locked also raises the connection window.
Collect(w, s, fast) == CollectStream(w, largest[s], scene.stream.maximum, fast)

Raised(c, w, s, fast) ==
    IF CollectDue(w, largest[s], scene.stream.maximum)
    THEN RaiseFloor(c, Collect(w, s, fast).size, scene.connection.maximum)
    ELSE c

NotePacket(s) ==
    [largest EXCEPT ![s] =
        IF s \in Packets /\ Size[s] > @ THEN Size[s] ELSE @]

\* process_application_data: more than was granted fails the session, data of
\* a closed stream is discarded and its connection credit returned.
Deliver ==
    LET s == Head(flight)
        n == Size[s]
        charged == Charge(conn, n)
    IN
    /\ flight # <<>>
    /\ flight' = Tail(flight)
    /\ IF \/ n > win[s].inbound
          \/ n > conn.inbound
          \/ closed[s] /\ ~CanReturn(charged, n)
       THEN failed' = TRUE /\ UNCHANGED recvVars
       ELSE /\ failed' = failed
            /\ win' = [win EXCEPT ![s] = Charge(@, n)]
            /\ largest' = NotePacket(s)
            /\ IF closed[s]
               THEN /\ \E fast \in BOOLEAN :
                          conn' = ReturnConnection(charged, n,
                                                   scene.connection.maximum,
                                                   fast)
                    /\ UNCHANGED held
               ELSE /\ conn' = TakeConnection(charged, FALSE, 0)
                    /\ held' = [held EXCEPT ![s] = @ + n]
            /\ UNCHANGED <<closed, deferred>>
    /\ UNCHANGED <<sendVars, credits, barred, scene>>

\* return_receive_credit, when the application releases one record.
Consume(s) ==
    LET n == Size[s]
        used == [win[s] EXCEPT !.unreturned = @ + n]
    IN
    /\ held[s] >= n
    /\ held' = [held EXCEPT ![s] = @ - n]
    /\ IF CanReturn(conn, n) /\ (closed[s] \/ CanReturn(win[s], n))
       THEN \E fast, fastConn \in BOOLEAN :
              /\ win' = IF closed[s] THEN win
                        ELSE [win EXCEPT ![s] = Collect(used, s, fast)]
              /\ conn' = ReturnConnection(
                            IF closed[s] THEN conn
                            ELSE Raised(conn, used, s, fast),
                            n, scene.connection.maximum, fastConn)
              /\ failed' = failed
       ELSE failed' = TRUE /\ UNCHANGED <<win, conn>>
    /\ UNCHANGED <<sendVars, largest, closed, deferred, flight, credits, barred,
                   scene>>

\* Mutant: a closed stream still owes credit.
CloseStillOwes(s) ==
    /\ ~closed[s]
    /\ closed' = [closed EXCEPT ![s] = TRUE]
    /\ UNCHANGED <<sendVars, conn, win, largest, held, deferred, flight,
                   credits, barred, scene, failed>>

\* remove_stream: what the stream owed is forgotten.
CloseStream(s) ==
    /\ ~closed[s]
    /\ closed' = [closed EXCEPT ![s] = TRUE]
    /\ win' = [win EXCEPT ![s].owed = 0, ![s].unreturned = 0]
    /\ UNCHANGED <<sendVars, conn, largest, held, deferred, flight, credits,
                   barred, scene, failed>>

\* drain_owed_controls queues a credit record, or defers it in a rotation.
Queue(to, w) ==
    LET grant == [to |-> to, increment |-> w.owed]
    IN  IF barred["receiver"]
        THEN deferred' = Append(deferred, grant) /\ UNCHANGED credits
        ELSE credits' = Append(credits, grant) /\ UNCHANGED deferred

Granted(w) ==
    IF barred["receiver"] THEN Reserve(w) ELSE Admit(Reserve(w), w.owed)

GrantFits(w) == barred["receiver"] \/ AdmitAllowed(Reserve(w), w.owed)

OwesGrant(w) == w.owed # 0 /\ GrantSlotFree(w)

\* Connection credit goes first.
GrantConnection ==
    /\ OwesGrant(conn)
    /\ IF GrantFits(conn)
       THEN /\ conn' = Granted(conn)
            /\ Queue(Connection, conn)
            /\ failed' = failed
       ELSE failed' = TRUE /\ UNCHANGED <<conn, deferred, credits>>
    /\ UNCHANGED <<sendVars, win, largest, held, closed, flight, barred, scene>>

GrantStream(s) ==
    /\ ~OwesGrant(conn)
    /\ ~closed[s] /\ OwesGrant(win[s])
    /\ IF GrantFits(win[s])
       THEN /\ win' = [win EXCEPT ![s] = Granted(@)]
            /\ Queue(s, win[s])
            /\ failed' = failed
       ELSE failed' = TRUE /\ UNCHANGED <<win, deferred, credits>>
    /\ UNCHANGED <<sendVars, conn, largest, held, closed, flight, barred, scene>>

\* The flush of the receiver's deferred credit records.
FlushCredit ==
    LET grant == Head(deferred)
        w == IF grant.to = Connection THEN conn ELSE win[grant.to]
        gone == grant.to # Connection /\ closed[grant.to]
    IN
    /\ ~barred["receiver"]
    /\ deferred # <<>>
    /\ deferred' = Tail(deferred)
    /\ IF gone
       THEN /\ win' = [win EXCEPT ![grant.to] = DropGrant(@, grant.increment)]
            /\ UNCHANGED <<conn, credits, failed>>
       ELSE IF ~AdmitAllowed(w, grant.increment)
       THEN failed' = TRUE /\ UNCHANGED <<win, conn, credits>>
       ELSE /\ credits' = Append(credits, grant)
            /\ failed' = failed
            /\ IF grant.to = Connection
               THEN conn' = Admit(conn, grant.increment) /\ UNCHANGED win
               ELSE /\ win' = [win EXCEPT ![grant.to] =
                                 Admit(@, grant.increment)]
                    /\ UNCHANGED conn
    /\ UNCHANGED <<sendVars, largest, held, closed, flight, barred, scene>>

\* A credit record has left; records still deferred keep their slot.
Unsent(to) == Cardinality({i \in DOMAIN deferred : deferred[i].to = to})

ConnectionGrantSent ==
    /\ conn.queued > Unsent(Connection)
    /\ \E fast \in BOOLEAN :
          conn' = CompleteConnection(conn, scene.connection.maximum, fast)
    /\ UNCHANGED <<sendVars, win, largest, held, closed, deferred, flight,
                   credits, barred, scene, failed>>

StreamGrantSent(s) ==
    LET freed == [win[s] EXCEPT !.queued = @ - 1]
    IN
    /\ win[s].queued > Unsent(s)
    /\ IF closed[s]
       THEN win' = [win EXCEPT ![s] = freed] /\ UNCHANGED conn
       ELSE \E fast \in BOOLEAN :
              /\ win' = [win EXCEPT ![s] = Collect(freed, s, fast)]
              /\ conn' = Raised(conn, freed, s, fast)
    /\ UNCHANGED <<sendVars, largest, held, closed, deferred, flight, credits,
                   barred, scene, failed>>

-----------------------------------------------------------------------------
(* Key rotations, seen from here. *)

Bar(side) ==
    /\ ~barred[side]
    /\ IF side = "sender" THEN parked = <<>> ELSE deferred = <<>>
    /\ barred' = [barred EXCEPT ![side] = TRUE]
    /\ UNCHANGED <<sendVars, recvVars, flight, credits, scene, failed>>

Unbar(side) ==
    /\ barred[side]
    /\ barred' = [barred EXCEPT ![side] = FALSE]
    /\ UNCHANGED <<sendVars, recvVars, flight, credits, scene, failed>>

\* What the executors and the carriers do by themselves.
Progress ==
    \/ Publish
    \/ FlushData
    \/ ReceiveCredit
    \/ Deliver
    \/ GrantConnection
    \/ FlushCredit
    \/ ConnectionGrantSent
    \/ \E s \in Streams : SenderCloses(s) \/ GrantStream(s) \/ StreamGrantSent(s)
    \/ \E s \in Streams \ Stalled : Consume(s)

\* What applications and the rotation decide.
Elective ==
    \/ \E s \in Stalled : Consume(s)
    \/ \E s \in scene.closing : CloseStream(s)
    \/ \E side \in scene.rotating : Bar(side) \/ Unbar(side)

Next == ~failed /\ (Progress \/ Elective)

(***************************************************************************)
(* The executors and the carriers keep running, a reader that is not       *)
(* stalled consumes what it was given, and rotations end (RecordRatchet).  *)
(* Nothing obliges a stalled reader to read or a rotation to begin.        *)
(***************************************************************************)
Fairness ==
    /\ WF_fvars(~failed /\ Progress)
    /\ \A side \in {"sender", "receiver"} : WF_fvars(Unbar(side))

Spec == Init /\ [][Next]_fvars /\ Fairness

-----------------------------------------------------------------------------
(* Properties. *)

TypeOK ==
    /\ conn \in Window
    /\ win \in [Streams -> Window]
    /\ largest \in [Streams -> 0..MaxFrame]
    /\ held \in [Streams -> Nat] /\ closed \in [Streams -> BOOLEAN]
    /\ outConn \in Nat /\ out \in [Streams -> Nat]
    /\ todo \in [Streams -> Nat] /\ dead \in [Streams -> BOOLEAN]
    /\ cursor \in Streams \cup {0}
    /\ parked \in Seq(Streams) /\ flight \in Seq(Streams)
    /\ barred \in [{"sender", "receiver"} -> BOOLEAN]
    /\ scene \in Scenes
    /\ failed \in BOOLEAN

\* What the streams hold in all; the bytes of the records in a queue, of all
\* streams or of one; the credit that the updates in a queue carry to a window.
TotalHeld == MapThenSumSet(LAMBDA s : held[s], Streams)

BytesIn(records, some) ==
    LET sum[i \in 0..Len(records)] ==
            IF i = 0 THEN 0
            ELSE sum[i - 1] + IF records[i] \in some THEN Size[records[i]] ELSE 0
    IN  sum[Len(records)]

CreditFor(updates, to) ==
    LET sum[i \in 0..Len(updates)] ==
            IF i = 0 THEN 0
            ELSE sum[i - 1] + IF updates[i].to = to THEN updates[i].increment
                              ELSE 0
    IN  sum[Len(updates)]

ConnectionWindow(k) == INSTANCE CreditWindow WITH
    IsConnection <- TRUE, Initial <- k.connection.initial,
    Maximum <- k.connection.maximum,
    win <- conn, live <- TRUE, held <- TotalHeld,
    out <- outConn, parked <- BytesIn(parked, Streams),
    flight <- BytesIn(flight, Streams),
    grants <- CreditFor(credits, Connection)

StreamWindow(k, s) == INSTANCE CreditWindow WITH
    IsConnection <- FALSE, Initial <- k.stream.initial,
    Maximum <- k.stream.maximum,
    win <- win[s], live <- ~closed[s], held <- held[s],
    out <- out[s], parked <- BytesIn(parked, {s}),
    flight <- BytesIn(flight, {s}),
    grants <- CreditFor(credits, s)

\* The connection window of a session that interleaves streams, rotations and
\* closes is a CreditWindow with the limits of its scene: what is proved of one
\* window, that none of the session's accounting checks fires and no credit is
\* lost, holds of it.
ConnectionIsCreditWindow ==
    /\ \A k \in Scenes : scene = k => ConnectionWindow(k)!Init
    /\ [][\A k \in Scenes : scene = k =>
             \/ UNCHANGED ConnectionWindow(k)!cvars
             \/ ConnectionWindow(k)!Next]_fvars

\* So is every stream's window.
StreamsAreCreditWindows ==
    /\ \A k \in Scenes, s \in Streams : scene = k => StreamWindow(k, s)!Init
    /\ [][\A k \in Scenes, s \in Streams : scene = k =>
             \/ UNCHANGED StreamWindow(k, s)!cvars
             \/ StreamWindow(k, s)!Next]_fvars

\* Conservation of flow credit across the session: at both levels, what the
\* sender holds, has spent and will be granted is what the receiver counts as
\* granted, and every byte of a window is in one place, whatever growth, batched
\* returns, rotations, dropped records and closes of other streams cross.
WindowLedgers ==
    \A k \in Scenes : scene = k =>
        /\ ConnectionWindow(k)!Ledger
        /\ \A s \in Streams : StreamWindow(k, s)!Ledger

\* No accounting or protocol check of the engine fires between two peers that
\* run it: no record exceeds its credit, no return or grant overflows its window
\* and no credit passes the YTP/1 bound.
NeverFails == ~failed

\* What the receiver holds, what is on its way to it and what the sender may
\* still send fit the limits the engine was configured with, for the session
\* and for each of its streams, open or closed.
MemoryBounded ==
    /\ TotalHeld + BytesIn(flight, Streams) + BytesIn(parked, Streams) + outConn
         <= scene.connection.maximum
    /\ \A s \in Streams :
         held[s] + BytesIn(flight, {s}) + BytesIn(parked, {s}) + out[s]
           <= scene.stream.maximum

\* Streams do not block each other: whatever a stalled reader leaves unread, a
\* stream whose own reader consumes gets every record out ("so a stream whose
\* reader stalls leaves credit for the others", and the scheduler's "never one
\* waiting only on shared credit: otherwise small records can starve it").
StreamsProgress ==
    \A s \in Streams \ Stalled :
        [](todo[s] # 0 => <>(todo[s] = 0 \/ closed[s]))
=============================================================================

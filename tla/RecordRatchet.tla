---------------------------- MODULE RecordRatchet ----------------------------
(***************************************************************************)
(* The protected record layer of src/engine/session_engine.cpp between two *)
(* authenticated peers: one directional key epoch per sender, strictly     *)
(* consecutive record tokens, rotation started at half of any epoch limit, *)
(* REKEY_INIT under the old epoch, a bare REKEY_ACK, records deferred while *)
(* the old epoch has no room, and a receiver that keeps the previous epoch *)
(* open until the first record of the new one.                             *)
(*                                                                         *)
(* Payload bytes are abstract units.  The wire of p is p's outbound queue, *)
(* its carrier and the peer's receive buffer: all three are FIFO and the   *)
(* engine has one send and one receive in progress at a time.  Time is an  *)
(* age class of the epoch (young, past half its send lifetime, past its    *)
(* whole lifetime) and a flag for a passed REKEY_ACK deadline.             *)
(***************************************************************************)
EXTENDS Naturals, Sequences, FiniteSets, Functions

CONSTANTS
    Peers,                \* the two ends of a session
    EpochBytes,           \* epoch_payload_bytes_
    EpochRecords,         \* epoch_record_limit_
    DataSizes,            \* payload sizes of stream data
    ControlSize,          \* payload size of every other protected record
    MaxSequence,          \* the last sequence number (2^64 - 1 in the code)
    MaxEpoch,             \* the last epoch (2^32 - 1 in the code)
    MaxConcurrentRekeys,  \* limits_.max_concurrent_rekeys
    MaxQueued,            \* application_queue_limit(), in records
    Budget,               \* bound on the records each peer publishes
    Timed,                \* bound: the peers whose clocks run
    Interleave            \* may a caller publish while a flush is under way?

ASSUME PeersAssumption == \E a, b \in Peers : a # b /\ Peers = {a, b}
ASSUME LimitsAssumption ==
    /\ EpochBytes \in Nat /\ EpochRecords \in Nat /\ EpochRecords >= 2
    /\ ControlSize \in 1..EpochBytes
    /\ DataSizes \subseteq 1..EpochBytes
    /\ MaxSequence \in Nat /\ MaxEpoch \in Nat
    /\ MaxConcurrentRekeys \in Nat /\ MaxConcurrentRekeys >= 2
    /\ MaxQueued \in Nat /\ Budget \in [Peers -> Nat]
    /\ Timed \subseteq Peers /\ Interleave \in BOOLEAN

VARIABLES
    state,      \* state[p]: "Active" or "Failed"
    why,        \* why[p]: what failed p's session
    snd,        \* snd[p]: the outbound direction of p
    rcv,        \* rcv[p]: the inbound direction of p
    work,       \* work[p]: rekey_work_
    deferred,   \* deferred[p]: records waiting for the new epoch
    flushing,   \* flushing[p]: records flush_deferred_records still holds
    wire,       \* wire[p]: what p sealed and its peer has not processed
    unsent,     \* unsent[p]: outbound_queue_ and active_send_, the end of wire[p]
    closed,     \* closed[p]: p closed the stream its data belongs to
    published,  \* published[p]: how many records p published
    got         \* got[p]: identifier of the last record p received

vars == <<state, why, snd, rcv, work, deferred, flushing, wire, unsent,
          closed, published, got>>

MaxPublished == CHOOSE n \in {Budget[p] : p \in Peers} :
                    \A p \in Peers : n >= Budget[p]

Other(p) == CHOOSE q \in Peers : q # p

Young == 0
PastHalf == 1
PastLifetime == 2

Record == [kind : {"data", "control"}, size : DataSizes \cup {ControlSize},
           id : 1..MaxPublished]

Protected ==
    [type : {"record"}, epoch : 0..MaxEpoch, seq : 0..MaxSequence,
     body : Record]
    \cup [type : {"init"}, epoch : 0..MaxEpoch, seq : 0..MaxSequence,
          next : 1..MaxEpoch]

Bare == [type : {"ack"}, next : 1..MaxEpoch]

Message == Protected \cup Bare

\* What occupies the outbound queue: records, and the messages of a rotation.
RekeyItem(type, next) == [kind |-> "rekey", type |-> type, next |-> next]

Item ==
    Record \cup [kind : {"rekey"}, type : {"init", "ack"}, next : 1..MaxEpoch]

\* A sequence number one past the last stands for the exhausted flag.
Exhausted == MaxSequence + 1

\* The state of one direction at its sender and at its receiver.
Outbound ==
    [epoch : 0..MaxEpoch, seq : 0..Exhausted, bytes : 0..EpochBytes,
     records : 0..EpochRecords, age : {Young, PastHalf, PastLifetime},
     pending : BOOLEAN, late : BOOLEAN]

Inbound ==
    [epoch : 0..MaxEpoch, seq : 0..Exhausted, bytes : 0..EpochBytes,
     records : 0..EpochRecords, prevOpen : BOOLEAN,
     prevBytes : 0..EpochBytes, prevRecords : 0..EpochRecords]

(***************************************************************************)
(* Both peers have just become Active: each has sent CAPABILITIES, its     *)
(* first protected record, and has processed the peer's.                   *)
(***************************************************************************)
Init ==
    /\ state = [p \in Peers |-> "Active"]
    /\ why = [p \in Peers |-> "none"]
    /\ snd = [p \in Peers |->
                [epoch |-> 0, seq |-> 1, bytes |-> ControlSize, records |-> 1,
                 age |-> Young, pending |-> FALSE, late |-> FALSE]]
    /\ rcv = [p \in Peers |->
                [epoch |-> 0, seq |-> 1, bytes |-> ControlSize, records |-> 1,
                 prevOpen |-> FALSE, prevBytes |-> 0, prevRecords |-> 0]]
    /\ work = [p \in Peers |-> 0]
    /\ deferred = [p \in Peers |-> <<>>]
    /\ flushing = [p \in Peers |-> <<>>]
    /\ wire = [p \in Peers |-> <<>>]
    /\ unsent = [p \in Peers |-> <<>>]
    /\ closed = [p \in Peers |-> FALSE]
    /\ published = [p \in Peers |-> 0]
    /\ got = [p \in Peers |-> 0]

-----------------------------------------------------------------------------
(* Failure: stop() drops what the engine still holds; what is unsent by then *)
(* is never sent.                                                            *)

Fail(p, reason) ==
    /\ state' = [state EXCEPT ![p] = "Failed"]
    /\ why' = [why EXCEPT ![p] = reason]
    /\ deferred' = [deferred EXCEPT ![p] = <<>>]
    /\ flushing' = [flushing EXCEPT ![p] = <<>>]
    /\ UNCHANGED <<snd, rcv, work, closed, published, got>>

\* The executor is not inside flush_deferred_records.
Idle(p) == state[p] = "Active" /\ flushing[p] = <<>>

\* A caller may run: always when idle, and between two records of a flush when
\* a send completes inline or the caller is another thread.
MayPublish(p) == state[p] = "Active" /\ (flushing[p] = <<>> \/ Interleave)

-----------------------------------------------------------------------------
(* Sending. *)

HalfUsed(s, size) ==
    \/ size + s.bytes > EpochBytes \div 2
    \/ s.records >= EpochRecords \div 2
    \/ s.age >= PastHalf

\* The condition of enqueue_record's rotation loop.
NeedsRotation(p, size) ==
    /\ ~snd[p].pending
    /\ snd[p].records # 0
    /\ HalfUsed(snd[p], size)

\* Mutant: a record that fits the old epoch overtakes the ones that wait.
FitsAheadOfWaiting(p, size) ==
    /\ size <= EpochBytes - snd[p].bytes
    /\ snd[p].records < EpochRecords
    /\ snd[p].records = 0 \/ snd[p].age < PastLifetime

\* Room in the old epoch for a record that nothing waits ahead of.
FitsOldEpoch(p, size) ==
    /\ deferred[p] = <<>>
    /\ size <= EpochBytes - snd[p].bytes
    /\ snd[p].records < EpochRecords
    /\ snd[p].records = 0 \/ snd[p].age < PastLifetime

\* Takes the next token, counts the record toward its epoch and queues it.
Seal(s, size) ==
    [s EXCEPT !.seq = @ + 1, !.bytes = @ + size, !.records = @ + 1,
              !.age = IF s.records = 0 THEN Young ELSE @]

\* What queued_wire_bytes_ charges: a record from its admission until its send
\* completes.  A flush gives the charge of the record in hand back before it
\* queues that record again.
Queued(p) ==
    LET inHand == IF flushing[p] = <<>> THEN {} ELSE {Head(flushing[p])}
    IN  (Range(unsent[p]) \cup Range(deferred[p]) \cup Range(flushing[p]))
            \ inHand

\* An engine control (CREDIT, CLOSE) may use one record more than application
\* records may; the reserve for a rotation's messages is beyond both limits.
QueueLimit(kind) == IF kind = "control" THEN MaxQueued + 1 ELSE MaxQueued

HasRoom(p, kind) == Cardinality(Queued(p)) < QueueLimit(kind)

HasRekeyCapacity(p) ==
    work[p] < MaxConcurrentRekeys /\ snd[p].epoch < MaxEpoch

BeginRekey(s) == [s EXCEPT !.pending = TRUE, !.late = FALSE, !.seq = @ + 1]

InitRecord(p) ==
    [type |-> "init", epoch |-> snd[p].epoch, seq |-> snd[p].seq,
     next |-> snd[p].epoch + 1]

\* initiate_rekey once its preconditions hold.  REKEY_INIT passes the barrier
\* and is not counted toward the epoch; no token left for it fails the session.
StartRekey(p) ==
    IF snd[p].seq = Exhausted
    THEN Fail(p, "exhausted") /\ UNCHANGED <<wire, unsent>>
    ELSE /\ wire' = [wire EXCEPT ![p] = Append(@, InitRecord(p))]
         /\ unsent' = [unsent EXCEPT ![p] =
               Append(@, RekeyItem("init", snd[p].epoch + 1))]
         /\ snd' = [snd EXCEPT ![p] = BeginRekey(@)]
         /\ work' = [work EXCEPT ![p] = @ + 1]
         /\ UNCHANGED <<state, why, rcv, deferred, flushing, closed,
                        published, got>>

\* The rotation of the send path and of the rotation timer: a rekey that cannot
\* start fails the session.
Rotate(p) ==
    IF HasRekeyCapacity(p)
    THEN StartRekey(p)
    ELSE Fail(p, "exhausted") /\ UNCHANGED <<wire, unsent>>

\* Whether a protected record is held back for the new epoch.
Barred(p, size) == snd[p].pending /\ ~FitsOldEpoch(p, size)

\* The public initiate_rekey(): refused, without failing, when one is pending
\* or there is no capacity.
RequestRekey(p) ==
    /\ Idle(p)
    /\ ~snd[p].pending
    /\ HasRekeyCapacity(p)
    /\ StartRekey(p)

\* enqueue_record starts a rotation before it takes a token for its record.
\* The ordering lock is released meanwhile, so this is a step of its own.
RotateForSend(p, size) ==
    /\ MayPublish(p)
    /\ NeedsRotation(p, size)
    /\ Rotate(p)

\* rotate_aged_epoch from the timer that rotation_deadline() arms.
RotateAged(p) ==
    /\ Idle(p)
    /\ ~snd[p].pending
    /\ snd[p].records # 0
    /\ snd[p].age >= PastHalf
    /\ Rotate(p)

\* The rest of enqueue_record: the record takes a token and is queued, or waits
\* for the new epoch behind whatever waits already.
Enqueue(p, r) ==
    \/ /\ Barred(p, r.size)
       /\ deferred' = [deferred EXCEPT ![p] = Append(@, r)]
       /\ UNCHANGED <<wire, unsent, snd>>
    \/ /\ ~Barred(p, r.size)
       /\ snd[p].seq # Exhausted
       /\ wire' = [wire EXCEPT ![p] =
             Append(@, [type |-> "record", epoch |-> snd[p].epoch,
                        seq |-> snd[p].seq, body |-> r])]
       /\ unsent' = [unsent EXCEPT ![p] = Append(@, r)]
       /\ snd' = [snd EXCEPT ![p] = Seal(@, r.size)]
       /\ UNCHANGED deferred

\* enqueue_record for a new record of a caller, once no rotation is due.  A
\* closed stream, a full queue or an exhausted sequence refuses the record.
Publish(p, kind, size) ==
    /\ MayPublish(p)
    /\ published[p] < Budget[p]
    /\ HasRoom(p, kind)
    /\ kind = "data" => ~closed[p]
    /\ ~NeedsRotation(p, size)
    /\ published' = [published EXCEPT ![p] = @ + 1]
    /\ Enqueue(p, [kind |-> kind, size |-> size, id |-> published[p] + 1])
    /\ UNCHANGED <<state, why, rcv, work, flushing, closed, got>>

\* drain_owed_controls fails the session when a control it owes gets no token.
OwedControlFails(p) ==
    /\ MayPublish(p)
    /\ HasRoom(p, "control")
    /\ ~NeedsRotation(p, ControlSize) /\ ~Barred(p, ControlSize)
    /\ snd[p].seq = Exhausted
    /\ Fail(p, "exhausted")
    /\ UNCHANGED <<wire, unsent>>

\* The carrier took the oldest unsent message, whose charge ends.  The next one
\* is handed over; the peer can only receive what was sent.
SendCompletes(p) ==
    /\ MayPublish(p)
    /\ unsent[p] # <<>>
    /\ unsent' = [unsent EXCEPT ![p] = Tail(@)]
    /\ UNCHANGED <<state, why, snd, rcv, work, deferred, flushing, wire, closed,
                   published, got>>

\* flush_deferred_records goes through the records it took over, in order.
Flushing(p) == state[p] = "Active" /\ flushing[p] # <<>>
\* Mutant: the flush drops data whether or not its stream closed.
DroppedAlways(p, r) == r.kind = "data"

Dropped(p, r) == r.kind = "data" /\ closed[p]

\* Data whose stream closed meanwhile is not sent.
FlushDrop(p) ==
    /\ Flushing(p) /\ Dropped(p, Head(flushing[p]))
    /\ flushing' = [flushing EXCEPT ![p] = Tail(@)]
    /\ UNCHANGED <<state, why, snd, rcv, work, deferred, wire, unsent, closed,
                   published, got>>

\* The new epoch is half used already: the next rotation starts first.
FlushRotate(p) ==
    /\ Flushing(p) /\ ~Dropped(p, Head(flushing[p]))
    /\ NeedsRotation(p, Head(flushing[p]).size)
    /\ Rotate(p)

\* The record is admitted again, and sent or deferred once more.  A queue that
\* has no room for it, or no token left, fails the session, because
\* process_rekey_ack returns the error.
FlushRecord(p) ==
    LET r == Head(flushing[p])
    IN
    /\ Flushing(p) /\ ~Dropped(p, r) /\ ~NeedsRotation(p, r.size)
    /\ IF ~HasRoom(p, r.kind)
       THEN Fail(p, "full") /\ UNCHANGED <<wire, unsent>>
       ELSE IF ~Barred(p, r.size) /\ snd[p].seq = Exhausted
       THEN Fail(p, "exhausted") /\ UNCHANGED <<wire, unsent>>
       ELSE /\ Enqueue(p, r)
            /\ flushing' = [flushing EXCEPT ![p] = Tail(@)]
            /\ UNCHANGED <<state, why, rcv, work, closed, published, got>>

Flush(p) == FlushDrop(p) \/ FlushRotate(p) \/ FlushRecord(p)

\* remove_stream marks the stream closed; its later records are refused and its
\* deferred ones are dropped by the flush.
CloseStream(p) ==
    /\ MayPublish(p)
    /\ ~closed[p]
    /\ closed' = [closed EXCEPT ![p] = TRUE]
    /\ UNCHANGED <<state, why, snd, rcv, work, deferred, flushing, wire, unsent,
                   published, got>>

-----------------------------------------------------------------------------
(* Receiving. *)

\* The token names the replaced epoch while that one is still open.
InPreviousEpoch(q, m) ==
    rcv[q].prevOpen /\ rcv[q].epoch # 0 /\ m.epoch = rcv[q].epoch - 1

TokenExpected(q, m) ==
    /\ rcv[q].seq # Exhausted
    /\ m.epoch = rcv[q].epoch \/ InPreviousEpoch(q, m)
    /\ m.seq = rcv[q].seq

WithinEpochLimit(q, m) ==
    IF InPreviousEpoch(q, m)
    THEN /\ m.body.size <= EpochBytes - rcv[q].prevBytes
         /\ rcv[q].prevRecords # EpochRecords
    ELSE /\ m.body.size <= EpochBytes - rcv[q].bytes
         /\ rcv[q].records # EpochRecords

Acceptable(q, m) ==
    CASE m.type = "record" -> TokenExpected(q, m) /\ WithinEpochLimit(q, m)
      [] m.type = "init" ->
            /\ TokenExpected(q, m)
            /\ ~InPreviousEpoch(q, m)
            /\ m.next = rcv[q].epoch + 1
            /\ work[q] < MaxConcurrentRekeys
      [] m.type = "ack" -> snd[q].pending /\ m.next = snd[q].epoch + 1

\* What every receive step shares: the receive pump of q takes the oldest
\* record that its peer sent, with no passed REKEY_ACK deadline.
Receiving(q, type) ==
    /\ Idle(q)
    /\ ~snd[q].late
    /\ wire[Other(q)] # <<>>
    /\ Len(unsent[Other(q)]) < Len(wire[Other(q)])
    /\ Head(wire[Other(q)]).type = type

Taken(q) == [wire EXCEPT ![Other(q)] = Tail(@)]

\* protocol_failure: an unacceptable record fails the receiver's session.
Refuse(q) == Fail(q, "protocol") /\ wire' = Taken(q) /\ UNCHANGED unsent

CountInbound(q, m) ==
    IF InPreviousEpoch(q, m)
    THEN [rcv[q] EXCEPT !.seq = @ + 1, !.prevBytes = @ + m.body.size,
                        !.prevRecords = @ + 1]
    ELSE [rcv[q] EXCEPT !.seq = @ + 1, !.prevOpen = FALSE,
                        !.bytes = @ + m.body.size, !.records = @ + 1]

ReceiveRecord(q) ==
    LET m == Head(wire[Other(q)])
    IN
    /\ Receiving(q, "record")
    /\ IF Acceptable(q, m)
       THEN /\ rcv' = [rcv EXCEPT ![q] = CountInbound(q, m)]
            /\ got' = [got EXCEPT ![q] = m.body.id]
            /\ wire' = Taken(q)
            /\ UNCHANGED <<state, why, snd, work, deferred, flushing, unsent,
                           closed, published>>
       ELSE Refuse(q)

\* Mutant: the replaced epoch is closed at once.
AcceptRekeyClosesOld(r) ==
    [r EXCEPT !.seq = @ + 1, !.epoch = @ + 1,
              !.prevOpen = FALSE, !.prevBytes = r.bytes,
              !.prevRecords = r.records, !.bytes = 0, !.records = 0]

\* The previous epoch is closed before it is replaced by the current one.
AcceptRekey(r) ==
    [r EXCEPT !.seq = @ + 1, !.epoch = @ + 1,
              !.prevOpen = TRUE, !.prevBytes = r.bytes,
              !.prevRecords = r.records, !.bytes = 0, !.records = 0]

AgedBy(s) == ~s.pending /\ s.records # 0 /\ s.age >= PastHalf

\* process_rekey_init: the new inbound epoch is installed, the bare ACK is
\* queued, and an aged outbound epoch is rotated beside it.
ReceiveInit(q) ==
    LET m == Head(wire[Other(q)])
        ack == [type |-> "ack", next |-> m.next]
        acked == [Taken(q) EXCEPT ![q] = Append(@, ack)]
        queued == Append(unsent[q], RekeyItem("ack", m.next))
    IN
    /\ Receiving(q, "init")
    /\ IF ~Acceptable(q, m)
       THEN Refuse(q)
       ELSE IF ~AgedBy(snd[q])
       THEN /\ wire' = acked
            /\ unsent' = [unsent EXCEPT ![q] = queued]
            /\ rcv' = [rcv EXCEPT ![q] = AcceptRekey(@)]
            /\ UNCHANGED <<state, why, snd, work, deferred, flushing, closed,
                           published, got>>
       ELSE IF HasRekeyCapacity(q) /\ snd[q].seq # Exhausted
       THEN /\ wire' = [acked EXCEPT ![q] = Append(@, InitRecord(q))]
            /\ unsent' = [unsent EXCEPT ![q] =
                  Append(queued, RekeyItem("init", snd[q].epoch + 1))]
            /\ rcv' = [rcv EXCEPT ![q] = AcceptRekey(@)]
            /\ snd' = [snd EXCEPT ![q] = BeginRekey(@)]
            /\ work' = [work EXCEPT ![q] = @ + 1]
            /\ UNCHANGED <<state, why, deferred, flushing, closed, published,
                           got>>
       ELSE /\ Fail(q, "exhausted")
            /\ wire' = acked
            /\ unsent' = [unsent EXCEPT ![q] = queued]

\* Mutant: the rotation stays pending.
FinishRekeyStaysPending(s) ==
    [s EXCEPT !.epoch = @ + 1, !.bytes = 0, !.records = 0, !.age = Young]

\* process_rekey_ack: the new outbound epoch starts, empty, and the deferred
\* records are handed to the flush.
FinishRekey(s) ==
    [s EXCEPT !.epoch = @ + 1, !.bytes = 0, !.records = 0, !.age = Young,
              !.pending = FALSE]

ReceiveAck(q) ==
    LET m == Head(wire[Other(q)])
    IN
    /\ Receiving(q, "ack")
    /\ IF Acceptable(q, m)
       THEN /\ snd' = [snd EXCEPT ![q] = FinishRekey(@)]
            /\ work' = [work EXCEPT ![q] = @ - 1]
            /\ flushing' = [flushing EXCEPT ![q] = deferred[q]]
            /\ deferred' = [deferred EXCEPT ![q] = <<>>]
            /\ wire' = Taken(q)
            /\ UNCHANGED <<state, why, rcv, unsent, closed, published, got>>
       ELSE Refuse(q)

-----------------------------------------------------------------------------
(* Time and the end of the carrier. *)

\* The epoch grows older from its first record on.
Age(p) ==
    /\ state[p] = "Active" /\ p \in Timed
    /\ snd[p].records # 0
    /\ snd[p].age < PastLifetime
    /\ snd' = [snd EXCEPT ![p].age = @ + 1]
    /\ UNCHANGED <<state, why, rcv, work, deferred, flushing, wire, unsent,
                   closed, published, got>>

DeadlinePasses(p) ==
    /\ state[p] = "Active" /\ p \in Timed
    /\ snd[p].pending /\ ~snd[p].late
    /\ snd' = [snd EXCEPT ![p].late = TRUE]
    /\ UNCHANGED <<state, why, rcv, work, deferred, flushing, wire, unsent,
                   closed, published, got>>

\* expire_rekey, from the deadline timer or ahead of the next received record.
ExpireRekey(p) ==
    /\ Idle(p)
    /\ snd[p].pending /\ snd[p].late
    /\ Fail(p, "deadline")
    /\ UNCHANGED <<wire, unsent>>

\* The failed peer's carrier ends the receive of this one.
CarrierEnds(q) ==
    /\ Idle(q)
    /\ state[Other(q)] = "Failed"
    /\ Fail(q, "carrier")
    /\ UNCHANGED <<wire, unsent>>

Send(p) ==
    \/ RequestRekey(p)
    \/ RotateAged(p)
    \/ CloseStream(p)
    \/ \E size \in DataSizes :
          RotateForSend(p, size) \/ Publish(p, "data", size)
    \/ RotateForSend(p, ControlSize)
    \/ Publish(p, "control", ControlSize)
    \/ OwedControlFails(p)
    \/ SendCompletes(p)

Receive(q) ==
    \/ ReceiveRecord(q)
    \/ ReceiveInit(q)
    \/ ReceiveAck(q)

Next ==
    \E p \in Peers :
        \/ Send(p)
        \/ Flush(p)
        \/ Receive(p)
        \/ Age(p)
        \/ DeadlinePasses(p)
        \/ ExpireRekey(p)
        \/ CarrierEnds(p)

(***************************************************************************)
(* The executor keeps running: what the receive pump can take it takes, a  *)
(* flush finishes, the carrier completes its sends, an expired deadline is *)
(* noticed and a dead carrier too.                                         *)
(* Nothing obliges an application to publish, and no deadline must pass.   *)
(***************************************************************************)
Fairness ==
    \A p \in Peers :
        WF_vars(Flush(p)) /\ WF_vars(Receive(p)) /\ WF_vars(ExpireRekey(p))
        /\ WF_vars(SendCompletes(p)) /\ WF_vars(CarrierEnds(p))

Spec == Init /\ [][Next]_vars /\ Fairness

-----------------------------------------------------------------------------
(* Properties. *)

RecordTypes ==
    /\ state \in [Peers -> {"Active", "Failed"}]
    /\ why \in [Peers -> {"none", "protocol", "exhausted", "full", "deadline",
                          "carrier"}]
    /\ snd \in [Peers -> Outbound]
    /\ rcv \in [Peers -> Inbound]
    /\ work \in [Peers -> 0..MaxConcurrentRekeys]
    /\ deferred \in [Peers -> Seq(Record)]
    /\ flushing \in [Peers -> Seq(Record)]
    /\ wire \in [Peers -> Seq(Message)]
    /\ closed \in [Peers -> BOOLEAN]
    /\ published \in [Peers -> 0..MaxPublished]
    /\ got \in [Peers -> 0..MaxPublished]

TypeOK == RecordTypes /\ unsent \in [Peers -> Seq(Item)]

\* Two peers that run this code never refuse each other's records: not for an
\* unexpected token, not for the epoch byte or record limit, and not for a
\* REKEY_INIT or REKEY_ACK that crossed one of the other direction.
NoProtocolFailure == \A p \in Peers : why[p] # "protocol"

\* Rekeying fails a session only at the very end of its numbers: rekey_work_ is
\* given back by every finished rotation.
ExhaustedOnlyAtTheEnd ==
    \A p \in Peers :
        why[p] = "exhausted" =>
            snd[p].seq = Exhausted \/ snd[p].epoch = MaxEpoch

\* The flush has a record in hand that the full outbound queue refuses.
FlushRefused(p) ==
    /\ Flushing(p) /\ ~Dropped(p, Head(flushing[p]))
    /\ ~HasRoom(p, Head(flushing[p]).kind)

\* The records that were admitted under the limit of the record in hand.
SameLimit(kind) == IF kind = "data" THEN {"data"} ELSE {"data", "control"}

\* While callers wait for the flush, the queue refuses a record of it only when
\* it also holds something admitted beyond that record's own limit: an engine
\* control, or a message of a rotation.
RefusedForTheReserve ==
    \A p \in Peers :
        FlushRefused(p) =>
            \/ Interleave
            \/ \E x \in Queued(p) :
                  x.kind \notin SameLimit(Head(flushing[p]).kind)

\* What can end a session of two conforming peers: the end of its numbers, or a
\* flush that the outbound queue refuses because a reserve is in use.  Nothing
\* one peer sends is ever refused by the other.
SessionsSurvive ==
    NoProtocolFailure /\ ExhaustedOnlyAtTheEnd /\ RefusedForTheReserve

\* "Refusals before a protected record takes its token leave the session usable"
\* (enqueue_record): true of its callers but for the flush, so this does not hold.
RefusalsLeaveSessionUsable == \A p \in Peers : why[p] # "full"

\* The bodies of the records in w, of all of it and of each prefix.
Prefixes(w) ==
    LET bodies[i \in 0..Len(w)] ==
            IF i = 0 THEN <<>>
            ELSE IF w[i].type = "record" THEN Append(bodies[i - 1], w[i].body)
            ELSE bodies[i - 1]
    IN  bodies

Sealed(w) == Prefixes(w)[Len(w)]

\* "so records keep their order" (enqueue_record): what p published is on the
\* wire, then deferred, then held by a flush (which appends to both), in
\* publication order, and the peer has only received what came before.
Bodies(p) == Sealed(wire[p]) \o deferred[p] \o flushing[p]

RecordsKeepOrder ==
    \A p \in Peers :
        LET bodies == Bodies(p)
        IN  \A i \in DOMAIN bodies :
                /\ bodies[i].id > got[Other(p)]
                /\ \A j \in 1..i-1 : bodies[j].id < bodies[i].id

\* The record layer implements the ordered channel.
Channel == INSTANCE OrderedChannel WITH
    Records <- Record,
    queue <- [p \in Peers |-> Bodies(p)],
    broken <- [p \in Peers |-> state[p] = "Failed"]

ImplementsOrderedChannel == Channel!ASpec

\* An initiated rotation ends: by its ACK, or with the session.
RotationEnds ==
    \A p \in Peers :
        snd[p].pending ~> (~snd[p].pending \/ state[p] = "Failed")

\* A published record reaches the peer unless its stream or the session ends:
\* none is stranded in the deferred queue, however many rotations it meets.
EveryRecordArrives ==
    \A p \in Peers : \A k \in 1..MaxPublished :
        (published[p] >= k) ~>
            \/ got[Other(p)] >= k
            \/ closed[p]
            \/ \E q \in Peers : state[q] = "Failed"
=============================================================================

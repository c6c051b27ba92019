---------------------------- MODULE CreditWindow ----------------------------
(***************************************************************************)
(* One receive window of a session and the credit that moves through it:   *)
(* what the peer holds, has taken for records not sent yet, and has in     *)
(* flight; what the application holds; what is on its way back.  The same  *)
(* struct ReceiveWindow serves the connection and every stream, so this    *)
(* module states both (IsConnection) with the other windows abstracted     *)
(* away.  FlowControl composes several of them.                            *)
(*                                                                         *)
(* Record boundaries are abstracted: a step moves any number of bytes up   *)
(* to one frame.                                                           *)
(***************************************************************************)
EXTENDS ReceiveWindow

CONSTANTS IsConnection,   \* the connection window, or a stream's
          Initial,        \* initial_connection_credit or initial_stream_credit
          Maximum,        \* max_connection_credit or the stream's maximum
          MaxCredit       \* ytp1::kMaxCreditIncrement

\* The limits FlowControl gives a window; the proofs assume it by name.
WindowAssumption ==
    /\ IsConnection \in BOOLEAN
    /\ Initial \in Nat \ {0} /\ Maximum \in Nat /\ MaxCredit \in Nat
    /\ Initial <= Maximum /\ Maximum <= MaxCredit

VARIABLES
    win,      \* the receiver's window
    live,     \* the stream is not closed at the receiver
    held,     \* bytes the receiving application (or its queue) holds
    out,      \* the sender's credit
    parked,   \* credit taken for records that are not on the wire yet
    flight,   \* bytes on the wire
    grants,   \* credit on its way to the sender
    failed    \* an accounting or protocol check failed the session

cvars == <<win, live, held, out, parked, flight, grants, failed>>

Init ==
    /\ win = OpenWindow(Initial)
    /\ live = TRUE
    /\ held = 0 /\ out = 0 /\ parked = 0 /\ flight = 0 /\ grants = 0
    /\ failed = FALSE

Bytes == 1..MaxFrame

-----------------------------------------------------------------------------
(* The sender. *)

\* drain_pending_writes() takes the credit of the record it publishes.  The
\* record goes on the wire, or waits for a rotation to finish.
Spend(n) ==
    /\ n <= out
    /\ out' = out - n
    /\ \/ flight' = flight + n /\ UNCHANGED parked
       \/ parked' = parked + n /\ UNCHANGED flight
    /\ UNCHANGED <<win, live, held, grants, failed>>

\* flush_deferred_records() sends a record that waited.
Transmit(n) ==
    /\ n <= parked
    /\ parked' = parked - n
    /\ flight' = flight + n
    /\ UNCHANGED <<win, live, held, out, grants, failed>>

\* A record that was not sent gives its credit back: on both levels when the
\* enqueue failed, on the connection only when its stream closed before a
\* flush.
TakeBack(n) ==
    /\ n <= parked
    /\ parked' = parked - n
    /\ out' \in IF IsConnection THEN {out + n} ELSE {out, out + n}
    /\ UNCHANGED <<win, live, held, flight, grants, failed>>

\* process_connection_credit() and process_stream_credit().
ReceiveGrant(n) ==
    /\ n <= grants
    /\ grants' = grants - n
    /\ IF n <= MaxCredit - out
       THEN out' = out + n /\ failed' = failed
       ELSE out' = out /\ failed' = TRUE
    /\ UNCHANGED <<win, live, held, parked, flight>>

-----------------------------------------------------------------------------
(* The receiver. *)

\* return_receive_credit() for this window: the connection and a live stream
\* count the bytes, a closed stream forgets them.
Returned(w, n, packet, fast) ==
    CASE IsConnection -> ReturnConnection(w, n, Maximum, fast)
      [] ~IsConnection /\ live ->
            CollectStream([w EXCEPT !.unreturned = @ + n], packet, Maximum, fast)
      [] OTHER -> w

MayReturn(w, n) == (IsConnection \/ live) => CanReturn(w, n)

\* The connection window follows the largest stream window (RaiseFloor); a
\* stream's window does not.
Floors == IF IsConnection THEN 0..Maximum ELSE {0}

\* process_application_data() for a record that is delivered or queued.
Arrive(n) ==
    /\ n <= flight
    /\ IsConnection \/ live
    /\ flight' = flight - n
    /\ IF n <= win.inbound
       THEN /\ held' = held + n
            /\ win' = IF IsConnection
                      THEN TakeConnection(Charge(win, n), FALSE, 0)
                      ELSE Charge(win, n)
            /\ failed' = failed
       ELSE UNCHANGED <<held, win>> /\ failed' = TRUE
    /\ UNCHANGED <<live, out, parked, grants>>

\* The same for a record of a closed stream: discarded, and its connection
\* credit returned at once.
Discard(n, fast) ==
    /\ n <= flight
    /\ IsConnection \/ ~live
    /\ flight' = flight - n
    /\ IF n <= win.inbound /\ MayReturn(Charge(win, n), n)
       THEN win' = Returned(Charge(win, n), n, 0, fast) /\ failed' = failed
       ELSE UNCHANGED win /\ failed' = TRUE
    /\ UNCHANGED <<live, held, out, parked, grants>>

\* The application releases bytes it was given.
Consume(n, packet, fast, floor) ==
    /\ n <= held
    /\ held' = held - n
    /\ IF MayReturn(win, n)
       THEN /\ win' = Returned(RaiseFloor(win, floor, Maximum), n, packet, fast)
            /\ failed' = failed
       ELSE UNCHANGED win /\ failed' = TRUE
    /\ UNCHANGED <<live, out, parked, flight, grants>>

\* remove_stream() forgets what a closed stream still owed.
Close ==
    /\ ~IsConnection /\ live
    /\ live' = FALSE
    /\ win' = [win EXCEPT !.owed = 0, !.unreturned = 0]
    /\ UNCHANGED <<held, out, parked, flight, grants, failed>>

GrantOwed == win.owed # 0 /\ GrantSlotFree(win) /\ (IsConnection \/ live)

\* drain_owed_controls() puts a credit record in the queue: reserved and
\* admitted in one critical section.
Grant ==
    /\ GrantOwed
    /\ IF AdmitAllowed(Reserve(win), win.owed)
       THEN /\ win' = Admit(Reserve(win), win.owed)
            /\ grants' = grants + win.owed
            /\ failed' = failed
       ELSE UNCHANGED <<win, grants>> /\ failed' = TRUE
    /\ UNCHANGED <<live, held, out, parked, flight>>

\* During a rotation the record is reserved and deferred; the flush admits it.
DeferGrant ==
    /\ GrantOwed
    /\ win' = Reserve(win)
    /\ UNCHANGED <<live, held, out, parked, flight, grants, failed>>

FlushGrant(n) ==
    /\ n <= win.granting
    /\ IF AdmitAllowed(win, n)
       THEN win' = Admit(win, n) /\ grants' = grants + n /\ failed' = failed
       ELSE UNCHANGED <<win, grants>> /\ failed' = TRUE
    /\ UNCHANGED <<live, held, out, parked, flight>>

\* The flush drops the deferred grant of a closed stream.
DropDeferredGrant(n) ==
    /\ ~IsConnection /\ ~live
    /\ n <= win.granting
    /\ win.queued # 0
    /\ win' = DropGrant(win, n)
    /\ UNCHANGED <<live, held, out, parked, flight, grants, failed>>

\* A credit record has left: its slot is free and more may be due.  A stream's
\* growth raises the connection window.
GrantSent(packet, fast) ==
    /\ win.queued # 0
    /\ win' = CASE IsConnection -> CompleteConnection(win, Maximum, fast)
                [] ~IsConnection /\ live ->
                      CompleteStream(win, packet, Maximum, fast)
                [] OTHER -> [win EXCEPT !.queued = @ - 1]
    /\ UNCHANGED <<live, held, out, parked, flight, grants, failed>>

Raise(floor) ==
    /\ win' = RaiseFloor(win, floor, Maximum)
    /\ UNCHANGED <<live, held, out, parked, flight, grants, failed>>

Sender ==
    \/ \E n \in Bytes : Spend(n) \/ Transmit(n) \/ TakeBack(n)
    \/ \E n \in 1..Maximum : ReceiveGrant(n)

Receiver ==
    \/ \E n \in Bytes :
          \/ Arrive(n)
          \/ \E fast \in BOOLEAN : Discard(n, fast)
          \/ \E packet \in 0..MaxFrame, fast \in BOOLEAN, floor \in Floors :
                Consume(n, packet, fast, floor)
    \/ Close
    \/ Grant
    \/ DeferGrant
    \/ \E n \in 1..Maximum : FlushGrant(n) \/ DropDeferredGrant(n)
    \/ \E packet \in 0..MaxFrame, fast \in BOOLEAN : GrantSent(packet, fast)
    \/ \E floor \in Floors : Raise(floor)

Next == ~failed /\ (Sender \/ Receiver)

Spec == Init /\ [][Next]_cvars

-----------------------------------------------------------------------------
(* Properties. *)

TypeOK ==
    /\ win \in Window
    /\ live \in BOOLEAN
    /\ held \in Nat /\ out \in Nat /\ parked \in Nat /\ flight \in Nat
    /\ grants \in Nat
    /\ failed \in BOOLEAN

\* What the sender holds, has spent and will be granted is what the receiver
\* thinks it granted.  A stream may lose the credit of records its closed
\* sender dropped; the connection never loses any.
SenderLedger ==
    IF IsConnection
    THEN win.inbound = out + parked + flight + grants
    ELSE win.inbound >= out + parked + flight + grants

\* Every byte of a window is in exactly one place: granted, being granted,
\* owed, consumed or held.  A closed stream keeps only the bound.
ReceiverLedger ==
    IF IsConnection \/ live
    THEN win.size = win.inbound + win.granting + win.owed + win.unreturned + held
    ELSE win.size >= win.inbound + win.granting + held

WindowBound == win.size >= Initial /\ win.size <= Maximum

Ledger == SenderLedger /\ ReceiverLedger /\ WindowBound

\* None of the engine's accounting checks ever fires between two peers that
\* run it: no record exceeds its credit, no return overflows its window, no
\* grant exceeds it and no credit passes the YTP/1 bound.
NeverFails == ~failed

\* The memory bound the windows exist for: what arrived and was not consumed,
\* plus what can still arrive, stays within the largest window.
HeldWithinMaximum == held + flight + parked + out <= Maximum
=============================================================================

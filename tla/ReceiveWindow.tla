---------------------------- MODULE ReceiveWindow ----------------------------
(***************************************************************************)
(* The receive-window arithmetic of src/engine/session_engine.cpp, shared  *)
(* by the connection window and every stream window.  A window is a record *)
(*                                                                         *)
(*   size        what the peer may have outstanding in all                 *)
(*   inbound     credit the peer has been granted and not used             *)
(*   unreturned  bytes the application consumed, not yet on their way back *)
(*   owed        credit to be granted, not yet in a record                 *)
(*   granting    credit in records deferred by a rotation                  *)
(*   queued      grants_queued: credit records not yet sent                *)
(*                                                                         *)
(* The operators are the bodies the engine runs under its lock.  Whether   *)
(* two returns were less than two round trips apart (`fast') is an input.  *)
(***************************************************************************)
EXTENDS Integers

CONSTANTS MaxFrame,          \* limits_.max_frame_payload
          ReturnsPerWindow   \* limits_.credit_returns_per_window

ASSUME FrameAssumption == MaxFrame \in Nat \ {0}
ASSUME ReturnsAssumption == ReturnsPerWindow \in Nat /\ ReturnsPerWindow >= 2

Least(a, b) == IF a <= b THEN a ELSE b

\* A window just opened with `size' bytes: all of it is still owed to the peer.
OpenWindow(size) ==
    [size |-> size, inbound |-> 0, unreturned |-> 0, owed |-> size,
     granting |-> 0, queued |-> 0]

GrantSlotFree(w) == w.queued < ReturnsPerWindow

\* return_threshold(): half a window, or a configured part of one that cannot
\* grow, counted in whole packets, and never more than a blocked peer has
\* consumed.
WholePackets(window, packet) ==
    IF packet # 0 /\ packet <= window THEN window - (window % packet) ELSE window

ReturnThreshold(window, packet, maximum) ==
    LET updates == IF window >= maximum THEN ReturnsPerWindow ELSE 2
        usable == WholePackets(window, packet)
    IN  IF usable <= MaxFrame
        THEN 1
        ELSE Least(usable \div updates, usable - MaxFrame)

\* grow_window_locked(): the growth of a window whose returns are fast.
Growth(w, maximum, fast) ==
    IF fast /\ w.size < maximum
    THEN Least(2 * w.size, maximum) - w.size
    ELSE 0

\* The check of return_receive_credit(): nothing outside the application's
\* hands is counted twice.
CanReturn(w, bytes) ==
    w.inbound + w.granting + w.owed + w.unreturned + bytes <= w.size

\* collect_stream_credit_locked(): whether a stream's consumed bytes go back.
CollectDue(w, packet, maximum) ==
    /\ GrantSlotFree(w)
    /\ w.unreturned # 0
    /\ w.unreturned >= ReturnThreshold(w.size, packet, maximum)

\* Mutants: the window grows without the credit for it; the collected bytes
\* stay counted as not returned.
CollectWithoutGrowth(w, packet, maximum, fast) ==
    IF CollectDue(w, packet, maximum)
    THEN [w EXCEPT !.owed = @ + w.unreturned, !.unreturned = 0,
                   !.size = @ + Growth(w, maximum, fast)]
    ELSE w

CollectTwice(w, packet, maximum, fast) ==
    LET growth == Growth(w, maximum, fast)
    IN  IF CollectDue(w, packet, maximum)
        THEN [w EXCEPT !.owed = @ + w.unreturned + growth, !.size = @ + growth]
        ELSE w

CollectStream(w, packet, maximum, fast) ==
    LET growth == Growth(w, maximum, fast)
    IN  IF CollectDue(w, packet, maximum)
        THEN [w EXCEPT !.owed = @ + w.unreturned + growth,
                       !.unreturned = 0, !.size = @ + growth]
        ELSE w

\* The connection window is kept at one and a half stream windows.
RaiseFloor(conn, streamSize, maximum) ==
    LET floor == Least(streamSize + streamSize \div 2, maximum)
    IN  IF floor > conn.size
        THEN [conn EXCEPT !.owed = @ + floor - conn.size, !.size = floor]
        ELSE conn

\* Mutant: a peer left without a whole frame waits for the batch.
TakeOnlyDue(w, due, growth) ==
    LET grown == [w EXCEPT !.owed = @ + growth, !.size = @ + growth]
    IN  IF GrantSlotFree(w) /\ (due \/ growth # 0)
        THEN [grown EXCEPT !.owed = @ + w.unreturned, !.unreturned = 0]
        ELSE grown

\* take_connection_credit_locked(), after the caller's growth was applied: a
\* batch that is due, a grown window, or a peer left without a whole frame.
TakeConnection(w, due, growth) ==
    LET grown == [w EXCEPT !.owed = @ + growth, !.size = @ + growth]
    IN  IF GrantSlotFree(w) /\ (due \/ growth # 0 \/ w.inbound < MaxFrame)
        THEN [grown EXCEPT !.owed = @ + w.unreturned, !.unreturned = 0]
        ELSE grown

\* The connection half of return_receive_credit().
ConnectionDue(w, maximum) ==
    w.unreturned >= ReturnThreshold(w.size, 0, maximum)

ReturnConnection(w, bytes, maximum, fast) ==
    LET returned == [w EXCEPT !.unreturned = @ + bytes]
        due == ConnectionDue(returned, maximum)
        growth == IF due /\ GrantSlotFree(returned)
                  THEN Growth(returned, maximum, fast) ELSE 0
    IN  TakeConnection(returned, due, growth)

\* reserve_control_locked() and admit_control_locked() of a credit record that
\* carries everything owed.
Reserve(w) ==
    [w EXCEPT !.granting = @ + w.owed, !.owed = 0, !.queued = @ + 1]

Admit(w, increment) ==
    [w EXCEPT !.granting = @ - increment, !.inbound = @ + increment]

AdmitAllowed(w, increment) ==
    /\ increment <= w.granting
    /\ w.inbound <= w.size
    /\ increment <= w.size - w.inbound

\* complete_control_locked() of a credit record that was sent, on the
\* connection (which grows even when every slot was taken) and on a stream.
CompleteConnection(w, maximum, fast) ==
    LET freed == [w EXCEPT !.queued = @ - 1]
        due == ConnectionDue(freed, maximum)
    IN  TakeConnection(freed, due,
                       IF due THEN Growth(freed, maximum, fast) ELSE 0)

CompleteStream(w, packet, maximum, fast) ==
    CollectStream([w EXCEPT !.queued = @ - 1], packet, maximum, fast)

\* The same for a deferred stream grant that the flush dropped.
DropGrant(w, increment) ==
    [w EXCEPT !.queued = @ - 1, !.granting = @ - increment]

\* A DATA or PACKET record uses up credit when it arrives.
Charge(w, bytes) == [w EXCEPT !.inbound = @ - bytes]

Window == [size : Nat, inbound : Nat, unreturned : Nat, owed : Nat,
           granting : Nat, queued : Nat]
=============================================================================

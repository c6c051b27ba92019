------------------------ MODULE CreditWindowProofs ------------------------
(***************************************************************************)
(* Proofs about ReceiveWindow and CreditWindow, for every frame size,      *)
(* number of returns per window and window size that WindowAssumption      *)
(* admits, which are those FlowControl has (ScenesAssumption).             *)
(***************************************************************************)
EXTENDS CreditWindow, TLAPS

\* What of a window is not in the application's hands.
Outside(w) == w.inbound + w.granting + w.owed + w.unreturned

\* Every operator on a window keeps what is outside it and its size in step,
\* and neither touches what the peer was granted nor what is being granted.
Balanced(w, r) ==
    /\ r \in Window
    /\ r.size - Outside(r) = w.size - Outside(w)
    /\ r.inbound = w.inbound
    /\ r.granting = w.granting
    /\ r.size >= w.size

\* Growth is never negative and stays within the maximum (grow_window_locked).
LEMMA GrowthBounds ==
    ASSUME NEW w \in Window, NEW max \in Nat, w.size <= max, NEW fast \in BOOLEAN
    PROVE  /\ Growth(w, max, fast) \in Nat
           /\ w.size + Growth(w, max, fast) <= max
  BY DEF Growth, Least, Window

\* collect_stream_credit_locked moves consumed bytes and growth to owed.
LEMMA CollectBalanced ==
    ASSUME NEW w \in Window, NEW max \in Nat, w.size <= max, NEW packet,
           NEW fast \in BOOLEAN
    PROVE  /\ Balanced(w, CollectStream(w, packet, max, fast))
           /\ CollectStream(w, packet, max, fast).size <= max
  <1> DEFINE g == Growth(w, max, fast)
  <1>1. g \in Nat /\ w.size + g <= max
    BY GrowthBounds
  <1> HIDE DEF g
  <1>2. CASE CollectDue(w, packet, max)
    <2>1. CollectStream(w, packet, max, fast) =
            [w EXCEPT !.owed = @ + w.unreturned + g, !.unreturned = 0,
                      !.size = @ + g]
      BY <1>2 DEF CollectStream, g
    <2> DEFINE r == CollectStream(w, packet, max, fast)
    <2>2. /\ r \in Window
          /\ r.owed = w.owed + w.unreturned + g /\ r.unreturned = 0
          /\ r.size = w.size + g /\ r.inbound = w.inbound
          /\ r.granting = w.granting
      <3> DEFINE a == w.owed + w.unreturned + g
                 c == w.size + g
      <3>1. a \in Nat /\ c \in Nat
        BY <1>1 DEF Window
      <3>2. r = [w EXCEPT !.owed = a, !.unreturned = 0, !.size = c]
        BY <2>1
      <3>3. a = w.owed + w.unreturned + g /\ c = w.size + g
        OBVIOUS
      <3> HIDE DEF a, c, r
      <3> QED BY <3>1, <3>2, <3>3 DEF Window
    <2> HIDE DEF r
    <2>3. Balanced(w, r) /\ r.size <= max
      BY <1>1, <2>2 DEF Balanced, Outside, Window
    <2> QED BY <2>3 DEF r
  <1>3. CASE ~CollectDue(w, packet, max)
    <2>1. CollectStream(w, packet, max, fast) = w
      BY <1>3 DEF CollectStream
    <2> QED BY <2>1 DEF Balanced, Outside, Window
  <1> QED BY <1>2, <1>3

\* Raising the connection window to one and a half stream windows owes the
\* difference to the peer.
LEMMA RaiseBalanced ==
    ASSUME NEW w \in Window, NEW max \in Nat, w.size <= max, NEW size \in Nat
    PROVE  /\ Balanced(w, RaiseFloor(w, size, max))
           /\ RaiseFloor(w, size, max).size <= max
  <1> DEFINE floor == Least(size + size \div 2, max)
  <1>1. floor \in Nat /\ floor <= max
    BY DEF Least
  <1>2. RaiseFloor(w, size, max) =
          IF floor > w.size
          THEN [w EXCEPT !.owed = @ + floor - w.size, !.size = floor]
          ELSE w
    BY DEF RaiseFloor
  <1> HIDE DEF floor
  <1> DEFINE r == RaiseFloor(w, size, max)
  <1>3. CASE floor > w.size
    <2>1. /\ r \in Window
          /\ r.owed = w.owed + floor - w.size /\ r.size = floor
          /\ r.unreturned = w.unreturned /\ r.inbound = w.inbound
          /\ r.granting = w.granting
      <3> DEFINE a == w.owed + floor - w.size
      <3>1. a \in Nat
        BY <1>1, <1>3 DEF Window
      <3>2. r = [w EXCEPT !.owed = a, !.size = floor]
        BY <1>2, <1>3
      <3>3. a = w.owed + floor - w.size
        OBVIOUS
      <3> HIDE DEF a, r
      <3> QED BY <1>1, <3>1, <3>2, <3>3 DEF Window
    <2> HIDE DEF r
    <2>2. Balanced(w, r) /\ r.size <= max
      BY <1>1, <1>3, <2>1 DEF Balanced, Outside, Window
    <2> QED BY <2>2 DEF r
  <1>4. CASE ~(floor > w.size)
    <2>1. r = w
      BY <1>2, <1>4
    <2> QED BY <2>1 DEF Balanced, Outside, Window
  <1> QED BY <1>3, <1>4

\* take_connection_credit_locked adds the growth and, perhaps, what was
\* consumed, to what is owed.
LEMMA TakeBalanced ==
    ASSUME NEW w \in Window, NEW max \in Nat, NEW growth \in Nat,
           w.size + growth <= max, NEW due \in BOOLEAN
    PROVE  /\ Balanced(w, TakeConnection(w, due, growth))
           /\ TakeConnection(w, due, growth).size <= max
  <1> DEFINE r == TakeConnection(w, due, growth)
             grown == [w EXCEPT !.owed = @ + growth, !.size = @ + growth]
             taken == [grown EXCEPT !.owed = @ + w.unreturned, !.unreturned = 0]
  <1>1. r = taken \/ r = grown
    BY DEF TakeConnection
  <1>2. /\ grown \in Window
        /\ grown.owed = w.owed + growth /\ grown.size = w.size + growth
        /\ grown.unreturned = w.unreturned /\ grown.inbound = w.inbound
        /\ grown.granting = w.granting
    <2> DEFINE a == w.owed + growth
               c == w.size + growth
    <2>1. a \in Nat /\ c \in Nat
      BY DEF Window
    <2>2. grown = [w EXCEPT !.owed = a, !.size = c]
      OBVIOUS
    <2>3. a = w.owed + growth /\ c = w.size + growth
      OBVIOUS
    <2> HIDE DEF a, c, grown
    <2> QED BY <2>1, <2>2, <2>3 DEF Window
  <1> HIDE DEF grown
  <1>3. /\ taken \in Window
        /\ taken.owed = w.owed + growth + w.unreturned
        /\ taken.size = w.size + growth
        /\ taken.unreturned = 0 /\ taken.inbound = w.inbound
        /\ taken.granting = w.granting
    <2> DEFINE a == grown.owed + w.unreturned
    <2>1. a \in Nat
      BY <1>2 DEF Window
    <2>2. taken = [grown EXCEPT !.owed = a, !.unreturned = 0]
      OBVIOUS
    <2>3. a = w.owed + growth + w.unreturned
      BY <1>2
    <2> HIDE DEF a, taken
    <2> QED BY <1>2, <2>1, <2>2, <2>3 DEF Window
  <1> HIDE DEF taken, r
  <1>4. Balanced(w, r) /\ r.size <= max
    BY <1>1, <1>2, <1>3 DEF Balanced, Outside, Window
  <1> QED BY <1>4 DEF r

\* complete_control_locked on the connection.
LEMMA CompleteBalanced ==
    ASSUME NEW w \in Window, NEW max \in Nat, w.size <= max, w.queued # 0,
           NEW fast \in BOOLEAN
    PROVE  /\ Balanced(w, CompleteConnection(w, max, fast))
           /\ CompleteConnection(w, max, fast).size <= max
  <1> DEFINE freed == [w EXCEPT !.queued = @ - 1]
             due == ConnectionDue(freed, max)
             g == IF due THEN Growth(freed, max, fast) ELSE 0
  <1>1. freed \in Window /\ freed.size = w.size /\ Balanced(w, freed)
    BY DEF Window, Balanced, Outside
  <1>2. g \in Nat /\ freed.size + g <= max
    BY <1>1, GrowthBounds DEF Window
  <1>3. due \in BOOLEAN
    BY DEF ConnectionDue
  <1>4. CompleteConnection(w, max, fast) = TakeConnection(freed, due, g)
    BY DEF CompleteConnection
  <1> HIDE DEF freed, due, g
  <1>5. Balanced(freed, TakeConnection(freed, due, g))
        /\ TakeConnection(freed, due, g).size <= max
    BY <1>1, <1>2, <1>3, TakeBalanced
  <1> QED BY <1>1, <1>4, <1>5 DEF Balanced, Outside, Window

\* The connection half of return_receive_credit: `bytes' more are outside the
\* application, and nothing else changes the balance.
LEMMA ReturnBalanced ==
    ASSUME NEW w \in Window, NEW max \in Nat, w.size <= max, NEW bytes \in Nat,
           NEW fast \in BOOLEAN
    PROVE  LET r == ReturnConnection(w, bytes, max, fast)
           IN  /\ r \in Window
               /\ r.size - Outside(r) = w.size - Outside(w) - bytes
               /\ r.inbound = w.inbound
               /\ r.granting = w.granting
               /\ r.size >= w.size
               /\ r.size <= max
  <1> DEFINE returned == [w EXCEPT !.unreturned = @ + bytes]
             due == ConnectionDue(returned, max)
             g == IF due /\ GrantSlotFree(returned)
                  THEN Growth(returned, max, fast) ELSE 0
  <1>1. /\ returned \in Window
        /\ returned.size = w.size
        /\ returned.inbound = w.inbound
        /\ returned.granting = w.granting
        /\ Outside(returned) = Outside(w) + bytes
    BY DEF Window, Outside
  <1>2. g \in Nat /\ returned.size + g <= max
    BY <1>1, GrowthBounds DEF Window
  <1>3. due \in BOOLEAN
    BY DEF ConnectionDue
  <1>4. ReturnConnection(w, bytes, max, fast) = TakeConnection(returned, due, g)
    BY DEF ReturnConnection
  <1> HIDE DEF returned, due, g
  <1>5. /\ Balanced(returned, TakeConnection(returned, due, g))
        /\ TakeConnection(returned, due, g).size <= max
    BY <1>1, <1>2, <1>3, TakeBalanced
  <1> QED BY <1>1, <1>4, <1>5 DEF Balanced, Outside, Window

-----------------------------------------------------------------------------
(* The inductive invariant. *)

IInv == TypeOK /\ Ledger /\ NeverFails

\* All of a fresh window is owed to the peer.
LEMMA InitHolds == ASSUME WindowAssumption PROVE Init => IInv
  <1> SUFFICES ASSUME Init PROVE IInv
    OBVIOUS
  <1>1. /\ win \in Window
        /\ win.size = Initial /\ win.owed = Initial /\ win.inbound = 0
        /\ win.granting = 0 /\ win.unreturned = 0
    BY DEF WindowAssumption, Init, OpenWindow, Window
  <1>2. TypeOK
    BY <1>1 DEF Init, TypeOK
  <1>3. Ledger
    BY <1>1
    DEF WindowAssumption, Init, Ledger, SenderLedger, ReceiverLedger, WindowBound
  <1> QED BY <1>2, <1>3 DEF Init, IInv, NeverFails

\* The bounds that a state satisfying the invariant gives to each step: credit
\* the sender holds or is granted was counted by the receiver.
LEMMA Bounds ==
    ASSUME WindowAssumption, IInv
    PROVE  /\ win \in Window
           /\ win.size \in Nat /\ win.inbound \in Nat /\ win.unreturned \in Nat
           /\ win.owed \in Nat /\ win.granting \in Nat /\ win.queued \in Nat
           /\ out \in Nat /\ parked \in Nat /\ flight \in Nat /\ grants \in Nat
           /\ held \in Nat
           /\ Maximum \in Nat /\ MaxCredit \in Nat /\ Initial \in Nat
           /\ MaxFrame \in Nat
           /\ Initial <= Maximum /\ Maximum <= MaxCredit
           /\ win.inbound >= out + parked + flight + grants
           /\ win.size >= win.inbound + win.granting + held
           /\ Initial <= win.size /\ win.size <= Maximum
  BY FrameAssumption
  DEF WindowAssumption, IInv, TypeOK, Ledger, SenderLedger, ReceiverLedger, WindowBound, Window

\* Steps that leave the window alone only move credit between the places the
\* sender's ledger adds up.
LEMMA SenderKeeps ==
    ASSUME WindowAssumption, IInv, Sender
    PROVE  IInv'
  <1> USE Bounds
  <1>1. ASSUME NEW n \in Bytes, Spend(n)
        PROVE  IInv'
    BY <1>1 DEF Bytes, Spend, IInv, TypeOK, Ledger, SenderLedger,
                ReceiverLedger, WindowBound, NeverFails
  <1>2. ASSUME NEW n \in Bytes, Transmit(n)
        PROVE  IInv'
    BY <1>2 DEF Bytes, Transmit, IInv, TypeOK, Ledger, SenderLedger,
                ReceiverLedger, WindowBound, NeverFails
  <1>3. ASSUME NEW n \in Bytes, TakeBack(n)
        PROVE  IInv'
    BY <1>3 DEF Bytes, TakeBack, IInv, TypeOK, Ledger, SenderLedger,
                ReceiverLedger, WindowBound, NeverFails
  <1>4. ASSUME NEW n \in 1..Maximum, ReceiveGrant(n)
        PROVE  IInv'
    <2>1. n <= MaxCredit - out
      BY <1>4 DEF ReceiveGrant
    <2> QED
      BY <1>4, <2>1 DEF ReceiveGrant, IInv, TypeOK, Ledger, SenderLedger,
                        ReceiverLedger, WindowBound, NeverFails
  <1> QED BY <1>1, <1>2, <1>3, <1>4 DEF Sender

\* A step of the receiver that fails no check keeps the invariant if it keeps
\* both ledgers; this is what each of them has to show.
LEMMA LedgersSuffice ==
    ASSUME WindowAssumption, IInv, win' \in Window, live' \in BOOLEAN, held' \in Nat,
           out' = out, parked' = parked, flight' \in Nat, grants' \in Nat,
           failed' = failed,
           win'.inbound - flight' - grants' = win.inbound - flight - grants,
           IF IsConnection \/ live'
           THEN win'.size - Outside(win') = held'
           ELSE win'.size >= win'.inbound + win'.granting + held',
           win'.size >= win.size, win'.size <= Maximum
    PROVE  IInv'
  <1>1. TypeOK'
    BY DEF IInv, TypeOK
  <1>2. SenderLedger'
    BY Bounds, <1>1 DEF IInv, TypeOK, Ledger, SenderLedger, Window
  <1>3. ReceiverLedger'
    BY <1>1 DEF ReceiverLedger, Outside, TypeOK, Window
  <1>4. WindowBound'
    BY Bounds, <1>1 DEF WindowBound, TypeOK, Window
  <1> QED BY <1>1, <1>2, <1>3, <1>4 DEF IInv, Ledger, NeverFails

\* What the invariant says of the receiver's side in terms of Outside.
LEMMA HeldIsTheRest ==
    ASSUME WindowAssumption, IInv, IsConnection \/ live
    PROVE  win.size - Outside(win) = held
  BY Bounds DEF IInv, Ledger, ReceiverLedger, Outside

-----------------------------------------------------------------------------
(* The receiver's steps. *)

\* An arriving record uses up inbound credit and nothing else.
LEMMA ChargeEffect ==
    ASSUME NEW w \in Window, NEW n \in Nat, n <= w.inbound
    PROVE  /\ Charge(w, n) \in Window
           /\ Charge(w, n).inbound = w.inbound - n
           /\ Charge(w, n).size = w.size
           /\ Charge(w, n).granting = w.granting
           /\ Outside(Charge(w, n)) = Outside(w) - n
  BY DEF Charge, Window, Outside

\* return_receive_credit, seen from either kind of window.
LEMMA ReturnedEffect ==
    ASSUME WindowAssumption, NEW w \in Window, w.size <= Maximum, NEW n \in Nat, NEW packet,
           NEW fast \in BOOLEAN, live \in BOOLEAN
    PROVE  LET r == Returned(w, n, packet, fast)
           IN  /\ r \in Window
               /\ r.inbound = w.inbound
               /\ r.granting = w.granting
               /\ r.size >= w.size /\ r.size <= Maximum
               /\ IF IsConnection \/ live
                  THEN r.size - Outside(r) = w.size - Outside(w) - n
                  ELSE r = w
  <1> DEFINE r == Returned(w, n, packet, fast)
  <1>0. Maximum \in Nat /\ IsConnection \in BOOLEAN
    BY DEF WindowAssumption
  <1>1. CASE IsConnection
    <2>1. r = ReturnConnection(w, n, Maximum, fast)
      BY <1>1 DEF Returned
    <2> HIDE DEF r
    <2>2. /\ r \in Window /\ r.inbound = w.inbound /\ r.granting = w.granting
          /\ r.size >= w.size /\ r.size <= Maximum
          /\ r.size - Outside(r) = w.size - Outside(w) - n
      BY <1>0, <2>1, ReturnBalanced
    <2> QED BY <1>1, <2>2 DEF r
  <1>2. CASE ~IsConnection /\ live
    <2> DEFINE u == [w EXCEPT !.unreturned = @ + n]
    <2>1. r = CollectStream(u, packet, Maximum, fast)
      BY <1>2 DEF Returned
    <2>2. /\ u \in Window /\ u.size = w.size /\ u.inbound = w.inbound
          /\ u.granting = w.granting /\ Outside(u) = Outside(w) + n
      BY DEF Window, Outside
    <2> HIDE DEF r, u
    <2>3. Balanced(u, r) /\ r.size <= Maximum
      BY <1>0, <2>1, <2>2, CollectBalanced
    <2>4. /\ r \in Window /\ r.inbound = w.inbound /\ r.granting = w.granting
          /\ r.size >= w.size
          /\ r.size - Outside(r) = w.size - Outside(w) - n
      BY <2>2, <2>3 DEF Balanced, Outside, Window
    <2> QED BY <1>2, <2>3, <2>4 DEF r
  <1>3. CASE ~IsConnection /\ ~live
    <2>1. r = w
      BY <1>3 DEF Returned
    <2> QED BY <1>3, <2>1 DEF Window
  <1> QED BY <1>0, <1>1, <1>2, <1>3

\* A record arrives within its credit.
LEMMA ArriveKeeps ==
    ASSUME WindowAssumption, IInv, NEW n \in Bytes, Arrive(n)
    PROVE  IInv'
  <1>1. n \in Nat /\ n <= win.inbound
    BY Bounds DEF Bytes, Arrive
  <1> DEFINE c == Charge(win, n)
  <1>2. /\ c \in Window /\ c.inbound = win.inbound - n /\ c.size = win.size
        /\ c.granting = win.granting /\ Outside(c) = Outside(win) - n
    BY <1>1, Bounds, ChargeEffect
  <1>3. /\ win' = IF IsConnection THEN TakeConnection(c, FALSE, 0) ELSE c
        /\ held' = held + n /\ flight' = flight - n /\ failed' = failed
        /\ live' = live /\ out' = out /\ parked' = parked /\ grants' = grants
        /\ IsConnection \/ live
        /\ n <= flight
    BY <1>1 DEF Arrive
  <1> HIDE DEF c
  <1>4. Balanced(c, win') /\ win'.size <= Maximum
    <2>1. Balanced(c, TakeConnection(c, FALSE, 0))
          /\ TakeConnection(c, FALSE, 0).size <= Maximum
      <3>1. c.size + 0 <= Maximum /\ Maximum \in Nat /\ 0 \in Nat
        BY <1>2, Bounds
      <3>2. FALSE \in BOOLEAN
        OBVIOUS
      <3> QED BY ONLY <1>2, <3>1, <3>2, TakeBalanced
    <2>2. Balanced(c, c) /\ c.size <= Maximum
      BY <1>2, Bounds DEF Balanced, Outside, Window
    <2> QED BY <1>3, <2>1, <2>2
  <1>5. /\ win' \in Window /\ win'.inbound = win.inbound - n
        /\ win'.size >= win.size
        /\ win'.size - Outside(win') = win.size - Outside(win) + n
    BY <1>2, <1>4, Bounds, <1>1 DEF Balanced, Outside, Window
  <1>6. win'.size - Outside(win') = held'
    BY <1>3, <1>5, HeldIsTheRest, Bounds, <1>1 DEF Outside, Window
  <1>7. live' \in BOOLEAN /\ held' \in Nat /\ flight' \in Nat /\ grants' \in Nat
    BY <1>1, <1>3, Bounds DEF IInv, TypeOK
  <1>8. win'.inbound - flight' - grants' = win.inbound - flight - grants
    <2>1. flight' = flight - n /\ grants' = grants
      BY <1>3
    <2>2. win'.inbound = win.inbound - n
      BY <1>5
    <2>3. /\ win.inbound \in Nat /\ flight \in Nat /\ grants \in Nat
          /\ n \in Nat
      BY <1>1, Bounds
    <2> QED BY ONLY <2>1, <2>2, <2>3
  <1> QED BY <1>3, <1>4, <1>5, <1>6, <1>7, <1>8, LedgersSuffice

\* The bytes of a closed stream return to the connection.
LEMMA DiscardKeeps ==
    ASSUME WindowAssumption, IInv, NEW n \in Bytes, NEW fast \in BOOLEAN, Discard(n, fast)
    PROVE  IInv'
  <1>1. n \in Nat /\ n <= win.inbound /\ n <= flight
    BY Bounds DEF Bytes, Discard
  <1> DEFINE c == Charge(win, n)
  <1>2. /\ c \in Window /\ c.inbound = win.inbound - n /\ c.size = win.size
        /\ c.granting = win.granting /\ Outside(c) = Outside(win) - n
    BY <1>1, Bounds, ChargeEffect
  <1>3. MayReturn(c, n)
    <2> SUFFICES ASSUME IsConnection \/ live
                 PROVE  CanReturn(c, n)
      BY DEF MayReturn
    <2>1. win.size - Outside(win) = held
      BY HeldIsTheRest
    <2> QED BY <1>1, <1>2, <2>1, Bounds DEF CanReturn, Outside, Window
  <1>4. /\ win' = Returned(c, n, 0, fast)
        /\ held' = held /\ flight' = flight - n /\ failed' = failed
        /\ live' = live /\ out' = out /\ parked' = parked /\ grants' = grants
    BY <1>1, <1>3 DEF Discard
  <1> HIDE DEF c
  <1>5. /\ win' \in Window /\ win'.inbound = c.inbound
        /\ win'.granting = c.granting
        /\ win'.size >= c.size /\ win'.size <= Maximum
        /\ IF IsConnection \/ live
           THEN win'.size - Outside(win') = c.size - Outside(c) - n
           ELSE win' = c
    BY <1>1, <1>2, <1>4, Bounds, ReturnedEffect DEF IInv, TypeOK
  <1>6. IF IsConnection \/ live'
        THEN win'.size - Outside(win') = held'
        ELSE win'.size >= win'.inbound + win'.granting + held'
    <2>1. CASE IsConnection \/ live
      BY <1>1, <1>2, <1>4, <1>5, <2>1, HeldIsTheRest, Bounds DEF Outside, Window
    <2>2. CASE ~(IsConnection \/ live)
      BY <1>1, <1>2, <1>4, <1>5, <2>2, Bounds
    <2> QED BY <2>1, <2>2
  <1>7. live' \in BOOLEAN /\ held' \in Nat /\ flight' \in Nat /\ grants' \in Nat
    BY <1>1, <1>4, Bounds DEF IInv, TypeOK
  <1>8. win'.inbound - flight' - grants' = win.inbound - flight - grants
    BY <1>1, <1>2, <1>4, <1>5, Bounds
  <1> QED BY <1>2, <1>4, <1>5, <1>6, <1>7, <1>8, LedgersSuffice

\* The application consumes what it holds.
LEMMA ConsumeKeeps ==
    ASSUME WindowAssumption, IInv, NEW n \in Bytes, NEW packet, NEW fast \in BOOLEAN,
           NEW floor \in Floors, Consume(n, packet, fast, floor)
    PROVE  IInv'
  <1>1. n \in Nat /\ n <= held /\ floor \in Nat
    BY Bounds DEF Bytes, Consume, Floors
  <1> DEFINE c == RaiseFloor(win, floor, Maximum)
  <1>2. Balanced(win, c) /\ c.size <= Maximum
    BY <1>1, Bounds, RaiseBalanced
  <1>3. MayReturn(win, n)
    <2> SUFFICES ASSUME IsConnection \/ live
                 PROVE  CanReturn(win, n)
      BY DEF MayReturn
    <2>1. win.size - Outside(win) = held
      BY HeldIsTheRest
    <2> QED BY <1>1, <2>1, Bounds DEF CanReturn, Outside
  <1>4. /\ win' = Returned(c, n, packet, fast)
        /\ held' = held - n /\ flight' = flight /\ failed' = failed
        /\ live' = live /\ out' = out /\ parked' = parked /\ grants' = grants
    BY <1>3 DEF Consume
  <1> HIDE DEF c
  <1>5. /\ win' \in Window /\ win'.inbound = c.inbound
        /\ win'.granting = c.granting
        /\ win'.size >= c.size /\ win'.size <= Maximum
        /\ IF IsConnection \/ live
           THEN win'.size - Outside(win') = c.size - Outside(c) - n
           ELSE win' = c
    <2>1. c \in Window /\ live \in BOOLEAN
      BY <1>2 DEF Balanced, IInv, TypeOK
    <2> QED BY <1>1, <1>2, <1>4, <2>1, ReturnedEffect
  <1>6. /\ c \in Window /\ c.inbound = win.inbound /\ c.granting = win.granting
        /\ c.size >= win.size
        /\ c.size - Outside(c) = win.size - Outside(win)
    BY <1>2 DEF Balanced
  <1>7. IF IsConnection \/ live'
        THEN win'.size - Outside(win') = held'
        ELSE win'.size >= win'.inbound + win'.granting + held'
    <2>1. CASE IsConnection \/ live
      <3>1. win.size - Outside(win) = held
        BY <2>1, HeldIsTheRest
      <3>2. win'.size - Outside(win') = win.size - Outside(win) - n
        BY <1>5, <1>6, <2>1
      <3> QED BY <1>4, <2>1, <3>1, <3>2
    <2>2. CASE ~(IsConnection \/ live)
      BY <1>1, <1>4, <1>5, <1>6, <2>2, Bounds DEF Window
    <2> QED BY <2>1, <2>2
  <1>8. live' \in BOOLEAN /\ held' \in Nat /\ flight' \in Nat /\ grants' \in Nat
    BY <1>1, <1>4, Bounds DEF IInv, TypeOK
  <1>9. /\ win'.inbound - flight' - grants' = win.inbound - flight - grants
        /\ win'.size >= win.size
    BY <1>4, <1>5, <1>6, Bounds DEF Window
  <1> QED BY <1>4, <1>5, <1>7, <1>8, <1>9, LedgersSuffice

\* A stream's window closes.
LEMMA CloseKeeps ==
    ASSUME WindowAssumption, IInv, Close
    PROVE  IInv'
  <1>1. /\ win' \in Window /\ win'.size = win.size
        /\ win'.inbound = win.inbound /\ win'.granting = win.granting
    BY Bounds DEF Close, Window
  <1>2. /\ live' = FALSE /\ ~IsConnection /\ held' = held /\ out' = out
        /\ parked' = parked /\ flight' = flight /\ grants' = grants
        /\ failed' = failed
    BY DEF Close
  <1>3. /\ win'.size >= win'.inbound + win'.granting + held'
        /\ win'.size >= win.size /\ win'.size <= Maximum
        /\ win'.inbound - flight' - grants' = win.inbound - flight - grants
        /\ held' \in Nat /\ flight' \in Nat /\ grants' \in Nat
    BY <1>1, <1>2, Bounds
  <1>4. live' \in BOOLEAN /\ ~(IsConnection \/ live')
    BY <1>2
  <1> QED BY <1>1, <1>2, <1>3, <1>4, LedgersSuffice

\* A credit record admitted at once moves what was owed to what the peer has.
LEMMA GrantKeeps ==
    ASSUME WindowAssumption, IInv, Grant
    PROVE  IInv'
  <1> DEFINE r == Reserve(win)
             a == Admit(r, win.owed)
  <1>1. /\ r \in Window /\ r.size = win.size /\ r.inbound = win.inbound
        /\ r.granting = win.granting + win.owed /\ r.owed = 0
        /\ r.unreturned = win.unreturned
    <2> DEFINE g == win.granting + win.owed
               q == win.queued + 1
    <2>1. g \in Nat /\ q \in Nat
      BY Bounds
    <2>2. r = [win EXCEPT !.granting = g, !.owed = 0, !.queued = q]
      BY DEF Reserve
    <2>3. g = win.granting + win.owed
      OBVIOUS
    <2> HIDE DEF g, q, r
    <2> QED BY <2>1, <2>2, <2>3, Bounds DEF Window
  <1>2. IsConnection \/ live
    <2>1. GrantOwed
      BY DEF Grant
    <2> QED BY ONLY <2>1 DEF GrantOwed
  <1>3. win.size = win.inbound + win.granting + win.owed + win.unreturned + held
    BY <1>2 DEF IInv, Ledger, ReceiverLedger
  <1> HIDE DEF r
  <1>4. AdmitAllowed(r, win.owed)
    BY <1>1, <1>3, Bounds DEF AdmitAllowed
  <1>5. /\ a \in Window /\ a.size = win.size
        /\ a.inbound = win.inbound + win.owed
        /\ a.granting = win.granting /\ a.owed = 0
        /\ a.unreturned = win.unreturned
    <2> DEFINE g == r.granting - win.owed
               i == r.inbound + win.owed
    <2>1. g \in Nat /\ i \in Nat /\ g = win.granting /\ i = win.inbound + win.owed
      BY <1>1, Bounds
    <2>2. a = [r EXCEPT !.granting = g, !.inbound = i]
      BY DEF Admit
    <2> HIDE DEF g, i, a
    <2> QED BY <1>1, <2>1, <2>2 DEF Window
  <1>6. /\ win' = a /\ grants' = grants + win.owed /\ failed' = failed
        /\ live' = live /\ held' = held /\ out' = out /\ parked' = parked
        /\ flight' = flight
    <2>1. AdmitAllowed(Reserve(win), win.owed)
      BY <1>4 DEF r
    <2> QED BY <2>1 DEF Grant, r
  <1> HIDE DEF a
  <1>7. win'.size - Outside(win') = held'
    BY <1>3, <1>5, <1>6, Bounds DEF Outside
  <1>8. win'.inbound - flight' - grants' = win.inbound - flight - grants
    BY <1>5, <1>6, Bounds
  <1>9. /\ win' \in Window /\ win'.size >= win.size /\ win'.size <= Maximum
        /\ live' \in BOOLEAN /\ held' \in Nat /\ flight' \in Nat
        /\ grants' \in Nat
    BY <1>5, <1>6, Bounds DEF IInv, TypeOK
  <1> QED BY <1>2, <1>6, <1>7, <1>8, <1>9, LedgersSuffice

\* A deferred credit record moves what was owed to what is being granted.
LEMMA DeferKeeps ==
    ASSUME WindowAssumption, IInv, DeferGrant
    PROVE  IInv'
  <1>1. /\ win' \in Window /\ win'.size = win.size /\ win'.inbound = win.inbound
        /\ win'.granting = win.granting + win.owed /\ win'.owed = 0
        /\ win'.unreturned = win.unreturned
    <2> DEFINE g == win.granting + win.owed
               q == win.queued + 1
    <2>1. g \in Nat /\ q \in Nat
      BY Bounds
    <2>2. win' = [win EXCEPT !.granting = g, !.owed = 0, !.queued = q]
      BY DEF DeferGrant, Reserve
    <2>3. g = win.granting + win.owed
      OBVIOUS
    <2> HIDE DEF g, q
    <2> QED BY <2>1, <2>2, <2>3, Bounds DEF Window
  <1>2. IsConnection \/ live
    BY DEF DeferGrant, GrantOwed
  <1>3. win.size - Outside(win) = held
    BY <1>2, HeldIsTheRest
  <1>4. /\ live' = live /\ held' = held /\ out' = out /\ parked' = parked
        /\ flight' = flight /\ grants' = grants /\ failed' = failed
    BY DEF DeferGrant
  <1>5. win'.size - Outside(win') = held'
    BY <1>1, <1>3, <1>4, Bounds DEF Outside
  <1>6. live' \in BOOLEAN
    BY <1>4 DEF IInv, TypeOK
  <1> QED BY <1>1, <1>2, <1>4, <1>5, <1>6, Bounds, LedgersSuffice

\* The flush admits a deferred credit record.
LEMMA FlushKeeps ==
    ASSUME WindowAssumption, IInv, NEW n \in 1..Maximum, FlushGrant(n)
    PROVE  IInv'
  <1>1. n \in Nat /\ n <= win.granting
    BY Bounds DEF FlushGrant
  <1>2. AdmitAllowed(win, n)
    BY <1>1, Bounds DEF AdmitAllowed
  <1>3. /\ win' = Admit(win, n) /\ grants' = grants + n /\ failed' = failed
        /\ live' = live /\ held' = held /\ out' = out /\ parked' = parked
        /\ flight' = flight
    BY <1>2 DEF FlushGrant
  <1>4. /\ win' \in Window /\ win'.size = win.size
        /\ win'.inbound = win.inbound + n /\ win'.granting = win.granting - n
        /\ win'.owed = win.owed /\ win'.unreturned = win.unreturned
    <2> DEFINE g == win.granting - n
               i == win.inbound + n
    <2>1. g \in Nat /\ i \in Nat
      BY <1>1, Bounds
    <2>2. win' = [win EXCEPT !.granting = g, !.inbound = i]
      BY <1>3 DEF Admit
    <2>3. g = win.granting - n /\ i = win.inbound + n
      OBVIOUS
    <2> HIDE DEF g, i
    <2> QED BY <2>1, <2>2, <2>3, Bounds DEF Window
  <1>5. IF IsConnection \/ live'
        THEN win'.size - Outside(win') = held'
        ELSE win'.size >= win'.inbound + win'.granting + held'
    <2>1. CASE IsConnection \/ live
      <3>1. win.size - Outside(win) = held
        BY <2>1, HeldIsTheRest
      <3> QED BY <1>1, <1>3, <1>4, <2>1, <3>1, Bounds DEF Outside
    <2>2. CASE ~(IsConnection \/ live)
      BY <1>1, <1>3, <1>4, <2>2, Bounds
    <2> QED BY <2>1, <2>2
  <1>6. /\ win'.inbound - flight' - grants' = win.inbound - flight - grants
        /\ win'.size >= win.size /\ win'.size <= Maximum
        /\ held' \in Nat /\ flight' \in Nat /\ grants' \in Nat
    BY <1>1, <1>3, <1>4, Bounds
  <1>7. live' \in BOOLEAN
    BY <1>3 DEF IInv, TypeOK
  <1> QED BY <1>3, <1>4, <1>5, <1>6, <1>7, LedgersSuffice

\* The flush drops the deferred credit of a closed stream.
LEMMA DropKeeps ==
    ASSUME WindowAssumption, IInv, NEW n \in 1..Maximum, DropDeferredGrant(n)
    PROVE  IInv'
  <1>1. n \in Nat /\ n <= win.granting /\ win.queued # 0 /\ ~IsConnection /\ ~live
    BY Bounds DEF DropDeferredGrant
  <1>2. /\ live' = live /\ held' = held /\ out' = out /\ parked' = parked
        /\ flight' = flight /\ grants' = grants /\ failed' = failed
    BY DEF DropDeferredGrant
  <1>3. /\ win' \in Window /\ win'.size = win.size
        /\ win'.inbound = win.inbound /\ win'.granting = win.granting - n
    <2> DEFINE g == win.granting - n
               q == win.queued - 1
    <2>1. g \in Nat /\ q \in Nat
      BY <1>1, Bounds
    <2>2. win' = [win EXCEPT !.queued = q, !.granting = g]
      BY DEF DropDeferredGrant, DropGrant
    <2>3. g = win.granting - n
      OBVIOUS
    <2> HIDE DEF g, q
    <2> QED BY <2>1, <2>2, <2>3, Bounds DEF Window
  <1>4. /\ win'.size >= win'.inbound + win'.granting + held'
        /\ win'.size >= win.size /\ win'.size <= Maximum
        /\ win'.inbound - flight' - grants' = win.inbound - flight - grants
        /\ held' \in Nat /\ flight' \in Nat /\ grants' \in Nat
    BY <1>1, <1>2, <1>3, Bounds
  <1>5. live' \in BOOLEAN /\ ~(IsConnection \/ live')
    <2>1. live \in BOOLEAN
      BY DEF IInv, TypeOK
    <2> QED BY ONLY <1>1, <1>2, <2>1
  <1> QED BY <1>2, <1>3, <1>4, <1>5, LedgersSuffice

\* A step that only balances the window keeps the invariant.
LEMMA BalancedKeeps ==
    ASSUME WindowAssumption, IInv, Balanced(win, win'), win'.size <= Maximum,
           UNCHANGED <<live, held, out, parked, flight, grants, failed>>
    PROVE  IInv'
  <1>1. /\ win' \in Window /\ win'.inbound = win.inbound
        /\ win'.granting = win.granting /\ win'.size >= win.size
        /\ win'.size - Outside(win') = win.size - Outside(win)
    BY DEF Balanced
  <1>2. /\ live' = live /\ held' = held /\ out' = out /\ parked' = parked
        /\ flight' = flight /\ grants' = grants /\ failed' = failed
    OBVIOUS
  <1>3. IF IsConnection \/ live'
        THEN win'.size - Outside(win') = held'
        ELSE win'.size >= win'.inbound + win'.granting + held'
    <2>1. CASE IsConnection \/ live
      BY <1>1, <1>2, <2>1, HeldIsTheRest
    <2>2. CASE ~(IsConnection \/ live)
      BY <1>1, <1>2, <2>2, Bounds DEF Window
    <2> QED BY <2>1, <2>2
  <1>4. /\ win'.inbound - flight' - grants' = win.inbound - flight - grants
        /\ held' \in Nat /\ flight' \in Nat /\ grants' \in Nat
    BY <1>1, <1>2, Bounds
  <1>5. live' \in BOOLEAN
    BY <1>2 DEF IInv, TypeOK
  <1> QED BY <1>1, <1>2, <1>3, <1>4, <1>5, LedgersSuffice

\* A grant that was taken is sent or deferred.
LEMMA SentKeeps ==
    ASSUME WindowAssumption, IInv, NEW packet, NEW fast \in BOOLEAN, GrantSent(packet, fast)
    PROVE  IInv'
  <1>0. IsConnection \in BOOLEAN /\ live \in BOOLEAN /\ win.queued # 0
    BY DEF WindowAssumption, GrantSent, IInv, TypeOK
  <1>1. UNCHANGED <<live, held, out, parked, flight, grants, failed>>
    BY DEF GrantSent
  <1> DEFINE f == [win EXCEPT !.queued = @ - 1]
  <1>2. Balanced(win, f) /\ f.size = win.size
    <2>1. win.queued - 1 \in Nat
      BY <1>0, Bounds
    <2>2. /\ f \in Window /\ f.size = win.size /\ f.inbound = win.inbound
          /\ f.granting = win.granting /\ f.owed = win.owed
          /\ f.unreturned = win.unreturned
      BY <2>1, Bounds DEF Window
    <2> HIDE DEF f
    <2> QED BY <2>2, Bounds DEF Balanced, Outside
  <1>3. CASE IsConnection
    <2>1. win' = CompleteConnection(win, Maximum, fast)
      BY <1>3 DEF GrantSent
    <2> QED BY <1>0, <1>1, <2>1, Bounds, CompleteBalanced, BalancedKeeps
  <1>4. CASE ~IsConnection /\ live
    <2>1. win' = CollectStream(f, packet, Maximum, fast)
      BY <1>4 DEF GrantSent, CompleteStream
    <2> HIDE DEF f
    <2>2. f \in Window
      BY <1>2 DEF Balanced
    <2>3. Balanced(f, win') /\ win'.size <= Maximum
      BY <1>2, <2>1, <2>2, Bounds, CollectBalanced
    <2>4. Balanced(win, win')
      BY <1>2, <2>3, Bounds DEF Balanced, Outside, Window
    <2> QED BY <1>1, <2>3, <2>4, BalancedKeeps
  <1>5. CASE ~IsConnection /\ ~live
    <2>1. win' = f
      BY <1>5 DEF GrantSent
    <2> HIDE DEF f
    <2> QED BY <1>1, <1>2, <2>1, Bounds, BalancedKeeps
  <1> QED BY <1>0, <1>3, <1>4, <1>5

\* A window grows.
LEMMA RaiseKeeps ==
    ASSUME WindowAssumption, IInv, NEW floor \in Floors, Raise(floor)
    PROVE  IInv'
  <1>1. floor \in Nat
    BY Bounds DEF Floors
  <1>2. /\ win' = RaiseFloor(win, floor, Maximum)
        /\ UNCHANGED <<live, held, out, parked, flight, grants, failed>>
    BY DEF Raise
  <1>3. Balanced(win, win') /\ win'.size <= Maximum
    BY <1>1, <1>2, Bounds, RaiseBalanced
  <1> QED BY <1>2, <1>3, BalancedKeeps

\* Every step of the receiving side keeps the invariant.
LEMMA ReceiverKeeps ==
    ASSUME WindowAssumption, IInv, Receiver
    PROVE  IInv'
  BY ArriveKeeps, DiscardKeeps, ConsumeKeeps, CloseKeeps, GrantKeeps,
     DeferKeeps, FlushKeeps, DropKeeps, SentKeeps, RaiseKeeps
  DEF Receiver

\* The credit ledgers balance in every state and no accounting check of the
\* engine fails a session: conservation of flow credit, for every window size,
\* frame size and number of returns.
THEOREM CreditConserved ==
    ASSUME WindowAssumption
    PROVE  Spec => [](TypeOK /\ Ledger /\ NeverFails)
  <1>1. IInv /\ [Next]_cvars => IInv'
    <2> SUFFICES ASSUME IInv, [Next]_cvars
                 PROVE  IInv'
      OBVIOUS
    <2>1. CASE Next
      BY <2>1, SenderKeeps, ReceiverKeeps DEF Next
    <2>2. CASE UNCHANGED cvars
      BY <2>2 DEF cvars, IInv, TypeOK, Ledger, SenderLedger, ReceiverLedger,
                  WindowBound, NeverFails
    <2> QED BY <2>1, <2>2
  <1> QED BY InitHolds, <1>1, PTL DEF Spec, IInv

\* The memory a session can be made to hold: unread bytes and everything the
\* peer may still send stay within the configured maximum window.
THEOREM MemoryBounded ==
    ASSUME WindowAssumption
    PROVE  Spec => []HeldWithinMaximum
  <1>1. IInv => HeldWithinMaximum
    BY Bounds DEF HeldWithinMaximum
  <1>2. TypeOK /\ Ledger /\ NeverFails => IInv
    BY DEF IInv
  <1> QED BY CreditConserved, <1>1, <1>2, PTL
=============================================================================

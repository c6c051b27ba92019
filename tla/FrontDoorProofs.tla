--------------------------- MODULE FrontDoorProofs ---------------------------
(***************************************************************************)
(* Proofs about FrontDoor, for every number of doors, connections, accept  *)
(* operations, places and promotions: both budgets count what is really    *)
(* held, and a listener that is not accepting waits for something that     *)
(* will come.                                                              *)
(***************************************************************************)
EXTENDS FrontDoor, FiniteSetTheorems, TLAPS

\* The connections of a table cn whose stage is in T.
InStage(cn, T) == {c \in Conns : cn[c].stage \in T}

\* The connections that occupy a place.
Placing == Listed \cup {"handed"}

\* The places in use: the accept under way and the connections.
Taken == (IF listener.accepting THEN 1 ELSE 0) + Cardinality(InStage(conn, Placing))

\* What the places' proof needs of the only door with a listener of its own:
\* nobody hands it connections or waits for its calls, and the first call of
\* start_accept comes before everything else.
OwnListener ==
  ~served =>
    /\ \A d \in Doors : ~owed[d]
    /\ ~listener.closing /\ places = 0
    /\ \A c \in Conns : /\ conn[c].stage # "handed"
                        /\ conn[c].stage \in Listed => conn[c].door = OnlyDoor
    /\ resume => /\ ~listener.accepting /\ ~listener.retry
                 /\ InStage(conn, Placing) = {}

\* The inductive invariant of the places.
PlacesInv ==
  /\ PlacesCounted
  /\ Taken <= MaxPlaces
  /\ OwnListener
  /\ ListenerAwake

\* What the promotions' proof needs of a handler that waits for the replay
\* cache: it is the only one of its door, and the waiter it chose is free.
SlotsApart ==
  /\ \A c \in Conns : conn[c].stage \in WaiterHeld \cup {"slot"} => conn[c].waiter \in Waiters
  /\ \A c \in Conns : conn[c].stage = "slot" =>
       /\ waiter[conn[c].waiter].door = conn[c].door
       /\ waiter[conn[c].waiter].by = NoOne
       /\ waiter[conn[c].waiter].st # "absent"
  /\ \A c, e \in Conns :
       conn[c].stage = "slot" /\ conn[e].stage = "slot" /\ conn[c].door = conn[e].door => c = e

\* The inductive invariant of the promotions.
PromotionsInv == PromotionsCounted /\ SlotsApart

Inv == TypeOK /\ PlacesInv /\ PromotionsInv

-----------------------------------------------------------------------------
(* Counting connections.                                                   *)

\* There are finitely many connections at any set of stages.
LEMMA StageFinite ==
  ASSUME NEW cn, NEW T
  PROVE  /\ IsFiniteSet(InStage(cn, T))
         /\ Cardinality(InStage(cn, T)) \in Nat
  <1>1. InStage(cn, T) \subseteq Conns
    BY DEF InStage
  <1>2. IsFiniteSet(InStage(cn, T))
    BY <1>1, FrontDoorAssumption, FS_Subset
  <1> QED
    BY <1>2, FS_CardinalityType

\* A connection that leaves the stages T lowers their count by one.
LEMMA CountLeaves ==
  ASSUME NEW cn, NEW cm, NEW T, NEW c \in Conns,
         \A e \in Conns : e # c => cm[e].stage = cn[e].stage,
         cn[c].stage \in T, cm[c].stage \notin T
  PROVE  /\ Cardinality(InStage(cn, T)) \in Nat \ {0}
         /\ Cardinality(InStage(cm, T)) = Cardinality(InStage(cn, T)) - 1
  <1>1. InStage(cm, T) = InStage(cn, T) \ {c}
    BY DEF InStage
  <1>2. c \in InStage(cn, T)
    BY DEF InStage
  <1>3. IsFiniteSet(InStage(cn, T)) /\ Cardinality(InStage(cn, T)) \in Nat
    BY StageFinite
  <1>4. Cardinality(InStage(cn, T)) # 0
    BY <1>2, <1>3, FS_EmptySet
  <1> QED
    BY <1>1, <1>2, <1>3, <1>4, FS_RemoveElement

\* A connection that enters the stages T raises their count by one.
LEMMA CountEnters ==
  ASSUME NEW cn, NEW cm, NEW T, NEW c \in Conns,
         \A e \in Conns : e # c => cm[e].stage = cn[e].stage,
         cn[c].stage \notin T, cm[c].stage \in T
  PROVE  Cardinality(InStage(cm, T)) = Cardinality(InStage(cn, T)) + 1
  <1>1. InStage(cm, T) = InStage(cn, T) \cup {c}
    BY DEF InStage
  <1>2. c \notin InStage(cn, T)
    BY DEF InStage
  <1>3. IsFiniteSet(InStage(cn, T))
    BY StageFinite
  <1> QED
    BY <1>1, <1>2, <1>3, FS_AddElement

\* Connections that all stay on their side of T leave the set as it is.
LEMMA CountStays ==
  ASSUME NEW cn, NEW cm, NEW T,
         \A e \in Conns : (cm[e].stage \in T) <=> (cn[e].stage \in T)
  PROVE  InStage(cm, T) = InStage(cn, T)
  BY DEF InStage

\* An own listener's door lists exactly the connections that occupy a place.
LEMMA OwnPlaces ==
  ASSUME ~served, OwnListener
  PROVE  ListedAt(OnlyDoor) = InStage(conn, Placing)
  BY DEF OwnListener, ListedAt, InStage, Placing

\* There is a door, and the doors in use are doors.
LEMMA DoorsInUse == OnlyDoor \in Doors /\ ActiveDoors \subseteq Doors
  BY FrontDoorAssumption DEF OnlyDoor, ActiveDoors

-----------------------------------------------------------------------------
(* The places.                                                             *)

\* A step that moves connections between stages of the same standing and
\* touches nothing of the listener keeps the places' invariant.
LEMMA PlacesQuiet ==
  ASSUME PlacesInv, UNCHANGED <<served, listener, places, resume, owed>>,
         \A d \in Doors : door[d].closing => door'[d].closing,
         \A c \in Conns : (conn'[c].stage \in Placing) <=> (conn[c].stage \in Placing),
         \A c \in Conns : conn'[c].stage = "handed" => conn[c].stage = "handed",
         \A c \in Conns : conn'[c].stage \in Listed => conn'[c].door = conn[c].door
  PROVE  PlacesInv'
  <1>1. InStage(conn', Placing) = InStage(conn, Placing)
    BY CountStays
  <1>2. Taken' = Taken
    BY <1>1 DEF Taken
  <1>3. PlacesCounted'
    BY <1>1, PlacesInv DEF PlacesInv, PlacesCounted, InStage, Placing
  <1>4. OwnListener'
    <2> SUFFICES ASSUME ~served PROVE OwnListener'
      BY DEF OwnListener
    <2>1. \A c \in Conns : conn[c].stage # "handed"
      BY DEF PlacesInv, OwnListener
    <2>2. \A c \in Conns : conn'[c].stage # "handed"
      BY <2>1
    <2>3. \A c \in Conns : conn'[c].stage \in Listed => conn'[c].door = OnlyDoor
      BY <2>1 DEF PlacesInv, OwnListener, Placing
    <2> QED
      BY <1>1, <2>2, <2>3 DEF PlacesInv, OwnListener
  <1>5. ListenerAwake'
    <2>1. ListenerClosing => ListenerClosing'
      BY DoorsInUse DEF ListenerClosing
    <2>2. ~served => ListedAt(OnlyDoor)' = ListedAt(OnlyDoor)
      BY <1>1, <1>4, OwnPlaces DEF PlacesInv, OwnListener, ListedAt, InStage, Placing
    <2> QED
      BY <2>1, <2>2 DEF PlacesInv, ListenerAwake
  <1> QED
    BY <1>2, <1>3, <1>4, <1>5 DEF PlacesInv

\* start_accept, of a listener l that sees the places in use, restores the
\* places' invariant: it takes the free place it was told of, or there is none.
LEMMA StartAcceptKeeps ==
  ASSUME TypeOK, NEW l \in [closing : BOOLEAN, accepting : BOOLEAN, retry : BOOLEAN],
         NEW p \in Nat, StartAccept(l, p), served' = served, l.closing = listener.closing,
         \A d \in Doors : door'[d].closing = door[d].closing,
         Cardinality(InStage(conn', Placing)) + (IF l.accepting THEN 1 ELSE 0) <= MaxPlaces,
         p = Cardinality(InStage(conn', Placing))
               + (IF served /\ l.accepting THEN 1 ELSE 0),
         ~served => /\ \A d \in Doors : ~owed'[d]
                    /\ ~l.closing /\ places = 0 /\ ~resume'
                    /\ \A c \in Conns : /\ conn'[c].stage # "handed"
                                        /\ conn'[c].stage \in Listed => conn'[c].door = OnlyDoor
  PROVE  PlacesInv' /\ places' \in 0..MaxPlaces
                    /\ listener' \in [closing : BOOLEAN, accepting : BOOLEAN, retry : BOOLEAN]
  <1> DEFINE n == Cardinality(InStage(conn', Placing))
             takes == ~ListenerClosing /\ ~l.accepting /\ ~l.retry /\ p < MaxPlaces
             acc == l.accepting \/ takes
  <1>1. n \in Nat
    BY StageFinite
  <1>2. /\ listener' = [l EXCEPT !.accepting = acc]
        /\ places' = IF ~served THEN places ELSE IF takes THEN p + 1 ELSE p
    BY DEF StartAccept
  <1>3. /\ listener' = [closing |-> l.closing, accepting |-> acc, retry |-> l.retry]
        /\ l.accepting \in BOOLEAN /\ l.retry \in BOOLEAN
    BY <1>2
  <1>4. listener'.accepting = acc /\ listener'.closing = listener.closing
                                 /\ listener'.retry = l.retry
    BY <1>3
  <1>5. ListenerClosing' = ListenerClosing
    BY <1>4, DoorsInUse DEF ListenerClosing
  <1>6. MaxPlaces \in Nat /\ places \in 0..MaxPlaces
    BY FrontDoorAssumption DEF TypeOK
  <1>7. n + (IF acc THEN 1 ELSE 0) <= MaxPlaces
    BY <1>1, <1>6
  <1>8. Taken' <= MaxPlaces
    <2>1. Taken' = (IF acc THEN 1 ELSE 0) + n
      BY <1>4 DEF Taken
    <2> HIDE DEF n, acc
    <2> QED
      BY <1>1, <1>7, <2>1
  <1>9. PlacesCounted'
    <2> SUFFICES ASSUME served PROVE PlacesCounted'
      BY DEF PlacesCounted
    <2>1. places' = n + (IF acc THEN 1 ELSE 0)
      BY <1>1, <1>2, <1>3, <1>6
    <2>2. places' = (IF acc THEN 1 ELSE 0) + n
      <3> HIDE DEF n, acc
      <3> QED
        BY <1>1, <2>1
    <2>3. PlacesCounted' = (served => places' = (IF acc THEN 1 ELSE 0) + n)
      BY <1>4 DEF PlacesCounted, InStage, Placing
    <2> QED
      BY <2>2, <2>3
  <1>10. OwnListener'
    BY <1>2, <1>4 DEF OwnListener
  <1>11. ListenerAwake'
    <2>1. CASE ListenerClosing
      BY <1>5, <2>1 DEF ListenerAwake
    <2>2. CASE acc \/ l.retry
      BY <1>4, <2>2 DEF ListenerAwake
    <2>3. CASE ~ListenerClosing /\ ~acc /\ ~l.retry
      <3>1. n = MaxPlaces /\ p = MaxPlaces
        BY <1>1, <1>6, <2>3
      <3>2. served => places' = MaxPlaces
        BY <1>2, <2>3, <3>1
      <3>3. ~served => ListedAt(OnlyDoor)' = InStage(conn', Placing)
        BY DEF ListedAt, InStage, Placing
      <3> QED
        BY <3>1, <3>2, <3>3 DEF ListenerAwake
    <2> QED
      BY <2>1, <2>2, <2>3
  <1>12. places' \in 0..MaxPlaces
    BY <1>1, <1>2, <1>3, <1>6
  <1>13. listener' \in [closing : BOOLEAN, accepting : BOOLEAN, retry : BOOLEAN]
    BY <1>3
  <1> QED
    BY <1>8, <1>9, <1>10, <1>11, <1>12, <1>13 DEF PlacesInv

\* What the places' invariant says of the numbers.
LEMMA PlacesNumbers ==
  ASSUME TypeOK, PlacesInv
  PROVE  /\ Cardinality(InStage(conn, Placing)) \in Nat
         /\ MaxPlaces \in Nat \ {0} /\ listener.accepting \in BOOLEAN
         /\ Cardinality(InStage(conn, Placing)) + (IF listener.accepting THEN 1 ELSE 0) <= MaxPlaces
         /\ served => places = Cardinality(InStage(conn, Placing))
                                 + (IF listener.accepting THEN 1 ELSE 0)
         /\ ~served => places = 0 /\ ListedAt(OnlyDoor) = InStage(conn, Placing)
  <1>1. Cardinality(InStage(conn, Placing)) \in Nat
    BY StageFinite
  <1>2. MaxPlaces \in Nat \ {0} /\ listener.accepting \in BOOLEAN
    BY FrontDoorAssumption DEF TypeOK
  <1>3. Cardinality(InStage(conn, Placing)) + (IF listener.accepting THEN 1 ELSE 0) <= MaxPlaces
    BY <1>1 DEF PlacesInv, Taken
  <1>4. served => places = Cardinality(InStage(conn, Placing))
                            + (IF listener.accepting THEN 1 ELSE 0)
    BY <1>1 DEF PlacesInv, PlacesCounted, InStage, Placing
  <1>5. ~served => places = 0 /\ ListedAt(OnlyDoor) = InStage(conn, Placing)
    BY OwnPlaces DEF PlacesInv, OwnListener
  <1> QED
    BY <1>1, <1>2, <1>3, <1>4, <1>5

\* A connection that occupies a place leaves, on its door's thread.
LEMMA LeavesKeeps ==
  ASSUME TypeOK, PlacesInv, NEW c \in Conns, NEW stage \in {"gone", "carrier"},
         conn[c].stage \in Placing, DoorRuns(conn[c].door), Leaves(c, stage),
         UNCHANGED <<served, resume, door>>
  PROVE  /\ PlacesInv' /\ places' \in 0..MaxPlaces
         /\ listener' \in [closing : BOOLEAN, accepting : BOOLEAN, retry : BOOLEAN]
         /\ owed' \in [Doors -> BOOLEAN]
  <1> DEFINE d == conn[c].door
             n == Cardinality(InStage(conn, Placing))
             m == Cardinality(InStage(conn', Placing))
             a == IF listener.accepting THEN 1 ELSE 0
  <1>1. conn' = [conn EXCEPT ![c].stage = stage, ![c].waiter = NoOne, ![c].timer = "off"]
    BY DEF Leaves
  <1>2. conn \in [Conns -> ConnRecord] /\ owed \in [Doors -> BOOLEAN]
    BY DEF TypeOK
  <1>3. /\ \A e \in Conns : e # c => conn'[e] = conn[e]
        /\ conn'[c].stage = stage /\ conn'[c].door = conn[c].door
    BY <1>1, <1>2 DEF ConnRecord
  <1>4. conn'[c].stage \notin Placing
    BY <1>3 DEF Placing, Listed
  <1>5. n \in Nat \ {0} /\ m = n - 1
    BY <1>3, <1>4, CountLeaves
  <1>6. /\ MaxPlaces \in Nat \ {0} /\ listener.accepting \in BOOLEAN /\ n + a <= MaxPlaces
        /\ served => places = n + a
        /\ ~served => places = 0 /\ ListedAt(OnlyDoor) = InStage(conn, Placing)
    BY PlacesNumbers
  <1>7. d \in Doors /\ d \in ActiveDoors /\ ~owed[d]
    BY DoorsInUse DEF DoorRuns
  <1>8. CASE served
    <2>1. /\ places' = places - 1 /\ listener' = listener
          /\ owed' = [owed EXCEPT ![d] = (places = MaxPlaces)]
      BY <1>8 DEF Leaves
    <2>2. Taken' = m + a /\ m + a <= MaxPlaces /\ places' = m + a
      BY <1>5, <1>6, <1>8, <2>1 DEF Taken
    <2>3. PlacesCounted'
      BY <1>5, <1>6, <2>1, <2>2 DEF PlacesCounted, InStage, Placing
    <2>4. OwnListener'
      BY <1>8 DEF OwnListener
    <2>5. ListenerAwake'
      <3>1. CASE places = MaxPlaces
        <4>1. owed'[d]
          BY <1>2, <1>7, <2>1, <3>1
        <4> QED
          BY <1>7, <4>1 DEF ListenerAwake
      <3>2. CASE places # MaxPlaces
        <4>1. owed' = owed
          BY <1>2, <1>7, <2>1, <3>2
        <4> QED
          BY <1>8, <2>1, <3>2, <4>1 DEF PlacesInv, ListenerAwake, ListenerClosing
      <3> QED
        BY <3>1, <3>2
    <2>6. owed' \in [Doors -> BOOLEAN]
      BY <1>2, <2>1
    <2>7. places' \in 0..MaxPlaces
      BY <1>5, <1>6, <2>2
    <2> QED
      BY <2>1, <2>2, <2>3, <2>4, <2>5, <2>6, <2>7 DEF PlacesInv, TypeOK
  <1>9. CASE ~served
    <2>1. d = OnlyDoor
      BY <1>7, <1>9 DEF ActiveDoors
    <2>2. StartAccept(listener, n - 1) /\ owed' = owed
      BY <1>6, <1>9, <2>1 DEF Leaves
    <2>3. /\ \A e \in Doors : ~owed'[e]
          /\ ~listener.closing /\ places = 0
      BY <1>9, <2>2 DEF PlacesInv, OwnListener
    <2>4. ~resume'
      <3>1. InStage(conn, Placing) # {}
        BY DEF InStage
      <3> QED
        BY <1>9, <3>1 DEF PlacesInv, OwnListener, TypeOK
    <2>5. \A e \in Conns : /\ conn'[e].stage # "handed"
                           /\ conn'[e].stage \in Listed => conn'[e].door = OnlyDoor
      BY <1>3, <1>4, <1>9 DEF PlacesInv, OwnListener, Placing
    <2>6. n - 1 \in Nat /\ m + a <= MaxPlaces
      BY <1>5, <1>6
    <2>7. listener \in [closing : BOOLEAN, accepting : BOOLEAN, retry : BOOLEAN]
      BY DEF TypeOK
    <2> HIDE DEF n, m, a
    <2>8. m = n - 1 + (IF served /\ listener.accepting THEN 1 ELSE 0)
      BY <1>5, <1>9, <2>6
    <2> QED
      BY <1>2, <1>9, <2>2, <2>3, <2>4, <2>5, <2>6, <2>7, <2>8, StartAcceptKeeps DEF n, m, a
  <1> QED
    BY <1>8, <1>9

-----------------------------------------------------------------------------
(* The promotions.                                                         *)

\* The waiter side of the promotions' invariant: a taken waiter and the
\* connection that took it know each other, and slots are apart.
WaitersMatched ==
  /\ \A c \in Conns : conn[c].stage \in WaiterHeld => waiter[conn[c].waiter].by = c
  /\ \A w \in Waiters : waiter[w].by # NoOne =>
       conn[waiter[w].by].stage \in WaiterHeld /\ conn[waiter[w].by].waiter = w
  /\ SlotsApart

\* The promotions' invariant, in terms of the count and the waiters.
LEMMA PromotionsParts ==
  PromotionsInv <=> promoted = Cardinality(InStage(conn, Holding)) /\ WaitersMatched
  BY DEF PromotionsInv, PromotionsCounted, WaitersMatched, InStage

\* The same of the next state.
LEMMA PromotionsPartsNext ==
  PromotionsInv' <=> promoted' = Cardinality(InStage(conn', Holding)) /\ WaitersMatched'
  BY DEF PromotionsInv, PromotionsCounted, WaitersMatched, InStage

\* A step that takes and returns no waiter keeps waiters and connections
\* matched.
LEMMA MatchedQuiet ==
  ASSUME TypeOK, WaitersMatched,
         \A c \in Conns :
           /\ (conn'[c].stage \in WaiterHeld) <=> (conn[c].stage \in WaiterHeld)
           /\ (conn'[c].stage = "slot") <=> (conn[c].stage = "slot")
           /\ conn[c].stage \in WaiterHeld \cup {"slot"} =>
                conn'[c].waiter = conn[c].waiter /\ conn'[c].door = conn[c].door,
         \A w \in Waiters :
           /\ waiter'[w].by = waiter[w].by
           /\ waiter[w].st # "absent" => /\ waiter'[w].st # "absent"
                                         /\ waiter'[w].door = waiter[w].door
  PROVE  WaitersMatched'
  <1>1. \A c \in Conns : conn[c].stage \in WaiterHeld \cup {"slot"} => conn[c].waiter \in Waiters
    BY DEF WaitersMatched, SlotsApart
  <1>2. \A c \in Conns : conn'[c].stage \in WaiterHeld => waiter'[conn'[c].waiter].by = c
    BY <1>1 DEF WaitersMatched
  <1>3. \A w \in Waiters : waiter'[w].by # NoOne =>
          conn'[waiter'[w].by].stage \in WaiterHeld /\ conn'[waiter'[w].by].waiter = w
    <2> SUFFICES ASSUME NEW w \in Waiters, waiter[w].by # NoOne
                 PROVE  conn'[waiter[w].by].stage \in WaiterHeld /\ conn'[waiter[w].by].waiter = w
      OBVIOUS
    <2>1. waiter[w].by \in Conns
      BY DEF TypeOK, WaiterRecord
    <2> QED
      BY <2>1 DEF WaitersMatched
  <1>4. \A c \in Conns : conn'[c].stage \in WaiterHeld \cup {"slot"} => conn'[c].waiter \in Waiters
    BY <1>1
  <1>5. \A c \in Conns : conn'[c].stage = "slot" =>
          /\ waiter'[conn'[c].waiter].door = conn'[c].door
          /\ waiter'[conn'[c].waiter].by = NoOne
          /\ waiter'[conn'[c].waiter].st # "absent"
    BY <1>1 DEF WaitersMatched, SlotsApart
  <1>6. \A c, e \in Conns :
          conn'[c].stage = "slot" /\ conn'[e].stage = "slot" /\ conn'[c].door = conn'[e].door => c = e
    BY DEF WaitersMatched, SlotsApart
  <1>7. SlotsApart'
    BY <1>4, <1>5, <1>6 DEF SlotsApart
  <1> QED
    BY <1>2, <1>3, <1>7 DEF WaitersMatched

\* A connection that gives up its waiter, if it has one, leaves the others
\* matched.
LEMMA MatchedFreed ==
  ASSUME TypeOK, WaitersMatched, NEW c \in Conns,
         \A e \in Conns : e # c => conn'[e] = conn[e],
         conn'[c].stage \notin WaiterHeld \cup {"slot"},
         \A w \in Waiters :
           /\ waiter'[w].by = IF conn[c].stage \in WaiterHeld /\ w = conn[c].waiter
                              THEN NoOne ELSE waiter[w].by
           /\ waiter[w].st # "absent" => /\ waiter'[w].st # "absent"
                                         /\ waiter'[w].door = waiter[w].door
  PROVE  WaitersMatched'
  <1>1. \A e \in Conns : conn[e].stage \in WaiterHeld \cup {"slot"} => conn[e].waiter \in Waiters
    BY DEF WaitersMatched, SlotsApart
  <1>2. ASSUME NEW e \in Conns, conn'[e].stage \in WaiterHeld
        PROVE  waiter'[conn'[e].waiter].by = e
    <2>1. e # c /\ conn'[e] = conn[e]
      BY <1>2
    <2>2. conn[e].waiter \in Waiters /\ waiter[conn[e].waiter].by = e
      BY <1>1, <1>2, <2>1 DEF WaitersMatched
    <2>3. conn[c].stage \in WaiterHeld => conn[e].waiter # conn[c].waiter
      BY <2>1, <2>2 DEF WaitersMatched
    <2> QED
      BY <2>1, <2>2, <2>3
  <1>3. ASSUME NEW w \in Waiters, waiter'[w].by # NoOne
        PROVE  conn'[waiter'[w].by].stage \in WaiterHeld /\ conn'[waiter'[w].by].waiter = w
    <2>1. waiter'[w].by = waiter[w].by /\ waiter[w].by # NoOne
      BY <1>3
    <2>2. waiter[w].by \in Conns
      BY <2>1 DEF TypeOK, WaiterRecord
    <2>3. conn[waiter[w].by].stage \in WaiterHeld /\ conn[waiter[w].by].waiter = w
      BY <2>1 DEF WaitersMatched
    <2>4. waiter[w].by # c
      BY <1>3, <2>1, <2>3
    <2> QED
      BY <2>1, <2>2, <2>3, <2>4
  <1>4. \A e \in Conns : conn'[e].stage \in WaiterHeld \cup {"slot"} => conn'[e].waiter \in Waiters
    BY <1>1
  <1>5. ASSUME NEW e \in Conns, conn'[e].stage = "slot"
        PROVE  /\ waiter'[conn'[e].waiter].door = conn'[e].door
               /\ waiter'[conn'[e].waiter].by = NoOne
               /\ waiter'[conn'[e].waiter].st # "absent"
    <2>1. conn'[e] = conn[e] /\ conn[e].waiter \in Waiters
      BY <1>1, <1>5
    <2>2. /\ waiter[conn[e].waiter].door = conn[e].door
          /\ waiter[conn[e].waiter].by = NoOne
          /\ waiter[conn[e].waiter].st # "absent"
      BY <1>5, <2>1 DEF WaitersMatched, SlotsApart
    <2> QED
      BY <2>1, <2>2
  <1>6. \A d, e \in Conns :
          conn'[d].stage = "slot" /\ conn'[e].stage = "slot" /\ conn'[d].door = conn'[e].door => d = e
    BY DEF WaitersMatched, SlotsApart
  <1>7. SlotsApart'
    BY <1>4, <1>5, <1>6 DEF SlotsApart
  <1> QED
    BY <1>2, <1>3, <1>7 DEF WaitersMatched

\* The same when Freed gives the waiter back.
LEMMA FreedFacts ==
  ASSUME TypeOK, WaitersMatched, NEW c \in Conns, waiter' = Freed(c)
  PROVE  /\ waiter' \in [Waiters -> WaiterRecord]
         /\ \A w \in Waiters :
              /\ waiter'[w].by = IF conn[c].stage \in WaiterHeld /\ w = conn[c].waiter
                                 THEN NoOne ELSE waiter[w].by
              /\ waiter[w].st # "absent" => /\ waiter'[w].st # "absent"
                                            /\ waiter'[w].door = waiter[w].door
  <1>1. waiter \in [Waiters -> WaiterRecord]
    BY DEF TypeOK
  <1>2. conn[c].stage \in WaiterHeld => conn[c].waiter \in Waiters
    BY DEF WaitersMatched, SlotsApart
  <1> QED
    BY <1>1, <1>2 DEF Freed, WaiterRecord

\* The count of promotions is a number within its limit.
LEMMA PromotionsNumbers ==
  ASSUME TypeOK, PromotionsInv
  PROVE  /\ promoted \in Nat /\ MaxPromoted \in Nat /\ promoted <= MaxPromoted
         /\ promoted = Cardinality(InStage(conn, Holding)) /\ WaitersMatched
  BY PromotionsParts, FrontDoorAssumption DEF TypeOK

-----------------------------------------------------------------------------
(* The steps of a connection's handlers.                                   *)

\* A connection that leaves changes nobody else.
LEMMA LeavesFacts ==
  ASSUME TypeOK, NEW c \in Conns, NEW s \in Stages, Leaves(c, s)
  PROVE  /\ conn' \in [Conns -> ConnRecord]
         /\ \A e \in Conns : e # c => conn'[e] = conn[e]
         /\ conn'[c].stage = s /\ conn'[c].door = conn[c].door
  <1>1. conn \in [Conns -> ConnRecord] /\ conn[c] \in ConnRecord
    BY DEF TypeOK
  <1>2. conn' = [conn EXCEPT ![c].stage = s, ![c].waiter = NoOne, ![c].timer = "off"]
    BY DEF Leaves
  <1> QED
    BY <1>1, <1>2 DEF ConnRecord

\* Becomes changes the stage of one connection.
LEMMA BecomesFacts ==
  ASSUME TypeOK, NEW c \in Conns, NEW s \in Stages, Becomes(c, s)
  PROVE  /\ conn' \in [Conns -> ConnRecord]
         /\ \A e \in Conns : e # c => conn'[e] = conn[e]
         /\ conn'[c].stage = s /\ conn'[c].door = conn[c].door
         /\ conn'[c].waiter = conn[c].waiter /\ conn'[c].timer = conn[c].timer
  <1>1. conn \in [Conns -> ConnRecord]
    BY DEF TypeOK
  <1>2. conn' = [conn EXCEPT ![c] = [conn[c] EXCEPT !.stage = s]]
    BY DEF Becomes
  <1>3. conn[c] \in ConnRecord
    BY <1>1
  <1>4. [conn[c] EXCEPT !.stage = s] = [stage |-> s, door |-> conn[c].door,
            waiter |-> conn[c].waiter, timer |-> conn[c].timer]
    BY <1>3 DEF ConnRecord
  <1>5. [stage |-> s, door |-> conn[c].door,
            waiter |-> conn[c].waiter, timer |-> conn[c].timer] \in ConnRecord
    BY <1>3 DEF ConnRecord
  <1> QED
    BY <1>1, <1>2, <1>4, <1>5

\* A connection that moves on without taking or returning anything.
LEMMA ConnMoves ==
  ASSUME Inv, NEW c \in Conns, conn' \in [Conns -> ConnRecord],
         \A e \in Conns : e # c => conn'[e] = conn[e],
         UNCHANGED <<served, listener, places, promoted, resume, owed, door, waiter>>,
         (conn'[c].stage \in Placing) <=> (conn[c].stage \in Placing),
         conn'[c].stage = "handed" => conn[c].stage = "handed",
         (conn'[c].stage \in Holding) <=> (conn[c].stage \in Holding),
         (conn'[c].stage \in WaiterHeld) <=> (conn[c].stage \in WaiterHeld),
         (conn'[c].stage = "slot") <=> (conn[c].stage = "slot"),
         conn'[c].door = conn[c].door, conn'[c].waiter = conn[c].waiter
  PROVE  Inv'
  <1>1. TypeOK'
    BY DEF Inv, TypeOK
  <1>2. PlacesInv'
    BY PlacesQuiet DEF Inv
  <1>3. WaitersMatched'
    BY MatchedQuiet, PromotionsParts DEF Inv
  <1>4. InStage(conn', Holding) = InStage(conn, Holding)
    BY CountStays
  <1>5. PromotionsInv'
    BY <1>3, <1>4, PromotionsParts, PromotionsPartsNext DEF Inv
  <1> QED
    BY <1>1, <1>2, <1>5 DEF Inv

\* HandshakeDone, Request, StreamCloses, NoSlot and Admit only move on.
LEMMA StageMoves ==
  ASSUME Inv, NEW c \in Conns,
         HandshakeDone(c) \/ Request(c) \/ StreamCloses(c) \/ NoSlot(c) \/ Admit(c)
  PROVE  Inv'
  <1> DEFINE Moves(from, to) ==
        /\ conn[c].stage = from /\ Becomes(c, to)
        /\ UNCHANGED <<served, listener, places, promoted, resume, owed, door, waiter>>
  <1>1. \/ Moves("tls", "cover") \/ Moves("cover", "candidate") \/ Moves("dropped", "reserved")
        \/ Moves("candidate", "cover") \/ Moves("reserved", "dropped")
        \/ Moves("reserved", "admitted")
    <2>1. CASE HandshakeDone(c)
      BY <2>1 DEF HandshakeDone, At
    <2>2. CASE Request(c)
      BY <2>2 DEF Request, At
    <2>3. CASE StreamCloses(c)
      BY <2>3 DEF StreamCloses, At
    <2>4. CASE NoSlot(c)
      BY <2>4 DEF NoSlot, At
    <2>5. CASE Admit(c)
      BY <2>5 DEF Admit, At
    <2> QED
      BY <2>1, <2>2, <2>3, <2>4, <2>5
  <1>2. PICK s, t \in Stages :
          /\ <<s, t>> \in {<<"tls", "cover">>, <<"cover", "candidate">>, <<"dropped", "reserved">>,
                           <<"candidate", "cover">>, <<"reserved", "dropped">>,
                           <<"reserved", "admitted">>}
          /\ Moves(s, t)
    BY <1>1 DEF Stages
  <1>3. /\ conn' \in [Conns -> ConnRecord]
        /\ \A e \in Conns : e # c => conn'[e] = conn[e]
        /\ conn'[c].stage = t /\ conn'[c].door = conn[c].door
        /\ conn'[c].waiter = conn[c].waiter
    BY <1>2, BecomesFacts DEF Inv
  <1>4. /\ (t \in Placing) <=> (s \in Placing)
        /\ t # "handed"
        /\ (t \in Holding) <=> (s \in Holding)
        /\ (t \in WaiterHeld) <=> (s \in WaiterHeld)
        /\ (t = "slot") <=> (s = "slot")
    BY <1>2 DEF Placing, Listed, Stages, Holding, WaiterHeld
  <1> QED
    BY <1>2, <1>3, <1>4, ConnMoves

\* Promote, and the passing of a deadline.
LEMMA TimerMoves ==
  ASSUME Inv, NEW c \in Conns, Promote(c) \/ DeadlinePasses(c)
  PROVE  Inv'
  <1>1. conn \in [Conns -> ConnRecord] /\ conn[c] \in ConnRecord
    BY DEF Inv, TypeOK
  <1>2. PICK s \in Stages :
          /\ conn' \in [Conns -> ConnRecord]
          /\ \A e \in Conns : e # c => conn'[e] = conn[e]
          /\ conn'[c].stage = s /\ conn'[c].door = conn[c].door
          /\ conn'[c].waiter = conn[c].waiter
          /\ s = conn[c].stage \/ (conn[c].stage = "admitted" /\ s = "promoting")
    <2>1. CASE Promote(c)
      <3> DEFINE t == IF conn[c].timer = "armed" THEN "cancelled" ELSE conn[c].timer
      <3>1. conn' = [conn EXCEPT ![c] = [conn[c] EXCEPT !.stage = "promoting", !.timer = t]]
        BY <1>1, <2>1 DEF Promote, ConnRecord
      <3>2. t \in {"off", "armed", "due", "cancelled"} /\ "promoting" \in Stages
        BY <1>1 DEF ConnRecord, Stages
      <3>3. conn[c].stage = "admitted"
        BY <2>1 DEF Promote, At
      <3> HIDE DEF t
      <3>4. conn' \in [Conns -> ConnRecord]
        BY <1>1, <3>1, <3>2 DEF ConnRecord
      <3>5. /\ \A e \in Conns : e # c => conn'[e] = conn[e]
            /\ conn'[c].stage = "promoting" /\ conn'[c].door = conn[c].door
            /\ conn'[c].waiter = conn[c].waiter
        BY <1>1, <3>1 DEF ConnRecord
      <3> QED
        BY <3>2, <3>3, <3>4, <3>5
    <2>2. CASE DeadlinePasses(c)
      <3>1. conn' = [conn EXCEPT ![c] = [conn[c] EXCEPT !.timer = "due"]]
        BY <2>2 DEF DeadlinePasses
      <3>2. conn' \in [Conns -> ConnRecord] /\ conn[c].stage \in Stages
        BY <1>1, <3>1 DEF ConnRecord
      <3>3. /\ \A e \in Conns : e # c => conn'[e] = conn[e]
            /\ conn'[c].stage = conn[c].stage /\ conn'[c].door = conn[c].door
            /\ conn'[c].waiter = conn[c].waiter
        BY <1>1, <3>1 DEF ConnRecord
      <3> QED
        BY <3>2, <3>3
    <2> QED
      BY <2>1, <2>2
  <1>5. /\ (s \in Placing) <=> (conn[c].stage \in Placing)
        /\ s = "handed" => conn[c].stage = "handed"
        /\ (s \in Holding) <=> (conn[c].stage \in Holding)
        /\ (s \in WaiterHeld) <=> (conn[c].stage \in WaiterHeld)
        /\ (s = "slot") <=> (conn[c].stage = "slot")
    BY <1>2 DEF Placing, Listed, Stages, Holding, WaiterHeld
  <1>6. UNCHANGED <<served, listener, places, promoted, resume, owed, door, waiter>>
    BY DEF Promote, DeadlinePasses
  <1> QED
    BY <1>2, <1>5, <1>6, ConnMoves

\* A connection that stops gives back its place, its promotion and its waiter.
LEMMA StopKeeps ==
  ASSUME Inv, NEW c \in Conns, conn[c].stage \in Listed, DoorRuns(conn[c].door), Stop(c)
  PROVE  Inv'
  <1>1. /\ Leaves(c, "gone")
        /\ promoted' = IF conn[c].stage \in Holding THEN promoted - 1 ELSE promoted
        /\ waiter' = Freed(c)
        /\ UNCHANGED <<served, resume, door>>
    BY DEF Stop
  <1>2. conn \in [Conns -> ConnRecord]
    BY DEF Inv, TypeOK
  <1>3. /\ conn' \in [Conns -> ConnRecord]
        /\ \A e \in Conns : e # c => conn'[e] = conn[e]
        /\ conn'[c].stage = "gone"
    BY <1>1, LeavesFacts DEF Inv, Stages
  <1>4. conn[c].stage \in Placing
    BY DEF Placing
  <1>5. /\ PlacesInv' /\ places' \in 0..MaxPlaces
        /\ listener' \in [closing : BOOLEAN, accepting : BOOLEAN, retry : BOOLEAN]
        /\ owed' \in [Doors -> BOOLEAN]
    BY <1>1, <1>4, LeavesKeeps DEF Inv
  <1>6. promoted \in Nat /\ MaxPromoted \in Nat /\ promoted <= MaxPromoted
        /\ promoted = Cardinality(InStage(conn, Holding)) /\ WaitersMatched
    BY PromotionsNumbers DEF Inv
  <1>7. conn'[c].stage \notin Holding /\ conn'[c].stage \notin WaiterHeld \cup {"slot"}
    BY <1>3 DEF Holding, WaiterHeld
  <1>8. promoted' = Cardinality(InStage(conn', Holding)) /\ promoted' \in 0..MaxPromoted
    <2>1. CASE conn[c].stage \in Holding
      <3>1. /\ Cardinality(InStage(conn, Holding)) \in Nat \ {0}
            /\ Cardinality(InStage(conn', Holding)) = Cardinality(InStage(conn, Holding)) - 1
        BY <1>3, <1>7, <2>1, CountLeaves
      <3> QED
        BY <1>1, <1>6, <2>1, <3>1
    <2>2. CASE conn[c].stage \notin Holding
      <3>1. InStage(conn', Holding) = InStage(conn, Holding)
        BY <1>3, <1>7, <2>2, CountStays
      <3> QED
        BY <1>1, <1>6, <2>2, <3>1
    <2> QED
      BY <2>1, <2>2
  <1>9. /\ waiter' \in [Waiters -> WaiterRecord]
        /\ \A w \in Waiters :
              /\ waiter'[w].by = IF conn[c].stage \in WaiterHeld /\ w = conn[c].waiter
                                 THEN NoOne ELSE waiter[w].by
              /\ waiter[w].st # "absent" => /\ waiter'[w].st # "absent"
                                            /\ waiter'[w].door = waiter[w].door
    BY <1>1, <1>6, FreedFacts DEF Inv
  <1>10. WaitersMatched'
    BY <1>3, <1>6, <1>7, <1>9, MatchedFreed DEF Inv
  <1>11. TypeOK'
    BY <1>1, <1>3, <1>5, <1>8, <1>9 DEF TypeOK, Inv
  <1> QED
    BY <1>5, <1>8, <1>10, <1>11, PromotionsPartsNext DEF Inv

\* A connection that gives back its promotion and its waiter and keeps its
\* place, if it has one.
LEMMA ReturnKeeps ==
  ASSUME Inv, NEW c \in Conns, conn[c].stage \in Holding,
         conn' \in [Conns -> ConnRecord],
         \A e \in Conns : e # c => conn'[e] = conn[e],
         conn'[c].stage \notin Holding \cup {"handed"}, conn'[c].door = conn[c].door,
         (conn'[c].stage \in Placing) <=> (conn[c].stage \in Placing),
         promoted' = promoted - 1, waiter' = Freed(c),
         UNCHANGED <<served, listener, places, resume, owed, door>>
  PROVE  Inv'
  <1>1. PlacesInv'
    BY PlacesQuiet DEF Inv
  <1>2. promoted \in Nat /\ MaxPromoted \in Nat /\ promoted <= MaxPromoted
        /\ promoted = Cardinality(InStage(conn, Holding)) /\ WaitersMatched
    BY PromotionsNumbers DEF Inv
  <1>3. /\ Cardinality(InStage(conn, Holding)) \in Nat \ {0}
        /\ Cardinality(InStage(conn', Holding)) = Cardinality(InStage(conn, Holding)) - 1
    BY CountLeaves
  <1>4. promoted' = Cardinality(InStage(conn', Holding)) /\ promoted' \in 0..MaxPromoted
    BY <1>2, <1>3
  <1>5. conn'[c].stage \notin WaiterHeld \cup {"slot"}
    BY DEF Holding, WaiterHeld
  <1>6. /\ waiter' \in [Waiters -> WaiterRecord]
        /\ \A w \in Waiters :
              /\ waiter'[w].by = IF conn[c].stage \in WaiterHeld /\ w = conn[c].waiter
                                 THEN NoOne ELSE waiter[w].by
              /\ waiter[w].st # "absent" => /\ waiter'[w].st # "absent"
                                            /\ waiter'[w].door = waiter[w].door
    BY <1>2, FreedFacts DEF Inv
  <1>7. WaitersMatched'
    BY <1>2, <1>5, <1>6, MatchedFreed DEF Inv
  <1>8. TypeOK'
    BY <1>4, <1>6 DEF TypeOK, Inv
  <1> QED
    BY <1>1, <1>4, <1>7, <1>8, PromotionsPartsNext DEF Inv

\* GiveUp, a replayed admission, and the end of a carrier.
LEMMA ReturnSteps ==
  ASSUME Inv, NEW c \in Conns, GiveUp(c) \/ Replay(c, FALSE) \/ CarrierEnds(c)
  PROVE  Inv'
  <1>1. conn \in [Conns -> ConnRecord] /\ conn[c] \in ConnRecord
    BY DEF Inv, TypeOK
  <1>2. CASE GiveUp(c) \/ Replay(c, FALSE)
    <2>1. /\ conn[c].stage \in {"reserved", "slot"}
          /\ conn' = [conn EXCEPT ![c].stage = "cover", ![c].waiter = NoOne]
          /\ promoted' = promoted - 1
          /\ UNCHANGED <<served, listener, places, resume, owed, door>>
      BY <1>2 DEF GiveUp, Replay, At
    <2>2. waiter' = Freed(c)
      BY <1>2 DEF GiveUp, Replay, Freed, WaiterHeld
    <2>3. /\ conn' \in [Conns -> ConnRecord]
          /\ \A e \in Conns : e # c => conn'[e] = conn[e]
          /\ conn'[c].stage = "cover" /\ conn'[c].door = conn[c].door
      BY <1>1, <2>1 DEF ConnRecord, Stages
    <2>4. /\ conn[c].stage \in Holding /\ conn'[c].stage \notin Holding \cup {"handed"}
          /\ (conn'[c].stage \in Placing) <=> (conn[c].stage \in Placing)
      BY <2>1, <2>3 DEF Holding, Placing, Listed, Stages
    <2> QED
      BY <2>1, <2>2, <2>3, <2>4, ReturnKeeps
  <1>3. CASE CarrierEnds(c)
    <2>1. /\ conn[c].stage = "carrier" /\ Becomes(c, "gone")
          /\ promoted' = promoted - 1
          /\ UNCHANGED <<served, listener, places, resume, owed, door, waiter>>
      BY <1>3 DEF CarrierEnds
    <2>2. waiter' = Freed(c)
      BY <2>1 DEF Freed, WaiterHeld
    <2>3. "gone" \in Stages
      BY DEF Stages
    <2>4. /\ conn' \in [Conns -> ConnRecord]
          /\ \A e \in Conns : e # c => conn'[e] = conn[e]
          /\ conn'[c].stage = "gone" /\ conn'[c].door = conn[c].door
      BY <2>1, <2>3, BecomesFacts DEF Inv
    <2>5. /\ conn[c].stage \in Holding /\ conn'[c].stage \notin Holding \cup {"handed"}
          /\ (conn'[c].stage \in Placing) <=> (conn[c].stage \in Placing)
      BY <2>1, <2>4 DEF Holding, Placing, Listed, Stages
    <2> QED
      BY <2>1, <2>2, <2>4, <2>5, ReturnKeeps
  <1> QED
    BY <1>2, <1>3

\* decide_admission reserves a promotion and chooses a free waiter: no other
\* handler of this door is between the choice and the reservation.
LEMMA ReserveSlotKeeps ==
  ASSUME Inv, NEW c \in Conns, NEW w \in Waiters, ReserveSlot(c, w)
  PROVE  Inv'
  <1>1. /\ conn[c].stage = "candidate" /\ DoorRuns(conn[c].door)
        /\ w \in Available(conn[c].door) /\ promoted < MaxPromoted
        /\ promoted' = promoted + 1
        /\ conn' = [conn EXCEPT ![c].stage = "slot", ![c].waiter = w]
        /\ UNCHANGED <<served, listener, places, resume, owed, door, waiter>>
    BY DEF ReserveSlot, At
  <1>2. conn \in [Conns -> ConnRecord] /\ conn[c] \in ConnRecord
    BY DEF Inv, TypeOK
  <1>3. /\ conn' \in [Conns -> ConnRecord]
        /\ \A e \in Conns : e # c => conn'[e] = conn[e]
        /\ conn'[c].stage = "slot" /\ conn'[c].door = conn[c].door /\ conn'[c].waiter = w
    BY <1>1, <1>2 DEF ConnRecord, Stages
  <1>4. PlacesInv'
    <2>1. (conn'[c].stage \in Placing) <=> (conn[c].stage \in Placing)
      BY <1>1, <1>3 DEF Placing, Listed, Stages
    <2> QED
      BY <1>1, <1>3, <2>1, PlacesQuiet DEF Inv
  <1>5. promoted \in Nat /\ MaxPromoted \in Nat
        /\ promoted = Cardinality(InStage(conn, Holding)) /\ WaitersMatched
    BY PromotionsNumbers DEF Inv
  <1>6. promoted' = Cardinality(InStage(conn', Holding)) /\ promoted' \in 0..MaxPromoted
    <2>1. conn[c].stage \notin Holding /\ conn'[c].stage \in Holding
      BY <1>1, <1>3 DEF Holding
    <2>2. Cardinality(InStage(conn', Holding)) = Cardinality(InStage(conn, Holding)) + 1
      BY <1>3, <2>1, CountEnters
    <2> QED
      BY <1>1, <1>5, <2>2
  <1>7. waiter[w].door = conn[c].door /\ waiter[w].by = NoOne /\ waiter[w].st = "pending"
    BY <1>1 DEF Available, Valid
  <1>8. "slot" \notin WaiterHeld /\ "candidate" \notin WaiterHeld
    BY DEF WaiterHeld
  <1>9. \A e \in Conns : conn[e].stage = "slot" => conn[e].door # conn[c].door
    BY <1>1 DEF DoorRuns
  <1>10. SlotsApart'
    <2>1. \A e \in Conns : conn'[e].stage \in WaiterHeld \cup {"slot"} => conn'[e].waiter \in Waiters
      BY <1>3, <1>5 DEF WaitersMatched, SlotsApart
    <2>2. \A e \in Conns : conn'[e].stage = "slot" =>
            /\ waiter'[conn'[e].waiter].door = conn'[e].door
            /\ waiter'[conn'[e].waiter].by = NoOne
            /\ waiter'[conn'[e].waiter].st # "absent"
      BY <1>1, <1>3, <1>5, <1>7 DEF WaitersMatched, SlotsApart
    <2>3. \A d, e \in Conns :
            conn'[d].stage = "slot" /\ conn'[e].stage = "slot" /\ conn'[d].door = conn'[e].door => d = e
      BY <1>3, <1>5, <1>9 DEF WaitersMatched, SlotsApart
    <2> QED
      BY <2>1, <2>2, <2>3 DEF SlotsApart
  <1>11. WaitersMatched'
    <2>1. \A e \in Conns : conn'[e].stage \in WaiterHeld => waiter'[conn'[e].waiter].by = e
      BY <1>1, <1>3, <1>5, <1>8 DEF WaitersMatched
    <2>2. ASSUME NEW v \in Waiters, waiter'[v].by # NoOne
          PROVE  conn'[waiter'[v].by].stage \in WaiterHeld /\ conn'[waiter'[v].by].waiter = v
      <3>1. waiter[v].by \in Conns /\ waiter'[v].by = waiter[v].by
        BY <1>1, <2>2 DEF Inv, TypeOK, WaiterRecord
      <3>2. conn[waiter[v].by].stage \in WaiterHeld /\ conn[waiter[v].by].waiter = v
        BY <1>5, <2>2, <3>1 DEF WaitersMatched
      <3>3. waiter[v].by # c
        BY <1>1, <1>8, <3>2
      <3> QED
        BY <1>3, <3>1, <3>2, <3>3
    <2> QED
      BY <1>10, <2>1, <2>2 DEF WaitersMatched
  <1>12. TypeOK'
    BY <1>1, <1>3, <1>6 DEF TypeOK, Inv
  <1> QED
    BY <1>4, <1>6, <1>11, <1>12, PromotionsPartsNext DEF Inv

\* The replay cache accepts, and the chosen waiter is reserved: it is still
\* free, and no other connection chose it.
LEMMA ReplayKeeps ==
  ASSUME Inv, NEW c \in Conns, Replay(c, TRUE)
  PROVE  Inv'
  <1> DEFINE w == conn[c].waiter
  <1>1. /\ conn[c].stage = "slot" /\ Becomes(c, "reserved")
        /\ waiter' = [waiter EXCEPT ![w].by = c]
        /\ UNCHANGED <<served, listener, places, promoted, resume, owed, door>>
    BY DEF Replay
  <1>2. "reserved" \in Stages /\ "reserved" \in WaiterHeld /\ "slot" \notin WaiterHeld
    BY DEF Stages, WaiterHeld
  <1>3. /\ conn' \in [Conns -> ConnRecord]
        /\ \A e \in Conns : e # c => conn'[e] = conn[e]
        /\ conn'[c].stage = "reserved" /\ conn'[c].door = conn[c].door
        /\ conn'[c].waiter = w
    BY <1>1, <1>2, BecomesFacts DEF Inv
  <1>4. PlacesInv'
    <2>1. (conn'[c].stage \in Placing) <=> (conn[c].stage \in Placing)
      BY <1>1, <1>3 DEF Placing, Listed, Stages
    <2> QED
      BY <1>1, <1>3, <2>1, PlacesQuiet DEF Inv
  <1>5. promoted = Cardinality(InStage(conn, Holding)) /\ WaitersMatched
    BY PromotionsParts DEF Inv
  <1>6. promoted' = Cardinality(InStage(conn', Holding))
    <2>1. conn[c].stage \in Holding /\ conn'[c].stage \in Holding
      BY <1>1, <1>3 DEF Holding
    <2>2. InStage(conn', Holding) = InStage(conn, Holding)
      BY <1>3, <2>1, CountStays
    <2> QED
      BY <1>1, <1>5, <2>2
  <1>7. w \in Waiters /\ waiter[w].door = conn[c].door /\ waiter[w].by = NoOne
    BY <1>1, <1>5 DEF WaitersMatched, SlotsApart
  <1>8. waiter \in [Waiters -> WaiterRecord]
    BY DEF Inv, TypeOK
  <1>9. /\ waiter' \in [Waiters -> WaiterRecord]
        /\ \A v \in Waiters : /\ waiter'[v].by = IF v = w THEN c ELSE waiter[v].by
                              /\ waiter'[v].door = waiter[v].door /\ waiter'[v].st = waiter[v].st
    BY <1>1, <1>7, <1>8 DEF WaiterRecord
  <1>10. \A e \in Conns : e # c /\ conn[e].stage = "slot" => conn[e].waiter # w
    BY <1>1, <1>5, <1>7 DEF WaitersMatched, SlotsApart
  <1>11. \A e \in Conns : conn[e].stage \in WaiterHeld => conn[e].waiter # w
    <2> SUFFICES ASSUME NEW e \in Conns, conn[e].stage \in WaiterHeld, conn[e].waiter = w
                 PROVE  FALSE
      OBVIOUS
    <2>1. waiter[w].by = e
      BY <1>5 DEF WaitersMatched
    <2> QED
      BY <1>7, <2>1, FrontDoorAssumption
  <1>12. SlotsApart'
    <2>1. \A e \in Conns : conn'[e].stage \in WaiterHeld \cup {"slot"} => conn'[e].waiter \in Waiters
      BY <1>3, <1>5, <1>7 DEF WaitersMatched, SlotsApart
    <2>2. ASSUME NEW e \in Conns, conn'[e].stage = "slot"
          PROVE  /\ waiter'[conn'[e].waiter].door = conn'[e].door
                 /\ waiter'[conn'[e].waiter].by = NoOne
                 /\ waiter'[conn'[e].waiter].st # "absent"
      <3>1. e # c /\ conn'[e] = conn[e] /\ conn[e].waiter \in Waiters /\ conn[e].waiter # w
        BY <1>3, <1>10, <2>1, <2>2
      <3>2. /\ waiter[conn[e].waiter].door = conn[e].door
            /\ waiter[conn[e].waiter].by = NoOne
            /\ waiter[conn[e].waiter].st # "absent"
        BY <1>5, <2>2, <3>1 DEF WaitersMatched, SlotsApart
      <3> QED
        BY <1>9, <3>1, <3>2
    <2>3. \A d, e \in Conns :
            conn'[d].stage = "slot" /\ conn'[e].stage = "slot" /\ conn'[d].door = conn'[e].door => d = e
      BY <1>3, <1>5 DEF WaitersMatched, SlotsApart
    <2> QED
      BY <2>1, <2>2, <2>3 DEF SlotsApart
  <1>13. WaitersMatched'
    <2>1. ASSUME NEW e \in Conns, conn'[e].stage \in WaiterHeld
          PROVE  waiter'[conn'[e].waiter].by = e
      <3>1. CASE e = c
        BY <1>3, <1>7, <1>9, <3>1
      <3>2. CASE e # c
        <4>1. conn'[e] = conn[e] /\ conn[e].waiter # w /\ conn[e].waiter \in Waiters
          BY <1>3, <1>5, <1>11, <2>1, <3>2 DEF WaitersMatched, SlotsApart
        <4>2. waiter[conn[e].waiter].by = e
          BY <1>5, <2>1, <4>1 DEF WaitersMatched
        <4> QED
          BY <1>9, <4>1, <4>2
      <3> QED
        BY <3>1, <3>2
    <2>2. ASSUME NEW v \in Waiters, waiter'[v].by # NoOne
          PROVE  conn'[waiter'[v].by].stage \in WaiterHeld /\ conn'[waiter'[v].by].waiter = v
      <3>1. CASE v = w
        BY <1>2, <1>3, <1>9, <3>1
      <3>2. CASE v # w
        <4>1. waiter'[v].by = waiter[v].by /\ waiter[v].by \in Conns
          BY <1>8, <1>9, <2>2, <3>2 DEF WaiterRecord
        <4>2. conn[waiter[v].by].stage \in WaiterHeld /\ conn[waiter[v].by].waiter = v
          BY <1>5, <2>2, <4>1 DEF WaitersMatched
        <4>3. waiter[v].by # c
          BY <1>1, <1>2, <4>2
        <4> QED
          BY <1>3, <4>1, <4>2, <4>3
      <3> QED
        BY <3>1, <3>2
    <2> QED
      BY <1>12, <2>1, <2>2 DEF WaitersMatched
  <1>14. TypeOK'
    BY <1>1, <1>3, <1>9 DEF TypeOK, Inv
  <1> QED
    BY <1>4, <1>6, <1>13, <1>14, PromotionsPartsNext DEF Inv

\* A connection that held nothing and leaves changes neither promotions nor
\* waiters.
LEMMA HeldNothing ==
  ASSUME Inv, NEW c \in Conns, conn[c].stage \notin Holding, conn'[c].stage \notin Holding,
         conn' \in [Conns -> ConnRecord], \A e \in Conns : e # c => conn'[e] = conn[e],
         UNCHANGED <<promoted, waiter>>
  PROVE  PromotionsInv'
  <1>1. promoted = Cardinality(InStage(conn, Holding)) /\ WaitersMatched
    BY PromotionsParts DEF Inv
  <1>2. InStage(conn', Holding) = InStage(conn, Holding)
    BY CountStays
  <1>3. WaitersMatched'
    <2>1. WaiterHeld \subseteq Holding /\ "slot" \in Holding
      BY DEF WaiterHeld, Holding
    <2> QED
      BY <1>1, <2>1, MatchedQuiet DEF Inv
  <1> QED
    BY <1>1, <1>2, <1>3, PromotionsPartsNext

\* The posted part of serve(), then adopt().
LEMMA AdoptKeeps ==
  ASSUME Inv, NEW c \in Conns, NEW fails \in BOOLEAN, Adopt(c, fails)
  PROVE  Inv'
  <1> DEFINE d == conn[c].door
  <1>1. /\ conn[c].stage = "handed" /\ DoorRuns(d)
        /\ UNCHANGED <<served, promoted, resume, door, waiter>>
    BY DEF Adopt
  <1>2. conn \in [Conns -> ConnRecord] /\ conn[c] \in ConnRecord
    BY DEF Inv, TypeOK
  <1>3. CASE fails \/ door[d].closing
    <2>1. Leaves(c, "gone") /\ "gone" \in Stages
      BY <1>3 DEF Adopt, Stages
    <2>2. /\ conn' \in [Conns -> ConnRecord]
          /\ \A e \in Conns : e # c => conn'[e] = conn[e]
          /\ conn'[c].stage = "gone"
      BY <2>1, LeavesFacts DEF Inv
    <2>3. conn[c].stage \in Placing /\ conn[c].stage \notin Holding /\ conn'[c].stage \notin Holding
      BY <1>1, <2>2 DEF Placing, Holding
    <2>4. /\ PlacesInv' /\ places' \in 0..MaxPlaces
          /\ listener' \in [closing : BOOLEAN, accepting : BOOLEAN, retry : BOOLEAN]
          /\ owed' \in [Doors -> BOOLEAN]
      BY <1>1, <2>1, <2>3, LeavesKeeps DEF Inv
    <2>5. PromotionsInv'
      BY <1>1, <2>2, <2>3, HeldNothing
    <2>6. TypeOK'
      BY <1>1, <2>2, <2>4 DEF TypeOK, Inv
    <2> QED
      BY <2>4, <2>5, <2>6 DEF Inv
  <1>4. CASE ~(fails \/ door[d].closing)
    <2>1. /\ conn' = [conn EXCEPT ![c].stage = "tls", ![c].timer = "armed"]
          /\ UNCHANGED <<listener, places, owed>>
      BY <1>4 DEF Adopt
    <2>2. /\ conn' \in [Conns -> ConnRecord]
          /\ \A e \in Conns : e # c => conn'[e] = conn[e]
          /\ conn'[c].stage = "tls" /\ conn'[c].door = d /\ conn'[c].waiter = conn[c].waiter
      BY <1>2, <2>1 DEF ConnRecord, Stages
    <2>3. /\ (conn'[c].stage \in Placing) <=> (conn[c].stage \in Placing)
          /\ (conn'[c].stage \in Holding) <=> (conn[c].stage \in Holding)
          /\ (conn'[c].stage \in WaiterHeld) <=> (conn[c].stage \in WaiterHeld)
      BY <1>1, <2>2 DEF Placing, Listed, Stages, Holding, WaiterHeld
    <2> QED
      BY <1>1, <2>1, <2>2, <2>3, ConnMoves
  <1> QED
    BY <1>3, <1>4

\* publish(): the promotion stays with the carrier, the place goes back and the
\* waiter is served.
LEMMA PublishKeeps ==
  ASSUME Inv, NEW c \in Conns, NEW promotes \in BOOLEAN, Publish(c, promotes)
  PROVE  Inv'
  <1> DEFINE d == conn[c].door
             w == conn[c].waiter
  <1>1. conn[c].stage = "promoting" /\ DoorRuns(d)
    BY DEF Publish, At
  <1>2. conn[c].stage \in Listed /\ conn[c].stage \in Placing /\ conn[c].stage \in Holding
        /\ conn[c].stage \in WaiterHeld
    BY <1>1 DEF Listed, Placing, Stages, Holding, WaiterHeld
  <1>3. CASE door[d].closing \/ ~Valid(w) \/ ~promotes
    <2>1. Stop(c)
      BY <1>3 DEF Publish
    <2> QED
      BY <1>1, <1>2, <2>1, StopKeeps
  <1>4. CASE ~(door[d].closing \/ ~Valid(w) \/ ~promotes)
    <2>1. /\ Leaves(c, "carrier")
          /\ waiter' = [waiter EXCEPT ![w].st = "served", ![w].by = NoOne]
          /\ UNCHANGED <<served, promoted, resume, door>>
      BY <1>4 DEF Publish
    <2>2. "carrier" \in Stages /\ "carrier" \in Holding /\ "carrier" \notin WaiterHeld \cup {"slot"}
      BY DEF Stages, Holding, WaiterHeld
    <2>3. /\ conn' \in [Conns -> ConnRecord]
          /\ \A e \in Conns : e # c => conn'[e] = conn[e]
          /\ conn'[c].stage = "carrier"
      BY <2>1, <2>2, LeavesFacts DEF Inv
    <2>4. /\ PlacesInv' /\ places' \in 0..MaxPlaces
          /\ listener' \in [closing : BOOLEAN, accepting : BOOLEAN, retry : BOOLEAN]
          /\ owed' \in [Doors -> BOOLEAN]
      BY <1>1, <1>2, <2>1, LeavesKeeps DEF Inv
    <2>5. promoted = Cardinality(InStage(conn, Holding)) /\ WaitersMatched
      BY PromotionsParts DEF Inv
    <2>6. InStage(conn', Holding) = InStage(conn, Holding)
      BY <1>2, <2>2, <2>3, CountStays
    <2>7. waiter \in [Waiters -> WaiterRecord]
      BY DEF Inv, TypeOK
    <2>8. w \in Waiters
      BY <1>2, <2>5 DEF WaitersMatched, SlotsApart
    <2>9. /\ waiter' \in [Waiters -> WaiterRecord]
          /\ \A v \in Waiters :
               /\ waiter'[v].by = IF v = w THEN NoOne ELSE waiter[v].by
               /\ waiter[v].st # "absent" => /\ waiter'[v].st # "absent"
                                             /\ waiter'[v].door = waiter[v].door
      BY <2>1, <2>7, <2>8 DEF WaiterRecord
    <2>10. WaitersMatched'
      BY <1>2, <2>2, <2>3, <2>5, <2>9, MatchedFreed DEF Inv
    <2>11. PromotionsInv'
      BY <2>1, <2>5, <2>6, <2>10, PromotionsPartsNext
    <2>12. TypeOK'
      BY <2>1, <2>3, <2>4, <2>9 DEF TypeOK, Inv
    <2> QED
      BY <2>4, <2>11, <2>12 DEF Inv
  <1> QED
    BY <1>3, <1>4

\* Everything that stops a connection runs on its door's thread.
LEMMA StopSteps ==
  ASSUME Inv, NEW c \in Conns,
         ConnectionEnds(c) \/ DeadlineStops(c) \/ ControlStops(c),
         conn[c].timer = "due" => conn[c].stage \in Listed
  PROVE  Inv'
  <1>1. Stop(c) /\ DoorRuns(conn[c].door)
    BY DEF ConnectionEnds, DeadlineStops, ControlStops, At
  <1>2. conn[c].stage \in Listed
    BY DEF ConnectionEnds, DeadlineStops, ControlStops, At, Listed, Stages
  <1> QED
    BY <1>1, <1>2, StopKeeps

-----------------------------------------------------------------------------
(* The steps of the listener, the accept operations and the doors.         *)

\* A step that leaves connections and promotions alone keeps the promotions'
\* invariant if it takes and frees no waiter.
LEMMA WaiterSteps ==
  ASSUME Inv, UNCHANGED <<promoted, conn>>,
         \A w \in Waiters :
           /\ waiter'[w].by = waiter[w].by
           /\ waiter[w].st # "absent" => /\ waiter'[w].st # "absent"
                                         /\ waiter'[w].door = waiter[w].door
  PROVE  PromotionsInv'
  <1>1. promoted = Cardinality(InStage(conn, Holding)) /\ WaitersMatched
    BY PromotionsParts DEF Inv
  <1>2. WaitersMatched'
    BY <1>1, MatchedQuiet DEF Inv
  <1> QED
    BY <1>1, <1>2, PromotionsPartsNext

\* A door that closes or is told of control changes no place.
LEMMA DoorSteps ==
  ASSUME Inv, UNCHANGED <<served, listener, places, resume, owed, conn>>,
         \A d \in Doors : door[d].closing => door'[d].closing
  PROVE  PlacesInv'
  BY PlacesQuiet DEF Inv

\* on_resume.
LEMMA ResumeKeeps ==
  ASSUME Inv, Resume
  PROVE  Inv'
  <1>1. /\ resume /\ ~resume' /\ StartAccept(listener, places)
        /\ UNCHANGED <<served, promoted, owed, door, conn, waiter>>
    BY DEF Resume, Inv, TypeOK
  <1>2. /\ Cardinality(InStage(conn, Placing)) \in Nat
        /\ Cardinality(InStage(conn, Placing)) + (IF listener.accepting THEN 1 ELSE 0) <= MaxPlaces
        /\ served => places = Cardinality(InStage(conn, Placing))
                                + (IF listener.accepting THEN 1 ELSE 0)
        /\ ~served => places = 0
    BY PlacesNumbers DEF Inv
  <1>3. ~served => Cardinality(InStage(conn, Placing)) = 0
    BY <1>1, FS_EmptySet DEF Inv, PlacesInv, OwnListener
  <1>4. places = Cardinality(InStage(conn', Placing))
                   + (IF served /\ listener.accepting THEN 1 ELSE 0)
    BY <1>1, <1>2, <1>3
  <1>5. ~served => /\ \A d \in Doors : ~owed'[d]
                   /\ ~listener.closing /\ places = 0 /\ ~resume'
                   /\ \A c \in Conns : /\ conn'[c].stage # "handed"
                                       /\ conn'[c].stage \in Listed => conn'[c].door = OnlyDoor
    BY <1>1 DEF Inv, PlacesInv, OwnListener
  <1>6. /\ listener \in [closing : BOOLEAN, accepting : BOOLEAN, retry : BOOLEAN]
        /\ places \in Nat
    BY FrontDoorAssumption DEF Inv, TypeOK
  <1>7. PlacesInv' /\ places' \in 0..MaxPlaces
          /\ listener' \in [closing : BOOLEAN, accepting : BOOLEAN, retry : BOOLEAN]
    BY <1>1, <1>2, <1>4, <1>5, <1>6, StartAcceptKeeps DEF Inv
  <1>8. PromotionsInv'
    BY <1>1, WaiterSteps
  <1>9. TypeOK'
    BY <1>1, <1>7 DEF Inv, TypeOK, Resume
  <1> QED
    BY <1>7, <1>8, <1>9 DEF Inv

\* The retry timer fires.
LEMMA RetryKeeps ==
  ASSUME Inv, RetryFires
  PROVE  Inv'
  <1> DEFINE l == [listener EXCEPT !.retry = FALSE]
             p == IF served THEN places ELSE Cardinality(ListedAt(OnlyDoor))
  <1>1. /\ listener.retry /\ StartAccept(l, p)
        /\ UNCHANGED <<served, promoted, resume, owed, door, conn, waiter>>
    BY DEF RetryFires
  <1>2. /\ Cardinality(InStage(conn, Placing)) \in Nat /\ listener.accepting \in BOOLEAN
        /\ Cardinality(InStage(conn, Placing)) + (IF listener.accepting THEN 1 ELSE 0) <= MaxPlaces
        /\ served => places = Cardinality(InStage(conn, Placing))
                                + (IF listener.accepting THEN 1 ELSE 0)
        /\ ~served => places = 0 /\ ListedAt(OnlyDoor) = InStage(conn, Placing)
    BY PlacesNumbers DEF Inv
  <1>3. /\ l \in [closing : BOOLEAN, accepting : BOOLEAN, retry : BOOLEAN]
        /\ l.closing = listener.closing /\ l.accepting = listener.accepting
    BY DEF Inv, TypeOK
  <1> HIDE DEF l
  <1>4. /\ p \in Nat
        /\ p = Cardinality(InStage(conn', Placing)) + (IF served /\ l.accepting THEN 1 ELSE 0)
        /\ Cardinality(InStage(conn', Placing)) + (IF l.accepting THEN 1 ELSE 0) <= MaxPlaces
    BY <1>1, <1>2, <1>3
  <1>5. ~served => /\ \A d \in Doors : ~owed'[d]
                   /\ ~l.closing /\ places = 0 /\ ~resume'
                   /\ \A c \in Conns : /\ conn'[c].stage # "handed"
                                       /\ conn'[c].stage \in Listed => conn'[c].door = OnlyDoor
    BY <1>1, <1>3 DEF Inv, PlacesInv, OwnListener
  <1> HIDE DEF p
  <1>6. PlacesInv' /\ places' \in 0..MaxPlaces
          /\ listener' \in [closing : BOOLEAN, accepting : BOOLEAN, retry : BOOLEAN]
    BY <1>1, <1>3, <1>4, <1>5, StartAcceptKeeps DEF Inv
  <1>7. PromotionsInv'
    BY <1>1, WaiterSteps
  <1>8. TypeOK'
    BY <1>1, <1>6 DEF Inv, TypeOK
  <1> QED
    BY <1>6, <1>7, <1>8 DEF Inv

\* accepted() with an error.
LEMMA AcceptFailsKeeps ==
  ASSUME Inv, NEW exhausted \in BOOLEAN, AcceptFails(exhausted)
  PROVE  Inv'
  <1> DEFINE stops == ~exhausted /\ ~ListenerClosing
             n == Cardinality(InStage(conn, Placing))
  <1>1. /\ listener.accepting
        /\ places' = IF served THEN places - 1 ELSE places
        /\ resume' = (resume \/ Wakes(places))
        /\ listener' = [listener EXCEPT !.accepting = FALSE,
                          !.retry = exhausted /\ ~ListenerClosing,
                          !.closing = @ \/ (stops /\ served)]
        /\ door' = IF served \/ ~stops THEN door
                   ELSE [door EXCEPT ![OnlyDoor] = [closing |-> TRUE, control |-> TRUE]]
        /\ UNCHANGED <<served, promoted, owed, conn, waiter>>
    BY DEF AcceptFails
  <1>2. /\ n \in Nat /\ MaxPlaces \in Nat /\ n + 1 <= MaxPlaces
        /\ served => places = n + 1
        /\ ~served => places = 0
    BY <1>1, PlacesNumbers DEF Inv
  <1>3. /\ listener \in [closing : BOOLEAN, accepting : BOOLEAN, retry : BOOLEAN]
        /\ served \in BOOLEAN /\ door \in [Doors -> [closing : BOOLEAN, control : BOOLEAN]]
    BY DEF Inv, TypeOK
  <1>4. /\ ListenerClosing \in BOOLEAN
        /\ OnlyDoor \in Doors
    BY <1>3, DoorsInUse DEF ListenerClosing
  <1>5. /\ listener' \in [closing : BOOLEAN, accepting : BOOLEAN, retry : BOOLEAN]
        /\ listener'.accepting = FALSE
        /\ listener'.retry = (exhausted /\ ~ListenerClosing)
        /\ listener'.closing = (listener.closing \/ (stops /\ served))
    BY <1>1, <1>3, <1>4
  <1>6. /\ door' \in [Doors -> [closing : BOOLEAN, control : BOOLEAN]]
        /\ stops /\ ~served => door'[OnlyDoor].closing
        /\ \A d \in Doors : door[d].closing => door'[d].closing
    BY <1>1, <1>3, <1>4
  <1>7. ListenerAwake'
    <2>1. CASE ListenerClosing
      <3>1. ListenerClosing'
        BY <1>1, <1>4, <1>5, <1>6, <2>1 DEF ListenerClosing
      <3> QED
        BY <3>1 DEF ListenerAwake
    <2>2. CASE ~ListenerClosing /\ exhausted
      BY <1>5, <2>2 DEF ListenerAwake
    <2>3. CASE ~ListenerClosing /\ ~exhausted
      <3>1. ListenerClosing'
        BY <1>1, <1>4, <1>5, <1>6, <2>3 DEF ListenerClosing
      <3> QED
        BY <3>1 DEF ListenerAwake
    <2> QED
      BY <2>1, <2>2, <2>3
  <1>8. Taken' = n /\ n <= MaxPlaces
    BY <1>1, <1>2, <1>5 DEF Taken
  <1>9. PlacesCounted'
    BY <1>1, <1>2, <1>5 DEF PlacesCounted, InStage, Placing
  <1>10. OwnListener'
    <2> SUFFICES ASSUME ~served PROVE OwnListener'
      BY <1>1 DEF OwnListener
    <2>1. ~resume'
      BY <1>1 DEF Wakes, Inv, PlacesInv, OwnListener
    <2> QED
      BY <1>1, <1>5, <2>1 DEF Inv, PlacesInv, OwnListener
  <1>11. PlacesInv'
    BY <1>7, <1>8, <1>9, <1>10 DEF PlacesInv
  <1>12. PromotionsInv'
    BY <1>1, WaiterSteps
  <1>13. places' \in 0..MaxPlaces
    BY <1>1, <1>2
  <1>14. resume' \in BOOLEAN
    BY <1>1 DEF Inv, TypeOK, Wakes
  <1>15. TypeOK'
    BY <1>1, <1>5, <1>6, <1>13, <1>14 DEF Inv, TypeOK
  <1> QED
    BY <1>11, <1>12, <1>15 DEF Inv

\* accepted(): the place of the accept goes with the descriptor, or comes back
\* at once from a closing door.
LEMMA AcceptedKeeps ==
  ASSUME Inv, NEW c \in Conns, NEW d \in Doors, Accepted(c, d)
  PROVE  Inv'
  <1> DEFINE l == [listener EXCEPT !.accepting = FALSE]
             p == IF door[d].closing THEN places - 1 ELSE places
             s == IF door[d].closing THEN "gone" ELSE "handed"
             n == Cardinality(InStage(conn, Placing))
             m == Cardinality(InStage(conn', Placing))
  <1>1. /\ served /\ listener.accepting /\ ~listener.closing
        /\ conn[c].stage = "absent"
        /\ conn' = [conn EXCEPT ![c].stage = s, ![c].door = d]
        /\ resume' = (resume \/ (door[d].closing /\ Wakes(places)))
        /\ StartAccept(l, p)
        /\ UNCHANGED <<served, promoted, owed, door, waiter>>
    BY DEF Accepted
  <1>2. conn \in [Conns -> ConnRecord] /\ conn[c] \in ConnRecord
    BY DEF Inv, TypeOK
  <1>3. /\ n \in Nat /\ MaxPlaces \in Nat /\ n + 1 <= MaxPlaces /\ places = n + 1
    BY <1>1, PlacesNumbers DEF Inv
  <1>4. s \in {"gone", "handed"} /\ s \in Stages /\ s \notin Holding
    BY DEF Stages, Holding
  <1>5. m = IF door[d].closing THEN n ELSE n + 1
    <2>1. conn[c].stage \notin Placing
      BY <1>1 DEF Placing, Listed
    <2>2. \A e \in Conns : e # c => conn'[e] = conn[e]
      BY <1>1, <1>2
    <2>3. conn'[c].stage = s
      BY <1>1, <1>2 DEF ConnRecord
    <2>4. CASE door[d].closing
      <3>1. s \notin Placing
        BY <2>4 DEF Placing, Listed
      <3>2. InStage(conn', Placing) = InStage(conn, Placing)
        BY <2>1, <2>2, <2>3, <3>1, CountStays
      <3> QED
        BY <2>4, <3>2
    <2>5. CASE ~door[d].closing
      <3>1. s \in Placing
        BY <2>5 DEF Placing
      <3>2. m = n + 1
        BY <2>1, <2>2, <2>3, <3>1, CountEnters
      <3> QED
        BY <2>5, <3>2
    <2> QED
      BY <2>4, <2>5
  <1> HIDE DEF s
  <1>6. /\ conn' \in [Conns -> ConnRecord]
        /\ \A e \in Conns : e # c => conn'[e] = conn[e]
        /\ conn'[c].stage = s
    BY <1>1, <1>2, <1>4 DEF ConnRecord
  <1>7. /\ l \in [closing : BOOLEAN, accepting : BOOLEAN, retry : BOOLEAN]
        /\ l.closing = listener.closing /\ l.accepting = FALSE
    BY DEF Inv, TypeOK
  <1> HIDE DEF l
  <1>8. p \in Nat /\ p = m /\ m + 0 <= MaxPlaces
    BY <1>3, <1>5
  <1> HIDE DEF p, n
  <1>9. /\ m + (IF l.accepting THEN 1 ELSE 0) <= MaxPlaces
        /\ p = m + (IF served /\ l.accepting THEN 1 ELSE 0)
    BY <1>7, <1>8
  <1>10. PlacesInv' /\ places' \in 0..MaxPlaces
          /\ listener' \in [closing : BOOLEAN, accepting : BOOLEAN, retry : BOOLEAN]
    BY <1>1, <1>7, <1>8, <1>9, StartAcceptKeeps DEF Inv
  <1>11. PromotionsInv'
    <2>1. conn[c].stage \notin Holding /\ conn'[c].stage \notin Holding
      BY <1>1, <1>4, <1>6 DEF Holding
    <2> QED
      BY <1>1, <1>6, <2>1, HeldNothing
  <1>12. resume' \in BOOLEAN
    BY <1>1 DEF Inv, TypeOK, Wakes
  <1>13. TypeOK'
    BY <1>1, <1>6, <1>10, <1>12 DEF Inv, TypeOK
  <1> QED
    BY <1>10, <1>11, <1>13 DEF Inv

\* An own listener's door starts the connection at once.
LEMMA AcceptedHereKeeps ==
  ASSUME Inv, NEW c \in Conns, AcceptedHere(c)
  PROVE  Inv'
  <1> DEFINE l == [listener EXCEPT !.accepting = FALSE]
             q == [stage |-> "tls", door |-> OnlyDoor, waiter |-> NoOne, timer |-> "armed"]
             n == Cardinality(InStage(conn, Placing))
             m == Cardinality(InStage(conn', Placing))
  <1>1. /\ ~served /\ listener.accepting
        /\ conn[c].stage = "absent" /\ conn' = [conn EXCEPT ![c] = q]
        /\ StartAccept(l, Cardinality(ListedAt(OnlyDoor)) + 1)
        /\ UNCHANGED <<served, promoted, resume, owed, door, waiter>>
    BY DEF AcceptedHere
  <1>2. conn \in [Conns -> ConnRecord] /\ OnlyDoor \in Doors
    BY DoorsInUse DEF Inv, TypeOK
  <1>3. /\ n \in Nat /\ MaxPlaces \in Nat /\ n + 1 <= MaxPlaces /\ places = 0
        /\ ListedAt(OnlyDoor) = InStage(conn, Placing)
    BY <1>1, PlacesNumbers DEF Inv
  <1>4. q \in ConnRecord
    BY <1>2 DEF ConnRecord, Stages
  <1>5. /\ conn' \in [Conns -> ConnRecord]
        /\ \A e \in Conns : e # c => conn'[e] = conn[e]
        /\ conn'[c].stage = "tls" /\ conn'[c].door = OnlyDoor
    BY <1>1, <1>2, <1>4
  <1>6. m = n + 1
    <2>1. conn[c].stage \notin Placing /\ conn'[c].stage \in Placing
      BY <1>1, <1>5 DEF Placing, Listed, Stages
    <2> QED
      BY <1>5, <2>1, CountEnters
  <1>7. /\ l \in [closing : BOOLEAN, accepting : BOOLEAN, retry : BOOLEAN]
        /\ l.closing = listener.closing /\ l.accepting = FALSE
    BY DEF Inv, TypeOK
  <1> HIDE DEF l
  <1>8. /\ n + 1 \in Nat /\ StartAccept(l, n + 1)
        /\ m + (IF l.accepting THEN 1 ELSE 0) <= MaxPlaces
        /\ n + 1 = m + (IF served /\ l.accepting THEN 1 ELSE 0)
    BY <1>1, <1>3, <1>6, <1>7
  <1>9. /\ \A d \in Doors : ~owed'[d]
        /\ ~l.closing /\ places = 0 /\ ~resume'
        /\ \A e \in Conns : /\ conn'[e].stage # "handed"
                            /\ conn'[e].stage \in Listed => conn'[e].door = OnlyDoor
    BY <1>1, <1>3, <1>5, <1>7 DEF Inv, PlacesInv, OwnListener
  <1>10. PlacesInv' /\ places' \in 0..MaxPlaces
          /\ listener' \in [closing : BOOLEAN, accepting : BOOLEAN, retry : BOOLEAN]
    BY <1>1, <1>7, <1>8, <1>9, StartAcceptKeeps DEF Inv
  <1>11. PromotionsInv'
    <2>1. conn[c].stage \notin Holding /\ conn'[c].stage \notin Holding
      BY <1>1, <1>5 DEF Holding
    <2> QED
      BY <1>1, <1>5, <2>1, HeldNothing
  <1>12. TypeOK'
    BY <1>1, <1>5, <1>10 DEF Inv, TypeOK
  <1> QED
    BY <1>10, <1>11, <1>12 DEF Inv

\* The server closes its listener.
LEMMA ListenerClosesKeeps ==
  ASSUME Inv, ListenerCloses
  PROVE  Inv'
  <1>1. /\ served /\ listener' = [listener EXCEPT !.closing = TRUE]
        /\ UNCHANGED <<served, places, promoted, resume, owed, door, conn, waiter>>
    BY DEF ListenerCloses
  <1>2. /\ listener' \in [closing : BOOLEAN, accepting : BOOLEAN, retry : BOOLEAN]
        /\ listener'.closing /\ listener'.accepting = listener.accepting
    BY <1>1 DEF Inv, TypeOK
  <1>3. PlacesInv'
    <2>1. Taken' = Taken
      BY <1>1, <1>2 DEF Taken
    <2>2. PlacesCounted'
      BY <1>1, <1>2 DEF Inv, PlacesInv, PlacesCounted
    <2>3. OwnListener' /\ ListenerAwake'
      BY <1>1, <1>2 DEF OwnListener, ListenerAwake, ListenerClosing
    <2> QED
      BY <2>1, <2>2, <2>3 DEF Inv, PlacesInv
  <1>4. PromotionsInv'
    BY <1>1, WaiterSteps
  <1>5. TypeOK'
    BY <1>1, <1>2 DEF Inv, TypeOK
  <1> QED
    BY <1>3, <1>4, <1>5 DEF Inv

\* The second half of release(): what was owed is now queued.
LEMMA CallResumeKeeps ==
  ASSUME Inv, NEW d \in Doors, CallResume(d)
  PROVE  Inv'
  <1>1. /\ owed[d] /\ owed' = [owed EXCEPT ![d] = FALSE]
        /\ resume' = (resume \/ ~listener.closing)
        /\ UNCHANGED <<served, listener, places, promoted, door, conn, waiter>>
    BY DEF CallResume
  <1>2. served
    BY <1>1 DEF Inv, PlacesInv, OwnListener
  <1>3. PlacesInv'
    <2>1. Taken' = Taken
      BY <1>1 DEF Taken
    <2>2. PlacesCounted'
      BY <1>1 DEF Inv, PlacesInv, PlacesCounted
    <2>3. OwnListener'
      BY <1>1, <1>2 DEF OwnListener
    <2>4. ListenerAwake'
      BY <1>1, <1>2 DEF ListenerAwake, ListenerClosing
    <2> QED
      BY <2>1, <2>2, <2>3, <2>4 DEF Inv, PlacesInv
  <1>4. PromotionsInv'
    BY <1>1, WaiterSteps
  <1>5. resume' \in BOOLEAN /\ owed' \in [Doors -> BOOLEAN]
    BY <1>1 DEF Inv, TypeOK
  <1>6. TypeOK'
    BY <1>1, <1>5 DEF Inv, TypeOK
  <1> QED
    BY <1>3, <1>4, <1>6 DEF Inv

\* Accept operations are added, cancelled and completed.
LEMMA OperationSteps ==
  ASSUME Inv,
         \/ \E w \in Waiters, d \in Doors : AddWaiter(w, d)
         \/ \E w \in Waiters : CancelWaiter(w) \/ ControlFinishes(w)
         \/ \E d \in Doors : CancelDoor(d)
  PROVE  Inv'
  <1>1. /\ waiter \in [Waiters -> WaiterRecord]
        /\ door \in [Doors -> [closing : BOOLEAN, control : BOOLEAN]]
    BY DEF Inv, TypeOK
  <1>2. UNCHANGED <<served, listener, places, promoted, resume, owed, conn>>
    BY DEF AddWaiter, CancelWaiter, ControlFinishes, CancelDoor
  <1>3. /\ waiter' \in [Waiters -> WaiterRecord]
        /\ \A v \in Waiters :
             /\ waiter'[v].by = waiter[v].by
             /\ waiter[v].st # "absent" => /\ waiter'[v].st # "absent"
                                           /\ waiter'[v].door = waiter[v].door
    <2>1. ASSUME NEW w \in Waiters, NEW d \in Doors, AddWaiter(w, d) PROVE <1>3!1 /\ <1>3!2
      BY <1>1, <2>1 DEF AddWaiter, WaiterRecord
    <2>2. ASSUME NEW w \in Waiters, CancelWaiter(w) PROVE <1>3!1 /\ <1>3!2
      BY <1>1, <2>2 DEF CancelWaiter, WaiterRecord
    <2>3. ASSUME NEW w \in Waiters, ControlFinishes(w) PROVE <1>3!1 /\ <1>3!2
      BY <1>1, <2>3 DEF ControlFinishes, WaiterRecord
    <2>4. ASSUME NEW d \in Doors, CancelDoor(d) PROVE <1>3!1 /\ <1>3!2
      <3>1. waiter' = [v \in Waiters |-> IF waiter[v].door = d /\ waiter[v].st = "pending"
                                         THEN [waiter[v] EXCEPT !.cancelled = TRUE] ELSE waiter[v]]
        BY <2>4 DEF CancelDoor
      <3>2. ASSUME NEW v \in Waiters
            PROVE  /\ waiter'[v] \in WaiterRecord
                   /\ waiter'[v].by = waiter[v].by /\ waiter'[v].st = waiter[v].st
                   /\ waiter'[v].door = waiter[v].door
        <4>1. waiter[v] \in WaiterRecord
          BY <1>1
        <4>2. waiter'[v] = waiter[v] \/ waiter'[v] = [waiter[v] EXCEPT !.cancelled = TRUE]
          BY <3>1
        <4> QED
          BY <4>1, <4>2 DEF WaiterRecord
      <3>3. waiter' \in [Waiters -> WaiterRecord]
        BY <3>1, <3>2
      <3> QED
        BY <3>2, <3>3
    <2> QED
      BY <2>1, <2>2, <2>3, <2>4
  <1>4. /\ door' \in [Doors -> [closing : BOOLEAN, control : BOOLEAN]]
        /\ \A d \in Doors : door[d].closing => door'[d].closing
    <2>1. ASSUME NEW w \in Waiters, CancelWaiter(w) PROVE <1>4!1 /\ <1>4!2
      <3>1. CASE waiter[w].door \in Doors
        BY <1>1, <2>1, <3>1 DEF CancelWaiter
      <3>2. CASE waiter[w].door \notin Doors
        BY <1>1, <2>1, <3>2 DEF CancelWaiter
      <3> QED
        BY <3>1, <3>2
    <2>2. ASSUME NEW d \in Doors, CancelDoor(d) PROVE <1>4!1 /\ <1>4!2
      BY <1>1, <2>2 DEF CancelDoor
    <2>3. ASSUME UNCHANGED door PROVE <1>4!1 /\ <1>4!2
      BY <1>1, <2>3
    <2> QED
      BY <2>1, <2>2, <2>3 DEF AddWaiter, ControlFinishes
  <1>5. PlacesInv' /\ PromotionsInv'
    BY <1>2, <1>3, <1>4, DoorSteps, WaiterSteps
  <1>6. TypeOK'
    BY <1>2, <1>3, <1>4 DEF Inv, TypeOK
  <1> QED
    BY <1>5, <1>6 DEF Inv

\* A door closes, and its control task ends.
LEMMA ControlSteps ==
  ASSUME Inv, NEW d \in Doors, DoorCloses(d) \/ ControlDone(d)
  PROVE  Inv'
  <1>1. UNCHANGED <<served, listener, places, promoted, resume, owed, conn, waiter>>
    BY DEF DoorCloses, ControlDone
  <1>2. /\ door' \in [Doors -> [closing : BOOLEAN, control : BOOLEAN]]
        /\ \A e \in Doors : door[e].closing => door'[e].closing
    <2>1. door \in [Doors -> [closing : BOOLEAN, control : BOOLEAN]]
      BY DEF Inv, TypeOK
    <2>2. CASE DoorCloses(d)
      BY <2>1, <2>2 DEF DoorCloses
    <2>3. CASE ControlDone(d)
      BY <2>1, <2>3 DEF ControlDone
    <2> QED
      BY <2>2, <2>3
  <1>3. PlacesInv' /\ PromotionsInv'
    BY <1>1, <1>2, DoorSteps, WaiterSteps
  <1>4. TypeOK'
    BY <1>1, <1>2 DEF Inv, TypeOK
  <1> QED
    BY <1>3, <1>4 DEF Inv

-----------------------------------------------------------------------------
(* The theorems.                                                           *)

\* A deadline is pending only for a connection that its door lists.
TimersListed == \A c \in Conns : conn[c].timer # "off" => conn[c].stage \in Listed

\* Leaving turns the deadline off.
LEMMA TimerLeaves ==
  ASSUME TypeOK, TimersListed, NEW c \in Conns, NEW s, Leaves(c, s)
  PROVE  TimersListed'
  <1>1. conn \in [Conns -> ConnRecord]
    BY DEF TypeOK
  <1>2. conn' = [conn EXCEPT ![c].stage = s, ![c].waiter = NoOne, ![c].timer = "off"]
    BY DEF Leaves
  <1>3. conn'[c].timer = "off" /\ \A e \in Conns : e # c => conn'[e] = conn[e]
    BY <1>1, <1>2 DEF ConnRecord
  <1> QED
    BY <1>3 DEF TimersListed

\* So do a connection's other steps, or they leave it with its door.
LEMMA TimerStep ==
  ASSUME TypeOK, TimersListed, NEW c \in Conns,
         \/ HandshakeDone(c) \/ ConnectionEnds(c) \/ Request(c) \/ StreamCloses(c)
         \/ NoSlot(c) \/ Admit(c) \/ GiveUp(c) \/ Promote(c) \/ CarrierEnds(c)
         \/ DeadlinePasses(c) \/ AcceptedHere(c) \/ DeadlineStops(c) \/ ControlStops(c)
         \/ \E w \in Waiters : ReserveSlot(c, w)
         \/ \E d \in Doors : Accepted(c, d)
         \/ \E b \in BOOLEAN : Adopt(c, b) \/ Publish(c, b) \/ Replay(c, b)
  PROVE  TimersListed'
  <1>1. conn \in [Conns -> ConnRecord]
    BY DEF TypeOK
  <1>2. CASE \E s \in {"gone", "carrier"} : Leaves(c, s)
    BY <1>2, TimerLeaves
  <1>3. CASE /\ \A e \in Conns : e # c => conn'[e] = conn[e]
             /\ conn'[c].stage \in Listed \/ conn'[c].timer = "off"
    BY <1>3 DEF TimersListed
  <1>4. CASE HandshakeDone(c) \/ Request(c) \/ StreamCloses(c) \/ NoSlot(c) \/ Admit(c)
    <2>1. PICK s \in {"cover", "candidate", "reserved", "dropped", "admitted"} : Becomes(c, s)
      BY <1>4 DEF HandshakeDone, Request, StreamCloses, NoSlot, Admit
    <2>2. s \in Stages /\ s \in Listed
      BY <2>1 DEF Stages, Listed
    <2> QED
      BY <1>3, <2>1, <2>2, BecomesFacts
  <1>5. CASE ConnectionEnds(c) \/ DeadlineStops(c) \/ ControlStops(c)
    BY <1>2, <1>5 DEF ConnectionEnds, DeadlineStops, ControlStops, Stop
  <1>6. CASE GiveUp(c) \/ Replay(c, FALSE)
    <2>1. conn' = [conn EXCEPT ![c].stage = "cover", ![c].waiter = NoOne]
      BY <1>6 DEF GiveUp, Replay
    <2>2. conn'[c].stage = "cover" /\ \A e \in Conns : e # c => conn'[e] = conn[e]
      BY <1>1, <2>1 DEF ConnRecord
    <2> QED
      BY <1>3, <2>2 DEF Listed, Stages
  <1>7. CASE Replay(c, TRUE)
    <2>1. Becomes(c, "reserved") /\ "reserved" \in Stages /\ "reserved" \in Listed
      BY <1>7 DEF Replay, Stages, Listed
    <2> QED
      BY <1>3, <2>1, BecomesFacts
  <1>8. CASE Promote(c)
    <2>1. conn'[c].stage = "promoting" /\ \A e \in Conns : e # c => conn'[e] = conn[e]
      BY <1>1, <1>8 DEF Promote, ConnRecord
    <2> QED
      BY <1>3, <2>1 DEF Listed, Stages
  <1>9. CASE CarrierEnds(c)
    <2>1. conn[c].stage = "carrier" /\ Becomes(c, "gone") /\ "gone" \in Stages
      BY <1>9 DEF CarrierEnds, Stages
    <2>2. conn[c].timer = "off"
      BY <2>1 DEF TimersListed, Listed
    <2> QED
      BY <1>3, <2>1, <2>2, BecomesFacts
  <1>10. CASE DeadlinePasses(c)
    <2>1. conn[c].timer = "armed" /\ conn' = [conn EXCEPT ![c].timer = "due"]
      BY <1>10 DEF DeadlinePasses
    <2>2. conn[c].stage \in Listed
      BY <2>1 DEF TimersListed
    <2>3. conn'[c].stage = conn[c].stage /\ \A e \in Conns : e # c => conn'[e] = conn[e]
      BY <1>1, <2>1 DEF ConnRecord
    <2> QED
      BY <1>3, <2>2, <2>3
  <1>11. CASE AcceptedHere(c)
    <2>1. conn'[c].stage = "tls" /\ \A e \in Conns : e # c => conn'[e] = conn[e]
      BY <1>1, <1>11 DEF AcceptedHere
    <2> QED
      BY <1>3, <2>1 DEF Listed, Stages
  <1>12. ASSUME NEW w \in Waiters, ReserveSlot(c, w) PROVE TimersListed'
    <2>1. conn'[c].stage = "slot" /\ \A e \in Conns : e # c => conn'[e] = conn[e]
      BY <1>1, <1>12 DEF ReserveSlot, ConnRecord
    <2> QED
      BY <1>3, <2>1 DEF Listed, Stages
  <1>13. ASSUME NEW d \in Doors, Accepted(c, d) PROVE TimersListed'
    <2>1. conn[c].stage = "absent"
      BY <1>13 DEF Accepted
    <2>2. conn[c].timer = "off"
      BY <2>1 DEF TimersListed, Listed
    <2>3. conn'[c].timer = conn[c].timer /\ \A e \in Conns : e # c => conn'[e] = conn[e]
      BY <1>1, <1>13 DEF Accepted, ConnRecord
    <2> QED
      BY <1>3, <2>2, <2>3
  <1>14. ASSUME NEW b \in BOOLEAN, Adopt(c, b) PROVE TimersListed'
    <2>1. CASE Leaves(c, "gone")
      BY <1>2, <2>1
    <2>2. CASE ~Leaves(c, "gone")
      <3>1. conn' = [conn EXCEPT ![c].stage = "tls", ![c].timer = "armed"]
        BY <1>14, <2>2 DEF Adopt
      <3>2. conn'[c].stage = "tls" /\ \A e \in Conns : e # c => conn'[e] = conn[e]
        BY <1>1, <3>1 DEF ConnRecord
      <3> QED
        BY <1>3, <3>2 DEF Listed, Stages
    <2> QED
      BY <2>1, <2>2
  <1>15. ASSUME NEW b \in BOOLEAN, Publish(c, b) PROVE TimersListed'
    BY <1>2, <1>15 DEF Publish, Stop
  <1> QED
    BY <1>4, <1>5, <1>6, <1>7, <1>8, <1>9, <1>10, <1>11, <1>12, <1>13, <1>14, <1>15

\* The invariant holds initially.
LEMMA InvInit ==
  ASSUME Init
  PROVE  Inv /\ TimersListed
  <1>1. /\ MaxPlaces \in Nat \ {0} /\ MaxPromoted \in Nat \ {0}
        /\ NoOne \notin Conns
    BY FrontDoorAssumption
  <1>2. TypeOK
    <2>1. conn \in [Conns -> ConnRecord]
      BY DEF Init, ConnRecord, Stages
    <2>2. waiter \in [Waiters -> WaiterRecord]
      BY DEF Init, WaiterRecord
    <2>3. /\ listener \in [closing : BOOLEAN, accepting : BOOLEAN, retry : BOOLEAN]
          /\ owed \in [Doors -> BOOLEAN]
          /\ door \in [Doors -> [closing : BOOLEAN, control : BOOLEAN]]
      BY DEF Init
    <2>4. places \in 0..MaxPlaces /\ promoted \in 0..MaxPromoted
      BY <1>1 DEF Init
    <2> QED
      BY <2>1, <2>2, <2>3, <2>4 DEF TypeOK, Init
  <1>3. \A c \in Conns : conn[c].stage = "absent"
    BY DEF Init
  <1>4. InStage(conn, Placing) = {} /\ InStage(conn, Holding) = {}
    BY <1>3 DEF InStage, Placing, Listed, Holding
  <1>5. Cardinality(InStage(conn, Placing)) = 0 /\ Cardinality(InStage(conn, Holding)) = 0
    BY <1>4, FS_EmptySet
  <1>6. PlacesInv
    <2>1. Taken = 0
      BY <1>5 DEF Taken, Init
    <2>2. PlacesCounted
      BY <1>5 DEF PlacesCounted, InStage, Placing, Init
    <2>3. OwnListener
      BY <1>3, <1>4 DEF OwnListener, Init, Listed
    <2>4. ListenerAwake
      BY DEF ListenerAwake, Init
    <2> QED
      BY <1>1, <2>1, <2>2, <2>3, <2>4 DEF PlacesInv
  <1>7. PromotionsInv
    <2>1. WaitersMatched
      BY <1>3 DEF WaitersMatched, SlotsApart, WaiterHeld, Init
    <2> QED
      BY <1>5, <2>1, PromotionsParts DEF Init
  <1>8. TimersListed
    BY DEF TimersListed, Init
  <1> QED
    BY <1>2, <1>6, <1>7, <1>8 DEF Inv

\* Every step keeps it.
LEMMA InvStep ==
  ASSUME Inv, TimersListed, [Next]_vars
  PROVE  Inv' /\ TimersListed'
  <1>1. TypeOK
    BY DEF Inv
  <1> DEFINE Same == UNCHANGED conn
  <1>2. Same => TimersListed'
    BY DEF TimersListed
  <1>3. CASE UNCHANGED vars
    <2>1. UNCHANGED <<served, listener, places, promoted, resume, owed, door, conn, waiter>>
      BY <1>3 DEF vars
    <2>2. PlacesInv' /\ PromotionsInv'
      BY <2>1, DoorSteps, WaiterSteps
    <2> QED
      BY <1>2, <2>1, <2>2 DEF Inv, TypeOK
  <1>4. CASE Resume
    BY <1>2, <1>4, ResumeKeeps DEF Resume
  <1>5. CASE RetryFires
    BY <1>2, <1>5, RetryKeeps DEF RetryFires
  <1>6. CASE ListenerCloses
    BY <1>2, <1>6, ListenerClosesKeeps DEF ListenerCloses
  <1>7. ASSUME NEW exhausted \in BOOLEAN, AcceptFails(exhausted) PROVE Inv' /\ TimersListed'
    BY <1>2, <1>7, AcceptFailsKeeps DEF AcceptFails
  <1>8. ASSUME NEW d \in Doors, Queued(d) PROVE Inv' /\ TimersListed'
    <2>1. CASE ControlDone(d)
      BY <1>2, <2>1, ControlSteps DEF ControlDone
    <2>2. ASSUME NEW w \in Waiters, ControlFinishes(w) PROVE Inv' /\ TimersListed'
      BY <1>2, <2>2, OperationSteps DEF ControlFinishes
    <2>3. ASSUME NEW c \in Conns, NEW b \in BOOLEAN, Adopt(c, b) PROVE Inv' /\ TimersListed'
      BY <1>1, <2>3, AdoptKeeps, TimerStep
    <2>4. ASSUME NEW c \in Conns, NEW b \in BOOLEAN, Publish(c, b) PROVE Inv' /\ TimersListed'
      BY <1>1, <2>4, PublishKeeps, TimerStep
    <2>5. ASSUME NEW c \in Conns, DeadlineStops(c) \/ ControlStops(c) PROVE Inv' /\ TimersListed'
      <3>1. conn[c].timer = "due" => conn[c].stage \in Listed
        BY DEF TimersListed
      <3> QED
        BY <1>1, <2>5, <3>1, StopSteps, TimerStep
    <2> QED
      BY <1>8, <2>1, <2>2, <2>3, <2>4, <2>5 DEF Queued
  <1>9. ASSUME NEW d \in Doors, Running(d) PROVE Inv' /\ TimersListed'
    <2>1. CASE CallResume(d)
      BY <1>2, <2>1, CallResumeKeeps DEF CallResume
    <2>2. ASSUME NEW c \in Conns, NEW b \in BOOLEAN, Replay(c, b) PROVE Inv' /\ TimersListed'
      <3>1. TimersListed'
        BY <1>1, <2>2, TimerStep
      <3>2. Replay(c, TRUE) \/ Replay(c, FALSE)
        BY <2>2
      <3> QED
        BY <3>1, <3>2, ReplayKeeps, ReturnSteps
    <2> QED
      BY <1>9, <2>1, <2>2 DEF Running
  <1>10. ASSUME NEW d \in Doors, DoorCloses(d) PROVE Inv' /\ TimersListed'
    BY <1>2, <1>10, ControlSteps DEF DoorCloses
  <1>11. ASSUME NEW d \in Doors, CancelDoor(d) PROVE Inv' /\ TimersListed'
    BY <1>2, <1>11, OperationSteps DEF CancelDoor
  <1>12. ASSUME NEW d \in Doors, NEW w \in Waiters, AddWaiter(w, d) PROVE Inv' /\ TimersListed'
    BY <1>2, <1>12, OperationSteps DEF AddWaiter
  <1>13. ASSUME NEW w \in Waiters, CancelWaiter(w) PROVE Inv' /\ TimersListed'
    BY <1>2, <1>13, OperationSteps DEF CancelWaiter
  <1>14. CASE Connections
    <2>1. PICK c \in Conns :
            \/ HandshakeDone(c) \/ ConnectionEnds(c) \/ Request(c) \/ StreamCloses(c)
            \/ NoSlot(c) \/ Admit(c) \/ GiveUp(c) \/ Promote(c) \/ CarrierEnds(c)
            \/ DeadlinePasses(c) \/ AcceptedHere(c)
            \/ \E w \in Waiters : ReserveSlot(c, w)
            \/ \E d \in Doors : Accepted(c, d)
      BY <1>14 DEF Connections
    <2>2. TimersListed'
      BY <1>1, <2>1, TimerStep
    <2>3. CASE HandshakeDone(c) \/ Request(c) \/ StreamCloses(c) \/ NoSlot(c) \/ Admit(c)
      BY <2>2, <2>3, StageMoves
    <2>4. CASE ConnectionEnds(c)
      <3>1. conn[c].timer = "due" => conn[c].stage \in Listed
        BY DEF TimersListed
      <3> QED
        BY <2>2, <2>4, <3>1, StopSteps
    <2>5. CASE GiveUp(c) \/ CarrierEnds(c)
      BY <2>2, <2>5, ReturnSteps
    <2>6. CASE Promote(c) \/ DeadlinePasses(c)
      BY <2>2, <2>6, TimerMoves
    <2>7. CASE AcceptedHere(c)
      BY <2>2, <2>7, AcceptedHereKeeps
    <2>8. ASSUME NEW w \in Waiters, ReserveSlot(c, w) PROVE Inv'
      BY <2>8, ReserveSlotKeeps
    <2>9. ASSUME NEW d \in Doors, Accepted(c, d) PROVE Inv'
      BY <2>9, AcceptedKeeps
    <2> QED
      BY <2>1, <2>2, <2>3, <2>4, <2>5, <2>6, <2>7, <2>8, <2>9
  <1> QED
    BY <1>3, <1>4, <1>5, <1>6, <1>7, <1>8, <1>9, <1>10, <1>11, <1>12, <1>13, <1>14, DoorsInUse
       DEF Next

\* Whatever the doors, the listener and the carriers' owners do, in whatever
\* order: the share of places counts the accept under way, the descriptors
\* handed over and the connections listed, and the promotion budget counts the
\* connections and carriers that hold a promotion, each taken waiter being taken
\* by the one connection that will serve or release it.
THEOREM BudgetsAlwaysCounted == Spec => [](TypeOK /\ BudgetsCounted)
  <1>1. Init => Inv /\ TimersListed
    BY InvInit
  <1>2. Inv /\ TimersListed /\ [Next]_vars => (Inv /\ TimersListed)'
    BY InvStep
  <1>3. Inv /\ TimersListed => TypeOK /\ BudgetsCounted
    BY DEF Inv, PlacesInv, PromotionsInv, BudgetsCounted
  <1> QED
    BY <1>1, <1>2, <1>3, PTL DEF Spec

\* A listener never falls asleep: unless it closes, it accepts, or a retry, a
\* resume or the return of a place in a full count is still to come.
THEOREM ListenerNeverSleeps == Spec => []ListenerAwake
  <1>1. Init => Inv /\ TimersListed
    BY InvInit
  <1>2. Inv /\ TimersListed /\ [Next]_vars => (Inv /\ TimersListed)'
    BY InvStep
  <1>3. Inv /\ TimersListed => ListenerAwake
    BY DEF Inv, PlacesInv
  <1> QED
    BY <1>1, <1>2, <1>3, PTL DEF Spec
=============================================================================

------------------------------ MODULE FrontDoor ------------------------------
(***************************************************************************)
(* src/src/providers/h2_web_front_door.cpp: the listener that accepts a    *)
(* server's TCP connections, the front doors that answer them with the     *)
(* cover site, and the promotion of a connection that proves admission to  *)
(* a carrier for a waiting accept operation.                               *)
(*                                                                         *)
(* A served door runs on its own loop's thread and takes connections that  *)
(* H2WebListener, on the main loop, hands it; all doors share the count of *)
(* places (H2WebListenerShare::waiting) and of promotions                  *)
(* (PromotionBudget).  With served = FALSE there is one door with a        *)
(* listener of its own.  A handler of one thread is one step, cut where it *)
(* touches an atomic or a mutex that another thread also uses.  TLS and    *)
(* HTTP/2 appear through what the handlers learn from them: a handshake    *)
(* that ends, a request that is a valid admission, output that has or has  *)
(* not drained, a stream the peer closed.                                  *)
(***************************************************************************)
EXTENDS Naturals, FiniteSets

CONSTANTS Doors,         \* front doors, one per event loop
          Conns,         \* TCP connections of a behaviour
          Waiters,       \* accept operations of a behaviour
          MaxPlaces,     \* limits.max_connections
          MaxPromoted    \* limits.max_promoted_carriers

NoOne == "none"

ASSUME FrontDoorAssumption ==
  /\ Doors # {} /\ IsFiniteSet(Conns) /\ NoOne \notin Doors \cup Conns \cup Waiters
  /\ MaxPlaces \in Nat \ {0} /\ MaxPromoted \in Nat \ {0}

VARIABLES
  served,     \* the doors share one listener
  listener,   \* the accepting side: H2WebListener, or the only door's acceptor
  places,     \* H2WebListenerShare::waiting
  promoted,   \* PromotionBudget::active
  resume,     \* the listener's resume task is queued
  owed,       \* owed[d]: door d's thread still has to call resume
  door,       \* closing flag and queued control task of each door
  conn,       \* the connections
  waiter      \* the accept operations

vars == <<served, listener, places, promoted, resume, owed, door, conn, waiter>>

Stages == {"absent", "handed", "tls", "cover", "candidate", "slot", "reserved",
           "dropped", "admitted", "promoting", "carrier", "gone"}
\* A connection that a door lists, and one that holds a promotion.
Listed == Stages \ {"absent", "handed", "carrier", "gone"}
Holding == {"slot", "reserved", "dropped", "admitted", "promoting", "carrier"}
WaiterHeld == {"reserved", "dropped", "admitted", "promoting"}

ConnRecord == [stage : Stages, door : Doors \cup {NoOne},
               waiter : Waiters \cup {NoOne}, timer : {"off", "armed", "due", "cancelled"}]
WaiterRecord == [st : {"absent", "pending", "served", "refused"},
                 door : Doors \cup {NoOne}, cancelled : BOOLEAN,
                 by : Conns \cup {NoOne}]

Init ==
  /\ served \in BOOLEAN
  /\ listener = [closing |-> FALSE, accepting |-> FALSE, retry |-> FALSE]
  /\ places = 0
  /\ promoted = 0
  /\ resume = TRUE     \* stands for creation's first call of start_accept
  /\ owed = [d \in Doors |-> FALSE]
  /\ door = [d \in Doors |-> [closing |-> FALSE, control |-> FALSE]]
  /\ conn = [c \in Conns |-> [stage |-> "absent", door |-> NoOne,
                              waiter |-> NoOne, timer |-> "off"]]
  /\ waiter = [w \in Waiters |-> [st |-> "absent", door |-> NoOne,
                                  cancelled |-> FALSE, by |-> NoOne]]

OnlyDoor == CHOOSE d \in Doors : TRUE
ActiveDoors == IF served THEN Doors ELSE {OnlyDoor}
ListedAt(d) == {c \in Conns : conn[c].door = d /\ conn[c].stage \in Listed}

\* The door's thread is free for a handler: it is not inside one that owes the
\* listener a call or that waits for the replay cache.
DoorRuns(d) == /\ d \in ActiveDoors /\ ~owed[d]
               /\ \A c \in Conns : conn[c].stage = "slot" => conn[c].door # d

\* A door's own listener runs on the door's thread.
ListenerRuns == served \/ DoorRuns(OnlyDoor)

-----------------------------------------------------------------------------
(* The listener.  H2WebListener has a closing flag of its own; a door with *)
(* an acceptor of its own closes both at once.                             *)

ListenerClosing == IF served THEN listener.closing ELSE door[OnlyDoor].closing

\* start_accept() of a listener l that sees p places taken: it takes a place
\* before it accepts, or stays as it is until one is returned.  An own listener
\* counts the connections its door lists.
StartAccept(l, p) ==
  LET takes == ~ListenerClosing /\ ~l.accepting /\ ~l.retry /\ p < MaxPlaces
  IN  /\ listener' = [l EXCEPT !.accepting = @ \/ takes]
      /\ places' = IF ~served THEN places ELSE IF takes THEN p + 1 ELSE p

\* on_resume: a place in a full count was returned.
Resume ==
  /\ resume /\ ListenerRuns
  /\ resume' = FALSE
  /\ StartAccept(listener, places)
  /\ UNCHANGED <<served, promoted, owed, door, conn, waiter>>

\* release() by the listener's own thread, which the full count wakes as well.
Wakes(p) == served /\ p = MaxPlaces /\ ~listener.closing

\* accepted() with an error: resource exhaustion waits for the retry timer,
\* anything else (or a timer that cannot be armed) stops listening for good.
AcceptFails(exhausted) ==
  LET stops == ~exhausted /\ ~ListenerClosing IN
  /\ listener.accepting /\ ListenerRuns
  /\ places' = IF served THEN places - 1 ELSE places
  /\ resume' = (resume \/ Wakes(places))
  /\ listener' = [listener EXCEPT !.accepting = FALSE,
                    !.retry = exhausted /\ ~ListenerClosing,
                    !.closing = @ \/ (stops /\ served)]
  /\ door' = IF served \/ ~stops THEN door
             ELSE [door EXCEPT ![OnlyDoor] = [closing |-> TRUE, control |-> TRUE]]
  /\ UNCHANGED <<served, promoted, owed, conn, waiter>>

RetryFires ==
  /\ listener.retry /\ ListenerRuns
  /\ StartAccept([listener EXCEPT !.retry = FALSE],
                 IF served THEN places ELSE Cardinality(ListedAt(OnlyDoor)))
  /\ UNCHANGED <<served, promoted, resume, owed, door, conn, waiter>>

\* NativeServerRuntime::dispatch: the least busy loop takes the connection.
Load(d) == Cardinality({c \in Conns : conn[c].door = d
                                      /\ conn[c].stage \in Listed \cup {"carrier"}})

\* accepted(): the descriptor and its place go to a door, which posts it to its
\* context (serve); a closing door returns both at once.  Then the listener
\* looks for the next connection.
Accepted(c, d) ==
  /\ served /\ listener.accepting /\ ~listener.closing
  /\ conn[c].stage = "absent"
  /\ \A e \in Doors : Load(d) <= Load(e)
  /\ conn' = [conn EXCEPT ![c].stage = IF door[d].closing THEN "gone" ELSE "handed",
                          ![c].door = d]
  /\ resume' = (resume \/ (door[d].closing /\ Wakes(places)))
  /\ StartAccept([listener EXCEPT !.accepting = FALSE],
                 IF door[d].closing THEN places - 1 ELSE places)
  /\ UNCHANGED <<served, promoted, owed, door, waiter>>

\* An own listener's door starts the connection at once.
AcceptedHere(c) ==
  /\ ~served /\ listener.accepting /\ ~ListenerClosing /\ DoorRuns(OnlyDoor)
  /\ conn[c].stage = "absent"
  /\ conn' = [conn EXCEPT ![c] = [stage |-> "tls", door |-> OnlyDoor,
                                  waiter |-> NoOne, timer |-> "armed"]]
  /\ StartAccept([listener EXCEPT !.accepting = FALSE],
                 Cardinality(ListedAt(OnlyDoor)) + 1)
  /\ UNCHANGED <<served, promoted, resume, owed, door, waiter>>

\* The server closes its listener.
ListenerCloses ==
  /\ served /\ ~listener.closing
  /\ listener' = [listener EXCEPT !.closing = TRUE]
  /\ UNCHANGED <<served, places, promoted, resume, owed, door, conn, waiter>>

-----------------------------------------------------------------------------
(* A connection leaves its door's list: promoted or ended, it no longer    *)
(* waits, and its place is returned.  A full count wakes the listener.     *)

\* Mutant: a returned place wakes nobody.
LeavesSilently(c, stage) ==
  /\ conn' = [conn EXCEPT ![c].stage = stage, ![c].waiter = NoOne, ![c].timer = "off"]
  /\ places' = IF served THEN places - 1 ELSE places
  /\ UNCHANGED <<listener, owed>>

Leaves(c, stage) ==
  LET d == conn[c].door IN
  /\ conn' = [conn EXCEPT ![c].stage = stage, ![c].waiter = NoOne, ![c].timer = "off"]
  /\ IF served
     THEN /\ places' = places - 1
          /\ owed' = [owed EXCEPT ![d] = (places = MaxPlaces)]
          /\ UNCHANGED listener
     ELSE /\ StartAccept(listener, Cardinality(ListedAt(d)) - 1)
          /\ UNCHANGED owed

Freed(c) == IF conn[c].stage \in WaiterHeld
            THEN [waiter EXCEPT ![conn[c].waiter].by = NoOne] ELSE waiter

\* Connection::stop(): the promotion and the waiter it holds go back.
Stop(c) ==
  /\ Leaves(c, "gone")
  /\ promoted' = IF conn[c].stage \in Holding THEN promoted - 1 ELSE promoted
  /\ waiter' = Freed(c)
  /\ UNCHANGED <<served, resume, door>>

\* The second half of release(): the listener's resume task is submitted.
CallResume(d) ==
  /\ owed[d]
  /\ owed' = [owed EXCEPT ![d] = FALSE]
  /\ resume' = (resume \/ ~listener.closing)
  /\ UNCHANGED <<served, listener, places, promoted, door, conn, waiter>>

\* Mutant: a descriptor that cannot be taken keeps its place.
AdoptLosesPlace(c, fails) ==
  LET d == conn[c].door IN
  /\ conn[c].stage = "handed" /\ DoorRuns(d)
  /\ conn' = [conn EXCEPT ![c].stage = IF fails \/ door[d].closing THEN "gone" ELSE "tls",
                          ![c].timer = IF fails \/ door[d].closing THEN "off" ELSE "armed"]
  /\ UNCHANGED <<served, listener, places, owed, promoted, resume, door, waiter>>

\* The posted part of serve(), then adopt(): a closing door, or a descriptor
\* that cannot be taken (fails), returns the place.
Adopt(c, fails) ==
  LET d == conn[c].door IN
  /\ conn[c].stage = "handed" /\ DoorRuns(d)
  /\ IF fails \/ door[d].closing
     THEN Leaves(c, "gone")
     ELSE /\ conn' = [conn EXCEPT ![c].stage = "tls", ![c].timer = "armed"]
          /\ UNCHANGED <<listener, places, owed>>
  /\ UNCHANGED <<served, promoted, resume, door, waiter>>

-----------------------------------------------------------------------------
(* The connection's own handlers, on its door's thread.                    *)

At(c, stage) == conn[c].stage = stage /\ DoorRuns(conn[c].door)
Becomes(c, stage) == conn' = [conn EXCEPT ![c].stage = stage]

Valid(w) == waiter[w].st = "pending" /\ ~waiter[w].cancelled
Available(d) == {w \in Waiters : waiter[w].door = d /\ Valid(w) /\ waiter[w].by = NoOne}

HandshakeDone(c) ==
  /\ At(c, "tls")
  /\ Becomes(c, "cover")
  /\ UNCHANGED <<served, listener, places, promoted, resume, owed, door, waiter>>

\* Whatever ends a connection that still reads or writes: the peer, a refused
\* handshake or ALPN, a cover limit, an HTTP/2 error.
ConnectionEnds(c) ==
  /\ \E stage \in {"tls", "cover", "candidate", "reserved", "dropped", "admitted"} :
       At(c, stage)
  /\ Stop(c)

\* process_h2: a valid admission request becomes the candidate while there is a
\* promotion and a waiter to be had; otherwise the cover site answers it.
Request(c) ==
  /\ At(c, "cover") \/ At(c, "dropped")
  /\ ~door[conn[c].door].closing
  /\ promoted < MaxPromoted /\ Available(conn[c].door) # {}
  /\ Becomes(c, IF conn[c].stage = "cover" THEN "candidate" ELSE "reserved")
  /\ UNCHANGED <<served, listener, places, promoted, resume, owed, door, waiter>>

\* process_h2: the peer closed the candidate's stream.  Only the candidate goes.
StreamCloses(c) ==
  /\ At(c, "candidate") \/ At(c, "reserved")
  /\ Becomes(c, IF conn[c].stage = "candidate" THEN "cover" ELSE "dropped")
  /\ UNCHANGED <<served, listener, places, promoted, resume, owed, door, waiter>>

\* decide_admission: the promotion is reserved first, for a chosen waiter,
ReserveSlot(c, w) ==
  /\ At(c, "candidate") /\ ~door[conn[c].door].closing
  /\ w \in Available(conn[c].door) /\ promoted < MaxPromoted
  /\ promoted' = promoted + 1
  /\ conn' = [conn EXCEPT ![c].stage = "slot", ![c].waiter = w]
  /\ UNCHANGED <<served, listener, places, resume, owed, door, waiter>>

\* or there is none, and the cover site answers;
NoSlot(c) ==
  /\ At(c, "candidate")
  /\ Available(conn[c].door) = {} \/ promoted >= MaxPromoted
  /\ Becomes(c, "cover")
  /\ UNCHANGED <<served, listener, places, promoted, resume, owed, door, waiter>>

\* then the replay cache decides, and the waiter is reserved.
Replay(c, accepted) ==
  /\ conn[c].stage = "slot"
  /\ IF accepted
     THEN /\ Becomes(c, "reserved")
          /\ waiter' = [waiter EXCEPT ![conn[c].waiter].by = c]
          /\ UNCHANGED promoted
     ELSE /\ conn' = [conn EXCEPT ![c].stage = "cover", ![c].waiter = NoOne]
          /\ promoted' = promoted - 1
          /\ UNCHANGED waiter
  /\ UNCHANGED <<served, listener, places, resume, owed, door>>

\* decide_admission again, once the output has drained: the answer is 200,
Admit(c) ==
  /\ At(c, "reserved") /\ ~door[conn[c].door].closing /\ Valid(conn[c].waiter)
  /\ Becomes(c, "admitted")
  /\ UNCHANGED <<served, listener, places, promoted, resume, owed, door, waiter>>

\* or the cover site's, if the waiter has gone meanwhile.
GiveUp(c) ==
  /\ At(c, "reserved") /\ ~Valid(conn[c].waiter)
  /\ conn' = [conn EXCEPT ![c].stage = "cover", ![c].waiter = NoOne]
  /\ promoted' = promoted - 1
  /\ waiter' = Freed(c)
  /\ UNCHANGED <<served, listener, places, resume, owed, door>>

\* The 200 is written: promotion waits for the deadline's handler, cancelled
\* here unless it is already due.
Promote(c) ==
  /\ At(c, "admitted")
  /\ conn' = [conn EXCEPT ![c].stage = "promoting",
                          ![c].timer = IF @ = "armed" THEN "cancelled" ELSE @]
  /\ UNCHANGED <<served, listener, places, promoted, resume, owed, door, waiter>>

DeadlinePasses(c) ==
  /\ conn[c].timer = "armed"
  /\ conn' = [conn EXCEPT ![c].timer = "due"]
  /\ UNCHANGED <<served, listener, places, promoted, resume, owed, door, waiter>>

\* Mutant: a deadline that fires while promotion waits for it does nothing.
DeadlineIgnored(c) ==
  /\ conn[c].timer = "due" /\ DoorRuns(conn[c].door) /\ conn[c].stage # "promoting"
  /\ Stop(c)

\* The deadline's handler when it was not cancelled in time.
DeadlineStops(c) ==
  /\ conn[c].timer = "due" /\ DoorRuns(conn[c].door)
  /\ Stop(c)

\* publish(): the carrier goes to its waiter, or everything is given back.
Publish(c, promotes) ==
  LET d == conn[c].door
      w == conn[c].waiter
  IN  /\ At(c, "promoting") /\ conn[c].timer = "cancelled"
      /\ IF door[d].closing \/ ~Valid(w) \/ ~promotes
         THEN Stop(c)
         ELSE /\ Leaves(c, "carrier")
              /\ waiter' = [waiter EXCEPT ![w].st = "served", ![w].by = NoOne]
              /\ UNCHANGED <<served, promoted, resume, door>>

\* ~OwnedCarrier, on whatever thread lets the carrier go.
CarrierEnds(c) ==
  /\ conn[c].stage = "carrier"
  /\ Becomes(c, "gone")
  /\ promoted' = promoted - 1
  /\ UNCHANGED <<served, listener, places, resume, owed, door, waiter>>

-----------------------------------------------------------------------------
(* Accept operations and the door's control task.                          *)

\* A closing door refuses, and so may one at its limits.
AddWaiter(w, d) ==
  /\ waiter[w].st = "absent" /\ DoorRuns(d)
  /\ \E st \in IF door[d].closing THEN {"refused"} ELSE {"pending", "refused"} :
       waiter' = [waiter EXCEPT ![w].st = st, ![w].door = d]
  /\ UNCHANGED <<served, listener, places, promoted, resume, owed, door, conn>>

\* The operation's token is cancelled, on any thread (notify_control).
CancelWaiter(w) ==
  /\ Valid(w)
  /\ waiter' = [waiter EXCEPT ![w].cancelled = TRUE]
  /\ door' = [door EXCEPT ![waiter[w].door].control = @ \/ ~door[waiter[w].door].closing]
  /\ UNCHANGED <<served, listener, places, promoted, resume, owed, conn>>

\* cancel(): the epoch moves on, and every operation begun before is cancelled.
CancelDoor(d) ==
  /\ ~door[d].closing
  /\ \E w \in Waiters : waiter[w].door = d /\ Valid(w)
  /\ waiter' = [w \in Waiters |-> IF waiter[w].door = d /\ waiter[w].st = "pending"
                                THEN [waiter[w] EXCEPT !.cancelled = TRUE] ELSE waiter[w]]
  /\ door' = [door EXCEPT ![d].control = TRUE]
  /\ UNCHANGED <<served, listener, places, promoted, resume, owed, conn>>

DoorCloses(d) ==
  /\ d \in ActiveDoors /\ ~door[d].closing
  /\ door' = [door EXCEPT ![d] = [closing |-> TRUE, control |-> TRUE]]
  /\ UNCHANGED <<served, listener, places, promoted, resume, owed, conn, waiter>>

\* settle_control of a closing door stops its connections,
ControlStops(c) ==
  LET d == conn[c].door IN
  /\ conn[c].stage \in Listed /\ DoorRuns(d)
  /\ door[d].control /\ door[d].closing
  /\ Stop(c)

\* Mutant: only the closing of the door completes waiters.
ControlFinishesClosed(w) ==
  LET d == waiter[w].door IN
  /\ waiter[w].st = "pending" /\ DoorRuns(d) /\ door[d].control
  /\ door[d].closing /\ ListedAt(d) = {}
  /\ waiter' = [waiter EXCEPT ![w].st = "refused"]
  /\ UNCHANGED <<served, listener, places, promoted, resume, owed, door, conn>>

\* then every waiter that is cancelled, or that a closing door has, completes.
ControlFinishes(w) ==
  LET d == waiter[w].door IN
  /\ waiter[w].st = "pending" /\ DoorRuns(d) /\ door[d].control
  /\ \/ door[d].closing /\ ListedAt(d) = {}
     \/ waiter[w].cancelled
  /\ waiter' = [waiter EXCEPT ![w].st = "refused"]
  /\ UNCHANGED <<served, listener, places, promoted, resume, owed, door, conn>>

ControlDone(d) ==
  /\ door[d].control /\ DoorRuns(d)
  /\ door[d].closing => ListedAt(d) = {}
  /\ \A w \in Waiters : waiter[w].door = d /\ waiter[w].st = "pending" => Valid(w) /\ ~door[d].closing
  /\ door' = [door EXCEPT ![d].control = FALSE]
  /\ UNCHANGED <<served, listener, places, promoted, resume, owed, conn, waiter>>

-----------------------------------------------------------------------------
\* Handlers that are queued on the door's context, and what is left of the one
\* that is running.
Queued(d) ==
  \/ ControlDone(d)
  \/ \E w \in Waiters : waiter[w].door = d /\ ControlFinishes(w)
  \/ \E c \in Conns : conn[c].door = d /\
       \/ \E b \in BOOLEAN : Adopt(c, b) \/ Publish(c, b)
       \/ DeadlineStops(c) \/ ControlStops(c)
Running(d) ==
  \/ CallResume(d)
  \/ \E c \in Conns, b \in BOOLEAN : conn[c].door = d /\ Replay(c, b)

Connections ==
  \E c \in Conns :
    \/ HandshakeDone(c) \/ ConnectionEnds(c) \/ Request(c) \/ StreamCloses(c)
    \/ NoSlot(c) \/ Admit(c) \/ GiveUp(c) \/ Promote(c) \/ CarrierEnds(c)
    \/ DeadlinePasses(c) \/ AcceptedHere(c)
    \/ \E w \in Waiters : ReserveSlot(c, w)
    \/ \E d \in Doors : Accepted(c, d)

Next ==
  \/ Resume \/ RetryFires \/ ListenerCloses
  \/ \E exhausted \in BOOLEAN : AcceptFails(exhausted)
  \/ \E d \in ActiveDoors :
       \/ Queued(d) \/ Running(d) \/ DoorCloses(d) \/ CancelDoor(d)
       \/ \E w \in Waiters : AddWaiter(w, d)
  \/ Connections
  \/ \E w \in Waiters : CancelWaiter(w)

\* A running handler ends, a context runs what is queued on it however busy its
\* connections keep it, and deadlines pass.  Nothing is assumed of peers.
Fairness ==
  /\ \A d \in Doors : /\ WF_vars(d \in ActiveDoors /\ Running(d))
                       /\ SF_vars(d \in ActiveDoors /\ Queued(d))
  /\ \A c \in Conns : WF_vars(DeadlinePasses(c))

Spec == Init /\ [][Next]_vars /\ Fairness

-----------------------------------------------------------------------------
TypeOK ==
  /\ served \in BOOLEAN /\ resume \in BOOLEAN /\ owed \in [Doors -> BOOLEAN]
  /\ door \in [Doors -> [closing : BOOLEAN, control : BOOLEAN]]
  /\ listener \in [closing : BOOLEAN, accepting : BOOLEAN, retry : BOOLEAN]
  /\ conn \in [Conns -> ConnRecord] /\ waiter \in [Waiters -> WaiterRecord]
  /\ places \in 0..MaxPlaces /\ promoted \in 0..MaxPromoted

\* The share counts each place once: the accept under way, the descriptors on
\* their way to a door and the connections the doors list.  A place returned
\* twice, or never, would let too many connections in or stop the server.
PlacesCounted ==
  served => places = (IF listener.accepting THEN 1 ELSE 0)
                     + Cardinality({c \in Conns : conn[c].stage \in Listed \cup {"handed"}})

\* A listener that is not accepting is waiting for something that will come: a
\* retry, a resume that is queued or being called, or a place (of a full count)
\* whose return wakes it.
ListenerAwake ==
  ListenerClosing \/ listener.accepting \/ listener.retry \/ resume
  \/ (\E d \in Doors : owed[d])
  \/ IF served THEN places = MaxPlaces
     ELSE Cardinality(ListedAt(OnlyDoor)) = MaxPlaces

\* The promotion budget counts what holds a promotion, and a waiter that is
\* taken is taken by exactly the connection that will serve or release it.
PromotionsCounted ==
  /\ promoted = Cardinality({c \in Conns : conn[c].stage \in Holding})
  /\ \A c \in Conns : conn[c].stage \in WaiterHeld => waiter[conn[c].waiter].by = c
  /\ \A w \in Waiters : waiter[w].by # NoOne =>
       conn[waiter[w].by].stage \in WaiterHeld /\ conn[waiter[w].by].waiter = w

\* Both budgets count what is really held.
BudgetsCounted == PlacesCounted /\ PromotionsCounted

\* An accept operation that is cancelled, or whose door closes, completes:
\* settle_control and the connection that reserved it cannot leave it to each
\* other.
AcceptsComplete ==
  \A w \in Waiters :
    (waiter[w].st = "pending" /\ (waiter[w].cancelled \/ door[waiter[w].door].closing))
      ~> (waiter[w].st # "pending")

\* Every connection a door lists leaves the list, promoted or stopped, whatever
\* its peer does: the deadline ends what the peer keeps open, also when it comes
\* due while promotion waits for its handler.  With the connection go the waiter
\* and the promotion it reserved.
ConnectionsLeave == \A c \in Conns : (conn[c].stage \in Listed) ~> (conn[c].stage \notin Listed)
=============================================================================

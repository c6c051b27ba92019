--------------------------- MODULE OrderedChannel ---------------------------
(***************************************************************************)
(* What the record layer of a YTP/1 session promises to the layers above   *)
(* it, whatever epochs, rotations and deferrals happen below: a record     *)
(* that was published is delivered to the other peer once, in publication  *)
(* order, until the publishing side breaks the session.                    *)
(***************************************************************************)
EXTENDS Naturals, Sequences, SequencesExt

CONSTANTS Peers,         \* the two ends of a session
          Records        \* what can be published

VARIABLES queue,         \* queue[p]: records p published and nobody received
          broken         \* broken[p]: p has failed its session

avars == <<queue, broken>>

AInit ==
    /\ queue = [p \in Peers |-> <<>>]
    /\ broken = [p \in Peers |-> FALSE]

\* A publication is appended; records are told apart by their identifier.
APublish(p, r) ==
    /\ ~broken[p]
    /\ \A i \in DOMAIN queue[p] : queue[p][i] # r
    /\ queue' = [queue EXCEPT ![p] = Append(@, r)]
    /\ UNCHANGED broken

\* Only the oldest record can be delivered.
ADeliver(p) ==
    /\ queue[p] # <<>>
    /\ queue' = [queue EXCEPT ![p] = Tail(@)]
    /\ UNCHANGED broken

\* Data of a stream that its own side closed may be dropped before it is sent.
ADrop(p) ==
    /\ ~broken[p]
    /\ \E i \in DOMAIN queue[p] :
          /\ queue[p][i].kind = "data"
          /\ queue' = [queue EXCEPT ![p] = RemoveAt(@, i)]
    /\ UNCHANGED broken

\* A failing side loses what it has not sent: the tail of its queue.
ABreak(p) ==
    /\ ~broken[p]
    /\ broken' = [broken EXCEPT ![p] = TRUE]
    /\ \E n \in 0..Len(queue[p]) :
          queue' = [queue EXCEPT ![p] = SubSeq(@, 1, n)]

ANext ==
    \E p \in Peers :
        \/ \E r \in Records : APublish(p, r)
        \/ ADeliver(p)
        \/ ADrop(p)
        \/ ABreak(p)

ASpec == AInit /\ [][ANext]_avars
=============================================================================

-------------------------- MODULE MCStreamLifecycle --------------------------
(***************************************************************************)
(* Scenarios for TLC.                                                      *)
(***************************************************************************)
EXTENDS StreamLifecycle

Quiet == [shutters |-> {}, closers |-> {}, refusing |-> {}, rotating |-> {},
          refusals |-> FALSE]

\* Everything applications can do, on a path that never holds a record back.
Crossing ==
    {[Quiet EXCEPT !.shutters = Peers, !.closers = Peers, !.refusing = Peers]}

\* Held back by rotations and by a full budget: graceful closes, aborts, and an
\* abort against a graceful close.
HeldBack ==
    LET held == [Quiet EXCEPT !.refusing = Peers, !.rotating = Peers,
                              !.refusals = TRUE]
    IN  {[held EXCEPT !.shutters = Peers],
         [held EXCEPT !.closers = Peers],
         [held EXCEPT !.shutters = {"server"}, !.closers = {"client"}]}

Every == Crossing \cup HeldBack

\* An abort after both sides shut down.
ShutThenClosed == {[Quiet EXCEPT !.shutters = Peers, !.closers = Peers]}

\* Both sides shut down while the client rotates.
ShutWhileRotating == {[Quiet EXCEPT !.shutters = Peers, !.rotating = {"client"}]}
=============================================================================

--------------------------- MODULE AcceptScheduler ---------------------------
(***************************************************************************)
(* src/src/runtime/accept_scheduler.hpp: the pacing of one listener's      *)
(* session starts, as operators on the record of one lane.  Every call     *)
(* runs on the owner's context, so each operator maps the lane before a    *)
(* call to the lanes it may leave; where the driver decides (whether a     *)
(* retry could be scheduled, whether a failure came sooner than the retry  *)
(* delay) there are several.  The arming pass of arm() is not one call but *)
(* a loop in which the driver may settle starts re-entrantly, so it is cut *)
(* into its iterations: arming holds while it runs.                        *)
(***************************************************************************)
EXTENDS Naturals

CONSTANT PendingPerLane      \* NativeAcceptOptions::pending_per_listener

ASSUME PendingAssumption == PendingPerLane \in Nat \ {0}

Lane == [phase : {"idle", "running", "failed"}, pending : 0..PendingPerLane,
         retry : BOOLEAN, arming : BOOLEAN, again : BOOLEAN]

IdleLane == [phase |-> "idle", pending |-> 0, retry |-> FALSE,
             arming |-> FALSE, again |-> FALSE]

\* running(): `closing` is what the driver's owner_closing() answers.
Running(ln, closing) == ln.phase = "running" /\ ~closing

\* arm(): a nested call only asks the running pass to go round once more.
Armed(ln) ==
  IF ln.arming THEN [ln EXCEPT !.again = TRUE]
  ELSE [ln EXCEPT !.arming = TRUE, !.again = FALSE]

\* start(): arms the lane of an idle scheduler.
Started(ln) == Armed([ln EXCEPT !.phase = "running"])

Failed(ln) == IF ln.phase = "running" THEN [ln EXCEPT !.phase = "failed"] ELSE ln

\* Mutant: a retry that could not be scheduled is ignored.
DeferredSilently(ln, closing) ==
  IF ln.retry \/ ~Running(ln, closing) THEN {ln} ELSE {[ln EXCEPT !.retry = TRUE], ln}

\* defer(): a retry that cannot be scheduled matters only with nothing pending.
Deferred(ln, closing) ==
  IF ln.retry \/ ~Running(ln, closing) THEN {ln}
  ELSE {[ln EXCEPT !.retry = TRUE], IF ln.pending = 0 THEN Failed(ln) ELSE ln}

\* settled(): an accepted start ended, `ok` or not, on a listener that has
\* `stopped` or not; a failure is deferred when it came too soon.
Settled(ln, closing, stopped, ok) ==
  LET less == [ln EXCEPT !.pending = IF @ = 0 THEN 0 ELSE @ - 1]
  IN  IF ~Running(less, closing) THEN {less}
      ELSE IF ok THEN {Armed(less)}
      ELSE IF stopped THEN {Failed(less)}
      ELSE Deferred(less, closing) \cup {Armed(less)}

RetryDue(ln) == Armed([ln EXCEPT !.retry = FALSE])

\* The arming pass: whether its inner loop starts another accept,
Wants(ln, closing) ==
  Running(ln, closing) /\ ~ln.retry /\ ln.pending < PendingPerLane

\* the count it takes before calling start_accept(),
Starting(ln) == [ln EXCEPT !.pending = @ + 1]

\* its end, or another round when a nested call asked for one,
PassEnds(ln) ==
  IF ln.again THEN [ln EXCEPT !.again = FALSE] ELSE [ln EXCEPT !.arming = FALSE]

\* and what a refused start_accept() does before that.  A Closed refusal
\* means that the owner is closing and defers nothing.
Refused(ln, closing) ==
  LET less == [ln EXCEPT !.pending = @ - 1]
  IN  {PassEnds(d) : d \in IF closing THEN {less} ELSE Deferred(less, closing)}
=============================================================================

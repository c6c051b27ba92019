--------------------------- MODULE SessionBringUp ---------------------------
(***************************************************************************)
(* How a session comes up and goes down: the two sides' bootstraps         *)
(* (src/src/engine/session_bootstrap.cpp), which obtain a transport layer  *)
(* by layer and start an engine on it, and the engines' authentication and *)
(* teardown (src/src/engine/session_engine.cpp).                           *)
(*                                                                         *)
(* Completions run inline and nest: stopping an engine completes its start,*)
(* which fails the bootstrap, which stops the engine.  A thread is         *)
(* therefore a list of steps it still has to do; a step is what happens    *)
(* under one lock, and puts what it calls in front of the list.  Each side *)
(* has the thread of its execution context and one other thread, which may *)
(* cancel the bootstrap or stop the session it delivered at any moment.    *)
(***************************************************************************)
EXTENDS Naturals, Sequences

Sides == {"client", "server"}
Threads == {"context", "other"}
Peer(s) == IF s = "client" THEN "server" ELSE "client"

VARIABLES
  boot,     \* per side: state, stop reason recorded, starting_engine_ set
  op,       \* provider operation under way
  link,     \* the transport obtained so far: none, open or closed
  token,    \* the bootstrap's cancellation_ is cancelled
  engine,   \* per side: state, start completion held, expected AUTH message
  sends,    \* records the carrier has not completed
  settling, \* send completions in progress (send_completions_in_progress_)
  down,     \* teardown: drained, complete, and the closed observer
  wire,     \* records on their way to a side
  authed,   \* the side accepted its peer's authentication
  done,     \* completions of the bootstrap so far
  todo,     \* steps of each thread
  called    \* what the other thread was asked to do

vars == <<boot, op, link, token, engine, sends, settling, down, wire, authed,
          done, todo, called>>

Do(what) == [do |-> what, ok |-> TRUE]
DoWith(what, ok) == [do |-> what, ok |-> ok]

Layers(s) == IF s = "client" THEN <<"bytes", "secure", "carrier">> ELSE <<"accept">>
Terminal == {"succeeded", "cancelled", "failed"}

Init ==
  /\ boot = [s \in Sides |-> [state |-> "created", stop |-> FALSE, engine |-> FALSE]]
  /\ op = [s \in Sides |-> "none"]
  /\ link = [s \in Sides |-> "none"]
  /\ token = [s \in Sides |-> FALSE]
  /\ engine = [s \in Sides |-> [state |-> "none", start |-> FALSE, expect |-> "none"]]
  /\ sends = [s \in Sides |-> 0]
  /\ settling = [s \in Sides |-> 0]
  /\ down = [s \in Sides |-> [drained |-> FALSE, complete |-> FALSE, observer |-> "none"]]
  /\ wire = [s \in Sides |-> <<>>]
  /\ authed = [s \in Sides |-> FALSE]
  /\ done = [s \in Sides |-> <<>>]
  /\ todo = [s \in Sides |-> [t \in Threads |-> <<>>]]
  /\ called = [s \in Sides |-> "nothing"]

BootVars == <<boot, op, token, done>>
EngineVars == <<engine, sends, settling, down, wire, authed>>

Idle(s, t) == todo[s][t] = <<>>
Next1(s, t, what) == ~Idle(s, t) /\ Head(todo[s][t]).do = what
Ok(s, t) == Head(todo[s][t]).ok

\* The step is done; steps come before what the thread still had to do.
Then(s, t, steps) == todo' = [todo EXCEPT ![s][t] = steps \o Tail(@)]
\* An idle thread begins.
Begin(s, t, steps) == Idle(s, t) /\ todo' = [todo EXCEPT ![s][t] = steps]

-----------------------------------------------------------------------------
(* The bootstrap's own steps, on its context until an engine exists.       *)

\* async_start: accepted once, and never after a cancellation.
Start(s) ==
  /\ boot[s].state = "created"
  /\ boot' = [boot EXCEPT ![s].state = Layers(s)[1]]
  /\ \E ok \in BOOLEAN :    \* the registration for external cancellation
       Begin(s, "context", <<IF ok THEN Do("begin") ELSE Do("finish")>>)
  /\ UNCHANGED <<op, link, token, EngineVars, done, called>>

\* begin_byte_channel, begin_secure_channel, ...: the provider takes what there
\* is of the transport.  It may throw, and then has let go of it.
Started(s, t) ==
  \/ op' = [op EXCEPT ![s] = boot[s].state] /\ Then(s, t, <<>>) /\ UNCHANGED link
  \/ /\ Then(s, t, <<Do("finish")>>)
     /\ link' = [link EXCEPT ![s] = IF @ = "open" THEN "closed" ELSE @]
     /\ UNCHANGED op

BeginLayers(s, t) ==
  /\ Next1(s, t, "begin")
  /\ IF boot[s].stop THEN Then(s, t, <<Do("finish")>>) /\ UNCHANGED <<op, link>>
     ELSE Started(s, t)
  /\ UNCHANGED <<boot, token, EngineVars, done, called>>

\* The provider completes, with a transport or without one.
LayerDone(s, ok) ==
  /\ op[s] # "none"
  /\ Begin(s, "context", <<DoWith("layer", ok)>>)
  /\ op' = [op EXCEPT ![s] = "none"]
  /\ link' = [link EXCEPT ![s] = IF ok THEN "open" ELSE "closed"]
  /\ UNCHANGED <<boot, token, EngineVars, done, called>>

\* on_byte_channel, on_secure_channel, on_client_carrier, on_accepted_carrier:
\* a stop or a channel of the wrong kind (refused) closes what arrived.
LayerChecked(s, t) ==
  /\ Next1(s, t, "layer")
  /\ \E refused \in BOOLEAN :
       IF boot[s].stop \/ ~Ok(s, t) \/ refused
       THEN link' = [link EXCEPT ![s] = "closed"] /\ Then(s, t, <<Do("finish")>>)
       ELSE UNCHANGED link /\ Then(s, t, <<Do("next")>>)
  /\ UNCHANGED <<BootVars, EngineVars, called>>

\* The state moves to the next layer; after the last one, to the session.
NextLayer(s, t) ==
  LET layers == Layers(s)
      i == CHOOSE n \in 1..Len(layers) : layers[n] = boot[s].state
  IN  /\ Next1(s, t, "next")
      /\ IF i < Len(layers)
         THEN /\ boot' = [boot EXCEPT ![s].state = layers[i + 1]]
              /\ Then(s, t, <<Do("wrap")>>)
         ELSE /\ boot' = [boot EXCEPT ![s].state = "creating"]
              /\ \E ready \in BOOLEAN : Then(s, t, <<DoWith("create", ready)>>)
      /\ UNCHANGED <<op, link, token, EngineVars, done, called>>

Wrap(s, t) ==
  /\ Next1(s, t, "wrap")
  /\ Started(s, t)
  /\ UNCHANGED <<boot, token, EngineVars, done, called>>

\* create_session: readiness and a stop are checked before the engine is made,
Create(s, t) ==
  /\ Next1(s, t, "create")
  /\ \E made \in BOOLEAN :
       IF boot[s].stop \/ ~Ok(s, t) \/ ~made
       THEN link' = [link EXCEPT ![s] = "closed"] /\ Then(s, t, <<Do("finish")>>)
            /\ UNCHANGED engine
       ELSE engine' = [engine EXCEPT ![s].state = "created"] /\ UNCHANGED link
            /\ Then(s, t, <<Do("publish")>>)
  /\ UNCHANGED <<BootVars, sends, settling, down, wire, authed, called>>

\* again before it is published as the starting engine,
Publish(s, t) ==
  /\ Next1(s, t, "publish")
  /\ IF boot[s].stop THEN UNCHANGED boot /\ Then(s, t, <<Do("stop"), Do("finish")>>)
     ELSE /\ Then(s, t, <<Do("launch")>>)
          /\ boot' = [boot EXCEPT ![s].engine = TRUE, ![s].state = "starting"]
  /\ UNCHANGED <<op, link, token, EngineVars, done, called>>

\* and once more after: from here on cancel() stops the engine itself.
LaunchSession(s, t) ==
  /\ Next1(s, t, "launch")
  /\ Then(s, t, <<IF boot[s].stop THEN Do("finish") ELSE Do("start")>>)
  /\ UNCHANGED <<BootVars, link, EngineVars, called>>

\* on_session_started, on whatever thread completes the start.  Out of its
\* state, it asks for failure (request_failure) as cancel() does.
SessionStarted(s, t) ==
  /\ Next1(s, t, "started")
  /\ Then(s, t, <<IF boot[s].state # "starting" THEN Do("cancel")
                  ELSE IF boot[s].stop \/ ~Ok(s, t) THEN Do("finish") ELSE Do("take")>>)
  /\ UNCHANGED <<BootVars, link, EngineVars, called>>

\* Mutant: success does not look again for a cancellation.
TakeUnchecked(s, t) ==
  /\ Next1(s, t, "take")
  /\ boot' = [boot EXCEPT ![s].state = "succeeded", ![s].engine = FALSE]
  /\ Then(s, t, <<DoWith("complete", TRUE)>>)
  /\ UNCHANGED <<op, link, token, EngineVars, done, called>>

\* Under the lock, success and cancellation exclude each other.
TakeSession(s, t) ==
  LET taken == ~boot[s].stop /\ boot[s].engine /\ engine[s].state = "active" IN
  /\ Next1(s, t, "take")
  /\ boot' = IF taken
             THEN [boot EXCEPT ![s].state = "succeeded", ![s].engine = FALSE] ELSE boot
  /\ Then(s, t, <<IF taken THEN DoWith("complete", TRUE) ELSE Do("finish")>>)
  /\ UNCHANGED <<op, link, token, EngineVars, done, called>>

\* finish_failure: the first one wins and takes the engine and the completion.
FinishFailure(s, t) ==
  LET first == boot[s].state \notin Terminal IN
  /\ Next1(s, t, "finish")
  /\ boot' = IF first
             THEN [boot EXCEPT ![s] = [state |-> IF @.stop THEN "cancelled" ELSE "failed",
                                       stop |-> FALSE, engine |-> FALSE]]
             ELSE boot
  /\ token' = [token EXCEPT ![s] = @ \/ first]
  /\ Then(s, t, IF ~first THEN <<>>
                ELSE IF boot[s].engine THEN <<Do("stop"), DoWith("complete", FALSE)>>
                ELSE <<DoWith("complete", FALSE)>>)
  /\ UNCHANGED <<op, link, EngineVars, done, called>>

\* The bootstrap's owner learns the result and observes the end of the session
\* (NativeEndpoint::State::observe_session).
Complete(s, t) ==
  /\ Next1(s, t, "complete")
  /\ done' = [done EXCEPT ![s] = Append(@, IF Ok(s, t) THEN "session" ELSE "failure")]
  /\ Then(s, t, IF Ok(s, t) THEN <<Do("observe")>> ELSE <<>>)
  /\ UNCHANGED <<boot, op, link, token, EngineVars, called>>

-----------------------------------------------------------------------------
(* The other thread.                                                       *)

\* SessionBootstrap::cancel(), and request_failure() of a callback that comes
\* out of order: the reason is recorded first, then the token and the engine,
\* if one is starting, are cancelled.
CancelBootstrap(s, t) ==
  LET before == boot[s].state IN
  /\ Next1(s, t, "cancel")
  /\ boot' = [boot EXCEPT ![s].state = IF @ = "created" THEN "cancelled" ELSE @,
                          ![s].stop = @ \/ before \notin Terminal \cup {"created"}]
  /\ Then(s, t, IF before \in Terminal THEN <<>>
                ELSE IF boot[s].engine THEN <<Do("token"), Do("stop")>>
                ELSE <<Do("token")>>)
  /\ UNCHANGED <<op, link, token, EngineVars, done, called>>

CancelToken(s, t) ==
  /\ Next1(s, t, "token")
  /\ token' = [token EXCEPT ![s] = TRUE]
  /\ Then(s, t, <<>>)
  /\ UNCHANGED <<boot, op, link, EngineVars, done, called>>

AskCancel(s) ==
  /\ called[s] = "nothing"
  /\ called' = [called EXCEPT ![s] = "cancel"]
  /\ Begin(s, "other", <<Do("cancel")>>)
  /\ UNCHANGED <<BootVars, link, EngineVars>>

AskStop(s) ==
  /\ called[s] = "nothing" /\ done[s] = <<"session">>
  /\ called' = [called EXCEPT ![s] = "stop"]
  /\ Begin(s, "other", <<Do("stop")>>)
  /\ UNCHANGED <<BootVars, link, EngineVars>>

-----------------------------------------------------------------------------
(* The engine.                                                             *)

Live(s) == engine[s].state \in {"created", "authenticating", "awaiting", "active"}

\* SessionEngine::async_start takes the completion unless stop() came first.
EngineStart(s, t) ==
  LET takes == engine[s].state = "created" IN
  /\ Next1(s, t, "start")
  /\ engine' = IF takes THEN [engine EXCEPT ![s].state = "authenticating", ![s].start = TRUE]
               ELSE engine
  /\ Then(s, t, <<IF takes THEN Do("authenticate") ELSE DoWith("started", FALSE)>>)
  /\ UNCHANGED <<BootVars, link, sends, settling, down, wire, authed, called>>

\* enqueue_record: refused once the session is terminal.
Enqueue(s, record) ==
  /\ Live(s)
  /\ wire' = [wire EXCEPT ![Peer(s)] = Append(@, record)]
  /\ sends' = [sends EXCEPT ![s] = @ + 1]

\* A step that fails goes to fail(), which is stop().
Fails(s, t) == Then(s, t, <<Do("stop")>>) /\ UNCHANGED <<engine, sends, wire, authed>>

\* initialize_security and handle_start_output: the server speaks first.
Authenticate(s, t) ==
  /\ Next1(s, t, "authenticate")
  /\ \/ Fails(s, t)
     \/ /\ IF s = "server" THEN Enqueue(s, "challenge") ELSE UNCHANGED <<wire, sends>>
        /\ engine' = [engine EXCEPT ![s].expect = IF s = "server" THEN "response" ELSE "challenge"]
        /\ Then(s, t, <<>>)
        /\ UNCHANGED authed
  /\ UNCHANGED <<BootVars, link, settling, down, called>>

\* What a live engine accepts next.
Expected(s) == IF engine[s].state = "authenticating" THEN engine[s].expect ELSE "capabilities"

\* on_receive, process_received: the record must be the one expected.
Receive(s) ==
  /\ wire[s] # <<>> /\ Live(s) /\ engine[s].expect # "none" /\ link[s] = "open"
  /\ Begin(s, "context",
       <<IF Head(wire[s]) # Expected(s) THEN Do("stop")
         ELSE IF Head(wire[s]) = "capabilities" THEN Do("capabilities") ELSE Do(Head(wire[s]))>>)
  /\ wire' = [wire EXCEPT ![s] = Tail(@)]
  /\ UNCHANGED <<BootVars, link, engine, sends, settling, down, authed, called>>

\* handle_authentication_record, the challenge: the client answers.
Challenge(s, t) ==
  /\ Next1(s, t, "challenge")
  /\ \/ Fails(s, t)
     \/ /\ Enqueue(s, "response")
        /\ engine' = [engine EXCEPT ![s].expect = "accepted"]
        /\ Then(s, t, <<>>)
        /\ UNCHANGED authed
  /\ UNCHANGED <<BootVars, link, settling, down, called>>

\* Mutant: the capabilities go out before the acceptance.
ResponseSwapped(s, t) ==
  /\ Next1(s, t, "response")
  /\ IF Live(s)
     THEN /\ wire' = [wire EXCEPT ![Peer(s)] = @ \o <<"capabilities", "accepted">>]
          /\ sends' = [sends EXCEPT ![s] = @ + 2]
          /\ Then(s, t, <<Do("accepted")>>)
          /\ UNCHANGED <<engine, authed>>
     ELSE Fails(s, t)
  /\ UNCHANGED <<BootVars, link, settling, down, called>>

\* The response: the server sends its acceptance before it changes state.
Response(s, t) ==
  /\ Next1(s, t, "response")
  /\ \/ Fails(s, t)
     \/ Enqueue(s, "accepted") /\ Then(s, t, <<Do("accepted")>>) /\ UNCHANGED <<engine, authed>>
  /\ UNCHANGED <<BootVars, link, settling, down, called>>

\* accept_established_output, after the provider accepted the peer.
Accept(s, t) ==
  /\ Next1(s, t, "accepted")
  /\ \/ /\ engine[s].state = "authenticating"
        /\ engine' = [engine EXCEPT ![s].state = "awaiting"]
        /\ authed' = [authed EXCEPT ![s] = TRUE]
        /\ Then(s, t, <<Do("advertise")>>)
        /\ UNCHANGED <<sends, wire>>
     \/ Fails(s, t)
  /\ UNCHANGED <<BootVars, link, settling, down, called>>

\* advertise_post_authentication_state.
Advertise(s, t) ==
  /\ Next1(s, t, "advertise")
  /\ \/ Fails(s, t)
     \/ Enqueue(s, "capabilities") /\ Then(s, t, <<>>) /\ UNCHANGED <<engine, authed>>
  /\ UNCHANGED <<BootVars, link, settling, down, called>>

\* process_capabilities: active, and the start completes.
Capabilities(s, t) ==
  /\ Next1(s, t, "capabilities")
  /\ IF engine[s].state = "awaiting"
     THEN /\ engine' = [engine EXCEPT ![s].state = "active", ![s].start = FALSE]
          /\ Then(s, t, <<DoWith("started", TRUE)>>)
          /\ UNCHANGED <<sends, wire, authed>>
     ELSE Fails(s, t)
  /\ UNCHANGED <<BootVars, link, settling, down, called>>

\* The carrier ends: a receive or a send completes with an error.
CarrierEnds(s) ==
  /\ Live(s) /\ engine[s].expect # "none"
  /\ Begin(s, "context", <<Do("stop")>>)
  /\ UNCHANGED <<BootVars, link, EngineVars, called>>

\* on_send_complete: between taking the record off and settling its completion
\* the thread owns something that stop() does not see.
SendDone(s) ==
  /\ sends[s] > 0 /\ Live(s)
  /\ Begin(s, "context", <<Do("settle")>>)
  /\ sends' = [sends EXCEPT ![s] = @ - 1]
  /\ settling' = [settling EXCEPT ![s] = @ + 1]
  /\ UNCHANGED <<BootVars, link, engine, down, wire, authed, called>>

Settle(s, t) ==
  /\ Next1(s, t, "settle")
  /\ settling' = [settling EXCEPT ![s] = @ - 1]
  /\ Then(s, t, <<Do("notify")>>)
  /\ UNCHANGED <<BootVars, link, engine, sends, down, wire, authed, called>>

\* Mutant: stop leaves the start completion for the receive path.
StopKeepsStart(s, t) ==
  /\ Next1(s, t, "stop")
  /\ engine' = IF Live(s) THEN [engine EXCEPT ![s].state = "closed"] ELSE engine
  /\ sends' = [sends EXCEPT ![s] = IF Live(s) THEN 0 ELSE @]
  /\ Then(s, t, IF Live(s) THEN <<Do("close"), Do("drained"), Do("notify")>> ELSE <<>>)
  /\ UNCHANGED <<BootVars, link, settling, down, wire, authed, called>>

\* stop(): once; it takes the start completion and the records still queued.
Stop(s, t) ==
  /\ Next1(s, t, "stop")
  /\ engine' = IF Live(s) THEN [engine EXCEPT ![s].state = "closed", ![s].start = FALSE]
               ELSE engine
  /\ sends' = [sends EXCEPT ![s] = IF Live(s) THEN 0 ELSE @]
  /\ Then(s, t, IF ~Live(s) THEN <<>>
                ELSE IF engine[s].start
                THEN <<Do("close"), DoWith("started", FALSE), Do("drained"), Do("notify")>>
                ELSE <<Do("close"), Do("drained"), Do("notify")>>)
  /\ UNCHANGED <<BootVars, link, settling, down, wire, authed, called>>

\* carrier_->close(), outside the lock.
CloseCarrier(s, t) ==
  /\ Next1(s, t, "close")
  /\ link' = [link EXCEPT ![s] = "closed"]
  /\ Then(s, t, <<>>)
  /\ UNCHANGED <<BootVars, EngineVars, called>>

Drained(s, t) ==
  /\ Next1(s, t, "drained")
  /\ down' = [down EXCEPT ![s].drained = TRUE]
  /\ Then(s, t, <<>>)
  /\ UNCHANGED <<BootVars, link, engine, sends, settling, wire, authed, called>>

\* notify_if_teardown_complete.
Notify(s, t) ==
  LET last == down[s].drained /\ ~down[s].complete /\ settling[s] = 0 IN
  /\ Next1(s, t, "notify")
  /\ down' = IF last THEN [down EXCEPT ![s].complete = TRUE,
                             ![s].observer = IF @ = "set" THEN "called" ELSE @]
             ELSE down
  /\ Then(s, t, <<>>)
  /\ UNCHANGED <<BootVars, link, engine, sends, settling, wire, authed, called>>

\* notify_when_closed: at once if teardown is complete already.
Observe(s, t) ==
  /\ Next1(s, t, "observe")
  /\ down' = [down EXCEPT ![s].observer = IF down[s].complete THEN "called" ELSE "set"]
  /\ Then(s, t, <<>>)
  /\ UNCHANGED <<BootVars, link, engine, sends, settling, wire, authed, called>>

-----------------------------------------------------------------------------
ThreadStep(s, t) ==
  \/ BeginLayers(s, t) \/ LayerChecked(s, t) \/ NextLayer(s, t) \/ Wrap(s, t)
  \/ Create(s, t) \/ Publish(s, t) \/ LaunchSession(s, t) \/ SessionStarted(s, t)
  \/ TakeSession(s, t) \/ FinishFailure(s, t) \/ Complete(s, t)
  \/ CancelBootstrap(s, t) \/ CancelToken(s, t)
  \/ EngineStart(s, t) \/ Authenticate(s, t) \/ Challenge(s, t) \/ Response(s, t)
  \/ Accept(s, t) \/ Advertise(s, t) \/ Capabilities(s, t) \/ Settle(s, t)
  \/ Stop(s, t) \/ CloseCarrier(s, t) \/ Drained(s, t) \/ Notify(s, t) \/ Observe(s, t)

Events(s) ==
  \/ Start(s) \/ AskCancel(s) \/ AskStop(s) \/ Receive(s) \/ CarrierEnds(s) \/ SendDone(s)
  \/ \E ok \in BOOLEAN : LayerDone(s, ok)

Next == \E s \in Sides : Events(s) \/ \E t \in Threads : ThreadStep(s, t)

Spec == Init /\ [][Next]_vars

-----------------------------------------------------------------------------
AtRest(s) == \A t \in Threads : Idle(s, t)

\* The owner of a bootstrap that was started hears once, and what it hears is
\* true: no session is delivered once cancel() has recorded its reason, and after
\* a failure nothing of the attempt is left open, whichever thread
\* cancelled it and whatever layer it had reached.
CompletesOnce ==
  \A s \in Sides :
    /\ Len(done[s]) <= 1
    /\ done[s] = <<"session">> => ~boot[s].stop
    /\ AtRest(s) /\ done[s] = <<"failure">> => link[s] # "open" /\ ~Live(s) /\ op[s] = "none"
    /\ AtRest(s) /\ boot[s].state \in {"succeeded", "failed"} => done[s] # <<>>

\* The records of two sides that follow the protocol arrive in the order the
\* receiver's states ask for, although the server sends its acceptance, changes
\* state and advertises in separate steps.
RecordsExpected ==
  \A s \in Sides :
    Idle(s, "context") /\ Live(s) /\ engine[s].expect # "none" /\ wire[s] # <<>>
      => Head(wire[s]) = Expected(s)

\* A session is active only when both sides have authenticated each other.
BothAuthenticated ==
  \A s \in Sides : engine[s].state = "active" => authed[s] /\ authed[Peer(s)]

\* The two sides go through the handshake in step.
HandshakeInStep == RecordsExpected /\ BothAuthenticated

\* The end of a session is reported last: nothing of it runs or is held when
\* the observer hears of it.
ClosedIsLast ==
  \A s \in Sides :
    down[s].complete => /\ engine[s].state = "closed" /\ link[s] = "closed"
                        /\ settling[s] = 0

\* What the owner of an attempt or of a session is told is true, and told once.
ReportsAreTrue == CompletesOnce /\ ClosedIsLast

\* Nobody waits for what will not come.  With its threads idle and no operation
\* left that a cancelled token obliges a provider to settle, a side has no
\* cancellation its owner has not heard of, and no ended session whose end it
\* has not heard of.  Behaviours of this model are finite, so this is what
\* eventually happens.
SettledAtRest ==
  \A s \in Sides :
    AtRest(s) /\ ~(token[s] /\ op[s] # "none")
      => ~boot[s].stop /\ ~(down[s].observer = "set" /\ engine[s].state = "closed")
=============================================================================

---------------------------- MODULE ServerSessions ----------------------------
(***************************************************************************)
(* The sessions of a native server: src/src/runtime/native_endpoint.cpp    *)
(* (slots, admission of identities, replacement, credential reload, close) *)
(* with its accept scheduler and session registry, under the runtime of    *)
(* native_server_runtime.cpp that runs one endpoint per event loop.        *)
(*                                                                         *)
(* Every loop is one thread.  What happens between two of its waits on a   *)
(* lock or an atomic that another thread also uses is one step; task[l]    *)
(* says where the thread of loop l stands.  A server with a cluster has a  *)
(* single endpoint and no share (served = FALSE).  The SessionBootstrap    *)
(* behind a pending start, and the engine behind a session, appear through *)
(* what they promise: a start settles once, and always after its listener  *)
(* closed or it was cancelled; a stopped engine is eventually torn down    *)
(* and then submits its notice once.                                       *)
(***************************************************************************)
EXTENDS AcceptScheduler, SessionRegistry

CONSTANTS LoopCount,    \* event loops; loop 1 is the runtime's own context
          SlotCount,    \* the server's max_sessions
          Ids,          \* authenticated identities
          FirstPolicy,  \* the authorization policy the server starts with
          Policies,     \* the ones a reload may publish
          MaxSessions,  \* bound on the sessions established in a behaviour
          MaxReloads    \* bound on credential reloads

Loops == 1..LoopCount
Main == 1
Slots == 1..SlotCount
NoId == "none"

ASSUME SizeAssumption ==
  LoopCount \in Nat \ {0} /\ SlotCount \in Nat \ {0} /\ MaxSessions \in Nat
ASSUME PolicyAssumption ==
  \A p \in Policies \cup {FirstPolicy} : p.known \subseteq Ids /\ p.limit \in Nat

VARIABLES
  served,    \* the endpoints share a NativeServerShare
  slot,      \* slot[l][s]: a Slot of loop l's endpoint; gen stands for its
             \* generation and its admission number, and is that of its engine
  engine,    \* engine[g]: the g-th engine that a start made
  lane,      \* the accept scheduler's lane of each endpoint's listener
  registry,  \* SessionRegistry entries in admission order
  policy,    \* PolicyHolder: the policy published last
  mail,      \* mail[l]: control tasks submitted to loop l, oldest first
  marked,    \* replace_queued of each endpoint
  closing,   \* closing of each endpoint
  door,      \* whether each endpoint's listener is open
  task,      \* what each loop's thread is doing
  runtime,   \* the server runtime: its own closing, failure claim and stop
  exited,    \* loops whose context has drained and whose thread has ended
  sessions, reloads  \* established sessions and reloads so far

vars == <<served, slot, engine, lane, registry, policy, mail, marked, closing,
          door, task, runtime, exited, sessions, reloads>>

Idle == [pc |-> "idle"]
FreeSlot == [gen |-> 0, starting |-> FALSE, held |-> FALSE, id |-> NoId, evicted |-> FALSE]
ActiveLoops == IF served THEN Loops ELSE {Main}

Init ==
  /\ served \in BOOLEAN
  /\ slot = [l \in Loops |-> [s \in Slots |-> FreeSlot]]
  /\ engine = [g \in 1..MaxSessions |-> [st |-> "none", loop |-> Main, slot |-> 1]]
  /\ lane = [l \in Loops |-> IdleLane]
  /\ registry = <<>>
  /\ policy = FirstPolicy
  /\ mail = [l \in Loops |-> <<>>]
  /\ marked = [l \in Loops |-> FALSE]
  /\ closing = [l \in Loops |-> FALSE]
  /\ door = [l \in Loops |-> TRUE]
  /\ task = [l \in Loops |-> IF l = Main THEN [pc |-> "launch", next |-> Main]
                             ELSE Idle]
  /\ runtime = [closing |-> FALSE, claimed |-> FALSE, stopped |-> FALSE]
  /\ exited = {}
  /\ sessions = 0
  /\ reloads = 0

-----------------------------------------------------------------------------
(* The control mailbox (control_task.hpp, asio_execution_context.cpp): a   *)
(* task already queued is not queued twice.                                *)

Task(kind) == [kind |-> kind]
Notice(s, g) == [kind |-> "ended", slot |-> s, gen |-> g]

Submitted(box, l, t) ==
  IF \E i \in DOMAIN box[l] : box[l][i] = t THEN box
  ELSE [box EXCEPT ![l] = Append(@, t)]

At(l, pc) == task[l].pc = pc
ThreadIdle(l) == At(l, "idle") /\ ~lane[l].arming /\ l \notin exited
Become(l, t) == task' = [task EXCEPT ![l] = t]

Stoppable(l, s) == slot[l][s].held /\ ~slot[l][s].evicted

\* SessionEngine::stop on the sessions in the slots S of loop l.
Stopped(l, S) ==
  engine' = [g \in DOMAIN engine |->
               IF /\ engine[g].st = "active"
                  /\ \E s \in S : slot[l][s].held /\ slot[l][s].gen = g
               THEN [engine[g] EXCEPT !.st = "stopping"] ELSE engine[g]]

Evicted(l, S) ==
  slot' = [slot EXCEPT ![l] =
             [s \in Slots |-> [slot[l][s] EXCEPT !.evicted = @ \/ s \in S]]]

Entry(l, s) == [loop |-> l, slot |-> s, gen |-> slot[l][s].gen,
                id |-> slot[l][s].id, replaced |-> FALSE]

\* failed(): the scheduler's report closes the endpoint, and the first loop
\* to fail hands its status to the runtime's context.
LaneBecomes(l, next, box) ==
  LET fails == lane[l].phase = "running" /\ next.phase = "failed"
      close == fails /\ ~closing[l]
      claim == fails /\ ~runtime.claimed
      one   == IF close THEN Submitted(box, l, Task("close")) ELSE box
  IN  /\ lane' = [lane EXCEPT ![l] = next]
      /\ closing' = [closing EXCEPT ![l] = @ \/ fails]
      /\ mail' = IF claim THEN Submitted(one, Main, Task("stop")) ELSE one
      /\ runtime' = [runtime EXCEPT !.claimed = @ \/ fails]

\* settled()'s last call: the automatic start reports to the scheduler.
Reports(l, ok, box) ==
  \E next \in Settled(lane[l], closing[l], ~door[l], ok) : LaneBecomes(l, next, box)

-----------------------------------------------------------------------------
(* Starts.  NativeServerRuntime::start launches the loops one after the    *)
(* other, the main thread waiting for each.                                *)

Launch(l) ==
  /\ At(Main, "launch") /\ task[Main].next = l /\ lane[l].phase = "idle"
  /\ lane' = [lane EXCEPT ![l] = Started(@)]
  /\ UNCHANGED <<served, slot, engine, registry, policy, mail, marked, closing,
                 door, task, runtime, exited, sessions, reloads>>

Launched(l) ==
  /\ At(Main, "launch") /\ task[Main].next = l
  /\ lane[l].phase # "idle" /\ ~lane[l].arming
  /\ Become(Main, IF l + 1 \in ActiveLoops THEN [pc |-> "launch", next |-> l + 1]
                  ELSE Idle)
  /\ UNCHANGED <<served, slot, engine, lane, registry, policy, mail, marked,
                 closing, door, runtime, exited, sessions, reloads>>

\* Only the arming pass of the loop runs while it arms its lane.
Arming(l) == lane[l].arming /\ l \notin exited

\* serve_on_loops splits the sessions evenly among the loops' endpoints.
Capacity ==
  IF served THEN Max({PendingPerLane, (SlotCount + LoopCount - 1) \div LoopCount})
  ELSE SlotCount

FreeSlots(l) ==
  {s \in Slots : s <= Capacity /\ ~slot[l][s].starting /\ ~slot[l][s].held}
\* begin_start takes the first free slot.
NextSlot(l) == Min(FreeSlots(l))

\* begin_start: the start is accepted and waits for a carrier.
StartAccept(l) ==
  /\ Arming(l) /\ Wants(lane[l], closing[l]) /\ FreeSlots(l) # {}
  /\ LET s == NextSlot(l) IN
     slot' = [slot EXCEPT ![l][s] = [FreeSlot EXCEPT !.gen = slot[l][s].gen,
                                                     !.starting = TRUE]]
  /\ lane' = [lane EXCEPT ![l] = Starting(@)]
  /\ UNCHANGED <<served, engine, registry, policy, mail, marked, closing, door,
                 task, runtime, exited, sessions, reloads>>

\* begin_start: accepted, and the bootstrap fails before async_start returns.
\* The scheduler hears of it inside its own arming pass.
StartFailsInline(l) ==
  /\ Arming(l) /\ Wants(lane[l], closing[l]) /\ FreeSlots(l) # {}
  /\ \E next \in Settled(Starting(lane[l]), closing[l], ~door[l], FALSE) :
       LaneBecomes(l, next, mail)
  /\ UNCHANGED <<served, slot, engine, registry, policy, marked, door, task,
                 exited, sessions, reloads>>

\* begin_start refuses: no free slot, or the bootstrap could not be made.
StartRefused(l) ==
  /\ Arming(l) /\ Wants(lane[l], closing[l])
  /\ \E next \in Refused(Starting(lane[l]), closing[l]) : LaneBecomes(l, next, mail)
  /\ UNCHANGED <<served, slot, engine, registry, policy, marked, door, task,
                 exited, sessions, reloads>>

PassDone(l) ==
  /\ Arming(l) /\ ~Wants(lane[l], closing[l])
  /\ lane' = [lane EXCEPT ![l] = PassEnds(@)]
  /\ UNCHANGED <<served, slot, engine, registry, policy, mail, marked, closing,
                 door, task, runtime, exited, sessions, reloads>>

RetryFires(l) ==
  /\ ThreadIdle(l) /\ lane[l].retry
  /\ lane' = [lane EXCEPT ![l] = RetryDue(@)]
  /\ UNCHANGED <<served, slot, engine, registry, policy, mail, marked, closing,
                 door, task, runtime, exited, sessions, reloads>>

-----------------------------------------------------------------------------
(* settled(), on the loop's thread, cut where it meets other threads.      *)

\* settled() with a failure.
StartFails(l, s) ==
  /\ ThreadIdle(l) /\ slot[l][s].starting
  /\ slot' = [slot EXCEPT ![l][s].starting = FALSE]
  /\ Reports(l, FALSE, mail)
  /\ UNCHANGED <<served, engine, registry, policy, marked, door, task, exited,
                 sessions, reloads>>

\* settled() with an engine for identity id.  A session that arrives on a
\* closing endpoint, or past the deadline that carrier_ready armed (overrun:
\* whether or not the timer's handler ran first and cancelled the bootstrap),
\* is stopped before anything watches it.
StartSucceeds(l, s, id, overrun) ==
  /\ ThreadIdle(l) /\ slot[l][s].starting
  /\ sessions < MaxSessions
  /\ IF closing[l] \/ overrun
     THEN /\ slot' = [slot EXCEPT ![l][s].starting = FALSE]
          /\ Reports(l, FALSE, mail)
          /\ UNCHANGED <<engine, task, sessions>>
     ELSE /\ sessions' = sessions + 1
          /\ slot' = [slot EXCEPT ![l][s] = [FreeSlot EXCEPT !.gen = sessions',
                                                            !.held = TRUE, !.id = id]]
          /\ engine' = [engine EXCEPT ![sessions'] =
                                [st |-> "active", loop |-> l, slot |-> s]]
          /\ Become(l, [pc |-> "watch", slot |-> s])
          /\ UNCHANGED <<lane, closing, mail, runtime>>
  /\ UNCHANGED <<served, registry, policy, marked, door, exited, reloads>>

\* A refused session leaves the slot and is stopped; its notice still comes.
Refuses(l, s) ==
  /\ Stopped(l, {s})
  /\ slot' = [slot EXCEPT ![l][s].held = FALSE]
  /\ Reports(l, FALSE, mail)
  /\ Become(l, Idle)

\* observe_session, observe_epochs, arm_rekey_watchdog: refused on a closing
\* endpoint or when a notice or the timer cannot be allocated (fails).
Watch(l, fails) ==
  /\ At(l, "watch")
  /\ IF closing[l] \/ fails THEN Refuses(l, task[l].slot)
     ELSE /\ Become(l, [task[l] EXCEPT !.pc = "policy"])
          /\ UNCHANGED <<slot, engine, lane, closing, mail, runtime>>
  /\ UNCHANGED <<served, registry, policy, marked, door, exited, sessions, reloads>>

\* evict_beyond_limit: the slots of the identity's oldest sessions beyond the
\* limit, zero meaning no bound.
BeyondLimit(l, id, limit) ==
  LET mine == {s \in Slots : Stoppable(l, s) /\ slot[l][s].id = id}
  IN  IF limit = 0 THEN {}
      ELSE {s \in mine : Cardinality({t \in mine : slot[l][t].gen > slot[l][s].gen})
                          >= limit}

\* Mutant: a session authenticated before a reload is not checked against it.
ReadPolicyUnchecked(l) ==
  /\ At(l, "policy")
  /\ Become(l, [pc |-> "admit", slot |-> task[l].slot, limit |-> policy.limit])
  /\ UNCHANGED <<slot, engine, lane, closing, mail, runtime>>
  /\ UNCHANGED <<served, registry, policy, marked, door, exited, sessions, reloads>>

\* admit_identity: the policy is read once, here.
ReadPolicy(l) ==
  /\ At(l, "policy")
  /\ LET s == task[l].slot IN
     IF slot[l][s].id \notin policy.known
     THEN Refuses(l, s)
     ELSE /\ Become(l, [pc |-> "admit", slot |-> s, limit |-> policy.limit])
          /\ UNCHANGED <<slot, engine, lane, closing, mail, runtime>>
  /\ UNCHANGED <<served, registry, policy, marked, door, exited, sessions, reloads>>

\* admit_identity on a served endpoint: SessionRegistry::admit.
Admit(l) ==
  /\ served /\ At(l, "admit")
  /\ LET entry == Entry(l, task[l].slot) IN
     /\ registry' = Admitted(registry, entry, task[l].limit)
     /\ Become(l, [pc |-> "tell", then |-> "report",
                   owners |-> AdmitOwners(registry, entry, task[l].limit)])
  /\ UNCHANGED <<served, slot, engine, lane, policy, mail, marked, closing, door,
                 runtime, exited, sessions, reloads>>

\* admit_identity without a share: evict_beyond_limit, all on this thread.
AdmitAlone(l) ==
  /\ ~served /\ At(l, "admit")
  /\ LET gone == BeyondLimit(l, slot[l][task[l].slot].id, task[l].limit)
     IN  Evicted(l, gone) /\ Stopped(l, gone)
  /\ Become(l, [pc |-> "tell", then |-> "report", owners |-> {}])
  /\ UNCHANGED <<served, lane, registry, policy, mail, marked, closing, door,
                 runtime, exited, sessions, reloads>>

\* replacements_marked() of one owner, outside the registry's lock.
Tell(l, o) ==
  /\ At(l, "tell") /\ o \in task[l].owners
  /\ marked' = [marked EXCEPT ![o] = TRUE]
  /\ mail' = IF marked[o] THEN mail ELSE Submitted(mail, o, Task("replace"))
  /\ Become(l, [task[l] EXCEPT !.owners = @ \ {o}])
  /\ UNCHANGED <<served, slot, engine, lane, registry, policy, closing, door,
                 runtime, exited, sessions, reloads>>

\* The session is established: settled() reports success.
Established(l) ==
  /\ At(l, "tell") /\ task[l].owners = {} /\ task[l].then = "report"
  /\ Become(l, Idle)
  /\ Reports(l, TRUE, mail)
  /\ UNCHANGED <<served, slot, engine, registry, policy, marked, door, exited,
                 sessions, reloads>>

-----------------------------------------------------------------------------
(* The engine's side.                                                      *)

\* The peer goes, or the session fails: the engine stops itself.
EngineFails(g) ==
  /\ engine[g].st = "active"
  /\ engine' = [engine EXCEPT ![g].st = "stopping"]
  /\ UNCHANGED <<served, slot, lane, registry, policy, mail, marked, closing,
                 door, task, runtime, exited, sessions, reloads>>

\* Teardown is complete, on any thread: once settled() has asked to be told,
\* the engine submits its notice to the loop of its slot.
EngineCloses(g) ==
  LET e == engine[g] IN
  /\ e.st = "stopping"
  /\ ~(At(e.loop, "watch") /\ task[e.loop].slot = e.slot /\ slot[e.loop][e.slot].gen = g)
  /\ engine' = [engine EXCEPT ![g].st = "closed"]
  /\ mail' = Submitted(mail, e.loop, Notice(e.slot, g))
  /\ UNCHANGED <<served, slot, lane, registry, policy, marked, closing, door,
                 task, runtime, exited, sessions, reloads>>

-----------------------------------------------------------------------------
(* The control tasks, each popped by the loop's own thread.                *)

Pops(l, kind) ==
  /\ ThreadIdle(l) /\ mail[l] # <<>> /\ Head(mail[l]).kind = kind

Popped(l) == [mail EXCEPT ![l] = Tail(@)]

\* Mutant: the notice does not compare generations.
CurrentNoticeUnchecked(l, n) == slot[l][n.slot].held

\* ended(): a notice for an earlier generation, or for a session that was
\* refused, changes nothing.
CurrentNotice(l, n) == slot[l][n.slot].held /\ slot[l][n.slot].gen = n.gen

Ended(l) ==
  /\ Pops(l, "ended")
  /\ mail' = Popped(l)
  /\ LET n == Head(mail[l]) IN
     IF CurrentNotice(l, n)
     THEN /\ slot' = [slot EXCEPT ![l][n.slot].held = FALSE]
          /\ registry' = IF served THEN Forgotten(registry, Entry(l, n.slot))
                         ELSE registry
     ELSE UNCHANGED <<slot, registry>>
  /\ UNCHANGED <<served, engine, lane, policy, marked, closing, door, task,
                 runtime, exited, sessions, reloads>>

\* replace_on_context: the queued flag clears before the slots are read, so a
\* mark made meanwhile queues the task again.
ReplaceBegins(l) ==
  /\ Pops(l, "replace")
  /\ mail' = Popped(l)
  /\ marked' = [marked EXCEPT ![l] = FALSE]
  /\ Become(l, [pc |-> "replace"])
  /\ UNCHANGED <<served, slot, engine, lane, registry, policy, closing, door,
                 runtime, exited, sessions, reloads>>

ReplaceStops(l) ==
  /\ At(l, "replace")
  /\ LET gone == {s \in Slots : Stoppable(l, s) /\ IsReplaced(registry, Entry(l, s))}
     IN  Evicted(l, gone) /\ Stopped(l, gone)
  /\ Become(l, Idle)
  /\ UNCHANGED <<served, lane, registry, policy, mail, marked, closing, door,
                 runtime, exited, sessions, reloads>>

\* Mutant: closing leaves the established sessions running.
CloseOnContextKeepsSessions(l) ==
  /\ Pops(l, "close")
  /\ mail' = Popped(l)
  /\ door' = [door EXCEPT ![l] = FALSE]
  /\ UNCHANGED <<served, slot, engine, lane, registry, policy, marked, closing, task,
                 runtime, exited, sessions, reloads>>

\* close_on_context: the listener closes, retry timers are cancelled (their
\* handlers still run), pending starts are cancelled and sessions stopped.
CloseOnContext(l) ==
  /\ Pops(l, "close")
  /\ mail' = Popped(l)
  /\ door' = [door EXCEPT ![l] = FALSE]
  /\ Stopped(l, Slots)
  /\ UNCHANGED <<served, slot, lane, registry, policy, marked, closing, task,
                 runtime, exited, sessions, reloads>>

\* end_unrecognized: the policy is read once; sessions it does not recognize
\* are stopped, then the identities of the others are trimmed.
Sweep(l, then) ==
  IF closing[l]
  THEN Become(l, then) /\ UNCHANGED <<slot, engine>>
  ELSE LET gone == {s \in Slots : Stoppable(l, s) /\ slot[l][s].id \notin policy.known}
           over == IF served THEN {}
                   ELSE UNION {BeyondLimit(l, id, policy.limit) : id \in policy.known}
       IN  /\ Evicted(l, gone \cup over) /\ Stopped(l, gone \cup over)
           /\ Become(l, IF served
                        THEN [pc |-> "trim", limit |-> policy.limit, then |-> then,
                              ids |-> {slot[l][s].id : s \in
                                         {t \in Slots : Stoppable(l, t)} \ gone}]
                        ELSE then)

SweepTask(l) ==
  /\ Pops(l, "sweep")
  /\ mail' = Popped(l)
  /\ Sweep(l, Idle)
  /\ UNCHANGED <<served, lane, registry, policy, marked, closing, door, runtime,
                 exited, sessions, reloads>>

\* SessionRegistry::trim marks one session per turn of its loop, under the
\* lock, and tells the owner after it.
Trim(l, id) ==
  /\ At(l, "trim") /\ id \in task[l].ids
  /\ LET victims == TrimVictims(registry, id, task[l].limit) IN
     /\ registry' = Marked(registry, victims)
     /\ Become(l, IF victims = {} THEN [task[l] EXCEPT !.ids = @ \ {id}]
                  ELSE [pc |-> "tell", then |-> "trim", trim |-> task[l],
                        owners |-> {registry[v].loop : v \in victims}])
  /\ UNCHANGED <<served, slot, engine, lane, policy, mail, marked, closing, door,
                 runtime, exited, sessions, reloads>>

TrimGoesOn(l) ==
  /\ At(l, "tell") /\ task[l].owners = {} /\ task[l].then = "trim"
  /\ Become(l, task[l].trim)
  /\ UNCHANGED <<served, slot, engine, lane, registry, policy, mail, marked,
                 closing, door, runtime, exited, sessions, reloads>>

Trimmed(l) ==
  /\ At(l, "trim") /\ task[l].ids = {}
  /\ Become(l, task[l].then)
  /\ UNCHANGED <<served, slot, engine, lane, registry, policy, mail, marked,
                 closing, door, runtime, exited, sessions, reloads>>

-----------------------------------------------------------------------------
(* The runtime, on the main loop's thread.                                 *)

\* reload(): the new credentials are published first; a reload that fails
\* before that changes nothing and is not a step.
Reload(p) ==
  /\ ThreadIdle(Main) /\ ~runtime.closing /\ ~closing[Main]
  /\ reloads < MaxReloads
  /\ policy' = p
  /\ reloads' = reloads + 1
  /\ Become(Main, [pc |-> "reload"])
  /\ UNCHANGED <<served, slot, engine, lane, registry, mail, marked, closing,
                 door, runtime, exited, sessions>>

\* Then this loop's sessions are swept,
ReloadSweeps ==
  /\ At(Main, "reload")
  /\ Sweep(Main, [pc |-> "fanout", todo |-> ActiveLoops \ {Main}])
  /\ UNCHANGED <<served, lane, registry, policy, mail, marked, closing, door,
                 runtime, exited, sessions, reloads>>

\* and every other endpoint is asked to (request_sweep).
FanOut(l) ==
  /\ At(Main, "fanout") /\ l \in task[Main].todo
  /\ mail' = IF closing[l] THEN mail ELSE Submitted(mail, l, Task("sweep"))
  /\ Become(Main, [task[Main] EXCEPT !.todo = @ \ {l}])
  /\ UNCHANGED <<served, slot, engine, lane, registry, policy, marked, closing,
                 door, runtime, exited, sessions, reloads>>

\* close(): each endpoint is asked to close (request_close, once).
RuntimeClose ==
  /\ ThreadIdle(Main) /\ ~runtime.closing
  /\ runtime' = [runtime EXCEPT !.closing = TRUE]
  /\ Become(Main, [pc |-> "closing", todo |-> ActiveLoops])
  /\ UNCHANGED <<served, slot, engine, lane, registry, policy, mail, marked,
                 closing, door, exited, sessions, reloads>>

CloseLoop(l) ==
  /\ At(Main, "closing") /\ l \in task[Main].todo
  /\ closing' = [closing EXCEPT ![l] = TRUE]
  /\ mail' = IF closing[l] THEN mail ELSE Submitted(mail, l, Task("close"))
  /\ Become(Main, [task[Main] EXCEPT !.todo = @ \ {l}])
  /\ UNCHANGED <<served, slot, engine, lane, registry, policy, marked, door,
                 runtime, exited, sessions, reloads>>

\* The reload's or the close's round over the loops is over.
RoundDone ==
  /\ task[Main].pc \in {"fanout", "closing"} /\ task[Main].todo = {}
  /\ Become(Main, Idle)
  /\ UNCHANGED <<served, slot, engine, lane, registry, policy, mail, marked,
                 closing, door, runtime, exited, sessions, reloads>>

\* accept_failure_task: on_stopped runs once, and its owner closes the server.
StopTask ==
  /\ Pops(Main, "stop")
  /\ mail' = Popped(Main)
  /\ runtime' = [runtime EXCEPT !.stopped = TRUE]
  /\ UNCHANGED <<served, slot, engine, lane, registry, policy, marked, closing,
                 door, task, exited, sessions, reloads>>

\* The listener of an endpoint without a share stops accepting by itself.
ListenerStops ==
  /\ ~served /\ door[Main]
  /\ door' = [door EXCEPT ![Main] = FALSE]
  /\ UNCHANGED <<served, slot, engine, lane, registry, policy, mail, marked,
                 closing, task, runtime, exited, sessions, reloads>>

\* A loop with nothing left: its work guard was released by close(), no start,
\* session, retry timer or task keeps its context running.
Drained(l) ==
  /\ ThreadIdle(l) /\ mail[l] = <<>> /\ ~lane[l].retry
  /\ \A s \in Slots : ~slot[l][s].starting /\ ~slot[l][s].held
  /\ \A g \in DOMAIN engine :
        engine[g].st \in {"active", "stopping"} => engine[g].loop # l

\* WorkerExits: the main context runs until every worker has drained.
LoopExits(l) ==
  /\ runtime.closing /\ Drained(l)
  /\ ~At(Main, "closing")
  /\ l = Main => ActiveLoops \subseteq exited \cup {Main}
  /\ exited' = exited \cup {l}
  /\ UNCHANGED <<served, slot, engine, lane, registry, policy, mail, marked,
                 closing, door, task, runtime, sessions, reloads>>

Terminated == ActiveLoops \subseteq exited /\ UNCHANGED vars

-----------------------------------------------------------------------------
\* What the thread of loop l does by itself, nothing from outside deciding it.
ThreadStep(l) ==
  \/ Launch(l) \/ Launched(l)
  \/ StartAccept(l) \/ StartFailsInline(l) \/ StartRefused(l) \/ PassDone(l)
  \/ RetryFires(l)
  \/ \E fails \in BOOLEAN : Watch(l, fails)
  \/ ReadPolicy(l) \/ Admit(l) \/ AdmitAlone(l) \/ Established(l)
  \/ \E o \in Loops : Tell(l, o)
  \/ Ended(l) \/ ReplaceBegins(l) \/ ReplaceStops(l) \/ CloseOnContext(l)
  \/ SweepTask(l) \/ TrimGoesOn(l) \/ Trimmed(l)
  \/ \E id \in Ids : Trim(l, id)
  \/ LoopExits(l)

MainStep ==
  \/ ReloadSweeps \/ RoundDone \/ StopTask
  \/ \E l \in Loops : FanOut(l) \/ CloseLoop(l)

\* What peers, operators and the clock do.
Arrivals(l, s) ==
  \/ StartFails(l, s)
  \/ \E id \in Ids, overrun \in BOOLEAN : StartSucceeds(l, s, id, overrun)

Next ==
  \/ \E l \in ActiveLoops : ThreadStep(l) \/ \E s \in Slots : Arrivals(l, s)
  \/ MainStep
  \/ \E g \in DOMAIN engine : EngineFails(g) \/ EngineCloses(g)
  \/ \E p \in Policies : Reload(p)
  \/ RuntimeClose
  \/ ListenerStops
  \/ Terminated

Spec == Init /\ [][Next]_vars

-----------------------------------------------------------------------------
Active(l, s) == slot[l][s].held /\ engine[slot[l][s].gen].st = "active"

\* Types, and the scheduler's count: what a lane calls pending is exactly the
\* starts its endpoint has not settled, between two arming passes.
TypeOK ==
  /\ \A l \in Loops : lane[l] \in Lane
  /\ registry \in Seq([loop : Loops, slot : Slots, gen : 1..MaxSessions,
                        id : Ids, replaced : BOOLEAN])
  /\ \A l \in Loops, s \in Slots : slot[l][s].gen \in 0..MaxSessions
  /\ \A l \in Loops : ~lane[l].arming =>
       lane[l].pending = Cardinality({s \in Slots : slot[l][s].starting})
                         + IF \/ task[l].pc \in {"watch", "policy", "admit"}
                              \/ At(l, "tell") /\ task[l].then = "report"
                           THEN 1 ELSE 0

\* accept_scheduler.hpp:26: while running, a listener always has a pending
\* start or a scheduled retry; nothing else would ever arm it again.
LaneArmed ==
  \A l \in ActiveLoops :
    Running(lane[l], closing[l]) /\ ~lane[l].arming => lane[l].pending > 0 \/ lane[l].retry

\* An engine that is not stopping is the one its slot holds, so that close,
\* replacement and revocation reach it; and on a served endpoint, between two
\* tasks, the registry lists exactly the sessions the slots hold.
SessionsOwned ==
  /\ \A g \in DOMAIN engine : engine[g].st = "active" =>
       LET at == slot[engine[g].loop][engine[g].slot] IN at.held /\ at.gen = g
  /\ served => \A l \in Loops : ThreadIdle(l) =>
       /\ \A s \in Slots : slot[l][s].held =>
            \E i \in DOMAIN registry :
               [registry[i] EXCEPT !.replaced = FALSE] = Entry(l, s)
       /\ \A i \in DOMAIN registry : registry[i].loop = l =>
            /\ slot[l][registry[i].slot].held
            /\ slot[l][registry[i].slot].gen = registry[i].gen

\* When no loop has anything left to do, every session that still runs belongs
\* to an identity of the policy published last, and no identity has more than
\* its limit, whatever admissions, replacements and reloads overlapped.
AtRest == \A l \in ActiveLoops : ThreadIdle(l) /\ mail[l] = <<>>

PolicyHoldsAtRest ==
  AtRest =>
    \A id \in Ids :
      LET running == {ls \in Loops \X Slots :
                        Active(ls[1], ls[2]) /\ slot[ls[1]][ls[2]].id = id}
      IN  /\ running # {} => id \in policy.known
          /\ policy.limit = 0 \/ Cardinality(running) <= policy.limit

\* Once the server is closing and no loop has anything left to do, no session
\* runs and every listener is closed, whatever was being established, reloaded
\* or replaced when the close came.
ClosedAtRest ==
  runtime.closing /\ AtRest =>
    \A l \in ActiveLoops : ~door[l] /\ \A s \in Slots : ~Active(l, s)
=============================================================================

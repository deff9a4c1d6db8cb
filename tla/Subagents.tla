----------------------------- MODULE Subagents -----------------------------
(***************************************************************************)
(* travis/coding_agent/subagents.py, subagent_supervision.py and           *)
(* session_subagents.py: SubagentSupervisor, which runs delegated tasks in *)
(* a thread pool, and the ways to end a task: by itself, cancel(), the     *)
(* timeout of wait(), and shutdown().                                      *)
(*                                                                         *)
(* A step is one section under the supervisor's lock or the control        *)
(* store's, or one call made outside both.  Results, statuses, the roster  *)
(* of snapshots, the control handles and the events are written in         *)
(* different sections, by the thread that spawns a task, the pool's worker *)
(* and the thread that ends it.                                            *)
(*                                                                         *)
(* Abstractions: a task is spawned by a thread of its own that then waits  *)
(* for it, as the spawn_subagent tool does; steering messages are numbers, *)
(* sent by one thread; a result is its status.                             *)
(***************************************************************************)
EXTENDS Naturals, Sequences, FiniteSets

CONSTANTS
    Tasks,          \* delegated tasks
    External,       \* those of the codex backend; the others are internal sessions
    MaxThreads,     \* max_threads
    MaxSteers       \* bound: steering messages

ASSUME SubagentsAssumption ==
    /\ IsFiniteSet(Tasks) /\ External \subseteq Tasks
    /\ MaxThreads \in Nat \ {0} /\ MaxSteers \in Nat

VARIABLES
    \* SubagentSupervisor
    status,     \* _statuses: "none" when the task is not known
    result,     \* _results: the status of the result, or "none"
    future,     \* _futures: "none", "pending", "running", "finished", "cancelled"
    \* SupervisorSnapshotStore and the events
    roster,     \* the status of the task's snapshot
    events,     \* the subagent_stop events of the task
    \* SubagentControlStore
    handle,     \* _handles: whether the task has one
    pending,    \* _pending: messages that wait for a handle
    accepted,   \* messages that steer() has accepted while the task went on
    \* the child: a session, or a codex process
    received,   \* steering messages the session has got while the task went on
    aborted,    \* the run was aborted, or the process signalled
    cancelled,  \* _cancelled_tasks of the codex backend
    \* threads
    spawner,    \* where spawn() is
    worker,     \* where _run_backend is
    verdict,    \* and what the backend returned
    carried,    \* and the messages attach() has yet to hand on
    ender,      \* where the thread that ends the task is
    steerer,    \* the message that is being sent: <<>>, or <<task, message>>
    closer,     \* where shutdown() is: "no", "cancel", "join", "done"; "left" when it has
                \* returned without waiting for the workers
    todo,       \* and the tasks it has still to cancel
    own         \* those whose cancel() it is in the middle of

supervisorVars == <<status, result, future>>
viewVars == <<roster, events>>
controlVars == <<handle, pending, accepted>>
childVars == <<received, aborted, cancelled>>
workerVars == <<worker, verdict, carried>>
closeVars == <<closer, todo, own>>
vars == <<supervisorVars, viewVars, controlVars, childVars, spawner, workerVars, ender, steerer, closeVars>>

Ended == {"completed", "failed", "cancelled", "timeout"}
Unfinished == {t \in Tasks : future[t] \in {"pending", "running"}}
Internal(t) == t \notin External

-----------------------------------------------------------------------------
(* spawn()                                                                 *)

SpawnReserves(t) ==
    /\ spawner[t] = "none"
    /\ IF closer # "no" \/ Cardinality(Unfinished) >= MaxThreads
       THEN spawner' = [spawner EXCEPT ![t] = "refused"] /\ UNCHANGED status
       ELSE /\ spawner' = [spawner EXCEPT ![t] = "reserved"]
            /\ status' = [status EXCEPT ![t] = "queued"]
    /\ UNCHANGED <<result, future, viewVars, controlVars, childVars, workerVars, ender, steerer, closeVars>>

\* The snapshot, and subagent_start.
SpawnPublishes(t) ==
    /\ spawner[t] = "reserved"
    /\ spawner' = [spawner EXCEPT ![t] = "announced"]
    /\ roster' = [roster EXCEPT ![t] = "queued"]
    /\ UNCHANGED <<supervisorVars, events, controlVars, childVars, workerVars, ender, steerer, closeVars>>

\* Mutant: a task that was ended meanwhile is submitted all the same.
SubmitsAnyway(t) ==
    /\ spawner[t] = "announced"
    /\ spawner' = [spawner EXCEPT ![t] = "spawned"]
    /\ future' = [future EXCEPT ![t] = "pending"]
    /\ UNCHANGED <<status, result, viewVars, controlVars, childVars, workerVars, ender,
                   steerer, closeVars>>

\* Mutant: nor is one that finds the supervisor shut down.
SubmitsUnlessDown(t) ==
    /\ spawner[t] = "announced"
    /\ spawner' = [spawner EXCEPT ![t] = "spawned"]
    /\ future' = [future EXCEPT ![t] = IF result[t] = "none" /\ closer = "no" THEN "pending" ELSE @]
    /\ UNCHANGED <<status, result, viewVars, controlVars, childVars, workerVars, ender,
                   steerer, closeVars>>

\* A task that was ended meanwhile is not submitted.
SpawnSubmits(t) ==
    /\ spawner[t] = "announced"
    /\ spawner' = [spawner EXCEPT ![t] = "spawned"]
    /\ future' = [future EXCEPT ![t] = IF result[t] = "none" THEN "pending" ELSE @]
    /\ UNCHANGED <<status, result, viewVars, controlVars, childVars, workerVars, ender,
                   steerer, closeVars>>

-----------------------------------------------------------------------------
(* The worker: _run_backend, and for an internal task _run_internal_subagent *)

\* ThreadPoolExecutor: a worker takes a future that was not cancelled.
WorkerTakes(t) ==
    /\ future[t] = "pending"
    /\ Cardinality({u \in Tasks : future[u] = "running"}) < MaxThreads
    /\ future' = [future EXCEPT ![t] = "running"]
    /\ worker' = [worker EXCEPT ![t] = "taken"]
    /\ UNCHANGED <<status, result, viewVars, controlVars, childVars, spawner, verdict, carried,
                   ender, steerer, closeVars>>

WorkerEnters(t) ==
    /\ worker[t] = "taken"
    /\ IF result[t] # "none"
       THEN /\ worker' = [worker EXCEPT ![t] = "off"]
            /\ future' = [future EXCEPT ![t] = "finished"]
            /\ UNCHANGED status
       ELSE /\ worker' = [worker EXCEPT ![t] = "entered"]
            /\ status' = [status EXCEPT ![t] = "running"]
            /\ UNCHANGED future
    /\ UNCHANGED <<result, viewVars, controlVars, childVars, spawner, verdict, carried, ender,
                   steerer, closeVars>>

WorkerAnnounces(t) ==
    /\ worker[t] = "entered"
    /\ worker' = [worker EXCEPT ![t] = "build"]
    /\ roster' = [roster EXCEPT ![t] = "running"]
    /\ UNCHANGED <<supervisorVars, events, controlVars, childVars, spawner, verdict, carried,
                   ender, steerer, closeVars>>

\* The child session is there, and attach_control_handle looks whether the task is settled.
\* If so no handle is attached; the backend does not look at that, and goes on.
\* A model that is not available is a failure before there is a child.
ChildBuilt(t) ==
    /\ worker[t] = "build" /\ Internal(t)
    /\ \/ /\ worker' = [worker EXCEPT ![t] = IF result[t] = "none" THEN "attach" ELSE "prompt"]
          /\ UNCHANGED verdict
       \/ /\ worker' = [worker EXCEPT ![t] = "settle"]
          /\ verdict' = [verdict EXCEPT ![t] = "failed"]
    /\ UNCHANGED <<supervisorVars, viewVars, controlVars, childVars, spawner, carried, ender,
                   steerer, closeVars>>

\* Mutant: what was queued before there was a handle is forgotten.
AttachForgets(t) ==
    /\ worker[t] = "attach"
    /\ worker' = [worker EXCEPT ![t] = "deliver"]
    /\ handle' = [handle EXCEPT ![t] = TRUE]
    /\ pending' = [pending EXCEPT ![t] = <<>>]
    /\ UNCHANGED <<supervisorVars, viewVars, accepted, childVars, spawner, verdict, carried, ender,
                   steerer, closeVars>>

\* SubagentControlStore.attach: the handle is registered and the queue taken ...
WorkerAttaches(t) ==
    /\ worker[t] = "attach"
    /\ worker' = [worker EXCEPT ![t] = "deliver"]
    /\ handle' = [handle EXCEPT ![t] = TRUE]
    /\ carried' = [carried EXCEPT ![t] = pending[t]]
    /\ pending' = [pending EXCEPT ![t] = <<>>]
    /\ UNCHANGED <<supervisorVars, viewVars, accepted, childVars, spawner, verdict, ender, steerer, closeVars>>

\* ... and handed on outside the lock.
WorkerDelivers(t) ==
    /\ worker[t] = "deliver"
    /\ IF carried[t] = <<>>
       THEN worker' = [worker EXCEPT ![t] = "prompt"] /\ UNCHANGED <<received, carried>>
       ELSE /\ received' = [received EXCEPT ![t] = IF result[t] = "none" THEN @ \cup {Head(carried[t])} ELSE @]
            /\ carried' = [carried EXCEPT ![t] = Tail(@)]
            /\ UNCHANGED worker
    /\ UNCHANGED <<supervisorVars, viewVars, controlVars, aborted, cancelled, spawner, verdict,
                   ender, steerer, closeVars>>

\* child.prompt(): the run begins, with an abort signal of its own.
ChildPrompted(t) ==
    /\ worker[t] = "prompt"
    /\ worker' = [worker EXCEPT ![t] = "running"]
    /\ UNCHANGED <<supervisorVars, viewVars, controlVars, childVars, spawner, verdict, carried,
                   ender, steerer, closeVars>>

\* CodexExecBackend: Popen; it may not find the executable.
ProcessSpawned(t) ==
    /\ worker[t] = "build" /\ ~Internal(t)
    /\ \/ worker' = [worker EXCEPT ![t] = "popen"] /\ UNCHANGED verdict
       \/ /\ worker' = [worker EXCEPT ![t] = "settle"]
          /\ verdict' = [verdict EXCEPT ![t] = "failed"]
    /\ UNCHANGED <<supervisorVars, viewVars, controlVars, childVars, spawner, carried, ender,
                   steerer, closeVars>>

\* Mutant: a cancellation that came before the process was registered is overlooked.
RegistersBlindly(t) ==
    /\ worker[t] = "popen"
    /\ worker' = [worker EXCEPT ![t] = "running"]
    /\ UNCHANGED <<supervisorVars, viewVars, controlVars, childVars, spawner, verdict,
                   carried, ender, steerer, closeVars>>

\* The process is registered, and signalled at once if the task was cancelled meanwhile.
ProcessRegistered(t) ==
    /\ worker[t] = "popen"
    /\ worker' = [worker EXCEPT ![t] = "running"]
    /\ aborted' = [aborted EXCEPT ![t] = t \in cancelled]
    /\ UNCHANGED <<supervisorVars, viewVars, controlVars, received, cancelled, spawner, verdict,
                   carried, ender, steerer, closeVars>>

\* The child has ended.  An internal one is detached, its processes are killed and it is
\* shut down; an external one leaves _processes and _cancelled_tasks.
ChildEnds(t) ==
    /\ worker[t] = "running"
    /\ worker' = [worker EXCEPT ![t] = "settle"]
    /\ \E v \in {"completed", "failed"} \cup (IF Internal(t) THEN {} ELSE {"timeout"}) :
          verdict' = [verdict EXCEPT ![t] = v]
    /\ handle' = [handle EXCEPT ![t] = FALSE]
    /\ cancelled' = cancelled \ {t}
    /\ aborted' = [aborted EXCEPT ![t] = FALSE]
    /\ UNCHANGED <<supervisorVars, viewVars, pending, accepted, received, spawner, carried,
                   ender, steerer, closeVars>>

\* A task that was ended keeps the result it has.
WorkerSettles(t) ==
    /\ worker[t] = "settle"
    /\ IF result[t] # "none"
       THEN /\ worker' = [worker EXCEPT ![t] = "off"]
            /\ future' = [future EXCEPT ![t] = "finished"]
            /\ verdict' = [verdict EXCEPT ![t] = "none"]
            /\ UNCHANGED <<status, result, controlVars, received>>
       ELSE /\ status' = [status EXCEPT ![t] = verdict[t]]
            /\ result' = [result EXCEPT ![t] = verdict[t]]
            /\ handle' = [handle EXCEPT ![t] = FALSE]
            /\ pending' = [pending EXCEPT ![t] = <<>>]
            /\ accepted' = [accepted EXCEPT ![t] = {}] /\ received' = [received EXCEPT ![t] = {}]
            /\ worker' = [worker EXCEPT ![t] = "publish"]
            /\ UNCHANGED <<future, verdict>>
    /\ UNCHANGED <<viewVars, aborted, cancelled, spawner, carried, ender, steerer,
                   closeVars>>

WorkerPublishes(t) ==
    /\ worker[t] = "publish"
    /\ worker' = [worker EXCEPT ![t] = "emit"]
    /\ roster' = [roster EXCEPT ![t] = verdict[t]]
    /\ UNCHANGED <<supervisorVars, events, controlVars, childVars, spawner, verdict, carried,
                   ender, steerer, closeVars>>

WorkerEmits(t) ==
    /\ worker[t] = "emit"
    /\ worker' = [worker EXCEPT ![t] = "off"]
    /\ events' = [events EXCEPT ![t] = Append(@, verdict[t])]
    /\ future' = [future EXCEPT ![t] = "finished"]
    /\ verdict' = [verdict EXCEPT ![t] = "none"]
    /\ UNCHANGED <<status, result, roster, controlVars, childVars, spawner, carried,
                   ender, steerer, closeVars>>

-----------------------------------------------------------------------------
(* Ending a task: cancel(), and the timeout of wait().                     *)

\* The first to end a task does; a future that no worker has taken is cancelled with it.
Claim(t, s) ==
    /\ status[t] # "none" /\ result[t] = "none" /\ ender[t] = "none"
    /\ status' = [status EXCEPT ![t] = s]
    /\ result' = [result EXCEPT ![t] = s]
    /\ future' = [future EXCEPT ![t] = IF s = "cancelled" /\ @ = "pending" THEN "cancelled" ELSE @]
    /\ ender' = [ender EXCEPT ![t] = "control"]
    /\ accepted' = [accepted EXCEPT ![t] = {}]
    /\ received' = [received EXCEPT ![t] = {}]

\* cancel(): from the user interface, the cancel_subagent tool, or a wait() that is aborted.
Cancel(t) ==
    /\ Claim(t, "cancelled")
    /\ UNCHANGED <<viewVars, handle, pending, aborted, cancelled, spawner, workerVars, steerer,
                   closeVars>>

\* wait(): the deadline has passed.  That is all that wait(), which polls the results and
\* the future, changes.
WaitTimesOut(t) ==
    /\ future[t] # "none" /\ Claim(t, "timeout")
    /\ UNCHANGED <<viewVars, handle, pending, aborted, cancelled, spawner, workerVars, steerer,
                   closeVars>>

\* SubagentControlStore.cancel: the handle aborts the run, if the child has one.
EnderControls(t) ==
    /\ ender[t] = "control"
    /\ ender' = [ender EXCEPT ![t] = "publish"]
    /\ handle' = [handle EXCEPT ![t] = FALSE]
    /\ pending' = [pending EXCEPT ![t] = <<>>]
    /\ aborted' = [aborted EXCEPT ![t] = @ \/ (handle[t] /\ worker[t] = "running")]
    /\ UNCHANGED <<supervisorVars, viewVars, accepted, received, cancelled, spawner, workerVars,
                   steerer, closeVars>>

EnderPublishes(t) ==
    /\ ender[t] = "publish"
    /\ ender' = [ender EXCEPT ![t] = IF result[t] = "cancelled" THEN "backend" ELSE "emit"]
    /\ roster' = [roster EXCEPT ![t] = result[t]]
    /\ UNCHANGED <<supervisorVars, events, controlVars, childVars, spawner, workerVars, steerer, closeVars>>

\* backend.cancel, which only codex has: a process that is registered is signalled.
EnderCancelsBackend(t) ==
    /\ ender[t] = "backend"
    /\ ender' = [ender EXCEPT ![t] = "emit"]
    /\ cancelled' = IF Internal(t) THEN cancelled ELSE cancelled \cup {t}
    /\ aborted' = [aborted EXCEPT ![t] = @ \/ (~Internal(t) /\ worker[t] = "running")]
    /\ UNCHANGED <<supervisorVars, viewVars, controlVars, received, spawner, workerVars, steerer, closeVars>>

EnderEmits(t) ==
    /\ ender[t] = "emit"
    /\ ender' = [ender EXCEPT ![t] = "done"]
    /\ events' = [events EXCEPT ![t] = Append(@, result[t])]
    /\ UNCHANGED <<supervisorVars, roster, controlVars, childVars, spawner, workerVars, steerer, closeVars>>

-----------------------------------------------------------------------------
(* steer() and shutdown().                                                 *)

\* A message is one that no task has accepted; the bound gives them their numbers in turn.
NextSteer(m) == \A i \in 1..m : i # m <=> \E u \in Tasks : i \in accepted[u]

\* steer() finds the task unsettled ...
SteerLooks(t, m) ==
    /\ steerer = <<>> /\ NextSteer(m)
    /\ status[t] # "none" /\ result[t] = "none" /\ Internal(t)
    /\ steerer' = <<t, m>>
    /\ UNCHANGED <<supervisorVars, viewVars, controlVars, childVars, spawner, workerVars, ender,
                   closeVars>>

\* ... and then sends: to the handle, or into the queue.
SteerSends(t, m) ==
    /\ steerer = <<t, m>>
    /\ steerer' = <<>>
    /\ LET kept == IF result[t] = "none" THEN {m} ELSE {}
       IN /\ accepted' = [accepted EXCEPT ![t] = @ \cup kept]
          /\ IF handle[t]
             THEN received' = [received EXCEPT ![t] = @ \cup kept] /\ UNCHANGED pending
             ELSE pending' = [pending EXCEPT ![t] = Append(@, m)] /\ UNCHANGED received
    /\ UNCHANGED <<supervisorVars, viewVars, handle, aborted, cancelled, spawner, workerVars, ender,
                   closeVars>>

ShutdownBegins ==
    /\ closer = "no"
    /\ closer' = "cancel"
    /\ todo' = {t \in Tasks : status[t] \in {"queued", "running"}}
    /\ UNCHANGED <<supervisorVars, viewVars, controlVars, childVars, spawner, workerVars, ender,
                   steerer, own>>

\* cancel() of one task after the other; one that another thread has ended is passed over.
ShutdownCancels(t) ==
    /\ closer = "cancel" /\ t \in todo
    /\ \/ own = {} /\ Claim(t, "cancelled") /\ own' = {t} /\ UNCHANGED todo
       \/ /\ result[t] # "none" /\ (own = {} \/ (own = {t} /\ ender[t] = "done"))
          /\ todo' = todo \ {t} /\ own' = {}
          /\ UNCHANGED <<supervisorVars, ender, accepted, received>>
    /\ UNCHANGED <<viewVars, handle, pending, aborted, cancelled, spawner, workerVars, steerer, closer>>

\* executor.shutdown(wait=wait, cancel_futures=True): with wait=False, as a session that
\* ends calls it, shutdown() returns at once and the workers go on.
ShutdownJoins ==
    /\ closer = "cancel" /\ todo = {}
    /\ \E wait \in BOOLEAN : closer' = IF wait THEN "join" ELSE "left"
    /\ future' = [t \in Tasks |-> IF future[t] = "pending" THEN "cancelled" ELSE future[t]]
    /\ UNCHANGED <<status, result, viewVars, controlVars, childVars, spawner, workerVars, ender,
                   steerer, todo, own>>

ShutdownReturns ==
    /\ closer = "join" /\ \A t \in Tasks : future[t] # "running"
    /\ closer' = "done"
    /\ UNCHANGED <<supervisorVars, viewVars, controlVars, childVars, spawner, workerVars, ender,
                   steerer, todo, own>>

-----------------------------------------------------------------------------
Init ==
    /\ status = [t \in Tasks |-> "none"] /\ result = [t \in Tasks |-> "none"]
    /\ future = [t \in Tasks |-> "none"]
    /\ roster = [t \in Tasks |-> "none"] /\ events = [t \in Tasks |-> <<>>]
    /\ handle = [t \in Tasks |-> FALSE] /\ pending = [t \in Tasks |-> <<>>]
    /\ accepted = [t \in Tasks |-> {}] /\ received = [t \in Tasks |-> {}]
    /\ aborted = [t \in Tasks |-> FALSE] /\ cancelled = {}
    /\ spawner = [t \in Tasks |-> "none"] /\ worker = [t \in Tasks |-> "off"]
    /\ verdict = [t \in Tasks |-> "none"] /\ carried = [t \in Tasks |-> <<>>]
    /\ ender = [t \in Tasks |-> "none"]
    /\ steerer = <<>> /\ closer = "no" /\ todo = {} /\ own = {}

SpawnerStep(t) == SpawnReserves(t) \/ SpawnPublishes(t) \/ SpawnSubmits(t)
WorkerStep(t) ==
    \/ WorkerTakes(t) \/ WorkerEnters(t) \/ WorkerAnnounces(t)
    \/ ChildBuilt(t) \/ WorkerAttaches(t) \/ WorkerDelivers(t) \/ ChildPrompted(t)
    \/ ProcessSpawned(t) \/ ProcessRegistered(t)
    \/ WorkerSettles(t) \/ WorkerPublishes(t) \/ WorkerEmits(t)
EnderStep(t) == EnderControls(t) \/ EnderPublishes(t) \/ EnderCancelsBackend(t) \/ EnderEmits(t)
CloserStep == ShutdownBegins \/ ShutdownJoins \/ ShutdownReturns \/ \E t \in Tasks : ShutdownCancels(t)

Next ==
    \/ \E t \in Tasks : SpawnerStep(t) \/ WorkerStep(t) \/ ChildEnds(t) \/ Cancel(t)
                        \/ EnderStep(t) \/ WaitTimesOut(t)
    \/ \E t \in Tasks, m \in 1..MaxSteers : SteerLooks(t, m) \/ SteerSends(t, m)
    \/ CloserStep

Spec == Init /\ [][Next]_vars

\* Threads are scheduled, and a child that is aborted ends; one that is not need not.
Fairness ==
    /\ \A t \in Tasks :
          /\ WF_vars(spawner[t] # "none" /\ SpawnerStep(t)) /\ WF_vars(WorkerStep(t))
          /\ WF_vars(EnderStep(t))
          /\ WF_vars(aborted[t] /\ ChildEnds(t))
    /\ WF_vars(closer # "no" /\ CloserStep)
FairSpec == Spec /\ Fairness

-----------------------------------------------------------------------------
Live == {"none", "queued", "running"}
TypeOK ==
    /\ status \in [Tasks -> Live \cup Ended] /\ result \in [Tasks -> Ended \cup {"none"}]
    /\ future \in [Tasks -> {"none", "pending", "running", "finished", "cancelled"}]
    /\ roster \in [Tasks -> Live \cup Ended]
    /\ \A t \in Tasks : Len(events[t]) <= 1
    /\ handle \in [Tasks -> BOOLEAN] /\ pending \in [Tasks -> Seq(1..MaxSteers)]
    /\ carried \in [Tasks -> Seq(1..MaxSteers)]
    /\ accepted \in [Tasks -> SUBSET (1..MaxSteers)]
    /\ received \in [Tasks -> SUBSET (1..MaxSteers)]
    /\ aborted \in [Tasks -> BOOLEAN] /\ cancelled \subseteq External
    /\ spawner \in [Tasks -> {"none", "refused", "reserved", "announced", "spawned"}]
    /\ worker \in [Tasks -> {"off", "taken", "entered", "build", "attach", "deliver", "prompt",
                             "popen", "running", "settle", "publish", "emit"}]
    /\ verdict \in [Tasks -> Ended \cup {"none"}]
    /\ ender \in [Tasks -> {"none", "control", "publish", "backend", "emit", "done"}]
    /\ closer \in {"no", "cancel", "join", "left", "done"} /\ todo \subseteq Tasks /\ own \subseteq todo

Elements(q) == {q[i] : i \in DOMAIN q}

\* A task that spawn() has returned is one that wait() knows, even if it was cancelled or
\* the supervisor shut down in the middle of spawn().
WaitFindsTask == \A t \in Tasks : spawner[t] = "spawned" => future[t] # "none" \/ result[t] # "none"

\* "cancel remains idempotent and produces one terminal transition": listeners hear of
\* one end of a task, and it is the one in its result.
OneStop ==
    \A t \in Tasks : \A i, j \in DOMAIN events[t] :
        events[t][i] = result[t] /\ i = j

\* A snapshot that says how a task ended says what its result says, which is there by
\* then.  (One that says "running" may be wrong: it can be published after the end.)
RosterIsResult == \A t \in Tasks : roster[t] \in Ended => result[t] = roster[t]

\* No message that steer() accepted is lost as long as the task goes on, whether it came
\* before, while or after the handle was attached.
SteeringKept ==
    \A t \in Tasks : result[t] = "none" =>
        accepted[t] \subseteq received[t] \cup Elements(pending[t]) \cup Elements(carried[t])

\* After shutdown() every task has a result and no worker takes another: a spawn() it has
\* overtaken does not submit its task any more.  With wait=True nothing runs.  With wait=False
\* the workers of ended tasks do, but a codex process among them has been signalled, or its
\* cancel() is still under way in another thread.
QuietAfterShutdown ==
    closer \in {"left", "done"} => \A t \in Tasks :
        /\ future[t] # "pending"
        /\ status[t] # "none" => result[t] # "none"
        /\ future[t] = "running" =>
              /\ closer = "left"
              /\ t \in External /\ worker[t] = "running" /\ result[t] = "cancelled"
                     /\ ender[t] = "done" => aborted[t]

\* The first end of a task counts: a backend that returns after a cancel() or a timeout
\* does not change the result that was handed out.
ResultStands == [][\A t \in Tasks : result[t] # "none" => result'[t] = result[t]]_result

\* cancel() ends the process of an external task, at whatever point of its start it comes.
CancelledProcessEnds == \A t \in External : result[t] = "cancelled" ~> future[t] # "running"

\* The supervisor's tables are sound: they have their types, wait() finds what spawn()
\* returned, and result, snapshot and the one stop event of a task agree.
TasksSound ==
    /\ TypeOK
    /\ WaitFindsTask
    /\ OneStop
    /\ RosterIsResult

\* The end that cancel() or a timeout gave a task stands, and the process of a cancelled task
\* ends.
EndStands ==
    /\ ResultStands
    /\ CancelledProcessEnds
=============================================================================

------------------------------ MODULE ToolBatch ------------------------------
(***************************************************************************)
(* The execution of one assistant message's tool calls:                    *)
(* travis/agent/agent_loop.py (_execute_tool_calls, _execute_sequential,   *)
(* _execute_parallel and what they call) with the ToolCoordinator of       *)
(* travis/agent/tool_coordinator.py.                                       *)
(*                                                                         *)
(* Processes: the driver (the coroutine that schedules the calls), the     *)
(* worker tasks of a parallel batch, and the bodies of the tools, which    *)
(* run in threads of the coordinator's executor or, when they are          *)
(* coroutines, on the loop.  The driver and the workers share one event    *)
(* loop and interleave at awaits; executor.shutdown(wait=True) holds the   *)
(* loop's thread.  In a sequential batch worker 1 stands for the driver's  *)
(* own inline execution of the call.                                       *)
(*                                                                         *)
(* Abstractions: a call is its index in the message; preparation (lookup,  *)
(* argument validation, before_tool_call) yields an immediate outcome or a *)
(* prepared call; a result keeps only its terminate flag.  The progress    *)
(* relay of a call (module ToolUpdateRelay) appears as what its callers    *)
(* see: a publishing thread waits for the loop, close() may raise the      *)
(* failure of the sink.                                                    *)
(***************************************************************************)
EXTENDS Naturals, Sequences, FiniteSets

CONSTANTS
    N,             \* number of tool calls in the message
    MaxParallel,   \* config.max_parallel_tools
    SinkMayFail    \* whether an internal listener of the run may raise

ASSUME BatchAssumption ==
    /\ N \in Nat \ {0}
    /\ MaxParallel \in Nat \ {0}
    /\ SinkMayFail \in BOOLEAN

VARIABLES
    mode,        \* "sequential" or "parallel"
    aborted,     \* signal.aborted
    driver,      \* where the driver is
    index,       \* the call the driver is at
    scheduled,   \* scheduled_count
    raising,     \* an exception is on its way out of the batch
    workQueue,   \* work_queue: calls, then 0 for the None of each worker
    worker,      \* where each worker task is, and its call
    body,        \* where the body of each call is
    slot,        \* ordered_slots: the finalized outcome of each call
    prior,       \* history: the calls started and the bodies cleared when the signal was set
    started,     \* calls with a tool_execution_start event
    ended,       \* calls with a tool_execution_end event
    results      \* tool result messages emitted, in order

vars == <<mode, aborted, prior, driver, index, scheduled, raising, workQueue, worker,
          body, slot, started, ended, results>>

Calls == 1..N
NoCall == 0

\* worker_count = min(max_parallel_tools, len(tool_calls)).
Workers == 1..(IF MaxParallel < N THEN MaxParallel ELSE N)

\* Bodies past the abort check and not over, and those that hold a thread.
Active == {c \in Calls : body[c] \in {"cleared", "thread", "publishing", "async"}}
InThread == {c \in Calls : body[c] \in {"thread", "publishing"}}
Over(w) == worker[w].pc \in {"done", "raised", "cancelled"}

\* The loop's thread is held by executor.shutdown(wait=True).
LoopRuns == driver # "shutdown"

\* An emit settles, or raises what an internal listener raised: the batch fails
\* and leaves through the finally clause of a parallel batch.
BatchFails ==
    /\ raising' = TRUE
    /\ driver' = IF mode = "parallel" THEN "cancel" ELSE "shutdown"

-----------------------------------------------------------------------------
(* The driver.                                                             *)

Goto(pc) == driver' = pc

\* emit(ToolExecutionStartEvent) for the call at `index'.
DriverStarts ==
    /\ driver = "start" /\ index <= N
    /\ \/ started' = started \cup {index} /\ Goto("prepare") /\ UNCHANGED raising
       \/ SinkMayFail /\ started' = started \cup {index} /\ BatchFails
    /\ UNCHANGED <<mode, aborted, prior, index, scheduled, workQueue, worker, body, slot, ended, results>>

\* _prepare_tool_call answers at once (unknown tool, invalid arguments, a block
\* by before_tool_call, or the abort it sees after the hook): the outcome is
\* finalized by the driver, which emits the end event.
DriverPreparesImmediate ==
    /\ driver = "prepare"
    /\ scheduled' = index
    /\ ended' = ended \cup {index}
    /\ \/ slot' = [slot EXCEPT ![index] = "continue"]
          /\ Goto(IF mode = "sequential" THEN "result" ELSE "check") /\ UNCHANGED raising
       \/ SinkMayFail /\ BatchFails /\ UNCHANGED slot
    /\ UNCHANGED <<mode, aborted, prior, index, workQueue, worker, body, started, results>>

\* Mutant: scheduled_count is off by one.
DriverMiscounts ==
    /\ driver = "prepare" /\ ~aborted
    /\ scheduled' = index - 1
    /\ mode = "parallel"
    /\ workQueue' = Append(workQueue, index)
    /\ Goto("check")
    /\ UNCHANGED <<mode, aborted, prior, index, raising, worker, body, slot, started, ended, results>>

\* It prepares the call, unless it sees the abort: a parallel batch queues it
\* for the workers, a sequential one executes it inline.
DriverPreparesCall ==
    /\ driver = "prepare" /\ ~aborted
    /\ scheduled' = index
    /\ \/ /\ mode = "parallel"
          /\ workQueue' = Append(workQueue, index)
          /\ Goto("check") /\ UNCHANGED worker
       \/ /\ mode = "sequential"
          /\ worker' = [worker EXCEPT ![1] = [pc |-> "execute", call |-> index]]
          /\ Goto("inline") /\ UNCHANGED workQueue
    /\ UNCHANGED <<mode, aborted, prior, index, raising, body, slot, started, ended, results>>

\* The inline execution ends, with a finalized outcome or by raising.
DriverInline ==
    /\ driver = "inline"
    /\ \/ worker[1].pc = "get" /\ Goto("result") /\ UNCHANGED raising
       \/ worker[1].pc = "raised" /\ BatchFails
    /\ UNCHANGED <<mode, aborted, prior, index, scheduled, workQueue, worker, body, slot,
                   started, ended, results>>

\* A sequential batch emits the result message of each call before the next.
DriverEmitsResult ==
    /\ driver = "result"
    /\ \/ results' = Append(results, index) /\ Goto("check") /\ UNCHANGED raising
       \/ SinkMayFail /\ BatchFails /\ UNCHANGED results
    /\ UNCHANGED <<mode, aborted, prior, index, scheduled, workQueue, worker, body, slot, started, ended>>

\* Mutant: the loop over the calls does not break on the signal.
DriverGoesOn ==
    /\ driver = "check"
    /\ Goto("start") /\ index' = index + 1
    /\ UNCHANGED <<mode, aborted, prior, scheduled, raising, workQueue, worker, body, slot,
                   started, ended, results>>

\* `if signal.aborted: break', else the next call.
DriverChecks ==
    /\ driver = "check"
    /\ IF aborted THEN Goto("stop") /\ UNCHANGED index
                  ELSE Goto("start") /\ index' = index + 1
    /\ UNCHANGED <<mode, aborted, prior, scheduled, raising, workQueue, worker, body, slot,
                   started, ended, results>>

\* Mutant: one None for all workers.
DriverStopsOneWorker ==
    /\ driver = "stop" \/ (driver = "start" /\ index = N + 1)
    /\ IF mode = "parallel"
       THEN workQueue' = Append(workQueue, NoCall) /\ Goto("gather")
       ELSE Goto("shutdown") /\ UNCHANGED workQueue
    /\ UNCHANGED <<mode, aborted, prior, index, scheduled, raising, worker, body, slot,
                   started, ended, results>>

\* Mutant: the signal is checked before each call instead of after it.
DriverStopsEarly ==
    /\ driver = "stop" \/ (driver = "start" /\ (index = N + 1 \/ aborted))
    /\ IF mode = "parallel"
       THEN workQueue' = workQueue \o [i \in Workers |-> NoCall] /\ Goto("gather")
       ELSE Goto("shutdown") /\ UNCHANGED workQueue
    /\ UNCHANGED <<mode, aborted, prior, index, scheduled, raising, worker, body, slot,
                   started, ended, results>>

\* The calls are scheduled: one None per worker, then gather.
DriverStops ==
    /\ driver = "stop" \/ (driver = "start" /\ index = N + 1)
    /\ IF mode = "parallel"
       THEN workQueue' = workQueue \o [i \in Workers |-> NoCall] /\ Goto("gather")
       ELSE Goto("shutdown") /\ UNCHANGED workQueue
    /\ UNCHANGED <<mode, aborted, prior, index, scheduled, raising, worker, body, slot,
                   started, ended, results>>

\* gather(*workers) ends when all are done, or with the first that raised.
DriverGathers ==
    /\ driver = "gather"
    /\ \/ (\A w \in Workers : worker[w].pc = "done")
          /\ Goto("emit") /\ index' = 1 /\ UNCHANGED raising
       \/ (\E w \in Workers : worker[w].pc = "raised") /\ BatchFails /\ UNCHANGED index
    /\ UNCHANGED <<mode, aborted, prior, scheduled, workQueue, worker, body, slot,
                   started, ended, results>>

\* The finally clause cancels the workers that are not done.  One that holds a
\* relay (in _execute_prepared) still has to close it; a body in a thread runs on.
DriverCancels ==
    /\ driver = "cancel"
    /\ worker' = [w \in Workers |->
                     CASE Over(w) -> worker[w]
                       [] worker[w].pc \in {"body", "close"} -> [worker[w] EXCEPT !.pc = "unwind"]
                       [] OTHER -> [worker[w] EXCEPT !.pc = "cancelled"]]
    /\ Goto("drain")
    /\ UNCHANGED <<mode, aborted, prior, index, scheduled, raising, workQueue, body, slot,
                   started, ended, results>>

\* gather(*workers, return_exceptions=True).
DriverDrains ==
    /\ driver = "drain" /\ \A w \in Workers : Over(w)
    /\ Goto("shutdown")
    /\ UNCHANGED <<mode, aborted, prior, index, scheduled, raising, workQueue, worker, body,
                   slot, started, ended, results>>

\* A parallel batch emits the result messages in the order of the calls.
DriverEmitsResults ==
    /\ driver = "emit"
    /\ IF index > scheduled
       THEN Goto("shutdown") /\ UNCHANGED <<index, results, raising>>
       ELSE \/ /\ results' = IF slot[index] = "none" THEN results ELSE Append(results, index)
               /\ index' = index + 1
               /\ UNCHANGED <<driver, raising>>
            \/ SinkMayFail /\ Goto("shutdown") /\ raising' = TRUE /\ UNCHANGED <<index, results>>
    /\ UNCHANGED <<mode, aborted, prior, scheduled, workQueue, worker, body, slot, started, ended>>

\* Mutant: executor.shutdown(wait=False).
DriverAbandons ==
    /\ driver = "shutdown"
    /\ Goto(IF raising THEN "raised" ELSE "done")
    /\ UNCHANGED <<mode, aborted, prior, index, scheduled, raising, workQueue, worker, body,
                   slot, started, ended, results>>

\* ToolCoordinator.__aexit__: executor.shutdown(wait=True) returns when no body
\* runs in a thread; the batch is returned or the exception goes on.
DriverShutsDown ==
    /\ driver = "shutdown"
    /\ InThread = {}
    /\ Goto(IF raising THEN "raised" ELSE "done")
    /\ UNCHANGED <<mode, aborted, prior, index, scheduled, raising, workQueue, worker, body,
                   slot, started, ended, results>>

-----------------------------------------------------------------------------
(* A worker task of a parallel batch.                                      *)

At(w, pc) == worker' = [worker EXCEPT ![w].pc = pc]

WorkerGets(w) ==
    /\ LoopRuns /\ mode = "parallel" /\ worker[w].pc = "get" /\ workQueue # <<>>
    /\ worker' = [worker EXCEPT ![w] =
                     IF Head(workQueue) = NoCall THEN [pc |-> "done", call |-> NoCall]
                     ELSE [pc |-> "execute", call |-> Head(workQueue)]]
    /\ workQueue' = Tail(workQueue)
    /\ UNCHANGED <<mode, aborted, prior, driver, index, scheduled, raising, body, slot,
                   started, ended, results>>

\* ToolCoordinator.execute up to its check: an aborted call stops at the capacity
\* boundary, else the body is cleared and on its way to a thread or the loop.
WorkerExecutes(w) ==
    /\ LoopRuns /\ worker[w].pc = "execute"
    /\ IF aborted
       THEN At(w, "close") /\ UNCHANGED body
       ELSE At(w, "body") /\ body' = [body EXCEPT ![worker[w].call] = "cleared"]
    /\ UNCHANGED <<mode, aborted, prior, driver, index, scheduled, raising, workQueue, slot,
                   started, ended, results>>

WorkerResumes(w) ==
    /\ LoopRuns /\ worker[w].pc = "body" /\ body[worker[w].call] = "returned"
    /\ At(w, "close")
    /\ UNCHANGED <<mode, aborted, prior, driver, index, scheduled, raising, workQueue, body,
                   slot, started, ended, results>>

\* update_relay.close() drains the progress updates and raises the sink's failure.
WorkerCloses(w) ==
    /\ LoopRuns /\ worker[w].pc = "close"
    /\ \/ At(w, "finish")
       \/ SinkMayFail /\ At(w, "raised")
    /\ UNCHANGED <<mode, aborted, prior, driver, index, scheduled, raising, workQueue, body,
                   slot, started, ended, results>>

\* _finalize (after_tool_call may set or clear terminate), then the end event.
WorkerFinishes(w) ==
    LET c == worker[w].call
    IN /\ LoopRuns /\ worker[w].pc = "finish"
       /\ ended' = ended \cup {c}
       /\ \/ /\ \E t \in {"terminate", "continue"} : slot' = [slot EXCEPT ![c] = t]
             /\ worker' = [worker EXCEPT ![w] = [pc |-> "get", call |-> NoCall]]
          \/ SinkMayFail /\ At(w, "raised") /\ UNCHANGED slot
       /\ UNCHANGED <<mode, aborted, prior, driver, index, scheduled, raising, workQueue, body,
                      started, results>>

\* The cancelled worker has closed its relay; its coroutine body is over, and one
\* that still waits for a thread is cancelled in the executor.
WorkerUnwinds(w) ==
    LET c == worker[w].call
    IN /\ LoopRuns /\ worker[w].pc = "unwind"
       /\ At(w, "cancelled")
       /\ body' = [body EXCEPT ![c] = IF body[c] \in {"cleared", "async"} THEN "returned" ELSE body[c]]
       /\ UNCHANGED <<mode, aborted, prior, driver, index, scheduled, raising, workQueue, slot,
                      started, ended, results>>

-----------------------------------------------------------------------------
(* The bodies of the tools.                                                *)

\* The body begins, in a thread of the executor or as a coroutine.  The signal may
\* have been set since the check, which nothing repeats.
BodyBegins(c) ==
    /\ body[c] = "cleared"
    /\ \/ body' = [body EXCEPT ![c] = "thread"]
       \/ LoopRuns /\ body' = [body EXCEPT ![c] = "async"]
    /\ UNCHANGED <<mode, aborted, prior, driver, index, scheduled, raising, workQueue, worker,
                   slot, started, ended, results>>

BodyReturns(c) ==
    /\ body[c] \in {"thread", "async"}
    /\ body[c] = "async" => LoopRuns
    /\ body' = [body EXCEPT ![c] = "returned"]
    /\ UNCHANGED <<mode, aborted, prior, driver, index, scheduled, raising, workQueue, worker,
                   slot, started, ended, results>>

\* on_update in a thread: run_coroutine_threadsafe(...).result() waits for the loop.
BodyPublishes(c) ==
    /\ body[c] = "thread"
    /\ body' = [body EXCEPT ![c] = "publishing"]
    /\ UNCHANGED <<mode, aborted, prior, driver, index, scheduled, raising, workQueue, worker,
                   slot, started, ended, results>>

LoopServesPublish(c) ==
    /\ LoopRuns /\ body[c] = "publishing"
    /\ body' = [body EXCEPT ![c] = "thread"]
    /\ UNCHANGED <<mode, aborted, prior, driver, index, scheduled, raising, workQueue, worker,
                   slot, started, ended, results>>

\* Agent.abort() from any thread.
Abort ==
    /\ ~aborted /\ driver \notin {"done", "raised"}
    /\ aborted' = TRUE
    /\ prior' = [started |-> started, cleared |-> {c \in Calls : body[c] # "none"}]
    /\ UNCHANGED <<mode, driver, index, scheduled, raising, workQueue, worker, body,
                   slot, started, ended, results>>

-----------------------------------------------------------------------------
Init ==
    /\ mode \in {"sequential", "parallel"}
    /\ aborted \in BOOLEAN /\ prior = [started |-> {}, cleared |-> {}]
    /\ driver = "start" /\ index = 1 /\ scheduled = 0 /\ raising = FALSE
    /\ workQueue = <<>>
    /\ worker = [w \in Workers |-> [pc |-> "get", call |-> NoCall]]
    /\ body = [c \in Calls |-> "none"]
    /\ slot = [c \in Calls |-> "none"]
    /\ started = {} /\ ended = {} /\ results = <<>>

DriverStep ==
    \/ DriverStarts \/ DriverPreparesImmediate \/ DriverPreparesCall \/ DriverInline
    \/ DriverEmitsResult \/ DriverChecks \/ DriverStops \/ DriverGathers
    \/ DriverCancels \/ DriverDrains \/ DriverEmitsResults \/ DriverShutsDown

WorkerStep(w) == \/ WorkerGets(w) \/ WorkerExecutes(w) \/ WorkerResumes(w)
                 \/ WorkerCloses(w) \/ WorkerFinishes(w) \/ WorkerUnwinds(w)

BodyStep(c) == BodyBegins(c) \/ BodyReturns(c) \/ BodyPublishes(c) \/ LoopServesPublish(c)

Next ==
    \/ DriverStep
    \/ \E w \in Workers : WorkerStep(w)
    \/ \E c \in Calls : BodyStep(c)
    \/ Abort

Spec == Init /\ [][Next]_vars

\* The loop serves its tasks, the executor its queue, and a tool body that is not kept waiting returns.
Fairness ==
    /\ WF_vars(DriverStep)
    /\ \A w \in Workers : WF_vars(WorkerStep(w))
    /\ \A c \in Calls : /\ WF_vars(BodyBegins(c)) /\ WF_vars(LoopServesPublish(c))
                       /\ SF_vars(BodyReturns(c))

FairSpec == Spec /\ Fairness

-----------------------------------------------------------------------------
TypeOK ==
    /\ mode \in {"sequential", "parallel"}
    /\ prior \in [started : SUBSET Calls, cleared : SUBSET Calls]
    /\ aborted \in BOOLEAN /\ raising \in BOOLEAN
    /\ driver \in {"start", "prepare", "inline", "result", "check", "stop", "gather", "cancel",
                   "drain", "emit", "shutdown", "done", "raised"}
    /\ index \in 1..(N + 1) /\ scheduled \in 0..N
    /\ workQueue \in Seq(Calls \cup {NoCall})
    /\ worker \in [Workers -> [pc : {"get", "execute", "body", "close", "finish", "unwind",
                                     "done", "raised", "cancelled"}, call : Calls \cup {NoCall}]]
    /\ body \in [Calls -> {"none", "cleared", "thread", "publishing", "async", "returned"}]
    /\ slot \in [Calls -> {"none", "terminate", "continue"}]
    /\ started \in SUBSET Calls /\ ended \in SUBSET Calls
    /\ results \in Seq(Calls)

\* Result messages are in the order of the calls, without a gap, at every moment
\* ("Parallel result messages remain in assistant source order").
ResultsInOrder == \A i \in DOMAIN results : results[i] = i

\* A batch that returns has one result for every call it started, and it started
\* every call unless the run was aborted.  What was started has ended.
BatchComplete ==
    driver = "done" =>
        /\ started = 1..scheduled /\ ended = started /\ Len(results) = scheduled
        /\ scheduled < N => aborted

\* A tool's result message follows its end event, which follows its start event,
\* and its body is over by then.
EventOrder ==
    \A c \in Calls :
        /\ c \in ended => c \in started /\ c \notin Active
        /\ c <= Len(results) => c \in ended

\* No tool body outlives the batch that started it, whether the batch returns or
\* raises: the next turn never overlaps a tool of the last one.
NoOrphanBody == driver \in {"done", "raised"} => Active = {}

\* Tool bodies run one at a time in a sequential batch and at most MaxParallel at
\* a time in a parallel one, whatever the message asks for.
ParallelBound == Cardinality(Active) <= (IF mode = "sequential" THEN 1 ELSE MaxParallel)

\* An abort from another thread takes effect within one call: the driver announces at most one
\* more, and the only bodies that still run are those already past the check of
\* ToolCoordinator.execute, in the executor's queue or on their way to it.  The calls that wait
\* for a worker, and the one announced late, are answered without being run.
AbortStopsBatch ==
    aborted => /\ \A c \in Calls : body[c] # "none" => c \in prior.cleared
               /\ \A c, d \in started \ prior.started : c = d

\* A listener raised out of the batch while a tool thread waits in publish() for
\* the loop, which executor.shutdown(wait=True) now holds: neither ever goes on.
LoopHeld == driver = "shutdown" /\ raising /\ \E c \in Calls : body[c] = "publishing"

\* The batch ends, aborted or not: it returns, or raises what a listener raised
\* ("A listener or hook failure is reported through the run failure contract").
\* The one exception is that a listener fails under a publishing thread.
BatchEnds == <>(driver \in {"done", "raised"} \/ LoopHeld)

\* The batch implements what the turn loop relies on: answers in the order of the
\* calls, one each, and a return only when all are given or the run is aborted.
Contract == INSTANCE BatchContract WITH
    answered <- Len(results),
    status <- CASE driver = "done" -> "returned" [] driver = "raised" -> "raised" [] OTHER -> "open"
ImplementsContract == Contract!Spec

\* At every moment of a batch the variables have their types, results are in the order of the
\* calls, events in the order of a call's life, bodies within the limit, and none is left
\* behind.
BatchSound ==
    /\ TypeOK
    /\ ResultsInOrder
    /\ EventOrder
    /\ NoOrphanBody
    /\ ParallelBound
=============================================================================

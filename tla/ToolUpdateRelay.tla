--------------------------- MODULE ToolUpdateRelay ---------------------------
(***************************************************************************)
(* travis/agent/tool_updates.py: the bounded relay that carries a running  *)
(* tool's progress snapshots to the event sink of the agent loop.          *)
(*                                                                         *)
(* The relay lives on one asyncio event loop.  A task runs from one await  *)
(* to the next without interruption; tasks that can run wait in the loop's *)
(* FIFO ready queue.  Here `ready' is that queue: the task at its head is  *)
(* the one that runs, it stays at the head until it suspends, and a task   *)
(* that is woken goes to the tail.  Threads outside the loop (the workers  *)
(* that run synchronous tools) only ever append to the tail.               *)
(*                                                                         *)
(* Abstractions: an update is its source and its number in order of        *)
(* arrival; the sink either returns at once, raises, or suspends and is    *)
(* resumed later.  Task cancellation is not modelled.                      *)
(***************************************************************************)
EXTENDS Naturals, Sequences, FiniteSets

CONSTANTS
    Publishers,   \* threads that call publish() from outside the loop
    Closers,      \* tasks that call close()
    Consumer,     \* the relay's own _consume task
    Tool,         \* an async tool: calls publish() on the loop itself
    Capacities,   \* the values of max_pending to consider (64 by default)
    MaxUpdates,   \* bound: updates that arrive in one behaviour
    None,
    Sentinel      \* _SENTINEL

ASSUME RelayAssumption ==
    /\ Capacities \subseteq Nat \ {0}
    /\ MaxUpdates \in Nat
    /\ IsFiniteSet(Publishers) /\ IsFiniteSet(Closers)
    /\ Sentinel # None
    /\ Consumer # Tool
    /\ {Consumer, Tool} \cap (Publishers \cup Closers) = {}
    /\ Publishers \cap Closers = {}

VARIABLES
    maxPending,   \* the queue's capacity, fixed by the constructor
    accepting,    \* self._accepting
    queue,        \* self._queue
    overflow,     \* self._latest_overflow
    error,        \* self._error is not None
    unfinished,   \* the queue's count of items put and not yet task_done()
    putters,      \* publishers suspended in queue.put, oldest first
    consumer,     \* where _consume is; item it holds
    publisher,    \* where each publish() call is; update it carries
    closer,       \* where each close() call is
    ready,        \* the event loop's ready queue
    arrived,      \* history: how many updates arrived while accepting
    accepted,     \* history: updates queued while accepting, the overflow kept at close
    delivered     \* history: updates handed to the sink, in order

vars == <<maxPending, accepting, queue, overflow, error, unfinished, putters, consumer,
          publisher, closer, ready, arrived, accepted, delivered>>

Tasks == Publishers \cup Closers \cup {Consumer, Tool}
Update == [source : Publishers \cup {Tool}, number : 1..MaxUpdates]
Idle == [pc |-> "idle", item |-> None]

ASSUME UpdateAssumption == None \notin Update /\ Sentinel \notin Update

\* The update that arrives next, from source s.
NewUpdate(s) == [source |-> s, number |-> arrived + 1]

-----------------------------------------------------------------------------
(* The event loop and asyncio.Queue, as the relay uses them.               *)

Runs(t) == ready # <<>> /\ Head(ready) = t

\* The running task goes on; the tasks of `woken' become ready.
Continue(woken) == ready' = ready \o woken

\* The running task suspends or returns; the tasks of `woken' become ready.
Suspend(woken) == ready' = Tail(ready) \o woken

\* queue.put_nowait(item): a consumer suspended in get() is woken.
Getter == IF consumer.pc = "waiting" THEN <<Consumer>> ELSE <<>>
PutNowait(item) ==
    /\ queue' = Append(queue, item)
    /\ unfinished' = unfinished + 1
    /\ accepted' = IF accepting THEN accepted \cup {item} ELSE accepted
    /\ consumer' = IF consumer.pc = "waiting" THEN [consumer EXCEPT !.pc = "next"]
                                              ELSE consumer

\* The oldest putter, woken when an item leaves the queue.
Putter == IF putters = <<>> THEN <<>> ELSE <<Head(putters)>>

\* Closers suspended in queue.join() or on the consumer task, in some order.
InState(pc) == {c \in Closers : closer[c] = pc}
Orders(S) == {s \in [1..Cardinality(S) -> S] : \A i, j \in DOMAIN s : i # j => s[i] # s[j]}

-----------------------------------------------------------------------------
(* publish() from a thread: run_coroutine_threadsafe(...).result().        *)

\* The thread hands the coroutine to the loop and blocks on its result.
Publish(p) ==
    /\ publisher[p].pc = "idle"
    /\ arrived < MaxUpdates
    /\ publisher' = [publisher EXCEPT ![p].pc = "called"]
    /\ ready' = Append(ready, p)
    /\ UNCHANGED <<accepting, queue, overflow, error, unfinished, putters,
                   consumer, closer, arrived, accepted, delivered>>

\* _publish_with_backpressure refuses the update of a closed relay.
PublishRefused(p) ==
    /\ Runs(p) /\ publisher[p].pc = "called"
    /\ ~accepting \/ arrived = MaxUpdates
    /\ publisher' = [publisher EXCEPT ![p] = Idle]
    /\ Suspend(<<>>)
    /\ UNCHANGED <<accepting, queue, overflow, error, unfinished, putters,
                   consumer, closer, arrived, accepted, delivered>>

\* It accepts it and reaches queue.put.
PublishAccepted(p) ==
    /\ Runs(p) /\ publisher[p].pc = "called"
    /\ accepting /\ arrived < MaxUpdates
    /\ publisher' = [publisher EXCEPT ![p] = [pc |-> "put", item |-> NewUpdate(p)]]
    /\ arrived' = arrived + 1
    /\ UNCHANGED <<accepting, queue, overflow, error, unfinished, putters,
                   consumer, closer, ready, accepted, delivered>>

\* queue.put suspends while the queue is full; woken, it looks again.
PublishBlocks(p) ==
    /\ Runs(p) /\ publisher[p].pc = "put"
    /\ Len(queue) = maxPending
    /\ putters' = Append(putters, p)
    /\ publisher' = [publisher EXCEPT ![p].pc = "blocked"]
    /\ Suspend(<<>>)
    /\ UNCHANGED <<accepting, queue, overflow, error, unfinished, consumer,
                   closer, arrived, accepted, delivered>>


PublishPuts(p) ==
    /\ Runs(p) /\ publisher[p].pc = "put"
    /\ Len(queue) < maxPending
    /\ PutNowait(publisher[p].item)
    /\ publisher' = [publisher EXCEPT ![p] = Idle]
    /\ Suspend(Getter)
    /\ UNCHANGED <<accepting, overflow, error, putters, closer, arrived, delivered>>

-----------------------------------------------------------------------------
(* publish() on the loop: _offer, called by an async tool.                 *)

ToolScheduled ==
    /\ \A i \in DOMAIN ready : ready[i] # Tool
    /\ arrived < MaxUpdates
    /\ ready' = Append(ready, Tool)
    /\ UNCHANGED <<accepting, queue, overflow, error, unfinished, putters,
                   consumer, publisher, closer, arrived, accepted, delivered>>

\* Where an offered update goes: into the queue, or over the last overflow.
OfferQueued == Len(queue) < maxPending /\ PutNowait(NewUpdate(Tool)) /\ UNCHANGED overflow
OfferOverflows == Len(queue) = maxPending /\ overflow' = NewUpdate(Tool)
                  /\ UNCHANGED <<queue, unfinished, consumer, accepted>>

Offer ==
    /\ Runs(Tool)
    /\ accepting /\ arrived < MaxUpdates
    /\ \/ OfferQueued /\ Continue(Getter)
       \/ OfferOverflows /\ Continue(<<>>)
    /\ arrived' = arrived + 1
    /\ UNCHANGED <<accepting, error, putters, publisher, closer, delivered>>

\* The tool awaits something or returns; a refused offer does nothing else.
ToolSuspends ==
    /\ Runs(Tool)
    /\ Suspend(<<>>)
    /\ UNCHANGED <<accepting, queue, overflow, error, unfinished, putters,
                   consumer, publisher, closer, arrived, accepted, delivered>>

-----------------------------------------------------------------------------
(* _consume.                                                               *)

ConsumerWaits ==
    /\ Runs(Consumer) /\ consumer.pc = "next"
    /\ queue = <<>>
    /\ consumer' = [consumer EXCEPT !.pc = "waiting"]
    /\ Suspend(<<>>)
    /\ UNCHANGED <<accepting, queue, overflow, error, unfinished, putters,
                   publisher, closer, arrived, accepted, delivered>>

\* queue.get takes the head of the queue and wakes the oldest putter.
ConsumerGets ==
    /\ Runs(Consumer) /\ consumer.pc = "next"
    /\ queue # <<>>
    /\ queue' = Tail(queue)
    /\ consumer' = [pc |-> "got", item |-> Head(queue)]
    /\ putters' = IF putters = <<>> THEN <<>> ELSE Tail(putters)
    /\ publisher' = [p \in Publishers |->
                        IF putters # <<>> /\ p = Head(putters)
                        THEN [publisher[p] EXCEPT !.pc = "put"] ELSE publisher[p]]
    /\ Continue(Putter)
    /\ UNCHANGED <<accepting, overflow, error, unfinished, closer, arrived, accepted, delivered>>

\* The update is handed to the sink, unless the sink has failed before.  The
\* sink settles at once or suspends the consumer.
ConsumerEmits ==
    /\ Runs(Consumer) /\ consumer.pc = "got" /\ consumer.item # Sentinel
    /\ IF error
       THEN /\ consumer' = [consumer EXCEPT !.pc = "settled"]
            /\ UNCHANGED <<delivered, ready>>
       ELSE /\ delivered' = Append(delivered, consumer.item)
            /\ \/ consumer' = [consumer EXCEPT !.pc = "emitted"] /\ UNCHANGED ready
               \/ consumer' = [consumer EXCEPT !.pc = "emitting"] /\ Suspend(<<>>)
    /\ UNCHANGED <<accepting, queue, overflow, error, unfinished, putters,
                   publisher, closer, arrived, accepted>>

\* The sink's awaitable is done: the suspended task becomes ready.
ConsumerSinkDone ==
    /\ consumer.pc = "emitting"
    /\ consumer' = [consumer EXCEPT !.pc = "emitted"]
    /\ ready' = Append(ready, Consumer)
    /\ UNCHANGED <<accepting, queue, overflow, error, unfinished, putters,
                   publisher, closer, arrived, accepted, delivered>>

\* The first exception of the sink is kept; later updates are only drained.
ConsumerEmitSettles ==
    /\ Runs(Consumer) /\ consumer.pc = "emitted"
    /\ error' \in {error, TRUE}
    /\ consumer' = [consumer EXCEPT !.pc = "settled"]
    /\ UNCHANGED <<accepting, queue, overflow, unfinished, putters, publisher,
                   closer, ready, arrived, accepted, delivered>>

\* Mutant: no task_done() after the sink has failed.
ConsumerForgets ==
    /\ Runs(Consumer) /\ consumer.pc = "settled"
    /\ unfinished' = IF error THEN unfinished ELSE unfinished - 1
    /\ consumer' = [pc |-> "next", item |-> None]
    /\ IF unfinished' = 0
       THEN /\ \E woken \in Orders(InState("joining")) : Continue(woken)
            /\ closer' = [c \in Closers |-> IF closer[c] = "joining" THEN "drained" ELSE closer[c]]
       ELSE UNCHANGED <<ready, closer>>
    /\ UNCHANGED <<accepting, queue, overflow, error, putters, publisher,
                   arrived, accepted, delivered>>

\* task_done(); the last one wakes the closers in join().
ConsumerTaskDone ==
    /\ Runs(Consumer) /\ consumer.pc = "settled"
    /\ unfinished' = unfinished - 1
    /\ consumer' = [pc |-> "next", item |-> None]
    /\ IF unfinished = 1
       THEN /\ \E woken \in Orders(InState("joining")) : Continue(woken)
            /\ closer' = [c \in Closers |-> IF closer[c] = "joining" THEN "drained" ELSE closer[c]]
       ELSE UNCHANGED <<ready, closer>>
    /\ UNCHANGED <<accepting, queue, overflow, error, putters, publisher,
                   arrived, accepted, delivered>>

\* The sentinel ends the task, which wakes whoever awaits it.
ConsumerReturns ==
    /\ Runs(Consumer) /\ consumer.pc = "got" /\ consumer.item = Sentinel
    /\ unfinished' = unfinished - 1
    /\ consumer' = [pc |-> "done", item |-> None]
    /\ \E woken \in Orders(InState("awaiting")) : Suspend(woken)
    /\ closer' = [c \in Closers |-> IF closer[c] = "awaiting" THEN "ended" ELSE closer[c]]
    /\ UNCHANGED <<accepting, queue, overflow, error, putters, publisher,
                   arrived, accepted, delivered>>

-----------------------------------------------------------------------------
(* close().                                                                *)

Close(c) ==
    /\ closer[c] = "none"
    /\ closer' = [closer EXCEPT ![c] = "called"]
    /\ ready' = Append(ready, c)
    /\ UNCHANGED <<accepting, queue, overflow, error, unfinished, putters,
                   consumer, publisher, arrived, accepted, delivered>>

\* A second close only awaits the consumer.
CloseAgain(c) ==
    /\ Runs(c) /\ closer[c] = "called" /\ ~accepting
    /\ IF consumer.pc = "done"
       THEN closer' = [closer EXCEPT ![c] = "ended"] /\ UNCHANGED ready
       ELSE closer' = [closer EXCEPT ![c] = "awaiting"] /\ Suspend(<<>>)
    /\ UNCHANGED <<accepting, queue, overflow, error, unfinished, putters,
                   consumer, publisher, arrived, accepted, delivered>>

\* Mutant: close() does not join the queue.
CloseSkipsJoin(c) ==
    /\ Runs(c) /\ closer[c] = "called" /\ accepting
    /\ accepting' = FALSE
    /\ closer' = [closer EXCEPT ![c] = "drained"]
    /\ UNCHANGED <<queue, overflow, error, unfinished, putters, consumer,
                   publisher, ready, arrived, accepted, delivered>>

\* The first one stops the relay accepting and joins the queue.
CloseJoins(c) ==
    /\ Runs(c) /\ closer[c] = "called" /\ accepting
    /\ accepting' = FALSE
    /\ accepted' = accepted \cup ({overflow} \ {None})
    /\ IF unfinished = 0
       THEN closer' = [closer EXCEPT ![c] = "drained"] /\ UNCHANGED ready
       ELSE closer' = [closer EXCEPT ![c] = "joining"] /\ Suspend(<<>>)
    /\ UNCHANGED <<queue, overflow, error, unfinished, putters, consumer,
                   publisher, arrived, delivered>>

\* Mutant: close() forgets the kept overflow.
CloseDropsOverflow(c) ==
    /\ Runs(c) /\ closer[c] = "drained"
    /\ overflow' = None
    /\ closer' = [closer EXCEPT ![c] = "flushed"]
    /\ UNCHANGED <<accepting, queue, error, unfinished, putters, consumer,
                   publisher, ready, arrived, accepted, delivered>>

\* The kept overflow is handed to the sink after the queue has drained.
CloseFlushes(c) ==
    /\ Runs(c) /\ closer[c] = "drained"
    /\ overflow' = None
    /\ IF overflow # None /\ ~error
       THEN /\ delivered' = Append(delivered, overflow)
            /\ \/ closer' = [closer EXCEPT ![c] = "emitted"] /\ UNCHANGED ready
               \/ closer' = [closer EXCEPT ![c] = "emitting"] /\ Suspend(<<>>)
       ELSE /\ closer' = [closer EXCEPT ![c] = "flushed"]
            /\ UNCHANGED <<delivered, ready>>
    /\ UNCHANGED <<accepting, queue, error, unfinished, putters, consumer,
                   publisher, arrived, accepted>>

CloseSinkDone(c) ==
    /\ closer[c] = "emitting"
    /\ closer' = [closer EXCEPT ![c] = "emitted"]
    /\ ready' = Append(ready, c)
    /\ UNCHANGED <<accepting, queue, overflow, error, unfinished, putters,
                   consumer, publisher, arrived, accepted, delivered>>

CloseEmitSettles(c) ==
    /\ Runs(c) /\ closer[c] = "emitted"
    /\ error' \in {error, TRUE}
    /\ closer' = [closer EXCEPT ![c] = "flushed"]
    /\ UNCHANGED <<accepting, queue, overflow, unfinished, putters, consumer,
                   publisher, ready, arrived, accepted, delivered>>

\* put_nowait(_SENTINEL), which raises QueueFull out of close() on a full
\* queue, then await self._consumer.
CloseSends(c) ==
    /\ Runs(c) /\ closer[c] = "flushed"
    /\ \/ /\ Len(queue) < maxPending
          /\ PutNowait(Sentinel)
          /\ closer' = [closer EXCEPT ![c] = "awaiting"]
          /\ Suspend(Getter)
       \/ /\ Len(queue) = maxPending
          /\ closer' = [closer EXCEPT ![c] = "queue_full"]
          /\ Suspend(<<>>)
          /\ UNCHANGED <<queue, unfinished, consumer, accepted>>
    /\ UNCHANGED <<accepting, overflow, error, putters, publisher, arrived, delivered>>

\* close() returns, or raises the sink's exception.
CloseEnds(c) ==
    /\ Runs(c) /\ closer[c] = "ended"
    /\ closer' = [closer EXCEPT ![c] = IF error THEN "raised" ELSE "closed"]
    /\ Suspend(<<>>)
    /\ UNCHANGED <<accepting, queue, overflow, error, unfinished, putters,
                   consumer, publisher, arrived, accepted, delivered>>

-----------------------------------------------------------------------------
Init ==
    /\ maxPending \in Capacities
    /\ accepting = TRUE
    /\ queue = <<>>
    /\ overflow = None
    /\ error = FALSE
    /\ unfinished = 0
    /\ putters = <<>>
    /\ consumer = [pc |-> "next", item |-> None]
    /\ publisher = [p \in Publishers |-> Idle]
    /\ closer = [c \in Closers |-> "none"]
    /\ ready = <<Consumer>>
    /\ arrived = 0
    /\ accepted = {}
    /\ delivered = <<>>

PublisherStep(p) == PublishRefused(p) \/ PublishAccepted(p) \/ PublishBlocks(p) \/ PublishPuts(p)
ConsumerStep == \/ ConsumerWaits \/ ConsumerGets \/ ConsumerEmits
                \/ ConsumerEmitSettles \/ ConsumerTaskDone \/ ConsumerReturns
CloserStep(c) == \/ CloseAgain(c) \/ CloseJoins(c) \/ CloseFlushes(c)
                 \/ CloseEmitSettles(c) \/ CloseSends(c) \/ CloseEnds(c)

\* The event loop runs the task at the head of the ready queue.
RunHead == /\ \/ \E p \in Publishers : PublisherStep(p)
              \/ ConsumerStep
              \/ \E c \in Closers : CloserStep(c)
              \/ Offer \/ ToolSuspends
           /\ UNCHANGED maxPending

\* The sink's awaitables complete.
SinkDone == /\ ConsumerSinkDone \/ \E c \in Closers : CloseSinkDone(c)
            /\ UNCHANGED maxPending

\* Threads, the async tool and the caller of close().
Environment == /\ \/ \E p \in Publishers : Publish(p)
                  \/ ToolScheduled
                  \/ \E c \in Closers : Close(c)
               /\ UNCHANGED maxPending

Next == RunHead \/ SinkDone \/ Environment

Spec == Init /\ [][Next]_vars

\* The loop keeps running ready tasks, an async tool that runs suspends, and a
\* listener that was awaited completes.
Fairness == WF_vars(RunHead) /\ SF_vars(ToolSuspends /\ UNCHANGED maxPending) /\ WF_vars(SinkDone)
FairSpec == Spec /\ Fairness

-----------------------------------------------------------------------------
TypeOK ==
    /\ maxPending \in Capacities
    /\ accepting \in BOOLEAN /\ error \in BOOLEAN
    /\ queue \in Seq(Update \cup {Sentinel}) /\ Len(queue) <= maxPending
    /\ overflow \in Update \cup {None}
    /\ unfinished \in Nat /\ arrived \in 0..MaxUpdates
    /\ putters \in Seq(Publishers)
    /\ consumer \in [pc : {"next", "waiting", "got", "emitting", "emitted", "settled", "done"},
                     item : Update \cup {Sentinel, None}]
    /\ publisher \in [Publishers -> [pc : {"idle", "called", "put", "blocked"},
                                     item : Update \cup {None}]]
    /\ closer \in [Closers -> {"none", "called", "joining", "drained", "emitting", "emitted",
                               "flushed", "awaiting", "ended", "closed", "raised", "queue_full"}]
    /\ ready \in Seq(Tasks)
    /\ accepted \in SUBSET Update /\ delivered \in Seq(Update)

Returned(c) == closer[c] \in {"closed", "raised"}

\* When close() has returned without error, every update that was queued before
\* close() was called, and the overflow that was kept, reached the sink.  Only a
\* thread still blocked in put() when close() is called can lose its update: it
\* may put it behind the sentinel.
CloseDeliversAccepted ==
    (\E c \in Closers : closer[c] = "closed") =>
        accepted \subseteq {delivered[i] : i \in DOMAIN delivered}

\* The relay has a slot that the threads of one tool cannot fill (64 slots).
SpareSlot == Cardinality(Publishers) < maxPending

\* close() never raises QueueFull while fewer threads publish than the queue
\* holds: whatever the putters that it overtakes do, the sentinel has room.
SentinelFits == SpareSlot => \A c \in Closers : closer[c] # "queue_full"

\* The tool's end event follows close(): the sink sees no update after close()
\* has returned (tests/test_agent_loop.py, "update_emit_settles_before_
\* tool_execution_end").
NoDeliveryAfterClose ==
    [][(\E c \in Closers : Returned(c)) => delivered' = delivered]_delivered

\* What one thread publishes is delivered in the order it published it.
ThreadOrder ==
    \A i, j \in DOMAIN delivered :
        /\ i < j
        /\ delivered[i].source = delivered[j].source
        /\ delivered[i].source \in Publishers
        => delivered[i].number < delivered[j].number

\* A thread blocked in publish() is released, whether or not the relay closes:
\* no tool thread stays behind in a put that nobody will make room for.
PublishersReleased ==
    SpareSlot => \A p \in Publishers : publisher[p].pc # "idle" ~> publisher[p].pc = "idle"

\* A close() that was called ends, and so does a second one that finds the first
\* under way.
CloseEnding == SpareSlot => \A c \in Closers : closer[c] = "called" ~> Returned(c)

\* The queue is sound: the values have their types, the sentinel of close() finds room, and
\* no thread's updates overtake each other.
QueueSound ==
    /\ TypeOK
    /\ SentinelFits
    /\ ThreadOrder

\* close() settles everything: it ends, whoever else calls it; a thread in publish() is
\* released; and after it the sink is silent.
CloseSettles ==
    /\ NoDeliveryAfterClose
    /\ CloseEnding
    /\ PublishersReleased
=============================================================================

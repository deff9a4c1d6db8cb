--------------------------- MODULE ToolBatchProofs ---------------------------
(***************************************************************************)
(* Proofs about ToolBatch, for every number of calls and every bound on    *)
(* the parallelism.                                                        *)
(*                                                                         *)
(* None of the properties is inductive by itself: that a batch which       *)
(* returns has answered every call depends on who holds each call (the     *)
(* queue, one worker, or its slot), on the Nones being behind all calls in *)
(* the queue, and on where the driver is.  The parts of the inductive      *)
(* invariant say that, one idea each.                                      *)
(***************************************************************************)
EXTENDS ToolBatch, SequenceTheorems, FiniteSetTheorems, TLAPS

\* Where the driver still hands out calls.
Looping == {"start", "prepare", "inline", "result", "check", "stop"}

\* The calls are handed out and no exception is on its way.
Settled == driver \in {"stop", "gather", "emit", "shutdown", "done"} /\ ~raising

\* How far the driver is.
Scheduling ==
    /\ driver \in {"start", "prepare"} => scheduled = index - 1
    /\ driver \in {"inline", "result", "check", "stop"} => scheduled = index
    /\ driver = "prepare" => index <= N /\ started = 1..index
    /\ driver \in {"inline", "result"} => mode = "sequential"
    /\ driver \in {"gather", "cancel", "drain", "emit"} => mode = "parallel"
    /\ driver \in Looping \cup {"gather", "emit", "done"} => ~raising
    /\ driver \in {"cancel", "drain", "raised"} => raising
    /\ 1..scheduled \subseteq started /\ started \subseteq 1..N
    /\ driver # "prepare" /\ ~raising => started = 1..scheduled
    /\ Settled => scheduled > 0 /\ (scheduled < N => aborted)

\* Every call is held at most once, by the queue or by one worker.
Ownership ==
    /\ \A w \in Workers : worker[w].call \in 0..scheduled
    /\ \A i \in DOMAIN workQueue : workQueue[i] \in 0..scheduled
    /\ \A i, j \in DOMAIN workQueue : i # j /\ workQueue[i] = workQueue[j] => workQueue[i] = NoCall
    /\ \A i \in DOMAIN workQueue, w \in Workers : workQueue[i] = worker[w].call => workQueue[i] = NoCall
    /\ \A v, w \in Workers : v # w /\ worker[v].call = worker[w].call => worker[v].call = NoCall

\* Which workers hold a call.
Holding ==
    \A w \in Workers :
        /\ worker[w].pc \in {"get", "done"} => worker[w].call = NoCall
        /\ worker[w].pc \in {"execute", "body", "close", "finish", "unwind", "raised"} =>
               worker[w].call # NoCall

\* A sequential batch uses worker 1 only, and only while the driver is inline.
Inline ==
    mode = "sequential" =>
        /\ workQueue = <<>>
        /\ \A w \in Workers :
              /\ worker[w].pc \notin {"unwind", "cancelled", "done"}
              /\ w # 1 => worker[w].pc = "get"
              /\ driver # "inline" => worker[w].pc \in {"get", "raised"}
              /\ driver \in Looping \ {"inline"} => worker[w].pc = "get"

\* The Nones are behind all calls, and none is there while calls are handed out.
QueueShape ==
    /\ \A i, j \in DOMAIN workQueue : i < j /\ workQueue[i] = NoCall => workQueue[j] = NoCall
    /\ (\E w \in Workers : worker[w].pc = "done") => \A i \in DOMAIN workQueue : workQueue[i] = NoCall
    /\ driver \in Looping =>
          /\ \A i \in DOMAIN workQueue : workQueue[i] # NoCall
          /\ \A w \in Workers : worker[w].pc \notin {"done", "unwind", "cancelled"}

\* When the coordinator shuts down no worker has a step left; workers are
\* cancelled at most once.
Quiet ==
    /\ driver \in {"shutdown", "done", "raised"} =>
          \A w \in Workers : Over(w) \/ (mode = "sequential" /\ worker[w].pc = "get")
    /\ driver = "emit" => \A w \in Workers : worker[w].pc = "done"
    /\ driver \in {"gather", "cancel"} => \A w \in Workers : worker[w].pc \notin {"unwind", "cancelled"}

\* Which calls have run, and who waits for a body that runs.
Bodies ==
    /\ \A c \in Calls : c > scheduled => body[c] = "none"
    /\ \A i \in DOMAIN workQueue : workQueue[i] # NoCall => body[workQueue[i]] = "none"
    /\ \A w \in Workers :
          /\ worker[w].pc = "execute" => body[worker[w].call] = "none"
          /\ worker[w].pc \in {"close", "finish", "raised"} => body[worker[w].call] \in {"none", "returned"}
    /\ \A c \in Calls : body[c] \in {"cleared", "thread", "publishing", "async"} =>
          \E w \in Workers : /\ worker[w].call = c
                             /\ worker[w].pc \in {"body", "unwind", "cancelled"}
                             /\ body[c] \in {"cleared", "async"} => worker[w].pc # "cancelled"

\* Which calls have ended.
Ended ==
    /\ ended \subseteq 1..scheduled
    /\ \A c \in Calls : slot[c] # "none" => c \in ended
    /\ \A i \in DOMAIN workQueue : workQueue[i] \notin ended
    /\ \A w \in Workers : worker[w].pc # "raised" => worker[w].call \notin ended

\* Every call that was scheduled has its outcome or is held by someone.
Accounted ==
    ~raising =>
        \A c \in 1..scheduled : \/ slot[c] # "none"
                                \/ \E i \in DOMAIN workQueue : workQueue[i] = c
                                \/ \E w \in Workers : worker[w].call = c

\* How many results were emitted.
Answered ==
    /\ ResultsInOrder
    /\ \A c \in 1..Len(results) : c \in ended
    /\ mode = "sequential" /\ driver \in {"start", "prepare", "inline", "result"} => Len(results) = index - 1
    /\ mode = "sequential" /\ driver \in {"check", "stop"} => Len(results) = scheduled
    /\ mode = "parallel" /\ driver \in Looping \cup {"gather", "cancel", "drain"} => Len(results) = 0
    /\ driver = "emit" =>
          /\ Len(results) = index - 1 /\ index <= scheduled + 1
          /\ \A c \in 1..scheduled : slot[c] # "none"
    /\ driver \in {"shutdown", "done"} /\ ~raising =>
          Len(results) = scheduled /\ \A c \in 1..scheduled : c \in ended

\* What an abort leaves to come; a driver about to announce a call has announced
\* none since.
Signal ==
    /\ AbortStopsBatch
    /\ aborted /\ driver = "start" => started \subseteq prior.started

IInv ==
    /\ TypeOK /\ Scheduling /\ Ownership /\ Holding /\ Inline /\ QueueShape /\ Quiet
    /\ Bodies /\ Ended /\ Accounted /\ Answered
    /\ NoOrphanBody /\ Signal

-----------------------------------------------------------------------------
(* Type correctness.                                                       *)

\* Every step of the driver, a worker or a body keeps the types.
LEMMA TypeStep ==
    ASSUME TypeOK, Scheduling, Holding, [Next]_vars
    PROVE  TypeOK'
<1> USE DEF TypeOK, Goto, BatchFails, At, Over
<1>a. N \in Nat /\ N > 0 /\ 1 \in Workers
  BY BatchAssumption DEF Workers
<1>b. \A i \in 1..(N + 1) : i <= N => i \in Calls
  BY <1>a DEF Calls
<1>c. driver = "prepare" => index \in Calls
  BY <1>b DEF Scheduling
<1>d. driver \in {"inline", "result", "check", "stop"} => index \in Calls
  BY <1>a DEF Scheduling, Calls
<1>e. \A w \in Workers : worker[w].pc \in {"execute", "body", "close", "finish", "unwind", "raised"} =>
          worker[w].call \in Calls
  BY DEF Holding
<1>f. [i \in Workers |-> NoCall] \in Seq(Calls \cup {NoCall})
  BY <1>a, BatchAssumption DEF Workers
<1>1. CASE DriverStarts
  BY <1>b, <1>1 DEF DriverStarts
<1>2. CASE DriverPreparesImmediate
  <2>1. scheduled' \in 0..N
    BY <1>a, <1>c, <1>2 DEF DriverPreparesImmediate, Calls
  <2>2. ended' \in SUBSET Calls /\ slot' \in [Calls -> {"none", "terminate", "continue"}]
    BY <1>c, <1>2 DEF DriverPreparesImmediate
  <2> QED
    BY <1>2, <2>1, <2>2 DEF DriverPreparesImmediate
<1>3. CASE DriverPreparesCall
  <2>1. scheduled' \in 0..N
    BY <1>a, <1>c, <1>3 DEF DriverPreparesCall, Calls
  <2>2. workQueue' \in Seq(Calls \cup {NoCall})
    <3>1. workQueue' = workQueue \/ workQueue' = Append(workQueue, index)
      BY <1>3 DEF DriverPreparesCall
    <3>2. workQueue \in Seq(Calls \cup {NoCall}) /\ index \in Calls \cup {NoCall}
      BY <1>c, <1>3 DEF DriverPreparesCall
    <3> HIDE DEF TypeOK
    <3> QED
      BY <3>1, <3>2
  <2>3. worker' \in [Workers -> [pc : {"get", "execute", "body", "close", "finish", "unwind",
                                      "done", "raised", "cancelled"}, call : Calls \cup {NoCall}]]
    BY <1>a, <1>c, <1>3, SMTT(30) DEF DriverPreparesCall
  <2> QED
    BY <1>3, <2>1, <2>2, <2>3 DEF DriverPreparesCall
<1>4. CASE DriverInline
  BY <1>4 DEF DriverInline
<1>5. CASE DriverEmitsResult
  <2>1. results' \in Seq(Calls)
    <3>1. results' = results \/ results' = Append(results, index)
      BY <1>5 DEF DriverEmitsResult
    <3>2. results \in Seq(Calls) /\ index \in Calls
      BY <1>d, <1>5 DEF DriverEmitsResult
    <3> HIDE DEF TypeOK
    <3> QED
      BY <3>1, <3>2
  <2> QED
    BY <1>5, <2>1 DEF DriverEmitsResult
<1>6. CASE DriverChecks
  <2>1. index' \in 1..(N + 1)
    BY <1>a, <1>d, <1>6 DEF DriverChecks, Calls
  <2> QED
    BY <1>6, <2>1 DEF DriverChecks
<1>7. CASE DriverStops
  <2>1. workQueue' \in Seq(Calls \cup {NoCall})
    <3> DEFINE nones == [i \in Workers |-> NoCall]
    <3>1. workQueue' = workQueue \/ workQueue' = workQueue \o nones
      BY <1>7 DEF DriverStops
    <3>2. workQueue \in Seq(Calls \cup {NoCall}) /\ nones \in Seq(Calls \cup {NoCall})
      BY <1>f
    <3> HIDE DEF TypeOK, nones
    <3> QED
      BY <3>1, <3>2, ConcatProperties
  <2> QED
    BY <1>7, <2>1 DEF DriverStops
<1>8. CASE DriverGathers
  <2>1. index' \in 1..(N + 1)
    BY <1>a, <1>8 DEF DriverGathers
  <2> QED
    BY <1>8, <2>1 DEF DriverGathers
<1>9. CASE DriverCancels
  BY <1>9 DEF DriverCancels
<1>10. CASE DriverDrains
  BY <1>10 DEF DriverDrains
<1>11. CASE DriverEmitsResults
  <2>1. index <= scheduled => index \in Calls /\ index + 1 \in 1..(N + 1)
    BY <1>a DEF Calls
  <2>2. index' \in 1..(N + 1)
    BY <1>11, <2>1 DEF DriverEmitsResults
  <2>3. index > scheduled \/ index <= scheduled
    BY <1>a
  <2>4. results' \in Seq(Calls)
    BY <1>11, <2>1, <2>3, SMTT(30) DEF DriverEmitsResults
  <2> QED
    BY <1>11, <2>2, <2>4 DEF DriverEmitsResults
<1>12. CASE DriverShutsDown
  BY <1>12 DEF DriverShutsDown
<1>g. ASSUME NEW w \in Workers, NEW pc \in {"close", "body", "finish", "raised", "cancelled"}, At(w, pc)
      PROVE  worker' \in [Workers -> [pc : {"get", "execute", "body", "close", "finish", "unwind",
                                     "done", "raised", "cancelled"}, call : Calls \cup {NoCall}]]
  BY <1>g
<1>13. ASSUME NEW w \in Workers, WorkerGets(w) PROVE TypeOK'
  BY <1>13 DEF WorkerGets
<1>14. ASSUME NEW w \in Workers, WorkerExecutes(w) PROVE TypeOK'
  <2>1. body' \in [Calls -> {"none", "cleared", "thread", "publishing", "async", "returned"}]
    BY <1>e, <1>14 DEF WorkerExecutes
  <2> HIDE DEF At
  <2>2. At(w, "close") \/ At(w, "body")
    BY <1>14 DEF WorkerExecutes
  <2>3. worker' \in [Workers -> [pc : {"get", "execute", "body", "close", "finish", "unwind",
                                     "done", "raised", "cancelled"}, call : Calls \cup {NoCall}]]
    BY <1>g, <2>2
  <2> QED
    BY <1>14, <2>1, <2>3 DEF WorkerExecutes
<1>15. ASSUME NEW w \in Workers, WorkerResumes(w) PROVE TypeOK'
  <2> HIDE DEF At
  <2>1. worker' \in [Workers -> [pc : {"get", "execute", "body", "close", "finish", "unwind",
                                     "done", "raised", "cancelled"}, call : Calls \cup {NoCall}]]
    BY <1>g, <1>15 DEF WorkerResumes
  <2> QED
    BY <1>15, <2>1 DEF WorkerResumes
<1>16. ASSUME NEW w \in Workers, WorkerCloses(w) PROVE TypeOK'
  <2> HIDE DEF At
  <2>1. worker' \in [Workers -> [pc : {"get", "execute", "body", "close", "finish", "unwind",
                                     "done", "raised", "cancelled"}, call : Calls \cup {NoCall}]]
    BY <1>g, <1>16 DEF WorkerCloses
  <2> QED
    BY <1>16, <2>1 DEF WorkerCloses
<1>17. ASSUME NEW w \in Workers, WorkerFinishes(w) PROVE TypeOK'
  <2>1. worker' \in [Workers -> [pc : {"get", "execute", "body", "close", "finish", "unwind",
                                     "done", "raised", "cancelled"}, call : Calls \cup {NoCall}]]
    <3>1. CASE worker' = [worker EXCEPT ![w] = [pc |-> "get", call |-> NoCall]]
      BY <3>1
    <3>2. CASE At(w, "raised")
      BY <1>g, <3>2
    <3> QED
      BY <1>17, <3>1, <3>2 DEF WorkerFinishes
  <2>2. slot' \in [Calls -> {"none", "terminate", "continue"}] /\ ended' \in SUBSET Calls
    BY <1>e, <1>17 DEF WorkerFinishes
  <2> HIDE DEF At
  <2> QED
    BY <1>17, <2>1, <2>2 DEF WorkerFinishes
<1>18. ASSUME NEW w \in Workers, WorkerUnwinds(w) PROVE TypeOK'
  BY <1>e, <1>18 DEF WorkerUnwinds
<1>19. ASSUME NEW c \in Calls, BodyReturns(c) PROVE TypeOK'
  BY <1>19 DEF BodyReturns
<1>20. ASSUME NEW c \in Calls, BodyPublishes(c) PROVE TypeOK'
  BY <1>20 DEF BodyPublishes
<1>21. ASSUME NEW c \in Calls, LoopServesPublish(c) PROVE TypeOK'
  BY <1>21 DEF LoopServesPublish
<1>22. ASSUME NEW c \in Calls, BodyBegins(c) PROVE TypeOK'
  BY <1>22 DEF BodyBegins
<1>23. CASE Abort
  BY <1>23 DEF Abort
<1>24. CASE UNCHANGED vars
  BY <1>24 DEF vars
<1> QED
  BY <1>1, <1>2, <1>3, <1>4, <1>5, <1>6, <1>7, <1>8, <1>9, <1>10, <1>11, <1>12, <1>13, <1>14,
     <1>15, <1>16, <1>17, <1>18, <1>19, <1>20, <1>21, <1>22, <1>23, <1>24 DEF Next, DriverStep, WorkerStep, BodyStep

-----------------------------------------------------------------------------
(* What the steps of workers and bodies leave alone.                       *)

\* A worker task leaves the scheduling of the driver and the results alone.
LEMMA WorkerFrame ==
    ASSUME NEW w \in Workers, WorkerStep(w)
    PROVE  UNCHANGED <<mode, aborted, prior, driver, index, scheduled, raising, started, results>>
BY DEF WorkerStep, WorkerGets, WorkerExecutes, WorkerResumes, WorkerCloses, WorkerFinishes,
       WorkerUnwinds

\* A tool body changes nothing but its own progress.
LEMMA BodyFrame ==
    ASSUME NEW c \in Calls, BodyStep(c)
    PROVE  UNCHANGED <<mode, aborted, prior, driver, index, scheduled, raising, workQueue, worker, slot,
                       started, ended, results>>
BY DEF BodyStep, BodyBegins, BodyReturns, BodyPublishes, LoopServesPublish

\* Who can change the workers.
LEMMA OtherFrame ==
    ASSUME [Next]_vars
    PROVE  \/ DriverPreparesCall \/ DriverCancels
           \/ \E w \in Workers : \/ WorkerGets(w) \/ WorkerExecutes(w) \/ WorkerResumes(w)
                                 \/ WorkerCloses(w) \/ WorkerFinishes(w) \/ WorkerUnwinds(w)
           \/ UNCHANGED worker
BY BodyFrame DEF Next, DriverStep, WorkerStep, vars, DriverStarts, DriverPreparesImmediate,
   DriverInline, DriverEmitsResult, DriverChecks, DriverStops, DriverGathers, DriverDrains,
   DriverEmitsResults, DriverShutsDown, Abort

\* How a worker moves.
LEMMA WorkerMoves ==
    ASSUME TypeOK, Holding, NEW w \in Workers, WorkerStep(w)
    PROVE  /\ \A v \in Workers : v # w => worker'[v] = worker[v]
           /\ \/ /\ WorkerGets(w) /\ worker[w].pc = "get"
                 /\ \/ Head(workQueue) = NoCall /\ worker'[w].pc = "done"
                    \/ Head(workQueue) # NoCall /\ worker'[w].pc = "execute"
                 /\ worker'[w].call = Head(workQueue)
              \/ /\ worker'[w].call = worker[w].call /\ UNCHANGED workQueue
                 /\ \/ WorkerExecutes(w) /\ worker[w].pc = "execute" /\ worker'[w].pc \in {"close", "body"}
                    \/ WorkerResumes(w) /\ worker[w].pc = "body" /\ worker'[w].pc = "close"
                    \/ WorkerCloses(w) /\ worker[w].pc = "close" /\ worker'[w].pc \in {"finish", "raised"}
                    \/ WorkerFinishes(w) /\ worker[w].pc = "finish" /\ worker'[w].pc = "raised"
                    \/ WorkerUnwinds(w) /\ worker[w].pc = "unwind" /\ worker'[w].pc = "cancelled"
              \/ /\ WorkerFinishes(w) /\ worker[w].pc = "finish" /\ UNCHANGED workQueue
                 /\ worker'[w].pc = "get" /\ worker'[w].call = NoCall /\ slot'[worker[w].call] # "none"
<1> USE DEF TypeOK, At, NoCall, Holding
<1>1. CASE WorkerGets(w)
  BY <1>1 DEF WorkerGets
<1>2. CASE WorkerExecutes(w)
  BY <1>2 DEF WorkerExecutes
<1>3. CASE WorkerResumes(w)
  BY <1>3 DEF WorkerResumes
<1>4. CASE WorkerCloses(w)
  BY <1>4 DEF WorkerCloses
<1>5. CASE WorkerFinishes(w)
  BY <1>5 DEF WorkerFinishes
<1>6. CASE WorkerUnwinds(w)
  BY <1>6 DEF WorkerUnwinds
<1> QED
  BY <1>1, <1>2, <1>3, <1>4, <1>5, <1>6 DEF WorkerStep

\* A prepared call is put behind the queue.
LEMMA QueueAppends ==
    ASSUME TypeOK, workQueue' = Append(workQueue, index), index \in Calls
    PROVE  \A i \in DOMAIN workQueue' :
               \/ i \in DOMAIN workQueue /\ workQueue'[i] = workQueue[i]
               \/ workQueue'[i] = index /\ \A j \in DOMAIN workQueue : j < i
BY DEF TypeOK

\* The Nones are put behind the queue.
LEMMA QueueStops ==
    ASSUME TypeOK, DriverStops
    PROVE  /\ mode = "sequential" => workQueue' = workQueue
           /\ \A i \in DOMAIN workQueue' :
                 \/ i \in DOMAIN workQueue /\ workQueue'[i] = workQueue[i]
                 \/ workQueue'[i] = NoCall /\ \A j \in DOMAIN workQueue : j < i
           /\ \A i \in DOMAIN workQueue : i \in DOMAIN workQueue' /\ workQueue'[i] = workQueue[i]
<1> DEFINE nones == [i \in Workers |-> NoCall]
<1>1. /\ workQueue' = workQueue \/ workQueue' = workQueue \o nones
      /\ mode = "sequential" => workQueue' = workQueue
  BY DEF DriverStops, TypeOK
<1>2. workQueue \in Seq(Calls \cup {NoCall}) /\ nones \in Seq({NoCall}) /\ nones \in Seq(Calls \cup {NoCall})
  BY BatchAssumption DEF Workers, TypeOK
<1>3. \A i \in 1..Len(nones) : nones[i] = NoCall
  BY <1>2
<1> HIDE DEF nones
<1>4. CASE workQueue' = workQueue
  BY <1>1, <1>4
<1>5. CASE workQueue' = workQueue \o nones
  <2>1. /\ Len(workQueue') = Len(workQueue) + Len(nones)
        /\ \A i \in 1..(Len(workQueue) + Len(nones)) :
              workQueue'[i] = IF i <= Len(workQueue) THEN workQueue[i] ELSE nones[i - Len(workQueue)]
        /\ DOMAIN workQueue = 1..Len(workQueue) /\ DOMAIN workQueue' = 1..Len(workQueue')
        /\ Len(workQueue) \in Nat /\ Len(nones) \in Nat
    BY <1>2, <1>5, ConcatProperties
  <2>2. ASSUME NEW i \in DOMAIN workQueue'
        PROVE  \/ i \in DOMAIN workQueue /\ workQueue'[i] = workQueue[i]
               \/ workQueue'[i] = NoCall /\ \A j \in DOMAIN workQueue : j < i
    <3>1. CASE i <= Len(workQueue)
      BY <2>1, <3>1
    <3>2. CASE Len(workQueue) < i
      <4>1. i - Len(workQueue) \in 1..Len(nones) /\ workQueue'[i] = nones[i - Len(workQueue)]
        BY <2>1, <3>2
      <4>2. \A j \in DOMAIN workQueue : j < i
        BY <2>1, <3>2
      <4> QED
        BY <1>3, <4>1, <4>2
    <3> QED
      BY <2>1, <3>1, <3>2
  <2>3. \A i \in DOMAIN workQueue : i \in DOMAIN workQueue' /\ workQueue'[i] = workQueue[i]
    BY <2>1
  <2> QED
    BY <1>1, <2>2, <2>3
<1> QED
  BY <1>1, <1>4, <1>5

-----------------------------------------------------------------------------
(* Each part of the invariant is preserved.                                *)

\* The driver counts and starts the calls one after the other (_execute_parallel,
\* _execute_sequential).
LEMMA SchedulingStep ==
    ASSUME TypeOK, Scheduling, [Next]_vars
    PROVE  Scheduling'
<1> USE DEF Scheduling, Settled, Looping, Goto, BatchFails
<1>a. /\ N \in Nat /\ N > 0 /\ index \in 1..(N + 1) /\ scheduled \in 0..N
      /\ mode \in {"sequential", "parallel"} /\ raising \in BOOLEAN /\ aborted \in BOOLEAN
  BY BatchAssumption DEF TypeOK
<1>1. CASE DriverStarts
  <2>1. started' = started \cup {index} /\ started = 1..(index - 1) /\ index <= N
    BY <1>a, <1>1 DEF DriverStarts
  <2>2. started' = 1..index /\ started' \subseteq 1..N /\ 1..scheduled \subseteq started'
    BY <1>a, <2>1
  <2>3. /\ driver = "start" /\ UNCHANGED <<mode, index, scheduled>>
        /\ \/ driver' = "prepare" /\ UNCHANGED raising
           \/ raising' = TRUE /\ driver' = IF mode = "parallel" THEN "cancel" ELSE "shutdown"
    BY <1>1 DEF DriverStarts
  <2> QED
    BY <1>a, <2>1, <2>2, <2>3
<1>2. CASE DriverPreparesImmediate
  BY <1>a, <1>2 DEF DriverPreparesImmediate
<1>3. CASE DriverPreparesCall
  BY <1>a, <1>3 DEF DriverPreparesCall
<1>4. CASE DriverInline
  BY <1>a, <1>4 DEF DriverInline
<1>5. CASE DriverEmitsResult
  BY <1>a, <1>5 DEF DriverEmitsResult
<1>6. CASE DriverChecks
  BY <1>a, <1>6 DEF DriverChecks
<1>7. CASE DriverStops
  BY <1>a, <1>7 DEF DriverStops
<1>8. CASE DriverGathers
  BY <1>a, <1>8 DEF DriverGathers
<1>9. CASE DriverCancels
  BY <1>a, <1>9 DEF DriverCancels
<1>10. CASE DriverDrains
  BY <1>a, <1>10 DEF DriverDrains
<1>11. CASE DriverEmitsResults
  BY <1>a, <1>11 DEF DriverEmitsResults
<1>12. CASE DriverShutsDown
  BY <1>a, <1>12 DEF DriverShutsDown
<1>13. CASE Abort
  BY <1>a, <1>13 DEF Abort
<1>14. CASE UNCHANGED <<mode, aborted, prior, driver, index, scheduled, raising, started>>
  BY <1>14
<1> QED
  BY <1>1, <1>2, <1>3, <1>4, <1>5, <1>6, <1>7, <1>8, <1>9, <1>10, <1>11, <1>12, <1>13, <1>14,
     WorkerFrame, BodyFrame DEF Next, DriverStep, vars

\* A worker holds a call exactly between work_queue.get and the end of the call.
LEMMA HoldingStep ==
    ASSUME TypeOK, Scheduling, Holding, [Next]_vars
    PROVE  Holding'
<1> USE DEF Holding, TypeOK, Goto, At, Over, NoCall
<1>a. 1 \in Workers /\ (driver = "prepare" => index # NoCall)
  BY BatchAssumption DEF Workers
<1>1. CASE DriverPreparesCall
  BY <1>a, <1>1 DEF DriverPreparesCall
<1>2. CASE DriverCancels
  BY <1>2 DEF DriverCancels
<1>3. ASSUME NEW w \in Workers, WorkerGets(w) PROVE Holding'
  BY <1>3 DEF WorkerGets
<1>4. ASSUME NEW w \in Workers, WorkerExecutes(w) PROVE Holding'
  BY <1>4, WorkerMoves DEF WorkerStep, WorkerExecutes
<1>5. ASSUME NEW w \in Workers, WorkerResumes(w) PROVE Holding'
  BY <1>5 DEF WorkerResumes
<1>6. ASSUME NEW w \in Workers, WorkerCloses(w) PROVE Holding'
  BY <1>6, WorkerMoves DEF WorkerStep, WorkerCloses
<1>7. ASSUME NEW w \in Workers, WorkerFinishes(w) PROVE Holding'
  BY <1>7 DEF WorkerFinishes
<1>8. ASSUME NEW w \in Workers, WorkerUnwinds(w) PROVE Holding'
  BY <1>8 DEF WorkerUnwinds
<1>9. CASE UNCHANGED worker
  BY <1>9
<1> QED
  BY <1>1, <1>2, <1>3, <1>4, <1>5, <1>6, <1>7, <1>8, <1>9, OtherFrame

\* _execute_sequential runs its calls inline, one at a time.
LEMMA InlineStep ==
    ASSUME TypeOK, Scheduling, Inline, [Next]_vars
    PROVE  Inline'
<1> USE DEF Inline, Looping, TypeOK, Goto, At, Over, BatchFails
<1>a. 1 \in Workers
  BY BatchAssumption DEF Workers
<1>1. CASE DriverPreparesCall
  BY <1>a, <1>1 DEF DriverPreparesCall
<1>2. CASE DriverInline
  BY <1>a, <1>2 DEF DriverInline
<1>3. CASE DriverCancels
  BY <1>3 DEF DriverCancels, Scheduling
<1>4. CASE DriverStops
  BY <1>4 DEF DriverStops
<1>5. ASSUME NEW w \in Workers, WorkerGets(w) PROVE Inline'
  BY <1>5 DEF WorkerGets
<1>6. ASSUME NEW w \in Workers, WorkerExecutes(w) PROVE Inline'
  BY <1>6 DEF WorkerExecutes
<1>7. ASSUME NEW w \in Workers, WorkerResumes(w) PROVE Inline'
  BY <1>7 DEF WorkerResumes
<1>8. ASSUME NEW w \in Workers, WorkerCloses(w) PROVE Inline'
  BY <1>8 DEF WorkerCloses
<1>9. ASSUME NEW w \in Workers, WorkerFinishes(w) PROVE Inline'
  BY <1>9 DEF WorkerFinishes
<1>10. ASSUME NEW w \in Workers, WorkerUnwinds(w) PROVE Inline'
  BY <1>10 DEF WorkerUnwinds
<1>11. CASE /\ UNCHANGED <<mode, worker, workQueue>> /\ (driver' = "inline" <=> driver = "inline")
            /\ driver' \in Looping => driver \in Looping
  BY <1>11
<1>12. CASE DriverStarts \/ DriverPreparesImmediate \/ DriverEmitsResult \/ DriverChecks
            \/ DriverGathers \/ DriverDrains \/ DriverEmitsResults \/ DriverShutsDown
  BY <1>11, <1>12 DEF DriverStarts, DriverPreparesImmediate, DriverEmitsResult, DriverChecks,
     DriverGathers, DriverDrains, DriverEmitsResults, DriverShutsDown
<1> QED
  BY <1>1, <1>2, <1>3, <1>4, <1>5, <1>6, <1>7, <1>8, <1>9, <1>10, <1>11, <1>12, BodyFrame
  DEF Next, DriverStep, WorkerStep, Abort, vars

\* A call is never in two hands: the queue gives each call to one worker.
LEMMA OwnershipStep ==
    ASSUME TypeOK, Scheduling, Holding, Inline, Ownership, [Next]_vars
    PROVE  Ownership'
<1> USE DEF Ownership, NoCall
<1>a. /\ N \in Nat /\ 1 \in Workers /\ scheduled \in Nat
      /\ driver = "prepare" => index \in Calls /\ index = scheduled + 1
  BY BatchAssumption DEF Workers, Calls, Scheduling, TypeOK
<1>1. CASE DriverPreparesImmediate
  BY <1>a, <1>1 DEF DriverPreparesImmediate
<1>2. CASE DriverPreparesCall /\ mode = "parallel"
  <2>1. workQueue' = Append(workQueue, index) /\ UNCHANGED worker /\ scheduled' = index /\ driver = "prepare"
    BY <1>2 DEF DriverPreparesCall
  <2>2. index = scheduled + 1 /\ index \in Calls
    BY <1>a, <2>1
  <2>3. \A i \in DOMAIN workQueue' :
            \/ i \in DOMAIN workQueue /\ workQueue'[i] = workQueue[i]
            \/ workQueue'[i] = index /\ \A j \in DOMAIN workQueue : j < i
    BY <2>1, <2>2, QueueAppends
  <2>4. \A i, j \in DOMAIN workQueue' : i # j => i < j \/ j < i
    BY <2>1 DEF TypeOK
  <2> QED
    BY <1>a, <2>1, <2>2, <2>3, <2>4, SMTT(30)
<1>3. CASE DriverPreparesCall /\ mode = "sequential"
  <2>1. /\ worker' = [worker EXCEPT ![1] = [pc |-> "execute", call |-> index]]
        /\ UNCHANGED workQueue /\ scheduled' = index /\ driver = "prepare" /\ workQueue = <<>>
    BY <1>3 DEF DriverPreparesCall, Inline
  <2>2. \A v \in Workers : worker'[v].call = IF v = 1 THEN index ELSE 0
    BY <1>3, <2>1 DEF TypeOK, Inline, Holding
  <2> QED
    BY <1>a, <2>1, <2>2
<1>4. CASE DriverStops
  <2>1. UNCHANGED <<worker, scheduled>>
    BY <1>4 DEF DriverStops
  <2>2. \A i, j \in DOMAIN workQueue' : i # j => i < j \/ j < i
    BY TypeStep DEF TypeOK
  <2> QED
    BY <1>a, <1>4, <2>1, <2>2, QueueStops
<1>5. ASSUME NEW w \in Workers, WorkerGets(w) PROVE Ownership'
  BY <1>5, SMTT(30) DEF WorkerGets, TypeOK
<1>6. ASSUME UNCHANGED <<scheduled, workQueue>>,
             \A v \in Workers : worker'[v].call \in {worker[v].call, 0}
      PROVE  Ownership'
  BY <1>6, <1>a
<1>7. CASE DriverCancels
  BY <1>6, <1>7 DEF DriverCancels, TypeOK, Over
<1>8. ASSUME NEW w \in Workers, WorkerStep(w), ~WorkerGets(w) PROVE Ownership'
  <2>1. CASE WorkerExecutes(w)
    <3>1. UNCHANGED <<scheduled, workQueue>>
      BY <2>1 DEF WorkerExecutes
    <3>2. \A v \in Workers : worker'[v].call \in {worker[v].call, 0}
      BY <2>1 DEF WorkerExecutes, At, TypeOK
    <3> QED
      BY <1>6, <3>1, <3>2
  <2>2. CASE WorkerResumes(w)
    BY <1>6, <2>2 DEF WorkerResumes, At, TypeOK
  <2>3. CASE WorkerCloses(w)
    <3>1. UNCHANGED <<scheduled, workQueue>>
      BY <2>3 DEF WorkerCloses
    <3>2. \A v \in Workers : worker'[v].call \in {worker[v].call, 0}
      BY <2>3 DEF WorkerCloses, At, TypeOK
    <3> QED
      BY <1>6, <3>1, <3>2
  <2>4. CASE WorkerFinishes(w)
    <3>1. UNCHANGED <<scheduled, workQueue>>
      BY <2>4 DEF WorkerFinishes
    <3>2. \/ worker' = [worker EXCEPT ![w] = [pc |-> "get", call |-> 0]]
          \/ worker' = [worker EXCEPT ![w].pc = "raised"]
      BY <2>4 DEF WorkerFinishes, At
    <3>3. \A v \in Workers : worker'[v].call \in {worker[v].call, 0}
      BY <3>2 DEF TypeOK
    <3> QED
      BY <1>6, <3>1, <3>3
  <2>5. CASE WorkerUnwinds(w)
    BY <1>6, <2>5 DEF WorkerUnwinds, At, TypeOK
  <2> QED
    BY <1>8, <2>1, <2>2, <2>3, <2>4, <2>5 DEF WorkerStep
<1>9. CASE UNCHANGED <<scheduled, worker, workQueue>>
  BY <1>9
<1>10. CASE DriverStarts \/ DriverInline \/ DriverEmitsResult \/ DriverChecks
            \/ DriverGathers \/ DriverDrains \/ DriverEmitsResults \/ DriverShutsDown
  BY <1>9, <1>10 DEF DriverStarts, DriverInline, DriverEmitsResult, DriverChecks,
     DriverGathers, DriverDrains, DriverEmitsResults, DriverShutsDown
<1> QED
  BY <1>1, <1>2, <1>3, <1>4, <1>5, <1>7, <1>8, <1>9, <1>10, BodyFrame
  DEF Next, DriverStep, Abort, vars, TypeOK

\* The Nones that stop the workers are taken after every call.
LEMMA QueueShapeStep ==
    ASSUME TypeOK, Scheduling, Holding, Inline, QueueShape, [Next]_vars
    PROVE  QueueShape'
<1> USE DEF QueueShape, Looping, NoCall
<1>a. N \in Nat /\ 1 \in Workers /\ (driver = "prepare" => index \in Calls /\ index # 0)
  BY BatchAssumption DEF Workers, Calls, Scheduling, TypeOK
<1>1. CASE DriverPreparesCall /\ mode = "parallel"
  <2>1. workQueue' = Append(workQueue, index) /\ UNCHANGED worker /\ driver = "prepare" /\ driver' = "check"
    BY <1>1 DEF DriverPreparesCall, Goto
  <2> QED
    BY <1>a, <2>1, QueueAppends
<1>2. CASE DriverPreparesCall /\ mode = "sequential"
  <2>1. /\ worker' = [worker EXCEPT ![1] = [pc |-> "execute", call |-> index]]
        /\ UNCHANGED workQueue /\ driver = "prepare" /\ workQueue = <<>>
    BY <1>2 DEF DriverPreparesCall, Inline
  <2> QED
    BY <1>a, <2>1 DEF TypeOK
<1>3. CASE DriverStops
  <2>1. UNCHANGED worker /\ driver' \in {"gather", "shutdown"} /\ driver \in Looping
    BY <1>3 DEF DriverStops, Goto
  <2>2. \A i, j \in DOMAIN workQueue' : i \in Nat /\ j \in Nat
    BY TypeStep DEF TypeOK
  <2> QED
    BY <1>3, <2>1, <2>2, QueueStops
<1>4. ASSUME NEW w \in Workers, WorkerGets(w) PROVE QueueShape'
  BY <1>4 DEF WorkerGets, TypeOK
<1>5. ASSUME UNCHANGED workQueue,
             driver' \in Looping => /\ driver \in Looping
                                    /\ \A v \in Workers : worker'[v].pc \in {"done", "unwind", "cancelled"} =>
                                                               worker'[v].pc = worker[v].pc,
             \A v \in Workers : worker'[v].pc = "done" => worker[v].pc = "done"
      PROVE  QueueShape'
  BY <1>5
<1>6. CASE DriverCancels
  BY <1>5, <1>6 DEF DriverCancels, TypeOK, Over, Goto
<1>7. ASSUME NEW w \in Workers, WorkerStep(w), ~WorkerGets(w) PROVE QueueShape'
  BY <1>7, WorkerMoves, WorkerFrame
<1>8. CASE UNCHANGED <<worker, workQueue>> /\ (driver' \in Looping => driver \in Looping)
  BY <1>8
<1>9. CASE DriverStarts \/ DriverPreparesImmediate \/ DriverInline \/ DriverEmitsResult \/ DriverChecks
            \/ DriverGathers \/ DriverDrains \/ DriverEmitsResults \/ DriverShutsDown
  BY <1>8, <1>9 DEF DriverStarts, DriverPreparesImmediate, DriverInline, DriverEmitsResult, DriverChecks,
     DriverGathers, DriverDrains, DriverEmitsResults, DriverShutsDown, Goto, BatchFails
<1> QED
  BY <1>1, <1>2, <1>3, <1>4, <1>6, <1>7, <1>8, <1>9, BodyFrame
  DEF Next, DriverStep, Abort, vars, TypeOK

\* The coordinator shuts down after the workers have ended.
LEMMA QuietStep ==
    ASSUME TypeOK, Scheduling, Holding, Inline, QueueShape, Quiet, [Next]_vars
    PROVE  Quiet'
<1> USE DEF Quiet, QueueShape, Looping, TypeOK, Goto, At, Over, BatchFails
<1>1. CASE DriverStarts
  BY <1>1 DEF DriverStarts, Inline
<1>2. CASE DriverPreparesImmediate
  BY <1>2 DEF DriverPreparesImmediate, Inline
<1>3. CASE DriverPreparesCall
  BY <1>3 DEF DriverPreparesCall
<1>4. CASE DriverInline
  BY <1>4 DEF DriverInline, Inline, Scheduling
<1>5. CASE DriverEmitsResult
  BY <1>5 DEF DriverEmitsResult, Inline, Scheduling
<1>6. CASE DriverChecks
  BY <1>6 DEF DriverChecks
<1>7. CASE DriverStops
  BY <1>7 DEF DriverStops, Inline
<1>8. CASE DriverGathers
  BY <1>8 DEF DriverGathers, Scheduling
<1>9. CASE DriverCancels
  BY <1>9 DEF DriverCancels
<1>10. CASE DriverDrains
  BY <1>10 DEF DriverDrains
<1>11. CASE DriverEmitsResults
  BY <1>11 DEF DriverEmitsResults
<1>12. CASE DriverShutsDown
  BY <1>12 DEF DriverShutsDown
<1>13. ASSUME NEW w \in Workers, WorkerStep(w) PROVE Quiet'
  <2>1. UNCHANGED <<driver, mode>> /\ driver \notin {"shutdown", "done", "raised", "emit"}
    <3>1. UNCHANGED <<driver, mode>>
      BY <1>13, WorkerFrame
    <3>2. ~Over(w) /\ driver # "shutdown" /\ (worker[w].pc = "get" => mode # "sequential")
      BY <1>13 DEF WorkerStep, WorkerGets, WorkerExecutes, WorkerResumes, WorkerCloses,
         WorkerFinishes, WorkerUnwinds, LoopRuns, Over
    <3> QED
      BY <3>1, <3>2
  <2> QED
    BY <1>13, <2>1, WorkerMoves
<1>14. CASE UNCHANGED <<mode, driver, worker>>
  BY <1>14
<1> QED
  BY <1>1, <1>2, <1>3, <1>4, <1>5, <1>6, <1>7, <1>8, <1>9, <1>10, <1>11, <1>12, <1>13, <1>14, BodyFrame
  DEF Next, DriverStep, Abort, vars

\* A body that runs has a worker that waits for it, or was cancelled while it ran.
LEMMA BodiesStep ==
    ASSUME TypeOK, Scheduling, Holding, Inline, Ownership, Quiet, Bodies, [Next]_vars
    PROVE  Bodies'
<1> USE DEF Bodies, NoCall
<1>a. /\ N \in Nat /\ 1 \in Workers /\ scheduled \in Nat /\ (\A c \in Calls : c \in Nat)
      /\ driver = "prepare" => index \in Calls /\ index = scheduled + 1
  BY BatchAssumption DEF Workers, Calls, Scheduling, TypeOK
<1>1. CASE DriverPreparesImmediate
  BY <1>a, <1>1 DEF DriverPreparesImmediate
<1>2. CASE DriverPreparesCall /\ mode = "parallel"
  <2>1. /\ workQueue' = Append(workQueue, index) /\ UNCHANGED <<worker, body>> /\ scheduled' = index
        /\ driver = "prepare"
    BY <1>2 DEF DriverPreparesCall
  <2>2. index = scheduled + 1 /\ index \in Calls /\ body[index] = "none"
    BY <1>a, <2>1
  <2>3. \A i \in DOMAIN workQueue' : workQueue'[i] # 0 => body[workQueue'[i]] = "none"
    BY <2>1, <2>2, QueueAppends
  <2>4. \A c \in Calls : c > scheduled' => body'[c] = "none"
    BY <1>a, <2>1, <2>2
  <2> QED
    BY <2>1, <2>3, <2>4
<1>3. CASE DriverPreparesCall /\ mode = "sequential"
  <2>1. /\ worker' = [worker EXCEPT ![1] = [pc |-> "execute", call |-> index]]
        /\ UNCHANGED <<workQueue, body>> /\ scheduled' = index /\ driver = "prepare" /\ workQueue = <<>>
    BY <1>3 DEF DriverPreparesCall, Inline
  <2>2. index = scheduled + 1 /\ index \in Calls /\ body[index] = "none"
    BY <1>a, <2>1
  <2>3. \A v \in Workers : /\ v = 1 => worker'[v].pc = "execute" /\ worker'[v].call = index
                           /\ v # 1 => worker'[v] = worker[v]
                           /\ worker[v].pc = "get"
    BY <1>3, <2>1 DEF TypeOK, Inline, Looping
  <2> QED
    BY <1>a, <2>1, <2>2, <2>3
<1>4. CASE DriverStops
  <2>1. UNCHANGED <<worker, scheduled, body>>
    BY <1>4 DEF DriverStops
  <2> QED
    BY <1>a, <1>4, <2>1, QueueStops
<1>5. CASE DriverCancels
  <2>1. UNCHANGED <<workQueue, scheduled, body>>
    BY <1>5 DEF DriverCancels
  <2>2. \A v \in Workers :
            /\ worker'[v].call = worker[v].call
            /\ worker[v].pc \in {"body", "close"} => worker'[v].pc = "unwind"
            /\ worker[v].pc \notin {"body", "close"} => worker'[v].pc \in {worker[v].pc, "cancelled"}
            /\ worker'[v].pc = worker[v].pc => Over(v)
            /\ worker[v].pc \notin {"unwind", "cancelled"}
    BY <1>5 DEF DriverCancels, TypeOK, Over, Quiet
  <2>3. \A v \in Workers :
            /\ worker'[v].pc = "execute" => body'[worker'[v].call] = "none"
            /\ worker'[v].pc \in {"close", "finish", "raised"} => body'[worker'[v].call] \in {"none", "returned"}
    BY <2>1, <2>2 DEF Over
  <2>4. \A c \in Calls : body'[c] \in {"cleared", "thread", "publishing", "async"} =>
          \E v \in Workers : /\ worker'[v].call = c
                             /\ worker'[v].pc \in {"body", "unwind", "cancelled"}
                             /\ body'[c] \in {"cleared", "async"} => worker'[v].pc # "cancelled"
    BY <2>1, <2>2 DEF Over
  <2> QED
    BY <2>1, <2>3, <2>4
<1>6. ASSUME NEW w \in Workers, WorkerGets(w) PROVE Bodies'
  <2>1. /\ \A i \in DOMAIN workQueue' : i + 1 \in DOMAIN workQueue /\ workQueue'[i] = workQueue[i + 1]
        /\ 1 \in DOMAIN workQueue /\ Head(workQueue) = workQueue[1] /\ UNCHANGED <<scheduled, body>>
    BY <1>6 DEF WorkerGets, TypeOK
  <2>2. /\ worker[w].pc = "get"
        /\ \/ worker'[w].pc = "execute" /\ worker'[w].call = workQueue[1] /\ workQueue[1] # 0
           \/ worker'[w].pc = "done"
        /\ \A v \in Workers : v # w => worker'[v] = worker[v]
    BY <1>6, <2>1 DEF WorkerGets, TypeOK
  <2> QED
    BY <2>1, <2>2
<1>7. ASSUME NEW w \in Workers, WorkerExecutes(w) PROVE Bodies'
  <2> DEFINE c == worker[w].call
  <2>1. c \in Calls /\ c # 0 /\ c <= scheduled /\ worker[w].pc = "execute" /\ UNCHANGED <<scheduled, workQueue>>
    BY <1>7, <1>a DEF WorkerExecutes, TypeOK, Holding, Ownership
  <2>2. /\ \A v \in Workers : worker'[v].call = worker[v].call
        /\ \A v \in Workers : v # w => worker'[v] = worker[v] /\ worker[v].call # c
        /\ \A i \in DOMAIN workQueue : workQueue[i] # c
    <3>1. /\ worker'[w].call = c /\ \A v \in Workers : v # w => worker'[v] = worker[v]
      BY <1>7, <2>1, WorkerMoves DEF WorkerStep
    <3> QED
      BY <2>1, <3>1 DEF Ownership
  <2>3. \/ worker'[w].pc = "close" /\ UNCHANGED body
        \/ /\ worker'[w].pc = "body" /\ body'[c] # "none"
           /\ \A d \in Calls : d # c => body'[d] = body[d]
    BY <1>7, <2>1 DEF WorkerExecutes, At, TypeOK
  <2>5. \A i \in DOMAIN workQueue : workQueue[i] \in Calls \cup {0}
    BY DEF TypeOK
  <2>6. \A v \in Workers : worker[v].call \in Calls \cup {0} /\ (worker[v].pc \in {"execute", "close", "finish", "raised"} => worker[v].call # 0)
    BY DEF TypeOK, Holding
  <2> HIDE DEF c
  <2>4. CASE UNCHANGED body /\ worker'[w].pc = "close"
    BY <2>1, <2>2, <2>4 DEF c
  <2>7. CASE /\ worker'[w].pc = "body" /\ body'[c] # "none"
             /\ \A d \in Calls : d # c => body'[d] = body[d]
    <3>1. \A d \in Calls : d > scheduled => body'[d] = "none"
      BY <1>a, <2>1, <2>7
    <3>2. \A i \in DOMAIN workQueue' : workQueue'[i] # 0 => body'[workQueue'[i]] = "none"
      BY <2>1, <2>2, <2>5, <2>7
    <3>3. \A v \in Workers :
              /\ worker'[v].pc = "execute" => body'[worker'[v].call] = "none"
              /\ worker'[v].pc \in {"close", "finish", "raised"} => body'[worker'[v].call] \in {"none", "returned"}
      BY <2>2, <2>6, <2>7
    <3>4. \A d \in Calls : body'[d] \in {"cleared", "thread", "publishing", "async"} =>
             \E v \in Workers : /\ worker'[v].call = d
                                /\ worker'[v].pc \in {"body", "unwind", "cancelled"}
                                /\ body'[d] \in {"cleared", "async"} => worker'[v].pc # "cancelled"
      BY <2>1, <2>2, <2>7 DEF c
    <3> QED
      BY <2>1, <3>1, <3>2, <3>3, <3>4
  <2> QED
    BY <2>3, <2>4, <2>7
<1>8. ASSUME NEW w \in Workers, WorkerResumes(w) \/ WorkerCloses(w) \/ WorkerFinishes(w) PROVE Bodies'
  <2>1. UNCHANGED <<body, workQueue, scheduled>> /\ \A v \in Workers : v # w => worker'[v] = worker[v]
    BY <1>8 DEF WorkerResumes, WorkerCloses, WorkerFinishes, At, TypeOK
  <2>2. \/ worker[w].pc = "body" /\ worker'[w].pc = "close" /\ worker'[w].call = worker[w].call
           /\ body[worker[w].call] = "returned"
        \/ worker[w].pc \in {"close", "finish"} /\ worker'[w].pc \in {"finish", "raised"}
           /\ worker'[w].call = worker[w].call
        \/ worker[w].pc = "finish" /\ worker'[w].pc = "get"
    BY <1>8 DEF WorkerResumes, WorkerCloses, WorkerFinishes, At, TypeOK
  <2> QED
    BY <2>1, <2>2
<1>9. ASSUME NEW w \in Workers, WorkerUnwinds(w) PROVE Bodies'
  <2>1. /\ worker[w].pc = "unwind" /\ worker'[w].pc = "cancelled" /\ worker'[w].call = worker[w].call
        /\ UNCHANGED <<workQueue, scheduled>> /\ \A v \in Workers : v # w => worker'[v] = worker[v]
    BY <1>9 DEF WorkerUnwinds, At, TypeOK
  <2>2. /\ \A d \in Calls : body'[d] = body[d] \/ (body[d] \in {"cleared", "async"} /\ body'[d] = "returned")
        /\ worker[w].call \in Calls /\ body'[worker[w].call] \notin {"cleared", "async"}
    BY <1>9 DEF WorkerUnwinds, TypeOK, Holding
  <2>3. \A i \in DOMAIN workQueue : workQueue[i] \in Calls \cup {0}
    BY DEF TypeOK
  <2>4. \A v \in Workers : worker[v].call \in Calls \cup {0} /\ (worker[v].pc \in {"execute", "close", "finish", "raised"} => worker[v].call # 0)
    BY DEF TypeOK, Holding
  <2> QED
    BY <2>1, <2>2, <2>3, <2>4
<1>10. ASSUME NEW c \in Calls, BodyStep(c) PROVE Bodies'
  <2>1. /\ body[c] \in {"cleared", "thread", "publishing", "async"}
        /\ body'[c] \in {"thread", "publishing", "returned"} \/ (body[c] = "cleared" /\ body'[c] = "async")
        /\ \A d \in Calls : d # c => body'[d] = body[d]
    BY <1>10 DEF BodyStep, BodyBegins, BodyReturns, BodyPublishes, LoopServesPublish, TypeOK
  <2>2. UNCHANGED <<scheduled, worker, workQueue>>
    BY <1>10, BodyFrame
  <2>3. \A i \in DOMAIN workQueue : workQueue[i] \in Calls \cup {0}
    BY DEF TypeOK
  <2>4. \A v \in Workers : worker[v].call \in Calls \cup {0} /\ (worker[v].pc \in {"execute", "close", "finish", "raised"} => worker[v].call # 0)
    BY DEF TypeOK, Holding
  <2> QED
    BY <2>1, <2>2, <2>3, <2>4
<1>11. CASE UNCHANGED <<scheduled, worker, workQueue, body>>
  BY <1>11
<1>12. CASE DriverStarts \/ DriverInline \/ DriverEmitsResult \/ DriverChecks
            \/ DriverGathers \/ DriverDrains \/ DriverEmitsResults \/ DriverShutsDown
  BY <1>11, <1>12 DEF DriverStarts, DriverInline, DriverEmitsResult, DriverChecks,
     DriverGathers, DriverDrains, DriverEmitsResults, DriverShutsDown
<1> QED
  BY <1>1, <1>2, <1>3, <1>4, <1>5, <1>6, <1>7, <1>8, <1>9, <1>10, <1>11, <1>12
  DEF Next, DriverStep, WorkerStep, Abort, vars, TypeOK

\* ToolCoordinator.__aexit__ waits for the bodies in threads; the others are over.
LEMMA NoOrphanStep ==
    ASSUME TypeOK, Quiet, Bodies, NoOrphanBody, [Next]_vars
    PROVE  NoOrphanBody'
<1> USE DEF NoOrphanBody, Active
<1>1. CASE DriverShutsDown
  <2>1. \A c \in Calls : body[c] \notin {"thread", "publishing"}
    BY <1>1 DEF DriverShutsDown, InThread
  <2>2. \A c \in Calls : body[c] \notin {"cleared", "async"}
    BY <1>1 DEF DriverShutsDown, Quiet, Bodies, Over
  <2>3. UNCHANGED body
    BY <1>1 DEF DriverShutsDown
  <2> QED
    BY <2>1, <2>2, <2>3
<1>2. ASSUME NEW w \in Workers, WorkerStep(w) PROVE NoOrphanBody'
  <2>1. driver' \notin {"done", "raised"}
    BY <1>2, WorkerFrame DEF WorkerStep, WorkerGets, WorkerExecutes, WorkerResumes, WorkerCloses,
       WorkerFinishes, WorkerUnwinds, Quiet, Over, TypeOK
  <2> QED
    BY <2>1
<1>3. ASSUME NEW c \in Calls, BodyStep(c) PROVE NoOrphanBody'
  <2>1. c \in Active
    BY <1>3 DEF BodyStep, BodyBegins, BodyReturns, BodyPublishes, LoopServesPublish
  <2> QED
    BY <1>3, <2>1, BodyFrame
<1>4. CASE DriverStep /\ ~DriverShutsDown
  BY <1>4 DEF DriverStep, DriverStarts, DriverPreparesImmediate, DriverPreparesCall, DriverInline,
     DriverEmitsResult, DriverChecks, DriverStops, DriverGathers, DriverCancels, DriverDrains,
     DriverEmitsResults, Goto, BatchFails
<1>5. CASE UNCHANGED <<driver, body>>
  BY <1>5
<1> QED
  BY <1>1, <1>2, <1>3, <1>4, <1>5 DEF Next, Abort, vars

\* After an abort the driver announces the call it is at, and its workers clear none.
LEMMA SignalStep ==
    ASSUME TypeOK, Signal, [Next]_vars
    PROVE  Signal'
<1> USE DEF Signal, AbortStopsBatch
<1>1. CASE Abort
  BY <1>1 DEF Abort, TypeOK
<1>2. CASE DriverStarts
  <2>1. /\ UNCHANGED <<aborted, prior, body>> /\ driver = "start" /\ driver' # "start"
        /\ started' = started \cup {index}
    BY <1>2 DEF DriverStarts, Goto, BatchFails
  <2> QED
    BY <2>1
<1>3. CASE DriverStep /\ ~DriverStarts
  <2>1. UNCHANGED <<aborted, prior, body, started>> /\ (driver' = "start" => ~aborted)
    BY <1>3 DEF DriverStep, DriverPreparesImmediate, DriverPreparesCall, DriverInline,
       DriverEmitsResult, DriverChecks, DriverStops, DriverGathers, DriverCancels, DriverDrains,
       DriverEmitsResults, DriverShutsDown, Goto, BatchFails
  <2> QED
    BY <2>1
<1>4. ASSUME NEW w \in Workers, WorkerStep(w) PROVE Signal'
  <2>1. UNCHANGED <<aborted, prior, driver, started>>
    BY <1>4, WorkerFrame
  <2>2. aborted => \A c \in Calls : body'[c] # "none" => body[c] # "none"
    BY <1>4 DEF WorkerStep, WorkerGets, WorkerExecutes, WorkerResumes, WorkerCloses, WorkerFinishes,
       WorkerUnwinds, TypeOK
  <2> QED
    BY <2>1, <2>2
<1>5. ASSUME NEW c \in Calls, BodyStep(c) PROVE Signal'
  <2>1. UNCHANGED <<aborted, prior, driver, started>>
    BY <1>5, BodyFrame
  <2>2. \A d \in Calls : body'[d] # "none" => body[d] # "none"
    BY <1>5 DEF BodyStep, BodyBegins, BodyReturns, BodyPublishes, LoopServesPublish, TypeOK
  <2> QED
    BY <2>1, <2>2
<1>6. CASE UNCHANGED vars
  BY <1>6 DEF vars
<1> QED
  BY <1>1, <1>2, <1>3, <1>4, <1>5, <1>6 DEF Next

\* A call ends once, and nobody holds it after that.
LEMMA EndedStep ==
    ASSUME TypeOK, Scheduling, Holding, Inline, Ownership, Ended, [Next]_vars
    PROVE  Ended'
<1> USE DEF Ended, NoCall
<1>a. /\ N \in Nat /\ 1 \in Workers /\ scheduled \in 0..N
      /\ driver = "prepare" => index \in Calls /\ index = scheduled + 1
  BY BatchAssumption DEF Workers, Calls, Scheduling, TypeOK
<1>b. 0 \notin ended
  BY DEF TypeOK, Calls
<1>1. CASE DriverPreparesImmediate
  <2>1. /\ driver = "prepare" /\ ended' = ended \cup {index} /\ scheduled' = index /\ UNCHANGED <<worker, workQueue>>
        /\ \A c \in Calls : slot'[c] = slot[c] \/ c = index
    BY <1>1 DEF DriverPreparesImmediate, TypeOK
  <2>2. ended' \subseteq 1..scheduled'
    <3>1. index = scheduled + 1 /\ scheduled \in Nat /\ ended \subseteq 1..scheduled
      BY <1>a, <2>1
    <3> HIDE DEF Ended
    <3> QED
      BY <2>1, <3>1
  <2>3. \A i \in DOMAIN workQueue' : workQueue'[i] \notin ended'
    BY <1>a, <2>1 DEF Ownership
  <2>4. \A w \in Workers : worker'[w].pc # "raised" => worker'[w].call \notin ended'
    BY <1>a, <2>1 DEF Ownership
  <2> QED
    BY <2>1, <2>2, <2>3, <2>4
<1>2. CASE DriverPreparesCall /\ mode = "parallel"
  <2>1. workQueue' = Append(workQueue, index) /\ UNCHANGED <<worker, ended, slot>> /\ scheduled' = index /\ driver = "prepare"
    BY <1>2 DEF DriverPreparesCall
  <2>2. ended' \subseteq 1..scheduled' /\ index \notin ended
    BY <1>a, <2>1
  <2> QED
    BY <1>a, <2>1, <2>2, QueueAppends
<1>3. CASE DriverPreparesCall /\ mode = "sequential"
  <2>1. /\ worker' = [worker EXCEPT ![1] = [pc |-> "execute", call |-> index]]
        /\ UNCHANGED <<workQueue, ended, slot>> /\ scheduled' = index /\ driver = "prepare"
    BY <1>3 DEF DriverPreparesCall
  <2>2. ended' \subseteq 1..scheduled' /\ index \notin ended
    BY <1>a, <2>1
  <2>3. \A v \in Workers : v # 1 => worker'[v] = worker[v]
    BY <2>1 DEF TypeOK
  <2>4. worker'[1].call = index
    BY <1>a, <2>1 DEF TypeOK
  <2> QED
    BY <2>1, <2>2, <2>3, <2>4
<1>4. CASE DriverStops
  <2>1. UNCHANGED <<worker, scheduled, ended, slot>>
    BY <1>4 DEF DriverStops
  <2> QED
    BY <1>b, <1>4, <2>1, QueueStops
<1>5. CASE DriverCancels
  <2>1. UNCHANGED <<workQueue, scheduled, ended, slot>>
    BY <1>5 DEF DriverCancels
  <2>2. \A v \in Workers : worker'[v].call = worker[v].call /\ (worker[v].pc = "raised" => worker'[v].pc = "raised")
    BY <1>5 DEF DriverCancels, TypeOK, Over
  <2> QED
    BY <2>1, <2>2
<1>6. ASSUME NEW w \in Workers, WorkerGets(w) PROVE Ended'
  <2>1. /\ \A i \in DOMAIN workQueue' : i + 1 \in DOMAIN workQueue /\ workQueue'[i] = workQueue[i + 1]
        /\ 1 \in DOMAIN workQueue /\ Head(workQueue) = workQueue[1] /\ UNCHANGED <<scheduled, ended, slot>>
    BY <1>6 DEF WorkerGets, TypeOK
  <2>2. /\ \A v \in Workers : v # w => worker'[v] = worker[v]
        /\ worker'[w].call = workQueue[1]
    BY <1>6, <2>1 DEF WorkerGets, TypeOK
  <2> QED
    BY <2>1, <2>2
<1>7. ASSUME NEW w \in Workers, WorkerExecutes(w) \/ WorkerResumes(w) \/ WorkerCloses(w) \/ WorkerUnwinds(w)
      PROVE Ended'
  <2>1. UNCHANGED <<scheduled, ended, slot, workQueue>> /\ WorkerStep(w)
    BY <1>7 DEF WorkerExecutes, WorkerResumes, WorkerCloses, WorkerUnwinds, WorkerStep
  <2>2. \A v \in Workers : worker'[v].call = worker[v].call /\ (worker[v].pc = "raised" => worker'[v].pc = "raised")
    BY <1>7, <2>1, WorkerMoves DEF WorkerExecutes, WorkerResumes, WorkerCloses, WorkerUnwinds
  <2> QED
    BY <2>1, <2>2
<1>8. ASSUME NEW w \in Workers, WorkerFinishes(w) PROVE Ended'
  <2> DEFINE c == worker[w].call
  <2>1. c \in 1..scheduled /\ c # 0 /\ ended' = ended \cup {c} /\ UNCHANGED <<scheduled, workQueue>>
    BY <1>8, <1>a DEF WorkerFinishes, TypeOK, Holding, Ownership, Calls
  <2>2. /\ \A v \in Workers : v # w => worker'[v] = worker[v] /\ worker[v].call # c
        /\ worker'[w].call = 0 \/ worker'[w].pc = "raised"
    BY <1>8, <2>1 DEF WorkerFinishes, At, TypeOK, Ownership
  <2>3. \A i \in DOMAIN workQueue : workQueue[i] # c
    BY <2>1 DEF Ownership
  <2>4. \A d \in Calls : slot'[d] = slot[d] \/ d = c
    BY <1>8 DEF WorkerFinishes, TypeOK
  <2> HIDE DEF c
  <2> QED
    BY <1>b, <2>1, <2>2, <2>3, <2>4, ZenonT(40)
<1>9. CASE UNCHANGED <<scheduled, worker, workQueue, ended, slot>>
  BY <1>9
<1>10. CASE DriverStarts \/ DriverInline \/ DriverEmitsResult \/ DriverChecks
            \/ DriverGathers \/ DriverDrains \/ DriverEmitsResults \/ DriverShutsDown
  BY <1>9, <1>10 DEF DriverStarts, DriverInline, DriverEmitsResult, DriverChecks,
     DriverGathers, DriverDrains, DriverEmitsResults, DriverShutsDown
<1> QED
  BY <1>1, <1>2, <1>3, <1>4, <1>5, <1>6, <1>7, <1>8, <1>9, <1>10, BodyFrame
  DEF Next, DriverStep, WorkerStep, Abort, vars, TypeOK

\* No scheduled call gets lost between the queue, the workers and the slots.
LEMMA AccountedStep ==
    ASSUME TypeOK, Scheduling, Holding, Inline, Ended, Accounted, [Next]_vars
    PROVE  Accounted'
<1> USE DEF NoCall
<1>a. /\ N \in Nat /\ 1 \in Workers /\ scheduled \in 0..N
      /\ driver = "prepare" => index \in Calls /\ index = scheduled + 1 /\ ~raising
  BY BatchAssumption DEF Workers, Calls, Scheduling, TypeOK, Looping
<1>b. \A c \in 1..scheduled : c \in Calls
  BY <1>a DEF Calls
<1>c. driver = "prepare" => \A c \in 1..index : c \in 1..scheduled \/ c = index
  BY <1>a
<1>1. CASE DriverPreparesImmediate
  <2>1. CASE raising'
    BY <2>1 DEF Accounted
  <2>2. CASE ~raising'
    <3>1. /\ driver = "prepare" /\ scheduled' = index /\ UNCHANGED <<worker, workQueue>> /\ ~raising
          /\ slot' = [slot EXCEPT ![index] = "continue"]
      BY <1>1, <2>2 DEF DriverPreparesImmediate, BatchFails, Scheduling, Looping
    <3>2. \A c \in Calls : slot'[c] # "none" <=> (slot[c] # "none" \/ c = index)
      BY <1>a, <3>1 DEF TypeOK
    <3>3. \A c \in 1..index : c \in Calls
      BY <1>a, <1>b, <1>c, <3>1
    <3> QED
      BY <1>c, <3>1, <3>2, <3>3 DEF Accounted
  <2> QED
    BY <2>1, <2>2
<1>2. CASE DriverPreparesCall /\ mode = "parallel"
  <2>1. /\ workQueue' = Append(workQueue, index) /\ UNCHANGED <<worker, slot>> /\ scheduled' = index
        /\ driver = "prepare" /\ ~raising
    BY <1>a, <1>2 DEF DriverPreparesCall
  <2>2. /\ \A i \in DOMAIN workQueue : i \in DOMAIN workQueue' /\ workQueue'[i] = workQueue[i]
        /\ \E i \in DOMAIN workQueue' : workQueue'[i] = index
    BY <2>1 DEF TypeOK
  <2> QED
    BY <1>c, <2>1, <2>2 DEF Accounted
<1>3. CASE DriverPreparesCall /\ mode = "sequential"
  <2>1. /\ worker' = [worker EXCEPT ![1] = [pc |-> "execute", call |-> index]]
        /\ UNCHANGED <<workQueue, slot>> /\ scheduled' = index /\ driver = "prepare" /\ ~raising
    BY <1>a, <1>3 DEF DriverPreparesCall
  <2>2. worker'[1].call = index /\ \A v \in Workers : worker[v].call = 0
    BY <1>a, <1>3, <2>1 DEF TypeOK, Inline, Holding, Looping
  <2>3. \A c \in 1..scheduled : c # 0
    BY <1>a
  <2> QED
    BY <1>a, <1>c, <2>1, <2>2, <2>3 DEF Accounted
<1>4. CASE DriverStops
  <2>1. UNCHANGED <<worker, scheduled, slot, raising>>
    BY <1>4 DEF DriverStops
  <2> QED
    BY <1>4, <2>1, QueueStops DEF Accounted
<1>5. CASE DriverCancels
  BY <1>5 DEF DriverCancels, Scheduling, Accounted
<1>6. ASSUME NEW w \in Workers, WorkerGets(w) PROVE Accounted'
  <2>1. /\ \A i \in DOMAIN workQueue : i = 1 \/ (i - 1 \in DOMAIN workQueue' /\ workQueue'[i - 1] = workQueue[i])
        /\ 1 \in DOMAIN workQueue /\ Head(workQueue) = workQueue[1] /\ UNCHANGED <<scheduled, slot, raising>>
    BY <1>6 DEF WorkerGets, TypeOK
  <2>2. /\ \A v \in Workers : v # w => worker'[v] = worker[v]
        /\ worker'[w].call = workQueue[1] /\ worker[w].call = 0
    BY <1>6, <2>1 DEF WorkerGets, TypeOK, Holding
  <2>3. \A c \in 1..scheduled : c # 0
    BY <1>a
  <2> QED
    BY <2>1, <2>2, <2>3 DEF Accounted
<1>7. ASSUME NEW w \in Workers, WorkerExecutes(w) \/ WorkerResumes(w) \/ WorkerCloses(w) \/ WorkerUnwinds(w)
      PROVE Accounted'
  <2>1. UNCHANGED <<scheduled, slot, workQueue, raising>> /\ WorkerStep(w)
    BY <1>7 DEF WorkerExecutes, WorkerResumes, WorkerCloses, WorkerUnwinds, WorkerStep
  <2>2. \A v \in Workers : worker'[v].call = worker[v].call
    BY <1>7, <2>1, WorkerMoves DEF WorkerExecutes, WorkerResumes, WorkerCloses, WorkerUnwinds
  <2> QED
    BY <2>1, <2>2 DEF Accounted
<1>8. ASSUME NEW w \in Workers, WorkerFinishes(w) PROVE Accounted'
  <2>1. UNCHANGED <<scheduled, workQueue, raising>> /\ WorkerStep(w)
    BY <1>8 DEF WorkerFinishes, WorkerStep
  <2>2. \A d \in Calls : slot[d] # "none" => slot'[d] # "none"
    BY <1>8 DEF WorkerFinishes, TypeOK
  <2>3. /\ \A v \in Workers : v # w => worker'[v] = worker[v]
        /\ worker'[w].call = worker[w].call \/ slot'[worker[w].call] # "none"
    BY <1>8, <2>1, WorkerMoves DEF WorkerGets, WorkerFinishes
  <2> QED
    BY <1>b, <2>1, <2>2, <2>3 DEF Accounted
<1>9. CASE UNCHANGED <<scheduled, worker, workQueue, slot>> /\ (raising => raising')
  BY <1>9 DEF Accounted
<1>10. CASE DriverStarts \/ DriverInline \/ DriverEmitsResult \/ DriverChecks
            \/ DriverGathers \/ DriverDrains \/ DriverEmitsResults \/ DriverShutsDown
  BY <1>9, <1>10 DEF DriverStarts, DriverInline, DriverEmitsResult, DriverChecks,
     DriverGathers, DriverDrains, DriverEmitsResults, DriverShutsDown, BatchFails
<1> QED
  BY <1>1, <1>2, <1>3, <1>4, <1>5, <1>6, <1>7, <1>8, <1>9, <1>10, BodyFrame
  DEF Next, DriverStep, WorkerStep, Abort, vars, TypeOK

\* The results follow the calls, and a batch that is not raising answers them all.
LEMMA AnsweredStep ==
    ASSUME TypeOK, Scheduling, Holding, Inline, QueueShape, Ended, Accounted, Answered, [Next]_vars
    PROVE  Answered'
<1> USE DEF NoCall
<1>a. /\ N \in Nat /\ 1 \in Workers /\ scheduled \in 0..N /\ index \in 1..(N + 1)
      /\ mode \in {"sequential", "parallel"} /\ Len(results) \in Nat /\ DOMAIN results = 1..Len(results)
  BY BatchAssumption DEF Workers, TypeOK
<1>b. \A c \in 1..scheduled : c \in Calls /\ c # 0
  BY <1>a DEF Calls
<1>1. CASE DriverStarts
  BY <1>a, <1>1, ZenonT(40) DEF DriverStarts, Answered, ResultsInOrder, Looping, Goto, BatchFails
<1>2. CASE DriverPreparesImmediate
  BY <1>a, <1>2, ZenonT(40) DEF DriverPreparesImmediate, Answered, ResultsInOrder, Looping, Goto, BatchFails
<1>3. CASE DriverPreparesCall
  BY <1>a, <1>3, ZenonT(40) DEF DriverPreparesCall, Answered, ResultsInOrder, Looping, Goto
<1>4. CASE DriverInline
  BY <1>a, <1>4, ZenonT(40) DEF DriverInline, Answered, ResultsInOrder, Looping, Goto, BatchFails
<1>5. CASE DriverEmitsResult
  <2>1. driver = "result" /\ mode = "sequential" /\ scheduled = index /\ ~raising /\ Len(results) = index - 1
    BY <1>5 DEF DriverEmitsResult, Scheduling, Looping, Answered
  <2>2. UNCHANGED <<mode, index, scheduled, ended, slot>>
    BY <1>5 DEF DriverEmitsResult
  <2>3. CASE raising'
    BY <1>5, <2>1, <2>2, <2>3 DEF DriverEmitsResult, Goto, BatchFails, Answered, ResultsInOrder, Looping
  <2>4. CASE ~raising'
    <3>1. results' = Append(results, index) /\ driver' = "check"
      BY <1>5, <2>4 DEF DriverEmitsResult, Goto, BatchFails
    <3>2. \A w \in Workers : worker[w].call = 0
      BY <2>1 DEF Inline, Holding, Looping
    <3>3. index \in 1..scheduled /\ workQueue = <<>>
      BY <1>a, <2>1 DEF Inline
    <3>4. slot[index] # "none"
      BY <1>b, <2>1, <3>2, <3>3 DEF Accounted
    <3>5. index \in ended
      BY <1>b, <3>3, <3>4 DEF Ended
    <3>6. Len(results') = index /\ \A i \in 1..index : results'[i] = IF i = index THEN index ELSE results[i]
      BY <1>a, <2>1, <3>1 DEF TypeOK
    <3>7. DOMAIN results' = 1..index
      BY <1>a, <2>1, <3>1 DEF TypeOK
    <3> QED
      BY <1>a, <2>1, <2>2, <3>1, <3>5, <3>6, <3>7 DEF Answered, ResultsInOrder, Looping
  <2> QED
    BY <2>3, <2>4
<1>6. CASE DriverChecks
  <2>1. /\ driver = "check" /\ scheduled = index /\ UNCHANGED <<mode, scheduled, ended, slot, results, raising>>
        /\ \/ driver' = "stop" /\ index' = index
           \/ driver' = "start" /\ index' = index + 1
    BY <1>6 DEF DriverChecks, Goto, Scheduling
  <2>2. /\ mode = "sequential" => Len(results) = index
        /\ mode = "parallel" => Len(results) = 0
    BY <2>1 DEF Answered, Looping
  <2>3. /\ ResultsInOrder' /\ \A c \in 1..Len(results') : c \in ended'
    BY <2>1 DEF Answered, ResultsInOrder
  <2>4. mode = "sequential" /\ driver' = "start" => Len(results) = index' - 1
    <3>1. driver' = "start" => index' = index + 1
      BY <2>1
    <3>2. index \in Int
      BY <1>a
    <3> QED
      BY <2>2, <3>1, <3>2
  <2> QED
    BY <2>1, <2>2, <2>3, <2>4 DEF Answered, Looping
<1>7. CASE DriverStops
  <2>1. /\ UNCHANGED <<mode, index, scheduled, ended, slot, results, raising>> /\ driver \in {"start", "stop"}
        /\ driver = "start" => index = N + 1
        /\ IF mode = "parallel" THEN driver' = "gather" ELSE driver' = "shutdown"
    BY <1>7 DEF DriverStops, Goto
  <2>2. mode = "sequential" => Len(results) = scheduled
    BY <1>a, <2>1, ZenonT(40) DEF Answered, Scheduling
  <2> QED
    BY <1>a, <2>1, <2>2, ZenonT(40) DEF Answered, ResultsInOrder, Looping
<1>8. CASE DriverGathers
  <2>1. driver = "gather" /\ mode = "parallel" /\ ~raising /\ Len(results) = 0 /\ UNCHANGED <<mode, scheduled, ended, slot, results>>
    BY <1>8 DEF DriverGathers, Scheduling, Looping, Answered
  <2>2. CASE raising'
    BY <1>8, <2>1, <2>2 DEF DriverGathers, Goto, BatchFails, Answered, ResultsInOrder, Looping
  <2>3. CASE ~raising'
    <3>1. (\A w \in Workers : worker[w].pc = "done") /\ driver' = "emit" /\ index' = 1
      BY <1>8, <2>3 DEF DriverGathers, Goto, BatchFails
    <3>2. \A w \in Workers : worker[w].call = 0
      BY <3>1 DEF Holding
    <3>3. \A i \in DOMAIN workQueue : workQueue[i] = 0
      BY <1>a, <3>1 DEF QueueShape
    <3>4. \A c \in 1..scheduled : slot[c] # "none"
      BY <1>b, <2>1, <3>2, <3>3 DEF Accounted
    <3> QED
      BY <1>a, <2>1, <3>1, <3>4 DEF Answered, ResultsInOrder, Looping
  <2> QED
    BY <2>2, <2>3
<1>9. CASE DriverCancels
  BY <1>a, <1>9 DEF DriverCancels, Answered, ResultsInOrder, Looping, Goto
<1>10. CASE DriverDrains
  BY <1>a, <1>10 DEF DriverDrains, Answered, ResultsInOrder, Looping, Goto, Scheduling
<1>11. CASE DriverEmitsResults
  <2>1. /\ driver = "emit" /\ mode = "parallel" /\ Len(results) = index - 1 /\ index <= scheduled + 1
        /\ \A c \in 1..scheduled : slot[c] # "none" /\ c \in ended
    BY <1>b, <1>11 DEF DriverEmitsResults, Scheduling, Answered, Ended
  <2>2. UNCHANGED <<mode, scheduled, ended, slot>>
    BY <1>11 DEF DriverEmitsResults
  <2>3. CASE UNCHANGED results /\ driver' = "shutdown" /\ (raising' \/ index > scheduled)
    BY <1>a, <2>1, <2>2, <2>3 DEF Answered, ResultsInOrder, Looping
  <2>4. CASE driver' = "emit"
    <3>1. index \in 1..scheduled /\ results' = Append(results, index) /\ index' = index + 1
      BY <1>a, <1>11, <2>1, <2>4 DEF DriverEmitsResults, Goto
    <3>2. Len(results') = index /\ \A i \in 1..index : results'[i] = IF i = index THEN index ELSE results[i]
      BY <1>a, <2>1, <3>1 DEF TypeOK
    <3>3. DOMAIN results' = 1..index
      BY <1>a, <2>1, <3>1 DEF TypeOK
    <3> QED
      BY <1>a, <2>1, <2>2, <2>4, <3>1, <3>2, <3>3 DEF Answered, ResultsInOrder, Looping
  <2> QED
    BY <1>11, <2>1, <2>3, <2>4 DEF DriverEmitsResults, Goto
<1>12. CASE DriverShutsDown
  BY <1>a, <1>12, ZenonT(40) DEF DriverShutsDown, Answered, ResultsInOrder, Looping, Goto
<1>13. CASE /\ UNCHANGED <<mode, driver, index, scheduled, raising, results>>
            /\ ended \subseteq ended' /\ \A c \in Calls : slot[c] # "none" => slot'[c] # "none"
  BY <1>a, <1>b, <1>13, ZenonT(40) DEF Answered, ResultsInOrder
<1>14. ASSUME NEW w \in Workers, WorkerStep(w) PROVE Answered'
  <2>1. ended \subseteq ended'
    BY <1>14 DEF WorkerStep, WorkerGets, WorkerExecutes, WorkerResumes, WorkerCloses, WorkerFinishes, WorkerUnwinds
  <2>2. \A c \in Calls : slot[c] # "none" => slot'[c] # "none"
    BY <1>14 DEF WorkerStep, WorkerGets, WorkerExecutes, WorkerResumes, WorkerCloses, WorkerFinishes, WorkerUnwinds,
       TypeOK
  <2> QED
    BY <1>13, <1>14, <2>1, <2>2, WorkerFrame
<1> QED
  BY <1>1, <1>2, <1>3, <1>4, <1>5, <1>6, <1>7, <1>8, <1>9, <1>10, <1>11, <1>12, <1>13, <1>14, BodyFrame
  DEF Next, DriverStep, Abort, vars

-----------------------------------------------------------------------------
(* The invariant is inductive, and the properties follow from it.          *)

\* A batch starts in the invariant.
LEMMA InitIInv == Init => IInv
<1> SUFFICES ASSUME Init PROVE IInv
  OBVIOUS
<1>a. N \in Nat /\ N > 0
  BY BatchAssumption
<1>1. TypeOK
  <2>1. index \in 1..(N + 1) /\ scheduled \in 0..N
    BY <1>a DEF Init
  <2>2. worker \in [Workers -> [pc : {"get", "execute", "body", "close", "finish", "unwind",
                                     "done", "raised", "cancelled"}, call : Calls \cup {NoCall}]]
    BY DEF Init
  <2>3. workQueue \in Seq(Calls \cup {NoCall}) /\ results \in Seq(Calls)
    BY DEF Init
  <2> QED
    BY <2>1, <2>2, <2>3 DEF Init, TypeOK
<1>2. Scheduling
  BY <1>a DEF Init, Scheduling, Settled, Looping
<1>3. Ownership /\ Holding /\ QueueShape
  BY <1>a DEF Init, Ownership, Holding, QueueShape, NoCall, Looping
<1>4. Inline /\ Quiet
  BY DEF Init, Inline, Quiet, Looping
<1>5. Bodies /\ NoOrphanBody /\ Signal
  BY DEF Init, Bodies, NoOrphanBody, Signal, AbortStopsBatch
<1>6. Ended
  BY <1>a DEF Init, Ended
<1>7. Accounted /\ Answered
  BY <1>a DEF Init, Accounted, Answered, ResultsInOrder, Looping
<1> QED
  BY <1>1, <1>2, <1>3, <1>4, <1>5, <1>6, <1>7 DEF IInv

\* Every step of a batch preserves the invariant.
LEMMA IInvStep == IInv /\ [Next]_vars => IInv'
BY TypeStep, SchedulingStep, OwnershipStep, HoldingStep, InlineStep, QueueShapeStep, QuietStep,
   BodiesStep, EndedStep, AccountedStep, AnsweredStep, NoOrphanStep, SignalStep DEF IInv

\* The inductive invariant holds throughout every batch.
THEOREM Invariance == Spec => []IInv
BY InitIInv, IInvStep, PTL DEF Spec

\* Every variable of the batch keeps its type, whatever the number of calls.
THEOREM TypeCorrect == Spec => []TypeOK
<1>1. IInv => TypeOK
  BY DEF IInv
<1> QED
  BY <1>1, Invariance, PTL

\* A batch, whether _execute_tool_calls returns or raises, leaves no tool body
\* running behind it, in a thread of the executor or on the loop.
THEOREM NoOrphanBodyCorrect == Spec => []NoOrphanBody
<1>1. IInv => NoOrphanBody
  BY DEF IInv
<1> QED
  BY <1>1, Invariance, PTL

\* The tool result messages are those of calls 1, 2, ... in this order, for every
\* interleaving of the workers.
THEOREM ResultsInOrderCorrect == Spec => []ResultsInOrder
<1>1. IInv => ResultsInOrder
  BY DEF IInv, Answered
<1> QED
  BY <1>1, Invariance, PTL

\* A batch that returns has started, ended and answered the same calls, and all
\* of them unless the run was aborted.
THEOREM BatchCompleteCorrect == Spec => []BatchComplete
<1>1. ASSUME IInv, driver = "done" PROVE BatchComplete
  <2>1. ~raising /\ started = 1..scheduled /\ (scheduled < N => aborted)
    BY <1>1 DEF IInv, Scheduling, Settled
  <2>2. Len(results) = scheduled /\ \A c \in 1..scheduled : c \in ended
    BY <1>1, <2>1 DEF IInv, Answered
  <2>3. ended \subseteq 1..scheduled
    BY <1>1 DEF IInv, Ended
  <2> QED
    BY <2>1, <2>2, <2>3 DEF BatchComplete
<1>2. IInv => BatchComplete
  BY <1>1 DEF BatchComplete
<1> QED
  BY <1>2, Invariance, PTL

\* tool_execution_start, the end of the body, tool_execution_end and the result
\* message of a call come in this order.
THEOREM EventOrderCorrect == Spec => []EventOrder
<1>1. ASSUME IInv, NEW c \in Calls
      PROVE  /\ c \in ended => c \in started /\ c \notin Active
             /\ c <= Len(results) => c \in ended
  <2>1. c \in ended => c \in started
    BY <1>1 DEF IInv, Ended, Scheduling
  <2>2. c \in ended => c \notin Active
    BY <1>1 DEF IInv, Ended, Bodies, Active
  <2>3. c <= Len(results) => c \in 1..Len(results)
    BY <1>1, BatchAssumption DEF IInv, TypeOK, Calls
  <2>4. \A d \in 1..Len(results) : d \in ended
    BY <1>1 DEF IInv, Answered
  <2> QED
    BY <2>1, <2>2, <2>3, <2>4
<1>2. IInv => EventOrder
  BY <1>1 DEF EventOrder
<1> QED
  BY <1>2, Invariance, PTL

\* At most max_parallel_tools bodies run at a time, and one in a sequential batch:
\* every running body is watched by a worker of its own.
THEOREM ParallelBoundCorrect == Spec => []ParallelBound
<1>1. ASSUME IInv PROVE ParallelBound
  <2> DEFINE Watches(w, c) == worker[w].call = c /\ worker[w].pc \in {"body", "unwind", "cancelled"}
             watcher == [c \in Active |-> CHOOSE w \in Workers : Watches(w, c)]
  <2>1. \A c \in Active : \E w \in Workers : Watches(w, c)
    BY <1>1 DEF IInv, Bodies, Active
  <2>2. \A c \in Active : watcher[c] \in Workers /\ worker[watcher[c]].call = c
                          /\ worker[watcher[c]].pc \in {"body", "unwind", "cancelled"}
    BY <2>1
  <2>3. watcher \in [Active -> Workers]
    BY <2>1
  <2> HIDE DEF watcher
  <2>4. CASE mode = "parallel"
    <3>1. watcher \in Injection(Active, Workers)
      BY <2>2, <2>3 DEF Injection, IsInjective
    <3>2. IsFiniteSet(Workers) /\ Cardinality(Workers) <= MaxParallel /\ Cardinality(Workers) \in Nat
      <4> DEFINE m == IF MaxParallel < N THEN MaxParallel ELSE N
      <4>1. m \in Int /\ m >= 1 /\ m <= MaxParallel
        BY BatchAssumption
      <4>2. IsFiniteSet(1..m) /\ Cardinality(1..m) = IF 1 > m THEN 0 ELSE m - 1 + 1
        <5> HIDE DEF m
        <5> QED
          BY <4>1, FS_Interval
      <4>3. Cardinality(1..m) = m
        BY <4>1, <4>2
      <4> QED
        BY <4>1, <4>2, <4>3 DEF Workers
    <3>3. IsFiniteSet(Active) /\ Cardinality(Active) <= Cardinality(Workers)
      BY <3>1, <3>2, FS_Injection
    <3>4. Cardinality(Active) \in Nat
      BY <3>3, FS_CardinalityType
    <3> QED
      BY <2>4, <3>2, <3>3, <3>4, BatchAssumption DEF ParallelBound
  <2>5. CASE mode = "sequential"
    <3>1. \A c \in Active : watcher[c] = 1
      BY <1>1, <2>2, <2>5 DEF IInv, Inline
    <3>2. Active \in SUBSET {worker[1].call}
      BY <2>2, <3>1
    <3>3. Cardinality(Active) <= 1
      <4>1. IsFiniteSet({worker[1].call}) /\ Cardinality({worker[1].call}) = 1
        BY FS_Singleton
      <4> QED
        BY <3>2, <4>1, FS_Subset
    <3> QED
      BY <2>5, <3>3 DEF ParallelBound
  <2> QED
    BY <1>1, <2>4, <2>5 DEF IInv, TypeOK
<1> QED
  BY <1>1, Invariance, PTL

\* Whatever the number of calls and workers, every part of BatchSound holds at every moment of
\* a batch: types, order of results and events, no body left behind, the bound on bodies.
THEOREM BatchSoundCorrect == Spec => []BatchSound
BY TypeCorrect, ResultsInOrderCorrect, EventOrderCorrect, NoOrphanBodyCorrect,
   ParallelBoundCorrect, PTL DEF BatchSound

\* Once Agent.abort() has set the signal the driver announces at most one more call, and no
\* body runs that was not past the check of ToolCoordinator.execute by then.
THEOREM AbortStopsBatchCorrect == Spec => []AbortStopsBatch
<1>1. IInv => AbortStopsBatch
  BY DEF IInv, Signal
<1> QED
  BY <1>1, Invariance, PTL

-----------------------------------------------------------------------------
(* The batch implements BatchContract.                                     *)

Status == CASE driver = "done" -> "returned" [] driver = "raised" -> "raised" [] OTHER -> "open"

\* The driver ends only by DriverShutsDown, and nothing follows.
LEMMA StatusStep ==
    ASSUME IInv, Next, ~DriverShutsDown
    PROVE  Status' = Status /\ (aborted' # aborted => Status = "open")
<1>1. CASE DriverStep
  <2>1. driver' \notin {"done", "raised"} /\ driver \notin {"done", "raised"} /\ UNCHANGED aborted
    BY <1>1 DEF DriverStep, DriverStarts, DriverPreparesImmediate, DriverPreparesCall, DriverInline,
       DriverEmitsResult, DriverChecks, DriverStops, DriverGathers, DriverCancels, DriverDrains,
       DriverEmitsResults, Goto, BatchFails
  <2> QED
    BY <2>1 DEF Status
<1>2. CASE Abort
  BY <1>2, ZenonT(40) DEF Abort, Status
<1>3. CASE UNCHANGED <<driver, aborted>>
  BY <1>3 DEF Status
<1> QED
  BY <1>1, <1>2, <1>3, WorkerFrame, BodyFrame DEF Next

\* Only the driver emits results, one at a time.
LEMMA ResultsStep ==
    ASSUME IInv, Next
    PROVE  \/ UNCHANGED results
           \/ /\ Len(results') = Len(results) + 1 /\ Len(results) < N
              /\ driver \notin {"done", "raised"} /\ UNCHANGED aborted
              /\ DriverEmitsResult \/ DriverEmitsResults
<1>a. N \in Nat /\ scheduled \in 0..N /\ index \in 1..(N + 1) /\ results \in Seq(Calls)
  BY BatchAssumption DEF IInv, TypeOK
<1>1. CASE DriverEmitsResult
  <2>1. driver = "result" /\ UNCHANGED aborted /\ (results' = results \/ results' = Append(results, index))
    BY <1>1 DEF DriverEmitsResult
  <2>2. Len(results) = index - 1 /\ index <= N
    BY <1>a, <2>1 DEF IInv, Answered, Scheduling
  <2> QED
    BY <1>a, <1>1, <2>1, <2>2
<1>2. CASE DriverEmitsResults
  <2>1. /\ driver = "emit" /\ UNCHANGED aborted
        /\ results' = results \/ (results' = Append(results, index) /\ ~(index > scheduled))
    BY <1>2 DEF DriverEmitsResults
  <2>2. Len(results) = index - 1
    BY <2>1 DEF IInv, Answered
  <2> QED
    BY <1>a, <1>2, <2>1, <2>2
<1>3. CASE DriverStep /\ ~DriverEmitsResult /\ ~DriverEmitsResults
  BY <1>3 DEF DriverStep, DriverStarts, DriverPreparesImmediate, DriverPreparesCall, DriverInline,
     DriverChecks, DriverStops, DriverGathers, DriverCancels, DriverDrains, DriverShutsDown
<1> QED
  BY <1>1, <1>2, <1>3, WorkerFrame, BodyFrame DEF Next, Abort

\* The batch of _execute_tool_calls is an implementation of the contract the turn
\* loop relies on: answers one after the other, a return only with all of them
\* or, aborted, at least one.
THEOREM ContractImplemented == Spec => ImplementsContract
<1>1. Init => Contract!Init
  <2> SUFFICES ASSUME Init PROVE Contract!Init
    OBVIOUS
  <2>1. Len(results) = 0 /\ driver = "start" /\ aborted \in BOOLEAN
    BY DEF Init
  <2> QED
    BY <2>1 DEF Contract!Init
<1>2. IInv /\ [Next]_vars => [Contract!Next]_(Contract!vars)
  <2> SUFFICES ASSUME IInv, [Next]_vars PROVE [Contract!Next]_(Contract!vars)
    OBVIOUS
  <2>1. CASE UNCHANGED vars
    BY <2>1 DEF vars, Contract!vars
  <2>2. CASE DriverShutsDown
    <3>1. driver = "shutdown" /\ UNCHANGED <<results, aborted, raising>>
          /\ driver' = IF raising THEN "raised" ELSE "done"
      BY <2>2 DEF DriverShutsDown, Goto
    <3>2. CASE raising
      BY <3>1, <3>2 DEF Contract!Next, Contract!Raise
    <3>3. CASE ~raising
      <4>1. Len(results) = scheduled /\ scheduled > 0 /\ scheduled \in 0..N /\ (scheduled < N => aborted)
        BY <3>1, <3>3 DEF IInv, Answered, Scheduling, Settled, TypeOK
      <4>2. Len(results) = N \/ (aborted /\ Len(results) > 0)
        BY <4>1, BatchAssumption
      <4> QED
        BY <3>1, <3>3, <4>2 DEF Contract!Next, Contract!Return
    <3> QED
      BY <3>2, <3>3
  <2>3. CASE Next /\ ~DriverShutsDown /\ UNCHANGED <<results, aborted>>
    BY <2>3, StatusStep DEF Status, Contract!vars
  <2>4. CASE Next /\ ~DriverShutsDown /\ ~UNCHANGED results
    <3>1. Len(results') = Len(results) + 1 /\ Len(results) < N /\ UNCHANGED aborted /\ Status = "open"
      BY <2>4, ResultsStep DEF Status
    <3>2. Status' = Status
      BY <2>4, StatusStep
    <3> QED
      BY <3>1, <3>2 DEF Status, Contract!Next, Contract!Answer
  <2>5. CASE Next /\ ~DriverShutsDown /\ UNCHANGED results /\ ~UNCHANGED aborted
    <3>1. Abort
      BY <2>5, WorkerFrame, BodyFrame DEF Next, DriverStep, DriverStarts, DriverPreparesImmediate,
         DriverPreparesCall, DriverInline, DriverEmitsResult, DriverChecks, DriverStops, DriverGathers,
         DriverCancels, DriverDrains, DriverEmitsResults
    <3>2. ~aborted /\ aborted' /\ Status = "open" /\ Status' = Status
      BY <2>5, <3>1, StatusStep DEF Abort
    <3> QED
      BY <2>5, <3>1, <3>2 DEF Status, Abort, Contract!Next, Contract!Abort
  <2> QED
    BY <2>1, <2>2, <2>3, <2>4, <2>5
<1> QED
  BY <1>1, <1>2, Invariance, PTL DEF Spec, ImplementsContract, Contract!Spec
=============================================================================

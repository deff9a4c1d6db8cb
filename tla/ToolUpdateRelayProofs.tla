------------------------ MODULE ToolUpdateRelayProofs ------------------------
(***************************************************************************)
(* Proofs about ToolUpdateRelay, for any threads, closers, capacities and  *)
(* number of updates.  The invariants that the run checks are not          *)
(* inductive: that the sentinel finds room needs to know which threads a   *)
(* close() has overtaken; that nothing accepted is lost, where every       *)
(* accepted update is until the sink has it; and that a thread's updates   *)
(* keep their order, that they do so in the queue.                         *)
(***************************************************************************)
EXTENDS ToolUpdateRelay, FiniteSetTheorems, SequenceTheorems, TLAPS

Elements(s) == {s[i] : i \in DOMAIN s}

\* The consumer has an item that it has not marked as done.
Busy == consumer.pc \in {"got", "emitting", "emitted", "settled"}

\* The item that the consumer has taken and not yet handed to the sink.
Taken == {x \in {consumer.item} : consumer.pc = "got"}

\* A thread that has been let in and has not yet put its update.
Inside(p) == publisher[p].pc \in {"put", "blocked"}

\* The close() that stopped the relay, until it has sent the sentinel.
Draining(c) == closer[c] \in {"drained", "emitting", "emitted", "flushed"}
Passing(c) == closer[c] = "joining" \/ Draining(c)

\* The sentinel is on its way to the consumer or has ended it.
Ending == Sentinel \in Elements(queue) \/ consumer.item = Sentinel \/ consumer.pc = "done"

\* What each party holds, and what join() waits for.
Holding ==
    /\ unfinished = IF Busy THEN Len(queue) + 1 ELSE Len(queue)
    /\ consumer.pc \in {"next", "waiting", "done"} <=> consumer.item = None
    /\ consumer.pc \in {"emitting", "emitted", "settled"} => consumer.item \in Update
    /\ \A p \in Publishers :
          Inside(p) => /\ publisher[p].item \in Update
                       /\ publisher[p].item.source = p
                       /\ publisher[p].item.number <= arrived
    /\ \A i \in DOMAIN putters : publisher[putters[i]].pc = "blocked"
    /\ \A i, j \in DOMAIN putters : i # j => putters[i] # putters[j]

\* One close() drains the relay, and after its sentinel there is none that does.
Passage ==
    /\ \A c \in Closers : closer[c] \notin {"none", "called"} => ~accepting
    /\ \A c, d \in Closers : Passing(c) /\ Passing(d) => c = d
    /\ Ending => ~accepting /\ \A c \in Closers : ~Passing(c)
    /\ \A c \in Closers : closer[c] \in {"ended", "closed", "raised"} => consumer.pc = "done"
    /\ \A c \in Closers : closer[c] = "closed" => ~error

\* Where the updates are that were accepted.
Accounted ==
    /\ error \/ accepted \subseteq Elements(delivered) \cup Elements(queue) \cup Taken
                                   \cup {x \in {overflow} : ~accepting}
    /\ \A c \in Closers : Draining(c) =>
          error \/ accepted \subseteq Elements(delivered) \cup {overflow}
    /\ \A c \in Closers : closer[c] \in {"emitting", "emitted", "flushed"} => overflow = None
    /\ Ending => overflow = None /\ (error \/ accepted \subseteq Elements(delivered))

\* The threads that a draining close() has overtaken and what they have put since.
Room == \A c \in Closers : Draining(c) =>
    Len(queue) + Cardinality({p \in Publishers : Inside(p)}) <= Cardinality(Publishers)

\* An update of a thread is older than the next one it publishes.
Older(a, b) == a.source = b.source /\ a.source \in Publishers => a.number < b.number

\* From the thread to the sink, what a thread publishes keeps its order.
Ordered ==
    /\ overflow # None => overflow.source = Tool /\ overflow.number <= arrived
    /\ \A u \in (Elements(delivered) \cup Elements(queue) \cup Taken) \ {Sentinel} :
          /\ u.number <= arrived
          /\ \A p \in Publishers : Inside(p) => Older(u, publisher[p].item)
    /\ \A i, j \in DOMAIN delivered : i < j => Older(delivered[i], delivered[j])
    /\ \A i, j \in DOMAIN queue : i < j /\ queue[i] # Sentinel /\ queue[j] # Sentinel
          => Older(queue[i], queue[j])
    /\ \A u \in Elements(delivered), v \in (Elements(queue) \cup Taken) \ {Sentinel} : Older(u, v)
    /\ \A u \in Taken \ {Sentinel}, v \in Elements(queue) \ {Sentinel} : Older(u, v)

\* The inductive invariant.
IInv == TypeOK /\ Holding /\ Passage /\ Accounted /\ Room /\ Ordered

\* What a sequence keeps when its tail or another element is taken.
LEMMA SeqFacts ==
    ASSUME NEW S
    PROVE  /\ <<>> \in Seq(S)
           /\ \A s \in Seq(S), x \in S : Append(s, x) \in Seq(S)
           /\ \A s \in Seq(S), t \in Seq(S) : s \o t \in Seq(S)
           /\ \A s \in Seq(S) : s # <<>> => Head(s) \in S /\ Tail(s) \in Seq(S)
           /\ \A x \in S : <<x>> \in Seq(S)
OBVIOUS

\* The elements of a sequence that grows, and of one that loses its head.
LEMMA AppendElements ==
    ASSUME NEW S, NEW q \in Seq(S), NEW x
    PROVE  Elements(Append(q, x)) = Elements(q) \cup {x}
<1>1. \A i \in DOMAIN q : i \in DOMAIN Append(q, x) /\ Append(q, x)[i] = q[i]
  OBVIOUS
<1>2. Len(q) + 1 \in DOMAIN Append(q, x) /\ Append(q, x)[Len(q) + 1] = x
  OBVIOUS
<1>3. \A i \in DOMAIN Append(q, x) : i \in DOMAIN q \/ i = Len(q) + 1
  OBVIOUS
<1> QED
  BY <1>1, <1>2, <1>3 DEF Elements

LEMMA TailElements ==
    ASSUME NEW S, NEW q \in Seq(S), q # <<>>
    PROVE  /\ Elements(q) = {Head(q)} \cup Elements(Tail(q))
           /\ Len(Tail(q)) = Len(q) - 1
<1>1. \A i \in DOMAIN q : i = 1 \/ (i - 1 \in DOMAIN Tail(q) /\ Tail(q)[i - 1] = q[i])
  OBVIOUS
<1>2. \A i \in DOMAIN Tail(q) : i + 1 \in DOMAIN q /\ q[i + 1] = Tail(q)[i]
  OBVIOUS
<1>3. 1 \in DOMAIN q /\ q[1] = Head(q)
  OBVIOUS
<1>4. Len(Tail(q)) = Len(q) - 1
  OBVIOUS
<1>5. ASSUME NEW x \in Elements(q) PROVE x \in {Head(q)} \cup Elements(Tail(q))
  BY <1>1, <1>3, <1>5 DEF Elements
<1>6. ASSUME NEW x \in Elements(Tail(q)) PROVE x \in Elements(q)
  BY <1>2, <1>6 DEF Elements
<1>7. Head(q) \in Elements(q)
  BY <1>3 DEF Elements
<1> QED
  BY <1>4, <1>5, <1>6, <1>7

LEMMA ElementsIn ==
    ASSUME NEW S, NEW q \in Seq(S)
    PROVE  Elements(q) \subseteq S
BY DEF Elements

\* An update that arrives while there is room for one more.
LEMMA Arrives ==
    ASSUME TypeOK, arrived < MaxUpdates, NEW s \in Publishers \cup {Tool}
    PROVE  /\ NewUpdate(s) \in Update
           /\ NewUpdate(s).source = s
           /\ NewUpdate(s).number = arrived + 1
           /\ arrived + 1 \in 0..MaxUpdates
BY RelayAssumption DEF TypeOK, NewUpdate, Update

LEMMA UpdateForm ==
    ASSUME NEW u \in Update
    PROVE  u.source \in Publishers \cup {Tool} /\ u.number \in Nat
BY DEF Update

\* The closers that one step wakes are a sequence of tasks.
LEMMA WokenTasks ==
    ASSUME NEW pc, NEW woken \in Orders(InState(pc))
    PROVE  woken \in Seq(Tasks)
<1>1. IsFiniteSet(InState(pc))
  BY FS_Subset, RelayAssumption DEF InState
<1>2. Cardinality(InState(pc)) \in Nat
  BY <1>1, FS_CardinalityType
<1>3. woken \in [1..Cardinality(InState(pc)) -> InState(pc)]
  BY DEF Orders
<1>4. InState(pc) \subseteq Tasks
  BY DEF InState, Tasks
<1> QED
  BY <1>2, <1>3, <1>4

\* No step changes the capacity.
LEMMA CapacityFixed ==
    ASSUME [Next]_vars
    PROVE  maxPending' = maxPending
BY DEF Next, RunHead, SinkDone, Environment, vars

\* The types, the sequences apart from the rest.
PlainTypes ==
    /\ maxPending \in Nat \ {0} /\ maxPending \in Capacities
    /\ accepting \in BOOLEAN /\ error \in BOOLEAN
    /\ overflow \in Update \cup {None}
    /\ unfinished \in Nat /\ arrived \in 0..MaxUpdates
    /\ consumer \in [pc : {"next", "waiting", "got", "emitting", "emitted", "settled", "done"},
                     item : Update \cup {Sentinel, None}]
    /\ publisher \in [Publishers -> [pc : {"idle", "called", "put", "blocked"},
                                     item : Update \cup {None}]]
    /\ closer \in [Closers -> {"none", "called", "joining", "drained", "emitting", "emitted",
                               "flushed", "awaiting", "ended", "closed", "raised", "queue_full"}]
    /\ accepted \in SUBSET Update

SeqTypes ==
    /\ queue \in Seq(Update \cup {Sentinel}) /\ Len(queue) <= maxPending
    /\ putters \in Seq(Publishers)
    /\ ready \in Seq(Tasks)
    /\ delivered \in Seq(Update)

LEMMA TypeParts == TypeOK <=> PlainTypes /\ SeqTypes
BY RelayAssumption DEF TypeOK, PlainTypes, SeqTypes

\* The values of the plain variables stay in their sets.
LEMMA PlainStep ==
    ASSUME TypeOK, Holding, Passage, [Next]_vars
    PROVE  PlainTypes'
<1> USE DEF PlainTypes
<1>0. maxPending' = maxPending /\ PlainTypes /\ SeqTypes
  BY CapacityFixed, TypeParts DEF PlainTypes
<1>1. ASSUME NEW p \in Publishers, Publish(p)
      PROVE  PlainTypes'
  BY <1>1, <1>0, RelayAssumption DEF Publish, Idle
<1>2. ASSUME NEW p \in Publishers, PublishRefused(p)
      PROVE  PlainTypes'
  BY <1>2, <1>0, RelayAssumption DEF PublishRefused, Idle
<1>3. ASSUME NEW p \in Publishers, PublishAccepted(p)
      PROVE  PlainTypes'
  BY <1>3, <1>0, Arrives DEF PublishAccepted
<1>4. ASSUME NEW p \in Publishers, PublishBlocks(p)
      PROVE  PlainTypes'
  BY <1>4, <1>0, RelayAssumption DEF PublishBlocks, Idle
<1>5. ASSUME NEW p \in Publishers, PublishPuts(p)
      PROVE  PlainTypes'
  BY <1>5, <1>0, RelayAssumption DEF PublishPuts, PutNowait, Idle, Holding, Inside
<1>6. ASSUME ToolScheduled
      PROVE  PlainTypes'
  BY <1>6, <1>0, RelayAssumption DEF ToolScheduled, Idle
<1>7. ASSUME Offer
      PROVE  PlainTypes'
  <2>1. NewUpdate(Tool) \in Update /\ arrived' \in 0..MaxUpdates
    BY <1>7, Arrives, RelayAssumption DEF Offer
  <2>2. CASE OfferQueued
    BY <1>7, <1>0, <2>1, <2>2 DEF Offer, OfferQueued, PutNowait
  <2>3. CASE OfferOverflows
    BY <1>7, <1>0, <2>1, <2>3 DEF Offer, OfferOverflows
  <2> QED
    BY <1>7, <2>2, <2>3 DEF Offer
<1>8. ASSUME ToolSuspends
      PROVE  PlainTypes'
  BY <1>8, <1>0, RelayAssumption DEF ToolSuspends, Idle
<1>9. ASSUME ConsumerWaits
      PROVE  PlainTypes'
  BY <1>9, <1>0, RelayAssumption DEF ConsumerWaits, Idle
<1>10. ASSUME ConsumerGets
       PROVE  PlainTypes'
  <2>1. Head(queue) \in Update \cup {Sentinel}
    BY <1>10, <1>0, SeqFacts DEF ConsumerGets, SeqTypes
  <2> QED
    BY <1>10, <1>0, <2>1 DEF ConsumerGets
<1>11. ASSUME ConsumerEmits
       PROVE  PlainTypes'
  BY <1>11, <1>0, RelayAssumption DEF ConsumerEmits, Idle
<1>12. ASSUME ConsumerSinkDone
       PROVE  PlainTypes'
  BY <1>12, <1>0, RelayAssumption DEF ConsumerSinkDone, Idle
<1>13. ASSUME ConsumerEmitSettles
       PROVE  PlainTypes'
  BY <1>13, <1>0, RelayAssumption DEF ConsumerEmitSettles, Idle
<1>14. ASSUME ConsumerTaskDone
       PROVE  PlainTypes'
  <2>1. unfinished - 1 \in Nat
    BY <1>14, <1>0 DEF ConsumerTaskDone, Holding, Busy, SeqTypes
  <2> QED
    BY <1>14, <1>0, <2>1 DEF ConsumerTaskDone
<1>15. ASSUME ConsumerReturns
       PROVE  PlainTypes'
  <2>1. unfinished - 1 \in Nat
    BY <1>15, <1>0 DEF ConsumerReturns, Holding, Busy, SeqTypes
  <2> QED
    BY <1>15, <1>0, <2>1 DEF ConsumerReturns
<1>16. ASSUME NEW c \in Closers, Close(c)
       PROVE  PlainTypes'
  BY <1>16, <1>0, RelayAssumption DEF Close, Idle
<1>17. ASSUME NEW c \in Closers, CloseAgain(c)
       PROVE  PlainTypes'
  BY <1>17, <1>0, RelayAssumption DEF CloseAgain, Idle
<1>18. ASSUME NEW c \in Closers, CloseJoins(c)
       PROVE  PlainTypes'
  BY <1>18, <1>0, RelayAssumption DEF CloseJoins, Idle
<1>19. ASSUME NEW c \in Closers, CloseFlushes(c)
       PROVE  PlainTypes'
  BY <1>19, <1>0, RelayAssumption DEF CloseFlushes, Idle
<1>20. ASSUME NEW c \in Closers, CloseSinkDone(c)
       PROVE  PlainTypes'
  BY <1>20, <1>0, RelayAssumption DEF CloseSinkDone, Idle
<1>21. ASSUME NEW c \in Closers, CloseEmitSettles(c)
       PROVE  PlainTypes'
  BY <1>21, <1>0, RelayAssumption DEF CloseEmitSettles, Idle
<1>22. ASSUME NEW c \in Closers, CloseSends(c)
       PROVE  PlainTypes'
  <2>1. ~accepting
    BY <1>22 DEF CloseSends, Passage
  <2> QED
    BY <1>22, <1>0, <2>1 DEF CloseSends, PutNowait
<1>23. ASSUME NEW c \in Closers, CloseEnds(c)
       PROVE  PlainTypes'
  BY <1>23, <1>0, RelayAssumption DEF CloseEnds, Idle
<1>24. CASE UNCHANGED vars
  BY <1>24, <1>0 DEF vars
<1> QED
  BY <1>1, <1>2, <1>3, <1>4, <1>5, <1>6, <1>7, <1>8, <1>9, <1>10, <1>11, <1>12, <1>13, <1>14,
     <1>15, <1>16, <1>17, <1>18, <1>19, <1>20, <1>21, <1>22, <1>23, <1>24 DEF Next, RunHead,
     SinkDone, Environment, PublisherStep, ConsumerStep, CloserStep

\* The queue holds updates and sentinels, never more than fit, and the tasks are tasks.
LEMMA SeqStep ==
    ASSUME TypeOK, Holding, Passage, [Next]_vars
    PROVE  SeqTypes'
<1> USE DEF SeqTypes, Suspend, Continue
<1>0. maxPending' = maxPending /\ PlainTypes /\ SeqTypes
  BY CapacityFixed, TypeParts DEF SeqTypes
<1>a. /\ \A p \in Publishers : p \in Tasks
      /\ \A c \in Closers : c \in Tasks
      /\ Consumer \in Tasks /\ Tool \in Tasks
  BY DEF Tasks
<1>b. /\ \A t \in Tasks : Append(ready, t) \in Seq(Tasks)
      /\ \A s \in Seq(Tasks) : ready \o s \in Seq(Tasks)
      /\ ready # <<>> => Tail(ready) \in Seq(Tasks)
      /\ ready # <<>> => \A s \in Seq(Tasks) : Tail(ready) \o s \in Seq(Tasks)
      /\ <<>> \in Seq(Tasks)
  BY <1>0, SeqFacts
<1>c. Getter \in Seq(Tasks)
  BY <1>a, SeqFacts DEF Getter
<1>d. Putter \in Seq(Tasks)
  <2>1. putters # <<>> => Head(putters) \in Publishers
    BY <1>0, SeqFacts
  <2> QED
    BY <1>a, <2>1, SeqFacts DEF Putter
<1>1. ASSUME NEW p \in Publishers, Publish(p)
      PROVE  SeqTypes'
  BY <1>1, <1>0, <1>a, <1>b DEF Publish, Runs
<1>2. ASSUME NEW p \in Publishers, PublishRefused(p)
      PROVE  SeqTypes'
  BY <1>2, <1>0, <1>a, <1>b DEF PublishRefused, Runs
<1>3. ASSUME NEW p \in Publishers, PublishAccepted(p)
      PROVE  SeqTypes'
  BY <1>3, <1>0, <1>a, <1>b DEF PublishAccepted, Runs
<1>4. ASSUME NEW p \in Publishers, PublishBlocks(p)
      PROVE  SeqTypes'
  <2>1. Append(putters, p) \in Seq(Publishers)
    BY <1>0, SeqFacts
  <2> QED
    BY <1>4, <1>0, <1>b, <2>1 DEF PublishBlocks, Runs
<1>5. ASSUME NEW p \in Publishers, PublishPuts(p)
      PROVE  SeqTypes'
  <2>1. publisher[p].item \in Update \cup {Sentinel}
    BY <1>5 DEF PublishPuts, Holding, Inside
  <2>2. queue' \in Seq(Update \cup {Sentinel}) /\ Len(queue') <= maxPending'
    BY <1>5, <1>0, <2>1 DEF PublishPuts, PutNowait, PlainTypes
  <2> QED
    BY <1>5, <1>0, <1>b, <1>c, <2>2 DEF PublishPuts, Runs
<1>6. ASSUME ToolScheduled
      PROVE  SeqTypes'
  BY <1>6, <1>0, <1>a, <1>b DEF ToolScheduled, Runs
<1>7. ASSUME Offer
      PROVE  SeqTypes'
  <2>1. NewUpdate(Tool) \in Update \cup {Sentinel}
    BY <1>7, Arrives DEF Offer
  <2>2. CASE OfferQueued /\ Continue(Getter)
    <3>1. queue' \in Seq(Update \cup {Sentinel}) /\ Len(queue') <= maxPending'
      BY <2>1, <2>2, <1>0 DEF OfferQueued, PutNowait, PlainTypes
    <3> QED
      BY <1>7, <1>0, <1>b, <1>c, <2>2, <3>1 DEF Offer
  <2>3. CASE OfferOverflows /\ Continue(<<>>)
    BY <1>7, <1>0, <1>b, <2>3 DEF Offer, OfferOverflows
  <2> QED
    BY <1>7, <2>2, <2>3 DEF Offer
<1>8. ASSUME ToolSuspends
      PROVE  SeqTypes'
  BY <1>8, <1>0, <1>a, <1>b DEF ToolSuspends, Runs
<1>9. ASSUME ConsumerWaits
      PROVE  SeqTypes'
  BY <1>9, <1>0, <1>a, <1>b DEF ConsumerWaits, Runs
<1>10. ASSUME ConsumerGets
       PROVE  SeqTypes'
  <2>1. queue' \in Seq(Update \cup {Sentinel}) /\ Len(queue') <= maxPending'
    BY <1>10, <1>0, TailElements DEF ConsumerGets, PlainTypes
  <2>2. putters' \in Seq(Publishers)
    BY <1>10, <1>0, SeqFacts DEF ConsumerGets
  <2> QED
    BY <1>10, <1>0, <1>b, <1>d, <2>1, <2>2 DEF ConsumerGets
<1>11. ASSUME ConsumerEmits
       PROVE  SeqTypes'
  <2>1. consumer.item \in Update
    BY <1>11, <1>0 DEF ConsumerEmits, Holding, PlainTypes
  <2>2. Append(delivered, consumer.item) \in Seq(Update)
    BY <1>0, <2>1, SeqFacts
  <2> QED
    BY <1>11, <1>0, <1>b, <2>2 DEF ConsumerEmits, Runs
<1>12. ASSUME ConsumerSinkDone
       PROVE  SeqTypes'
  BY <1>12, <1>0, <1>a, <1>b DEF ConsumerSinkDone, Runs
<1>13. ASSUME ConsumerEmitSettles
       PROVE  SeqTypes'
  BY <1>13, <1>0, <1>a, <1>b DEF ConsumerEmitSettles, Runs
<1>14. ASSUME ConsumerTaskDone
       PROVE  SeqTypes'
  <2>1. \A woken \in Orders(InState("joining")) : ready \o woken \in Seq(Tasks)
    BY <1>b, WokenTasks
  <2> QED
    BY <1>14, <1>0, <2>1 DEF ConsumerTaskDone
<1>15. ASSUME ConsumerReturns
       PROVE  SeqTypes'
  <2>1. \A woken \in Orders(InState("awaiting")) : ready # <<>>
            => Tail(ready) \o woken \in Seq(Tasks)
    BY <1>b, WokenTasks
  <2> QED
    BY <1>15, <1>0, <2>1 DEF ConsumerReturns, Runs
<1>16. ASSUME NEW c \in Closers, Close(c)
       PROVE  SeqTypes'
  BY <1>16, <1>0, <1>a, <1>b DEF Close, Runs
<1>17. ASSUME NEW c \in Closers, CloseAgain(c)
       PROVE  SeqTypes'
  BY <1>17, <1>0, <1>a, <1>b DEF CloseAgain, Runs
<1>18. ASSUME NEW c \in Closers, CloseJoins(c)
       PROVE  SeqTypes'
  BY <1>18, <1>0, <1>a, <1>b DEF CloseJoins, Runs
<1>19. ASSUME NEW c \in Closers, CloseFlushes(c)
       PROVE  SeqTypes'
  <2>1. overflow # None => Append(delivered, overflow) \in Seq(Update)
    BY <1>0, SeqFacts DEF PlainTypes
  <2> QED
    BY <1>19, <1>0, <1>b, <2>1 DEF CloseFlushes, Runs
<1>20. ASSUME NEW c \in Closers, CloseSinkDone(c)
       PROVE  SeqTypes'
  BY <1>20, <1>0, <1>a, <1>b DEF CloseSinkDone, Runs
<1>21. ASSUME NEW c \in Closers, CloseEmitSettles(c)
       PROVE  SeqTypes'
  BY <1>21, <1>0, <1>a, <1>b DEF CloseEmitSettles, Runs
<1>22. ASSUME NEW c \in Closers, CloseSends(c)
       PROVE  SeqTypes'
  <2>1. CASE Len(queue) < maxPending /\ PutNowait(Sentinel) /\ Suspend(Getter)
    <3>1. queue' \in Seq(Update \cup {Sentinel}) /\ Len(queue') <= maxPending'
      BY <2>1, <1>0 DEF PutNowait, PlainTypes
    <3> QED
      BY <1>22, <1>0, <1>b, <1>c, <2>1, <3>1 DEF CloseSends, Runs
  <2>2. CASE UNCHANGED queue /\ Suspend(<<>>)
    BY <1>22, <1>0, <1>b, <2>2 DEF CloseSends, Runs
  <2> QED
    BY <1>22, <2>1, <2>2 DEF CloseSends
<1>23. ASSUME NEW c \in Closers, CloseEnds(c)
       PROVE  SeqTypes'
  BY <1>23, <1>0, <1>a, <1>b DEF CloseEnds, Runs
<1>24. CASE UNCHANGED vars
  BY <1>24, <1>0 DEF vars
<1> QED
  BY <1>1, <1>2, <1>3, <1>4, <1>5, <1>6, <1>7, <1>8, <1>9, <1>10, <1>11, <1>12, <1>13, <1>14,
     <1>15, <1>16, <1>17, <1>18, <1>19, <1>20, <1>21, <1>22, <1>23, <1>24 DEF Next, RunHead,
     SinkDone, Environment, PublisherStep, ConsumerStep, CloserStep

\* join() counts what is queued and what the consumer has; a blocked thread waits in the queue of putters once.
LEMMA HoldingStep ==
    ASSUME TypeOK, Holding, Passage, [Next]_vars
    PROVE  Holding'
<1> USE DEF Holding, Busy, Inside
<1>0. PlainTypes /\ SeqTypes
  BY TypeParts
<1> USE DEF PlainTypes
<1>1. ASSUME NEW p \in Publishers, Publish(p)
      PROVE  Holding'
  BY <1>1, <1>0, RelayAssumption, UpdateAssumption DEF Publish, Idle
<1>2. ASSUME NEW p \in Publishers, PublishRefused(p)
      PROVE  Holding'
  BY <1>2, <1>0, RelayAssumption, UpdateAssumption DEF PublishRefused, Idle
<1>3. ASSUME NEW p \in Publishers, PublishAccepted(p)
      PROVE  Holding'
  <2>1. /\ NewUpdate(p) \in Update /\ NewUpdate(p).source = p
        /\ NewUpdate(p).number = arrived + 1 /\ arrived \in Nat
    BY <1>3, <1>0, Arrives DEF PublishAccepted
  <2>2. \A q \in Publishers : Inside(q) => publisher[q].item.number <= arrived + 1
    BY <2>1, UpdateForm
  <2> QED
    BY <1>3, <1>0, <2>1, <2>2 DEF PublishAccepted
<1>4. ASSUME NEW p \in Publishers, PublishBlocks(p)
      PROVE  Holding'
  <2>1. /\ putters' = Append(putters, p) /\ putters \in Seq(Publishers)
        /\ publisher[p].pc = "put" /\ publisher' = [publisher EXCEPT ![p].pc = "blocked"]
        /\ UNCHANGED <<unfinished, queue, consumer, arrived>>
    BY <1>4, <1>0 DEF PublishBlocks, SeqTypes
  <2>2. \A i \in DOMAIN putters' : (i \in DOMAIN putters /\ putters'[i] = putters[i])
                                    \/ (i = Len(putters) + 1 /\ putters'[i] = p)
    BY <2>1
  <2>3. \A i \in DOMAIN putters : putters[i] # p /\ putters[i] \in Publishers
    BY <2>1
  <2>4. \A i \in DOMAIN putters' : publisher'[putters'[i]].pc = "blocked"
    BY <1>0, <2>1, <2>2, <2>3
  <2>5. \A i, j \in DOMAIN putters' : i # j => putters'[i] # putters'[j]
    BY <2>2, <2>3
  <2> QED
    BY <1>0, <2>1, <2>4, <2>5
<1>5. ASSUME NEW p \in Publishers, PublishPuts(p)
      PROVE  Holding'
  <2>1. /\ Len(queue') = Len(queue) + 1 /\ Len(queue) \in Nat
        /\ unfinished' = unfinished + 1
        /\ consumer'.item = consumer.item
        /\ consumer' = consumer \/ (consumer.pc = "waiting" /\ consumer'.pc = "next")
        /\ UNCHANGED <<putters, arrived>>
        /\ publisher' = [publisher EXCEPT ![p] = Idle]
        /\ publisher[p].pc = "put"
    BY <1>5, <1>0 DEF PublishPuts, PutNowait, SeqTypes
  <2>2. \A i \in DOMAIN putters : putters[i] # p /\ putters[i] \in Publishers
    BY <1>0, <2>1 DEF SeqTypes
  <2> QED
    BY <1>0, <2>1, <2>2 DEF Idle
<1>6. ASSUME ToolScheduled
      PROVE  Holding'
  BY <1>6, <1>0, RelayAssumption, UpdateAssumption DEF ToolScheduled, Idle
<1>7. ASSUME Offer
      PROVE  Holding'
  <2>0. \A q \in Publishers : Inside(q) => publisher[q].item.number <= arrived + 1
    BY <1>0, UpdateForm
  <2>1. CASE OfferQueued
    BY <1>7, <1>0, <2>0, <2>1 DEF Offer, OfferQueued, PutNowait, SeqTypes
  <2>2. CASE OfferOverflows
    BY <1>7, <1>0, <2>0, <2>2 DEF Offer, OfferOverflows
  <2> QED
    BY <1>7, <2>1, <2>2 DEF Offer
<1>8. ASSUME ToolSuspends
      PROVE  Holding'
  BY <1>8, <1>0, RelayAssumption, UpdateAssumption DEF ToolSuspends, Idle
<1>9. ASSUME ConsumerWaits
      PROVE  Holding'
  BY <1>9, <1>0, RelayAssumption, UpdateAssumption DEF ConsumerWaits, Idle
<1>10. ASSUME ConsumerGets
       PROVE  Holding'
  <2>1. /\ Len(queue') = Len(queue) - 1 /\ Len(queue) \in Nat
        /\ consumer' = [pc |-> "got", item |-> Head(queue)]
        /\ Head(queue) \in Update \cup {Sentinel}
        /\ consumer.pc = "next"
        /\ UNCHANGED <<unfinished, arrived>>
    BY <1>10, <1>0, TailElements DEF ConsumerGets, SeqTypes
  <2>2. CASE putters = <<>>
    BY <1>10, <1>0, <2>1, <2>2, RelayAssumption, UpdateAssumption DEF ConsumerGets
  <2>3. CASE putters # <<>>
    <3>1. putters \in Seq(Publishers) /\ putters' = Tail(putters) /\ putters[1] = Head(putters)
          /\ 1 \in DOMAIN putters
      BY <1>10, <1>0, <2>3 DEF ConsumerGets, SeqTypes
    <3>2. \A i \in DOMAIN putters' : i + 1 \in DOMAIN putters /\ putters'[i] = putters[i + 1]
                                      /\ i \in Nat /\ putters'[i] # putters[1]
                                      /\ putters'[i] \in Publishers
      BY <3>1, <2>3
    <3>3. publisher' = [q \in Publishers |-> IF q = putters[1]
                          THEN [publisher[q] EXCEPT !.pc = "put"] ELSE publisher[q]]
      BY <1>10, <2>3, <3>1 DEF ConsumerGets
    <3>4. \A i \in DOMAIN putters' : publisher'[putters'[i]].pc = "blocked"
      BY <3>2, <3>3
    <3>5. \A i, j \in DOMAIN putters' : i # j => putters'[i] # putters'[j]
      BY <3>2
    <3>6. \A q \in Publishers : publisher'[q].item = publisher[q].item
                                /\ (Inside(q)' => Inside(q))
      BY <1>0, <3>1, <3>3
    <3> QED
      BY <1>0, <2>1, <3>4, <3>5, <3>6, RelayAssumption, UpdateAssumption
  <2> QED
    BY <2>2, <2>3
<1>11. ASSUME ConsumerEmits
       PROVE  Holding'
  BY <1>11, <1>0, RelayAssumption, UpdateAssumption DEF ConsumerEmits, Idle
<1>12. ASSUME ConsumerSinkDone
       PROVE  Holding'
  BY <1>12, <1>0, RelayAssumption, UpdateAssumption DEF ConsumerSinkDone, Idle
<1>13. ASSUME ConsumerEmitSettles
       PROVE  Holding'
  BY <1>13, <1>0, RelayAssumption, UpdateAssumption DEF ConsumerEmitSettles, Idle
<1>14. ASSUME ConsumerTaskDone
       PROVE  Holding'
  BY <1>14, <1>0, RelayAssumption, UpdateAssumption DEF ConsumerTaskDone, Idle
<1>15. ASSUME ConsumerReturns
       PROVE  Holding'
  BY <1>15, <1>0, RelayAssumption, UpdateAssumption DEF ConsumerReturns, Idle
<1>16. ASSUME NEW c \in Closers, Close(c)
       PROVE  Holding'
  BY <1>16, <1>0, RelayAssumption, UpdateAssumption DEF Close, Idle
<1>17. ASSUME NEW c \in Closers, CloseAgain(c)
       PROVE  Holding'
  BY <1>17, <1>0, RelayAssumption, UpdateAssumption DEF CloseAgain, Idle
<1>18. ASSUME NEW c \in Closers, CloseJoins(c)
       PROVE  Holding'
  BY <1>18, <1>0, RelayAssumption, UpdateAssumption DEF CloseJoins, Idle
<1>19. ASSUME NEW c \in Closers, CloseFlushes(c)
       PROVE  Holding'
  BY <1>19, <1>0, RelayAssumption, UpdateAssumption DEF CloseFlushes, Idle
<1>20. ASSUME NEW c \in Closers, CloseSinkDone(c)
       PROVE  Holding'
  BY <1>20, <1>0, RelayAssumption, UpdateAssumption DEF CloseSinkDone, Idle
<1>21. ASSUME NEW c \in Closers, CloseEmitSettles(c)
       PROVE  Holding'
  BY <1>21, <1>0, RelayAssumption, UpdateAssumption DEF CloseEmitSettles, Idle
<1>22. ASSUME NEW c \in Closers, CloseSends(c)
       PROVE  Holding'
  <2>1. CASE PutNowait(Sentinel)
    BY <1>22, <1>0, <2>1 DEF CloseSends, PutNowait, SeqTypes
  <2>2. CASE UNCHANGED <<queue, unfinished, consumer>>
    BY <1>22, <1>0, <2>2 DEF CloseSends
  <2> QED
    BY <1>22, <2>1, <2>2 DEF CloseSends
<1>23. ASSUME NEW c \in Closers, CloseEnds(c)
       PROVE  Holding'
  BY <1>23, <1>0, RelayAssumption, UpdateAssumption DEF CloseEnds, Idle
<1>24. CASE UNCHANGED vars
  BY <1>24, <1>0 DEF vars
<1> QED
  BY <1>1, <1>2, <1>3, <1>4, <1>5, <1>6, <1>7, <1>8, <1>9, <1>10, <1>11, <1>12, <1>13, <1>14,
     <1>15, <1>16, <1>17, <1>18, <1>19, <1>20, <1>21, <1>22, <1>23, <1>24 DEF Next, RunHead,
     SinkDone, Environment, PublisherStep, ConsumerStep, CloserStep

\* One close() takes the relay out of service and drains it; its sentinel comes when it is through.
LEMMA PassageStep ==
    ASSUME TypeOK, Holding, Passage, [Next]_vars
    PROVE  Passage'
<1> USE DEF Passage, Passing, Draining, Ending
<1>0. PlainTypes /\ SeqTypes
  BY TypeParts
<1> USE DEF PlainTypes
<1>1. ASSUME NEW p \in Publishers, Publish(p)
      PROVE  Passage'
  BY <1>1, <1>0, RelayAssumption DEF Publish
<1>2. ASSUME NEW p \in Publishers, PublishRefused(p)
      PROVE  Passage'
  BY <1>2, <1>0, RelayAssumption DEF PublishRefused
<1>3. ASSUME NEW p \in Publishers, PublishAccepted(p)
      PROVE  Passage'
  BY <1>3, <1>0, RelayAssumption DEF PublishAccepted
<1>4. ASSUME NEW p \in Publishers, PublishBlocks(p)
      PROVE  Passage'
  BY <1>4, <1>0, RelayAssumption DEF PublishBlocks
<1>5. ASSUME NEW p \in Publishers, PublishPuts(p)
      PROVE  Passage'
  <2>1. publisher[p].item \in Update /\ publisher[p].item # Sentinel
    BY <1>5, UpdateAssumption DEF PublishPuts, Holding, Inside
  <2>2. Elements(queue') = Elements(queue) \cup {publisher[p].item}
    BY <1>5, <1>0, AppendElements DEF PublishPuts, PutNowait, SeqTypes
  <2> QED
    BY <1>5, <1>0, <2>1, <2>2 DEF PublishPuts, PutNowait
<1>6. ASSUME ToolScheduled
      PROVE  Passage'
  BY <1>6, <1>0, RelayAssumption DEF ToolScheduled
<1>7. ASSUME Offer
      PROVE  Passage'
  <2>1. CASE OfferQueued
    <3>1. NewUpdate(Tool) # Sentinel
      BY <1>7, Arrives, UpdateAssumption DEF Offer
    <3>2. Elements(queue') = Elements(queue) \cup {NewUpdate(Tool)}
      BY <2>1, <1>0, AppendElements DEF OfferQueued, PutNowait, SeqTypes
    <3> QED
      BY <1>7, <1>0, <2>1, <3>1, <3>2 DEF Offer, OfferQueued, PutNowait
  <2>2. CASE OfferOverflows
    BY <1>7, <1>0, <2>2 DEF Offer, OfferOverflows
  <2> QED
    BY <1>7, <2>1, <2>2 DEF Offer
<1>8. ASSUME ToolSuspends
      PROVE  Passage'
  BY <1>8, <1>0, RelayAssumption DEF ToolSuspends
<1>9. ASSUME ConsumerWaits
      PROVE  Passage'
  BY <1>9, <1>0, RelayAssumption DEF ConsumerWaits
<1>10. ASSUME ConsumerGets
       PROVE  Passage'
  <2>1. Elements(queue) = {Head(queue)} \cup Elements(queue')
    BY <1>10, <1>0, TailElements DEF ConsumerGets, SeqTypes
  <2> QED
    BY <1>10, <1>0, <2>1 DEF ConsumerGets
<1>11. ASSUME ConsumerEmits
       PROVE  Passage'
  BY <1>11, <1>0, RelayAssumption DEF ConsumerEmits
<1>12. ASSUME ConsumerSinkDone
       PROVE  Passage'
  BY <1>12, <1>0, RelayAssumption DEF ConsumerSinkDone
<1>13. ASSUME ConsumerEmitSettles
       PROVE  Passage'
  BY <1>13, <1>0, RelayAssumption DEF ConsumerEmitSettles
<1>14. ASSUME ConsumerTaskDone
       PROVE  Passage'
  BY <1>14, <1>0, RelayAssumption DEF ConsumerTaskDone
<1>15. ASSUME ConsumerReturns
       PROVE  Passage'
  BY <1>15, <1>0, RelayAssumption DEF ConsumerReturns
<1>16. ASSUME NEW c \in Closers, Close(c)
       PROVE  Passage'
  BY <1>16, <1>0, RelayAssumption DEF Close
<1>17. ASSUME NEW c \in Closers, CloseAgain(c)
       PROVE  Passage'
  BY <1>17, <1>0, RelayAssumption DEF CloseAgain
<1>18. ASSUME NEW c \in Closers, CloseJoins(c)
       PROVE  Passage'
  BY <1>18, <1>0, RelayAssumption DEF CloseJoins
<1>19. ASSUME NEW c \in Closers, CloseFlushes(c)
       PROVE  Passage'
  BY <1>19, <1>0, RelayAssumption DEF CloseFlushes
<1>20. ASSUME NEW c \in Closers, CloseSinkDone(c)
       PROVE  Passage'
  BY <1>20, <1>0, RelayAssumption DEF CloseSinkDone
<1>21. ASSUME NEW c \in Closers, CloseEmitSettles(c)
       PROVE  Passage'
  BY <1>21, <1>0, RelayAssumption DEF CloseEmitSettles
<1>22. ASSUME NEW c \in Closers, CloseSends(c)
       PROVE  Passage'
  <2>1. \A d \in Closers : ~Passing(d)'
    BY <1>22, <1>0 DEF CloseSends
  <2>2. CASE PutNowait(Sentinel)
    BY <1>22, <1>0, <2>1, <2>2 DEF CloseSends, PutNowait
  <2>3. CASE UNCHANGED <<queue, unfinished, consumer>>
    BY <1>22, <1>0, <2>1, <2>3 DEF CloseSends
  <2> QED
    BY <1>22, <2>2, <2>3 DEF CloseSends
<1>23. ASSUME NEW c \in Closers, CloseEnds(c)
       PROVE  Passage'
  BY <1>23, <1>0, RelayAssumption DEF CloseEnds
<1>24. CASE UNCHANGED vars
  BY <1>24, <1>0 DEF vars
<1> QED
  BY <1>1, <1>2, <1>3, <1>4, <1>5, <1>6, <1>7, <1>8, <1>9, <1>10, <1>11, <1>12, <1>13, <1>14,
     <1>15, <1>16, <1>17, <1>18, <1>19, <1>20, <1>21, <1>22, <1>23, <1>24 DEF Next, RunHead,
     SinkDone, Environment, PublisherStep, ConsumerStep, CloserStep

\* An accepted update is queued, with the consumer, kept as overflow or delivered, unless the sink failed.
LEMMA AccountedStep ==
    ASSUME TypeOK, Holding, Passage, Accounted, [Next]_vars
    PROVE  Accounted'
<1> USE DEF Accounted, Draining, Ending, Taken
<1>0. PlainTypes /\ SeqTypes
  BY TypeParts
<1> USE DEF PlainTypes
<1>1. ASSUME NEW p \in Publishers, Publish(p)
      PROVE  Accounted'
  BY <1>1, <1>0, RelayAssumption DEF Publish
<1>2. ASSUME NEW p \in Publishers, PublishRefused(p)
      PROVE  Accounted'
  BY <1>2, <1>0, RelayAssumption DEF PublishRefused
<1>3. ASSUME NEW p \in Publishers, PublishAccepted(p)
      PROVE  Accounted'
  BY <1>3, <1>0, RelayAssumption DEF PublishAccepted
<1>4. ASSUME NEW p \in Publishers, PublishBlocks(p)
      PROVE  Accounted'
  BY <1>4, <1>0, RelayAssumption DEF PublishBlocks
<1>5. ASSUME NEW p \in Publishers, PublishPuts(p)
      PROVE  Accounted'
  <2>1. publisher[p].item \in Update /\ publisher[p].item # Sentinel
    BY <1>5, UpdateAssumption DEF PublishPuts, Holding, Inside
  <2>2. Elements(queue') = Elements(queue) \cup {publisher[p].item}
    BY <1>5, <1>0, AppendElements DEF PublishPuts, PutNowait, SeqTypes
  <2>3. accepted' \subseteq accepted \cup {publisher[p].item} /\ (~accepting
            => accepted' = accepted)
    BY <1>5 DEF PublishPuts, PutNowait
  <2>4. /\ UNCHANGED <<accepting, overflow, error, closer, delivered>>
        /\ consumer'.item = consumer.item /\ (consumer'.pc = "done" <=> consumer.pc = "done")
        /\ (consumer'.pc = "got" <=> consumer.pc = "got")
    BY <1>5, <1>0 DEF PublishPuts, PutNowait
  <2> QED
    BY <1>0, <2>1, <2>2, <2>3, <2>4 DEF Passage
<1>6. ASSUME ToolScheduled
      PROVE  Accounted'
  BY <1>6, <1>0, RelayAssumption DEF ToolScheduled
<1>7. ASSUME Offer
      PROVE  Accounted'
  <2>1. CASE OfferQueued
    <3>1. Elements(queue') = Elements(queue) \cup {NewUpdate(Tool)}
      BY <2>1, <1>0, AppendElements DEF OfferQueued, PutNowait, SeqTypes
    <3>2. accepted' = accepted \cup {NewUpdate(Tool)} /\ accepting
          /\ (\A c \in Closers : closer[c] \in {"none", "called"})
      BY <1>7, <2>1, <1>0 DEF Offer, OfferQueued, PutNowait, Passage
    <3>3. /\ UNCHANGED <<accepting, overflow, error, closer, delivered>>
          /\ consumer'.item = consumer.item /\ (consumer'.pc = "done" <=> consumer.pc = "done")
          /\ (consumer'.pc = "got" <=> consumer.pc = "got")
      BY <1>7, <2>1, <1>0 DEF Offer, OfferQueued, PutNowait
    <3>4. NewUpdate(Tool) # Sentinel /\ ~Ending /\ ~Ending'
      <4>1. NewUpdate(Tool) # Sentinel
        BY <1>7, Arrives, UpdateAssumption DEF Offer
      <4> QED
        BY <3>1, <3>2, <3>3, <4>1 DEF Passage
    <3> QED
      BY <1>0, <3>1, <3>2, <3>3, <3>4
  <2>2. CASE OfferOverflows
    BY <1>7, <1>0, <2>2 DEF Offer, OfferOverflows, Passage
  <2> QED
    BY <1>7, <2>1, <2>2 DEF Offer
<1>8. ASSUME ToolSuspends
      PROVE  Accounted'
  BY <1>8, <1>0, RelayAssumption DEF ToolSuspends
<1>9. ASSUME ConsumerWaits
      PROVE  Accounted'
  BY <1>9, <1>0, RelayAssumption DEF ConsumerWaits
<1>10. ASSUME ConsumerGets
       PROVE  Accounted'
  <2>1. Elements(queue) = {Head(queue)} \cup Elements(queue')
    BY <1>10, <1>0, TailElements DEF ConsumerGets, SeqTypes
  <2> QED
    BY <1>10, <1>0, <2>1 DEF ConsumerGets
<1>11. ASSUME ConsumerEmits
       PROVE  Accounted'
  <2>1. CASE error
    BY <1>11, <1>0, <2>1 DEF ConsumerEmits
  <2>2. CASE ~error
    <3>1. Elements(delivered') = Elements(delivered) \cup {consumer.item}
      BY <1>11, <1>0, <2>2, AppendElements DEF ConsumerEmits, SeqTypes
    <3> QED
      BY <1>11, <1>0, <2>2, <3>1 DEF ConsumerEmits
  <2> QED
    BY <2>1, <2>2
<1>12. ASSUME ConsumerSinkDone
       PROVE  Accounted'
  BY <1>12, <1>0, RelayAssumption DEF ConsumerSinkDone
<1>13. ASSUME ConsumerEmitSettles
       PROVE  Accounted'
  BY <1>13, <1>0, RelayAssumption DEF ConsumerEmitSettles
<1>14. ASSUME ConsumerTaskDone
       PROVE  Accounted'
  <2>1. /\ UNCHANGED <<accepting, queue, overflow, error, accepted, delivered>>
        /\ consumer.pc = "settled" /\ consumer' = [pc |-> "next", item |-> None]
    BY <1>14 DEF ConsumerTaskDone
  <2>2. CASE unfinished = 1
    <3>1. queue = <<>>
      BY <1>0, <2>1, <2>2 DEF Holding, Busy, SeqTypes
    <3>2. Elements(queue) = {}
      BY <3>1 DEF Elements
    <3>3. closer' = [c \in Closers |-> IF closer[c] = "joining" THEN "drained" ELSE closer[c]]
      BY <1>14, <2>2 DEF ConsumerTaskDone
    <3> QED
      BY <1>0, <2>1, <3>2, <3>3, RelayAssumption
  <2>3. CASE unfinished # 1
    <3>1. closer' = closer
      BY <1>14, <2>3 DEF ConsumerTaskDone
    <3> QED
      BY <1>0, <2>1, <3>1, RelayAssumption
  <2> QED
    BY <2>2, <2>3
<1>15. ASSUME ConsumerReturns
       PROVE  Accounted'
  BY <1>15, <1>0, RelayAssumption DEF ConsumerReturns
<1>16. ASSUME NEW c \in Closers, Close(c)
       PROVE  Accounted'
  BY <1>16, <1>0, RelayAssumption DEF Close
<1>17. ASSUME NEW c \in Closers, CloseAgain(c)
       PROVE  Accounted'
  BY <1>17, <1>0, RelayAssumption DEF CloseAgain
<1>18. ASSUME NEW c \in Closers, CloseJoins(c)
       PROVE  Accounted'
  <2>1. /\ accepting /\ ~accepting' /\ accepted' = accepted \cup ({overflow} \ {None})
        /\ UNCHANGED <<queue, overflow, error, consumer, delivered>>
    BY <1>18 DEF CloseJoins
  <2>2. ~Ending /\ ~Ending' /\ (\A d \in Closers : closer[d] \in {"none", "called"})
    BY <2>1 DEF Passage
  <2>3. CASE unfinished = 0
    <3>1. queue = <<>> /\ consumer.pc # "got"
      BY <1>0, <2>3 DEF Holding, Busy, SeqTypes
    <3>2. Elements(queue) = {}
      BY <3>1 DEF Elements
    <3> QED
      BY <1>18, <1>0, <2>1, <2>2, <2>3, <3>1, <3>2 DEF CloseJoins
  <2>4. CASE unfinished # 0
    BY <1>18, <1>0, <2>1, <2>2, <2>4 DEF CloseJoins
  <2> QED
    BY <2>3, <2>4
<1>19. ASSUME NEW c \in Closers, CloseFlushes(c)
       PROVE  Accounted'
  <2>1. /\ UNCHANGED <<accepting, queue, error, consumer, accepted>> /\ ~accepting
        /\ closer[c] = "drained" /\ overflow' = None /\ ~Ending
    BY <1>19 DEF CloseFlushes, Passage, Passing
  <2>2. \A d \in Closers : Draining(d) => d = c
    BY <2>1 DEF Passage, Passing
  <2>3. ~Ending'
    BY <2>1
  <2>4. CASE overflow # None /\ ~error
    <3>1. Elements(delivered') = Elements(delivered) \cup {overflow}
      BY <1>19, <1>0, <2>4, AppendElements DEF CloseFlushes, SeqTypes
    <3>2. \A d \in Closers : d # c => closer'[d] = closer[d]
      BY <1>19, <1>0, <2>4 DEF CloseFlushes
    <3> QED
      BY <1>0, <2>1, <2>2, <2>3, <2>4, <3>1, <3>2
  <2>5. CASE ~(overflow # None /\ ~error)
    <3>1. delivered' = delivered /\ closer' = [closer EXCEPT ![c] = "flushed"]
      BY <1>19, <2>5 DEF CloseFlushes
    <3>2. error \/ accepted \subseteq Elements(delivered)
      BY <1>0, <2>1, <2>5, UpdateAssumption
    <3> QED
      BY <1>0, <2>1, <2>2, <2>3, <3>1, <3>2
  <2> QED
    BY <2>4, <2>5
<1>20. ASSUME NEW c \in Closers, CloseSinkDone(c)
       PROVE  Accounted'
  BY <1>20, <1>0, RelayAssumption DEF CloseSinkDone
<1>21. ASSUME NEW c \in Closers, CloseEmitSettles(c)
       PROVE  Accounted'
  BY <1>21, <1>0, RelayAssumption DEF CloseEmitSettles
<1>22. ASSUME NEW c \in Closers, CloseSends(c)
       PROVE  Accounted'
  <2>0. /\ closer[c] = "flushed" /\ ~accepting /\ overflow = None
        /\ (error \/ accepted \subseteq Elements(delivered))
        /\ UNCHANGED <<accepting, overflow, error, delivered>> /\ ~Ending
    BY <1>22, <1>0, UpdateAssumption DEF CloseSends, Passage, Passing
  <2>1. CASE PutNowait(Sentinel)
    BY <1>22, <1>0, <2>0, <2>1 DEF CloseSends, PutNowait
  <2>2. CASE UNCHANGED <<queue, unfinished, consumer, accepted>>
    BY <1>22, <1>0, <2>0, <2>2 DEF CloseSends
  <2> QED
    BY <1>22, <2>1, <2>2 DEF CloseSends
<1>23. ASSUME NEW c \in Closers, CloseEnds(c)
       PROVE  Accounted'
  BY <1>23, <1>0, RelayAssumption DEF CloseEnds
<1>24. CASE UNCHANGED vars
  BY <1>24, <1>0 DEF vars
<1> QED
  BY <1>1, <1>2, <1>3, <1>4, <1>5, <1>6, <1>7, <1>8, <1>9, <1>10, <1>11, <1>12, <1>13, <1>14,
     <1>15, <1>16, <1>17, <1>18, <1>19, <1>20, <1>21, <1>22, <1>23, <1>24 DEF Next, RunHead,
     SinkDone, Environment, PublisherStep, ConsumerStep, CloserStep

\* The threads inside are finitely many, and no more than there are.
LEMMA InsideFinite ==
    /\ IsFiniteSet({p \in Publishers : Inside(p)})
    /\ Cardinality({p \in Publishers : Inside(p)}) \in Nat /\ Cardinality(Publishers) \in Nat
    /\ Cardinality({p \in Publishers : Inside(p)}) <= Cardinality(Publishers)
<1>1. {p \in Publishers : Inside(p)} \in SUBSET Publishers
  OBVIOUS
<1> QED
  BY <1>1, FS_Subset, FS_CardinalityType, RelayAssumption

\* What is in the queue of a drained relay was put by threads that were inside when it closed, once each.
LEMMA RoomStep ==
    ASSUME TypeOK, Holding, Passage, Room, [Next]_vars
    PROVE  Room'
<1>0. PlainTypes /\ SeqTypes
  BY TypeParts
<1> USE DEF PlainTypes
<1>z. ASSUME queue' = queue, \A q \in Publishers : Inside(q)' <=> Inside(q),
             \A d \in Closers : Draining(d)' => Draining(d)
      PROVE  Room'
  <2>1. {q \in Publishers : Inside(q)'} = {q \in Publishers : Inside(q)}
    BY <1>z
  <2> QED
    BY <1>z, <2>1 DEF Room
<1>f. ASSUME UNCHANGED <<queue, publisher>>, Len(queue) = 0
      PROVE  Room'
  <2>1. {q \in Publishers : Inside(q)'} = {q \in Publishers : Inside(q)}
    BY <1>f DEF Inside
  <2>2. /\ Cardinality({q \in Publishers : Inside(q)'}) \in Nat /\ Cardinality(Publishers) \in Nat
        /\ Cardinality({q \in Publishers : Inside(q)'}) <= Cardinality(Publishers)
    BY <2>1, InsideFinite
  <2>3. Len(queue') = 0
    BY <1>f
  <2> QED
    BY <2>2, <2>3 DEF Room
<1>1. ASSUME NEW p \in Publishers, Publish(p)
      PROVE  Room'
  <2>1. queue' = queue /\ \A q \in Publishers : Inside(q)' <=> Inside(q)
    BY <1>1, <1>0 DEF Publish, Inside, Idle
  <2>2. \A d \in Closers : Draining(d)' => Draining(d)
    BY <1>1, <1>0 DEF Publish, Draining
  <2> QED
    BY <1>z, <2>1, <2>2
<1>2. ASSUME NEW p \in Publishers, PublishRefused(p)
      PROVE  Room'
  <2>1. queue' = queue /\ \A q \in Publishers : Inside(q)' <=> Inside(q)
    BY <1>2, <1>0 DEF PublishRefused, Inside, Idle
  <2>2. \A d \in Closers : Draining(d)' => Draining(d)
    BY <1>2, <1>0 DEF PublishRefused, Draining
  <2> QED
    BY <1>z, <2>1, <2>2
<1>3. ASSUME NEW p \in Publishers, PublishAccepted(p)
      PROVE  Room'
  <2>1. \A d \in Closers : ~Draining(d)'
    BY <1>3, <1>0 DEF PublishAccepted, Draining, Passage
  <2> QED
    BY <2>1 DEF Room
<1>4. ASSUME NEW p \in Publishers, PublishBlocks(p)
      PROVE  Room'
  <2>1. queue' = queue /\ \A q \in Publishers : Inside(q)' <=> Inside(q)
    BY <1>4, <1>0 DEF PublishBlocks, Inside, Idle
  <2>2. \A d \in Closers : Draining(d)' => Draining(d)
    BY <1>4, <1>0 DEF PublishBlocks, Draining
  <2> QED
    BY <1>z, <2>1, <2>2
<1>5. ASSUME NEW p \in Publishers, PublishPuts(p)
      PROVE  Room'
  <2>1. /\ Inside(p) /\ ~Inside(p)' /\ \A q \in Publishers : q # p => (Inside(q)' <=> Inside(q))
        /\ closer' = closer
    BY <1>5, <1>0 DEF PublishPuts, Inside, Idle
  <2>2. {q \in Publishers : Inside(q)'} = {q \in Publishers : Inside(q)} \ {p}
    BY <2>1
  <2>3. Cardinality({q \in Publishers : Inside(q)'}) = Cardinality({q \in Publishers :
            Inside(q)}) - 1
    BY <2>1, <2>2, FS_RemoveElement, InsideFinite
  <2>4. Len(queue') = Len(queue) + 1 /\ Len(queue) \in Nat
    BY <1>5, <1>0 DEF PublishPuts, PutNowait, SeqTypes
  <2> QED
    BY <2>1, <2>3, <2>4, InsideFinite DEF Room, Draining
<1>6. ASSUME ToolScheduled
      PROVE  Room'
  <2>1. queue' = queue /\ \A q \in Publishers : Inside(q)' <=> Inside(q)
    BY <1>6, <1>0 DEF ToolScheduled, Inside, Idle
  <2>2. \A d \in Closers : Draining(d)' => Draining(d)
    BY <1>6, <1>0 DEF ToolScheduled, Draining
  <2> QED
    BY <1>z, <2>1, <2>2
<1>7. ASSUME Offer
      PROVE  Room'
  <2>1. \A d \in Closers : ~Draining(d)'
    BY <1>7, <1>0 DEF Offer, Draining, Passage
  <2> QED
    BY <2>1 DEF Room
<1>8. ASSUME ToolSuspends
      PROVE  Room'
  <2>1. queue' = queue /\ \A q \in Publishers : Inside(q)' <=> Inside(q)
    BY <1>8, <1>0 DEF ToolSuspends, Inside, Idle
  <2>2. \A d \in Closers : Draining(d)' => Draining(d)
    BY <1>8, <1>0 DEF ToolSuspends, Draining
  <2> QED
    BY <1>z, <2>1, <2>2
<1>9. ASSUME ConsumerWaits
      PROVE  Room'
  <2>1. queue' = queue /\ \A q \in Publishers : Inside(q)' <=> Inside(q)
    BY <1>9, <1>0 DEF ConsumerWaits, Inside, Idle
  <2>2. \A d \in Closers : Draining(d)' => Draining(d)
    BY <1>9, <1>0 DEF ConsumerWaits, Draining
  <2> QED
    BY <1>z, <2>1, <2>2
<1>10. ASSUME ConsumerGets
       PROVE  Room'
  <2>1. Len(queue') = Len(queue) - 1 /\ Len(queue) \in Nat /\ closer' = closer
    BY <1>10, <1>0, TailElements DEF ConsumerGets, SeqTypes
  <2>2. \A q \in Publishers : Inside(q)' <=> Inside(q)
    <3>1. putters # <<>> => Inside(Head(putters)) /\ Head(putters) \in Publishers
      BY <1>0 DEF Holding, Inside, SeqTypes
    <3> QED
      BY <1>10, <1>0, <3>1 DEF ConsumerGets, Inside
  <2>3. {q \in Publishers : Inside(q)'} = {q \in Publishers : Inside(q)}
    BY <2>2
  <2>4. Cardinality({q \in Publishers : Inside(q)'}) = Cardinality({q \in Publishers : Inside(q)})
    BY <2>3
  <2>5. \A d \in Closers : Draining(d)' => Draining(d)
    BY <2>1 DEF Draining
  <2> QED
    BY <2>1, <2>4, <2>5, InsideFinite DEF Room
<1>11. ASSUME ConsumerEmits
       PROVE  Room'
  <2>1. queue' = queue /\ \A q \in Publishers : Inside(q)' <=> Inside(q)
    BY <1>11, <1>0 DEF ConsumerEmits, Inside, Idle
  <2>2. \A d \in Closers : Draining(d)' => Draining(d)
    BY <1>11, <1>0 DEF ConsumerEmits, Draining
  <2> QED
    BY <1>z, <2>1, <2>2
<1>12. ASSUME ConsumerSinkDone
       PROVE  Room'
  <2>1. queue' = queue /\ \A q \in Publishers : Inside(q)' <=> Inside(q)
    BY <1>12, <1>0 DEF ConsumerSinkDone, Inside, Idle
  <2>2. \A d \in Closers : Draining(d)' => Draining(d)
    BY <1>12, <1>0 DEF ConsumerSinkDone, Draining
  <2> QED
    BY <1>z, <2>1, <2>2
<1>13. ASSUME ConsumerEmitSettles
       PROVE  Room'
  <2>1. queue' = queue /\ \A q \in Publishers : Inside(q)' <=> Inside(q)
    BY <1>13, <1>0 DEF ConsumerEmitSettles, Inside, Idle
  <2>2. \A d \in Closers : Draining(d)' => Draining(d)
    BY <1>13, <1>0 DEF ConsumerEmitSettles, Draining
  <2> QED
    BY <1>z, <2>1, <2>2
<1>14. ASSUME ConsumerTaskDone
       PROVE  Room'
  <2>1. UNCHANGED <<queue, publisher>>
    BY <1>14 DEF ConsumerTaskDone
  <2>2. CASE unfinished = 1
    <3>1. Len(queue) = 0
      BY <1>14, <1>0, <2>2 DEF ConsumerTaskDone, Holding, Busy, SeqTypes
    <3> QED
      BY <1>f, <2>1, <3>1, InsideFinite
  <2>3. CASE unfinished # 1
    <3>1. closer' = closer
      BY <1>14, <2>3 DEF ConsumerTaskDone
    <3> QED
      BY <2>1, <3>1 DEF Room, Draining, Inside
  <2> QED
    BY <2>2, <2>3
<1>15. ASSUME ConsumerReturns
       PROVE  Room'
  <2>1. queue' = queue /\ \A q \in Publishers : Inside(q)' <=> Inside(q)
    BY <1>15, <1>0 DEF ConsumerReturns, Inside, Idle
  <2>2. \A d \in Closers : Draining(d)' => Draining(d)
    BY <1>15, <1>0 DEF ConsumerReturns, Draining
  <2> QED
    BY <1>z, <2>1, <2>2
<1>16. ASSUME NEW c \in Closers, Close(c)
       PROVE  Room'
  <2>1. queue' = queue /\ \A q \in Publishers : Inside(q)' <=> Inside(q)
    BY <1>16, <1>0 DEF Close, Inside, Idle
  <2>2. \A d \in Closers : Draining(d)' => Draining(d)
    BY <1>16, <1>0 DEF Close, Draining
  <2> QED
    BY <1>z, <2>1, <2>2
<1>17. ASSUME NEW c \in Closers, CloseAgain(c)
       PROVE  Room'
  <2>1. queue' = queue /\ \A q \in Publishers : Inside(q)' <=> Inside(q)
    BY <1>17, <1>0 DEF CloseAgain, Inside, Idle
  <2>2. \A d \in Closers : Draining(d)' => Draining(d)
    BY <1>17, <1>0 DEF CloseAgain, Draining
  <2> QED
    BY <1>z, <2>1, <2>2
<1>18. ASSUME NEW c \in Closers, CloseJoins(c)
       PROVE  Room'
  <2>1. UNCHANGED <<queue, publisher>>
    BY <1>18 DEF CloseJoins
  <2>2. CASE unfinished = 0
    <3>1. Len(queue) = 0
      BY <1>18, <1>0, <2>2 DEF CloseJoins, Holding, Busy, SeqTypes
    <3> QED
      BY <1>f, <2>1, <3>1, InsideFinite
  <2>3. CASE unfinished # 0
    <3>1. \A d \in Closers : Draining(d)' => Draining(d)
      BY <1>18, <1>0, <2>3 DEF CloseJoins, Draining
    <3> QED
      BY <2>1, <3>1 DEF Room, Inside
  <2> QED
    BY <2>2, <2>3
<1>19. ASSUME NEW c \in Closers, CloseFlushes(c)
       PROVE  Room'
  <2>1. queue' = queue /\ \A q \in Publishers : Inside(q)' <=> Inside(q)
    BY <1>19, <1>0 DEF CloseFlushes, Inside, Idle
  <2>2. \A d \in Closers : Draining(d)' => Draining(d)
    BY <1>19, <1>0 DEF CloseFlushes, Draining
  <2> QED
    BY <1>z, <2>1, <2>2
<1>20. ASSUME NEW c \in Closers, CloseSinkDone(c)
       PROVE  Room'
  <2>1. queue' = queue /\ \A q \in Publishers : Inside(q)' <=> Inside(q)
    BY <1>20, <1>0 DEF CloseSinkDone, Inside, Idle
  <2>2. \A d \in Closers : Draining(d)' => Draining(d)
    BY <1>20, <1>0 DEF CloseSinkDone, Draining
  <2> QED
    BY <1>z, <2>1, <2>2
<1>21. ASSUME NEW c \in Closers, CloseEmitSettles(c)
       PROVE  Room'
  <2>1. queue' = queue /\ \A q \in Publishers : Inside(q)' <=> Inside(q)
    BY <1>21, <1>0 DEF CloseEmitSettles, Inside, Idle
  <2>2. \A d \in Closers : Draining(d)' => Draining(d)
    BY <1>21, <1>0 DEF CloseEmitSettles, Draining
  <2> QED
    BY <1>z, <2>1, <2>2
<1>22. ASSUME NEW c \in Closers, CloseSends(c)
       PROVE  Room'
  <2>1. \A d \in Closers : ~Draining(d)'
    BY <1>22, <1>0 DEF CloseSends, Passage, Passing, Draining
  <2> QED
    BY <2>1 DEF Room
<1>23. ASSUME NEW c \in Closers, CloseEnds(c)
       PROVE  Room'
  <2>1. queue' = queue /\ \A q \in Publishers : Inside(q)' <=> Inside(q)
    BY <1>23, <1>0 DEF CloseEnds, Inside, Idle
  <2>2. \A d \in Closers : Draining(d)' => Draining(d)
    BY <1>23, <1>0 DEF CloseEnds, Draining
  <2> QED
    BY <1>z, <2>1, <2>2
<1>24. CASE UNCHANGED vars
  BY <1>24, <1>0 DEF vars, Room, Draining, Inside
<1> QED
  BY <1>1, <1>2, <1>3, <1>4, <1>5, <1>6, <1>7, <1>8, <1>9, <1>10, <1>11, <1>12, <1>13, <1>14,
     <1>15, <1>16, <1>17, <1>18, <1>19, <1>20, <1>21, <1>22, <1>23, <1>24 DEF Next, RunHead,
     SinkDone, Environment, PublisherStep, ConsumerStep, CloserStep

\* The updates that are queued, with the consumer or delivered.
Pipe == (Elements(delivered) \cup Elements(queue) \cup Taken) \ {Sentinel}

\* The updates on their way are updates.
LEMMA PipeUpdates ==
    ASSUME TypeOK, Holding
    PROVE  /\ \A u \in Pipe : u \in Update
           /\ Elements(delivered) \subseteq Pipe
<1>1. Elements(delivered) \subseteq Update /\ Elements(queue) \subseteq Update \cup {Sentinel}
  BY ElementsIn DEF TypeOK
<1>2. Taken \subseteq Update \cup {Sentinel}
  BY DEF TypeOK, Holding, Taken
<1> QED
  BY <1>1, <1>2, UpdateAssumption DEF Pipe

\* What a thread publishes goes through the queue and the consumer to the sink in one order.
LEMMA OrderedStep ==
    ASSUME TypeOK, Holding, Passage, Ordered, [Next]_vars
    PROVE  Ordered'
<1>0. PlainTypes /\ SeqTypes
  BY TypeParts
<1> USE DEF PlainTypes
<1>u. Pipe \subseteq Update /\ Elements(delivered) \subseteq Pipe
  BY PipeUpdates
<1>n. /\ \A u \in Pipe : u.number \in Nat /\ u.number <= arrived
      /\ overflow # None => overflow.number \in Nat /\ overflow.number <= arrived
      /\ arrived \in Nat
  BY <1>0, <1>u, UpdateForm DEF Ordered, Pipe
<1>z. ASSUME UNCHANGED <<delivered, queue, arrived>>, Taken' \subseteq Taken,
             overflow' \in {overflow, None},
             \A q \in Publishers : Inside(q)' => Inside(q)
                 /\ publisher'[q].item = publisher[q].item
      PROVE  Ordered'
  <2>1. Elements(delivered') = Elements(delivered) /\ Elements(queue') = Elements(queue)
    BY <1>z DEF Elements
  <2>2. Pipe' \subseteq Pipe
    BY <1>z, <2>1 DEF Pipe
  <2>3. \A u \in Pipe' : /\ u.number <= arrived'
                         /\ \A q \in Publishers : Inside(q)' => Older(u, publisher'[q].item)
    BY <1>z, <2>2 DEF Ordered, Pipe
  <2> QED
    BY <1>z, <2>1, <2>3 DEF Ordered, Pipe, Older
<1>p. ASSUME NEW x \in Update, arrived' \in Nat, arrived <= arrived', x.number <= arrived',
             queue' = Append(queue, x), UNCHANGED <<delivered, overflow>>, Taken' = Taken,
             \A u \in Pipe : Older(u, x),
             \A q \in Publishers : Inside(q)' => Inside(q) /\ Older(x, publisher'[q].item)
                                                 /\ publisher'[q].item = publisher[q].item
      PROVE  Ordered'
  <2>1. Elements(queue') = Elements(queue) \cup {x} /\ Elements(delivered') = Elements(delivered)
    <3>1. Elements(queue') = Elements(queue) \cup {x}
      BY <1>p, <1>0, AppendElements DEF SeqTypes
    <3> QED
      BY <1>p, <3>1 DEF Elements
  <2>2. Pipe' = Pipe \cup {x}
    BY <1>p, <2>1, UpdateAssumption DEF Pipe
  <2>3. \A u \in Pipe' : /\ u.number <= arrived'
                         /\ \A q \in Publishers : Inside(q)' => Older(u, publisher'[q].item)
    <3> SUFFICES ASSUME NEW u \in Pipe
                 PROVE  /\ u.number <= arrived'
                        /\ \A q \in Publishers : Inside(q)' => Older(u, publisher'[q].item)
      BY <1>p, <2>2
    <3>1. u.number <= arrived'
      BY <1>p, <1>n
    <3> QED
      BY <1>p, <3>1 DEF Ordered, Pipe
  <2>4. \A i \in DOMAIN queue' : /\ i \in 1..Len(queue) + 1
                                 /\ i \in DOMAIN queue => queue'[i] = queue[i]
                                 /\ i \notin DOMAIN queue => queue'[i] = x /\ i = Len(queue) + 1
    BY <1>p, <1>0 DEF SeqTypes
  <2>5. ASSUME NEW i \in DOMAIN queue', NEW j \in DOMAIN queue', i < j,
               queue'[i] # Sentinel, queue'[j] # Sentinel
        PROVE  Older(queue'[i], queue'[j])
    <3>1. i \in DOMAIN queue /\ queue'[i] = queue[i]
      BY <2>4, <2>5, <1>0 DEF SeqTypes
    <3>2. CASE j \in DOMAIN queue
      BY <2>4, <2>5, <3>1, <3>2 DEF Ordered
    <3>3. CASE j \notin DOMAIN queue
      <4>1. queue[i] \in Pipe
        BY <2>5, <3>1 DEF Pipe, Elements
      <4> QED
        BY <1>p, <2>4, <3>1, <3>3, <4>1
    <3> QED
      BY <3>2, <3>3
  <2>6. \A u \in Elements(delivered), v \in (Elements(queue') \cup Taken') \ {Sentinel} :
            Older(u, v)
    BY <1>p, <1>u, <2>1 DEF Ordered
  <2>7. \A u \in Taken' \ {Sentinel}, v \in Elements(queue') \ {Sentinel} : Older(u, v)
    BY <1>p, <2>1 DEF Ordered, Pipe
  <2>8. overflow' # None => overflow'.source = Tool /\ overflow'.number <= arrived'
    BY <1>p, <1>n DEF Ordered
  <2> QED
    BY <1>p, <2>1, <2>3, <2>5, <2>6, <2>7, <2>8 DEF Ordered, Pipe, Older
<1>d. ASSUME NEW x \in Update, x.number <= arrived,
             \A q \in Publishers : Inside(q) => Older(x, publisher[q].item),
             delivered' = Append(delivered, x), UNCHANGED <<queue, arrived, publisher>>,
             Taken' \subseteq Taken, overflow' \in {overflow, None},
             \A v \in (Elements(queue) \cup Taken') \ {Sentinel} : Older(x, v),
             \A u \in Elements(delivered) : Older(u, x)
      PROVE  Ordered'
  <2>1. Elements(delivered') = Elements(delivered) \cup {x} /\ Elements(queue') = Elements(queue)
    <3>1. Elements(delivered') = Elements(delivered) \cup {x}
      BY <1>d, <1>0, AppendElements DEF SeqTypes
    <3> QED
      BY <1>d, <3>1 DEF Elements
  <2>2. Pipe' \subseteq Pipe \cup {x}
    BY <1>d, <2>1 DEF Pipe
  <2>3. \A u \in Pipe' : /\ u.number <= arrived'
                         /\ \A q \in Publishers : Inside(q)' => Older(u, publisher'[q].item)
    BY <1>d, <2>2 DEF Ordered, Pipe, Inside
  <2>4. \A i \in DOMAIN delivered' : /\ i \in 1..Len(delivered) + 1
                                     /\ i \in DOMAIN delivered => delivered'[i] = delivered[i]
                                     /\ i \notin DOMAIN delivered => delivered'[i] = x
                                            /\ i = Len(delivered) + 1
    BY <1>d, <1>0 DEF SeqTypes
  <2>5. ASSUME NEW i \in DOMAIN delivered', NEW j \in DOMAIN delivered', i < j
        PROVE  Older(delivered'[i], delivered'[j])
    <3>1. i \in DOMAIN delivered /\ delivered'[i] = delivered[i]
      BY <2>4, <2>5, <1>0 DEF SeqTypes
    <3>2. CASE j \in DOMAIN delivered
      BY <2>4, <2>5, <3>1, <3>2 DEF Ordered
    <3>3. CASE j \notin DOMAIN delivered
      <4>1. delivered[i] \in Elements(delivered)
        BY <3>1 DEF Elements
      <4> QED
        BY <1>d, <2>4, <3>1, <3>3, <4>1
    <3> QED
      BY <3>2, <3>3
  <2>6. \A u \in Elements(delivered'), v \in (Elements(queue') \cup Taken') \ {Sentinel} :
            Older(u, v)
    BY <1>d, <2>1 DEF Ordered
  <2>7. \A u \in Taken' \ {Sentinel}, v \in Elements(queue') \ {Sentinel} : Older(u, v)
    BY <1>d, <2>1 DEF Ordered
  <2> QED
    BY <1>d, <2>3, <2>5, <2>6, <2>7 DEF Ordered, Pipe, Older
<1>1. ASSUME NEW p \in Publishers, Publish(p)
      PROVE  Ordered'
  <2>1. /\ Elements(delivered') = Elements(delivered) /\ Elements(queue') = Elements(queue)
        /\ UNCHANGED <<delivered, queue, arrived>> /\ Taken' \subseteq Taken
        /\ overflow' \in {overflow, None}
    BY <1>1, <1>0 DEF Publish, Taken, Elements
  <2>2. \A q \in Publishers : Inside(q)' => Inside(q) /\ publisher'[q].item = publisher[q].item
    BY <1>1, <1>0 DEF Publish, Inside, Idle
  <2> QED
    BY <1>z, <2>1, <2>2
<1>2. ASSUME NEW p \in Publishers, PublishRefused(p)
      PROVE  Ordered'
  <2>1. /\ Elements(delivered') = Elements(delivered) /\ Elements(queue') = Elements(queue)
        /\ UNCHANGED <<delivered, queue, arrived>> /\ Taken' \subseteq Taken
        /\ overflow' \in {overflow, None}
    BY <1>2, <1>0 DEF PublishRefused, Taken, Elements
  <2>2. \A q \in Publishers : Inside(q)' => Inside(q) /\ publisher'[q].item = publisher[q].item
    BY <1>2, <1>0 DEF PublishRefused, Inside, Idle
  <2> QED
    BY <1>z, <2>1, <2>2
<1>3. ASSUME NEW p \in Publishers, PublishAccepted(p)
      PROVE  Ordered'
  <2>1. /\ NewUpdate(p).source = p /\ NewUpdate(p).number = arrived + 1
        /\ arrived \in Nat /\ arrived' = arrived + 1
        /\ publisher' = [publisher EXCEPT ![p] = [pc |-> "put", item |-> NewUpdate(p)]]
        /\ UNCHANGED <<delivered, queue, consumer, overflow>>
    BY <1>3, <1>0, Arrives DEF PublishAccepted
  <2>2. Elements(delivered') = Elements(delivered) /\ Elements(queue') = Elements(queue)
        /\ Taken' = Taken
    BY <2>1 DEF Taken, Elements
  <2>3. \A u \in Pipe : u.number \in Nat /\ u.number <= arrived
    BY <1>u, UpdateForm DEF Ordered, Pipe
  <2>4. \A u \in Pipe' : /\ u.number <= arrived'
                         /\ \A q \in Publishers : Inside(q)' => Older(u, publisher'[q].item)
    <3> SUFFICES ASSUME NEW u \in Pipe
                 PROVE  /\ u.number <= arrived'
                        /\ \A q \in Publishers : Inside(q)' => Older(u, publisher'[q].item)
      BY <2>2 DEF Pipe
    <3>1. Older(u, NewUpdate(p)) /\ u.number <= arrived'
      BY <2>1, <2>3 DEF Older
    <3>2. \A q \in Publishers : q # p => publisher'[q] = publisher[q]
      BY <1>0, <2>1
    <3>3. publisher'[p].item = NewUpdate(p)
      BY <1>0, <2>1
    <3> QED
      BY <3>1, <3>2, <3>3 DEF Ordered, Pipe, Inside
  <2>5. overflow' # None => overflow'.source = Tool /\ overflow'.number <= arrived'
    BY <1>n, <2>1 DEF Ordered
  <2> QED
    BY <2>1, <2>2, <2>4, <2>5 DEF Ordered, Pipe, Older
<1>4. ASSUME NEW p \in Publishers, PublishBlocks(p)
      PROVE  Ordered'
  <2>1. /\ Elements(delivered') = Elements(delivered) /\ Elements(queue') = Elements(queue)
        /\ UNCHANGED <<delivered, queue, arrived>> /\ Taken' \subseteq Taken
        /\ overflow' \in {overflow, None}
    BY <1>4, <1>0 DEF PublishBlocks, Taken, Elements
  <2>2. \A q \in Publishers : Inside(q)' => Inside(q) /\ publisher'[q].item = publisher[q].item
    BY <1>4, <1>0 DEF PublishBlocks, Inside, Idle
  <2> QED
    BY <1>z, <2>1, <2>2
<1>5. ASSUME NEW p \in Publishers, PublishPuts(p)
      PROVE  Ordered'
  <2>1. /\ publisher[p].item \in Update /\ Inside(p)
        /\ publisher[p].item.number <= arrived
    BY <1>5 DEF PublishPuts, Holding, Inside
  <2>2. /\ queue' = Append(queue, publisher[p].item)
        /\ UNCHANGED <<delivered, arrived, overflow>>
        /\ publisher' = [publisher EXCEPT ![p] = Idle]
    BY <1>5 DEF PublishPuts, PutNowait
  <2>3. Taken' = Taken
    BY <1>5, <1>0 DEF PublishPuts, PutNowait, Taken
  <2>4. \A q \in Publishers : Inside(q)' => q # p /\ Inside(q)
            /\ publisher'[q].item = publisher[q].item
    BY <1>0, <2>2 DEF Inside, Idle
  <2>5. \A q \in Publishers : q # p /\ Inside(q) => Older(publisher[p].item, publisher[q].item)
    BY <2>1 DEF Holding, Older
  <2>6. \A u \in Pipe : Older(u, publisher[p].item)
    BY <2>1 DEF Ordered, Pipe
  <2>7. \A q \in Publishers : Inside(q)' => Inside(q)
            /\ Older(publisher[p].item, publisher'[q].item)
                                            /\ publisher'[q].item = publisher[q].item
    BY <2>4, <2>5
  <2>8. arrived' \in Nat /\ arrived <= arrived' /\ publisher[p].item.number <= arrived'
    BY <1>0, <2>1, <2>2
  <2> QED
    BY <1>p, <2>1, <2>2, <2>3, <2>6, <2>7, <2>8
<1>6. ASSUME ToolScheduled
      PROVE  Ordered'
  <2>1. /\ Elements(delivered') = Elements(delivered) /\ Elements(queue') = Elements(queue)
        /\ UNCHANGED <<delivered, queue, arrived>> /\ Taken' \subseteq Taken
        /\ overflow' \in {overflow, None}
    BY <1>6, <1>0 DEF ToolScheduled, Taken, Elements
  <2>2. \A q \in Publishers : Inside(q)' => Inside(q) /\ publisher'[q].item = publisher[q].item
    BY <1>6, <1>0 DEF ToolScheduled, Inside, Idle
  <2> QED
    BY <1>z, <2>1, <2>2
<1>7. ASSUME Offer
      PROVE  Ordered'
  <2>0. /\ NewUpdate(Tool) \in Update /\ NewUpdate(Tool).source = Tool
        /\ NewUpdate(Tool).number = arrived + 1 /\ arrived' = arrived + 1 /\ arrived \in Nat
        /\ UNCHANGED <<publisher, delivered>>
    BY <1>7, <1>0, Arrives DEF Offer
  <2>1. CASE OfferQueued
    <3>1. /\ queue' = Append(queue, NewUpdate(Tool)) /\ UNCHANGED overflow
      BY <2>1 DEF OfferQueued, PutNowait
    <3>2. Taken' = Taken
      BY <2>1, <1>0 DEF OfferQueued, PutNowait, Taken
    <3>3. Tool \notin Publishers
      BY RelayAssumption
    <3>4. \A u \in Pipe : Older(u, NewUpdate(Tool))
      BY <2>0, <3>3 DEF Older
    <3>5. \A q \in Publishers : Inside(q)' => Inside(q)
              /\ Older(NewUpdate(Tool), publisher'[q].item)
                                              /\ publisher'[q].item = publisher[q].item
      BY <2>0, <3>3 DEF Older, Inside
    <3>6. arrived' \in Nat /\ arrived <= arrived' /\ NewUpdate(Tool).number <= arrived'
      BY <2>0
    <3> QED
      BY <1>p, <2>0, <3>1, <3>2, <3>4, <3>5, <3>6
  <2>2. CASE OfferOverflows
    <3>1. UNCHANGED <<queue, consumer>> /\ overflow' = NewUpdate(Tool)
      BY <2>2 DEF OfferOverflows
    <3>2. Taken' = Taken /\ Elements(delivered') = Elements(delivered)
              /\ Elements(queue') = Elements(queue)
      BY <2>0, <3>1 DEF Taken, Elements
    <3>3. \A u \in Pipe : u.number \in Nat /\ u.number <= arrived
      BY <1>u, UpdateForm DEF Ordered, Pipe
    <3>4. \A u \in Pipe' : /\ u.number <= arrived'
                           /\ \A q \in Publishers : Inside(q)' => Older(u, publisher'[q].item)
      BY <2>0, <3>2, <3>3 DEF Pipe, Ordered, Inside
    <3>5. overflow'.source = Tool /\ overflow'.number <= arrived'
      BY <2>0, <3>1
    <3> QED
      BY <2>0, <3>1, <3>2, <3>4, <3>5 DEF Ordered, Pipe, Older
  <2> QED
    BY <1>7, <2>1, <2>2 DEF Offer
<1>8. ASSUME ToolSuspends
      PROVE  Ordered'
  <2>1. /\ Elements(delivered') = Elements(delivered) /\ Elements(queue') = Elements(queue)
        /\ UNCHANGED <<delivered, queue, arrived>> /\ Taken' \subseteq Taken
        /\ overflow' \in {overflow, None}
    BY <1>8, <1>0 DEF ToolSuspends, Taken, Elements
  <2>2. \A q \in Publishers : Inside(q)' => Inside(q) /\ publisher'[q].item = publisher[q].item
    BY <1>8, <1>0 DEF ToolSuspends, Inside, Idle
  <2> QED
    BY <1>z, <2>1, <2>2
<1>9. ASSUME ConsumerWaits
      PROVE  Ordered'
  <2>1. /\ Elements(delivered') = Elements(delivered) /\ Elements(queue') = Elements(queue)
        /\ UNCHANGED <<delivered, queue, arrived>> /\ Taken' \subseteq Taken
        /\ overflow' \in {overflow, None}
    BY <1>9, <1>0 DEF ConsumerWaits, Taken, Elements
  <2>2. \A q \in Publishers : Inside(q)' => Inside(q) /\ publisher'[q].item = publisher[q].item
    BY <1>9, <1>0 DEF ConsumerWaits, Inside, Idle
  <2> QED
    BY <1>z, <2>1, <2>2
<1>10. ASSUME ConsumerGets
       PROVE  Ordered'
  <2>1. /\ Elements(queue) = {Head(queue)} \cup Elements(queue')
        /\ queue # <<>> /\ queue' = Tail(queue) /\ UNCHANGED <<delivered, overflow, arrived>>
        /\ queue \in Seq(Update \cup {Sentinel})
    BY <1>10, <1>0, TailElements DEF ConsumerGets, SeqTypes
  <2>2. Taken' = {Head(queue)} /\ Taken = {}
    BY <1>10 DEF ConsumerGets, Taken
  <2>3. \A q \in Publishers : Inside(q)' => Inside(q) /\ publisher'[q].item = publisher[q].item
    <3>1. putters # <<>> => Inside(Head(putters)) /\ Head(putters) \in Publishers
      BY <1>0 DEF Holding, Inside, SeqTypes
    <3> QED
      BY <1>10, <1>0, <3>1 DEF ConsumerGets, Inside
  <2>4. Elements(delivered') = Elements(delivered) /\ Pipe' = Pipe
    BY <2>1, <2>2 DEF Pipe, Elements
  <2>5. \A i \in DOMAIN queue' : i + 1 \in DOMAIN queue /\ queue'[i] = queue[i + 1] /\ i \in Nat
                                 /\ 1 < i + 1
    BY <2>1
  <2>6. 1 \in DOMAIN queue /\ queue[1] = Head(queue)
    BY <2>1
  <2>7. \A i, j \in DOMAIN queue' : i < j /\ queue'[i] # Sentinel /\ queue'[j] # Sentinel
                                    => Older(queue'[i], queue'[j])
    BY <2>5 DEF Ordered
  <2>8. \A u \in Taken' \ {Sentinel}, v \in Elements(queue') \ {Sentinel} : Older(u, v)
    BY <2>2, <2>5, <2>6 DEF Ordered, Elements
  <2>9. \A u \in Pipe' : /\ u.number <= arrived'
                         /\ \A q \in Publishers : Inside(q)' => Older(u, publisher'[q].item)
    BY <2>1, <2>3, <2>4 DEF Ordered, Pipe
  <2>10. \A u \in Elements(delivered'), v \in (Elements(queue') \cup Taken') \ {Sentinel} :
             Older(u, v)
    BY <2>1, <2>2, <2>4 DEF Ordered
  <2> QED
    BY <2>1, <2>7, <2>8, <2>9, <2>10 DEF Ordered, Pipe, Older
<1>11. ASSUME ConsumerEmits
       PROVE  Ordered'
  <2>0. /\ UNCHANGED <<queue, overflow, arrived, publisher>> /\ Taken' = {}
               /\ Taken = {consumer.item}
        /\ consumer.item # Sentinel
    BY <1>11, <1>0 DEF ConsumerEmits, Taken
  <2>1. CASE delivered' = delivered
    BY <1>z, <2>0, <2>1 DEF Inside
  <2>2. CASE delivered' = Append(delivered, consumer.item)
    <3>1. consumer.item \in Pipe /\ \A v \in Elements(queue) \ {Sentinel} :
              Older(consumer.item, v)
      BY <2>0 DEF Ordered, Pipe
    <3>2. \A u \in Elements(delivered) : Older(u, consumer.item)
      BY <2>0 DEF Ordered
    <3>3. \A q \in Publishers : Inside(q) => Older(consumer.item, publisher[q].item)
      BY <3>1 DEF Ordered, Pipe
    <3>4. \A v \in (Elements(queue) \cup Taken') \ {Sentinel} : Older(consumer.item, v)
      BY <2>0, <3>1
    <3>5. consumer.item \in Update /\ consumer.item.number <= arrived
      BY <1>u, <1>n, <3>1
    <3> QED
      BY <1>d, <2>0, <2>2, <3>2, <3>3, <3>4, <3>5
  <2> QED
    BY <1>11, <2>1, <2>2 DEF ConsumerEmits
<1>12. ASSUME ConsumerSinkDone
       PROVE  Ordered'
  <2>1. /\ Elements(delivered') = Elements(delivered) /\ Elements(queue') = Elements(queue)
        /\ UNCHANGED <<delivered, queue, arrived>> /\ Taken' \subseteq Taken
        /\ overflow' \in {overflow, None}
    BY <1>12, <1>0 DEF ConsumerSinkDone, Taken, Elements
  <2>2. \A q \in Publishers : Inside(q)' => Inside(q) /\ publisher'[q].item = publisher[q].item
    BY <1>12, <1>0 DEF ConsumerSinkDone, Inside, Idle
  <2> QED
    BY <1>z, <2>1, <2>2
<1>13. ASSUME ConsumerEmitSettles
       PROVE  Ordered'
  <2>1. /\ Elements(delivered') = Elements(delivered) /\ Elements(queue') = Elements(queue)
        /\ UNCHANGED <<delivered, queue, arrived>> /\ Taken' \subseteq Taken
        /\ overflow' \in {overflow, None}
    BY <1>13, <1>0 DEF ConsumerEmitSettles, Taken, Elements
  <2>2. \A q \in Publishers : Inside(q)' => Inside(q) /\ publisher'[q].item = publisher[q].item
    BY <1>13, <1>0 DEF ConsumerEmitSettles, Inside, Idle
  <2> QED
    BY <1>z, <2>1, <2>2
<1>14. ASSUME ConsumerTaskDone
       PROVE  Ordered'
  <2>1. /\ Elements(delivered') = Elements(delivered) /\ Elements(queue') = Elements(queue)
        /\ UNCHANGED <<delivered, queue, arrived>> /\ Taken' \subseteq Taken
        /\ overflow' \in {overflow, None}
    BY <1>14, <1>0 DEF ConsumerTaskDone, Taken, Elements
  <2>2. \A q \in Publishers : Inside(q)' => Inside(q) /\ publisher'[q].item = publisher[q].item
    BY <1>14, <1>0 DEF ConsumerTaskDone, Inside, Idle
  <2> QED
    BY <1>z, <2>1, <2>2
<1>15. ASSUME ConsumerReturns
       PROVE  Ordered'
  <2>1. /\ Elements(delivered') = Elements(delivered) /\ Elements(queue') = Elements(queue)
        /\ UNCHANGED <<delivered, queue, arrived>> /\ Taken' \subseteq Taken
        /\ overflow' \in {overflow, None}
    BY <1>15, <1>0 DEF ConsumerReturns, Taken, Elements
  <2>2. \A q \in Publishers : Inside(q)' => Inside(q) /\ publisher'[q].item = publisher[q].item
    BY <1>15, <1>0 DEF ConsumerReturns, Inside, Idle
  <2> QED
    BY <1>z, <2>1, <2>2
<1>16. ASSUME NEW c \in Closers, Close(c)
       PROVE  Ordered'
  <2>1. /\ Elements(delivered') = Elements(delivered) /\ Elements(queue') = Elements(queue)
        /\ UNCHANGED <<delivered, queue, arrived>> /\ Taken' \subseteq Taken
        /\ overflow' \in {overflow, None}
    BY <1>16, <1>0 DEF Close, Taken, Elements
  <2>2. \A q \in Publishers : Inside(q)' => Inside(q) /\ publisher'[q].item = publisher[q].item
    BY <1>16, <1>0 DEF Close, Inside, Idle
  <2> QED
    BY <1>z, <2>1, <2>2
<1>17. ASSUME NEW c \in Closers, CloseAgain(c)
       PROVE  Ordered'
  <2>1. /\ Elements(delivered') = Elements(delivered) /\ Elements(queue') = Elements(queue)
        /\ UNCHANGED <<delivered, queue, arrived>> /\ Taken' \subseteq Taken
        /\ overflow' \in {overflow, None}
    BY <1>17, <1>0 DEF CloseAgain, Taken, Elements
  <2>2. \A q \in Publishers : Inside(q)' => Inside(q) /\ publisher'[q].item = publisher[q].item
    BY <1>17, <1>0 DEF CloseAgain, Inside, Idle
  <2> QED
    BY <1>z, <2>1, <2>2
<1>18. ASSUME NEW c \in Closers, CloseJoins(c)
       PROVE  Ordered'
  <2>1. /\ Elements(delivered') = Elements(delivered) /\ Elements(queue') = Elements(queue)
        /\ UNCHANGED <<delivered, queue, arrived>> /\ Taken' \subseteq Taken
        /\ overflow' \in {overflow, None}
    BY <1>18, <1>0 DEF CloseJoins, Taken, Elements
  <2>2. \A q \in Publishers : Inside(q)' => Inside(q) /\ publisher'[q].item = publisher[q].item
    BY <1>18, <1>0 DEF CloseJoins, Inside, Idle
  <2> QED
    BY <1>z, <2>1, <2>2
<1>19. ASSUME NEW c \in Closers, CloseFlushes(c)
       PROVE  Ordered'
  <2>0. UNCHANGED <<queue, arrived, publisher, consumer>> /\ Taken' = Taken /\ overflow' = None
    BY <1>19 DEF CloseFlushes, Taken
  <2>1. CASE delivered' = delivered
    BY <1>z, <2>0, <2>1 DEF Inside
  <2>2. CASE overflow # None /\ delivered' = Append(delivered, overflow)
    <3>1. overflow.source \notin Publishers
      BY <2>2, RelayAssumption DEF Ordered
    <3>2. \A v : Older(overflow, v)
      BY <3>1 DEF Older
    <3>3. \A u \in Elements(delivered) : Older(u, overflow)
      BY <3>1 DEF Older
    <3>4. overflow \in Update /\ overflow.number <= arrived
      BY <1>0, <1>n, <2>2
    <3> QED
      BY <1>d, <2>0, <2>2, <3>2, <3>3, <3>4
  <2> QED
    BY <1>19, <2>1, <2>2 DEF CloseFlushes
<1>20. ASSUME NEW c \in Closers, CloseSinkDone(c)
       PROVE  Ordered'
  <2>1. /\ Elements(delivered') = Elements(delivered) /\ Elements(queue') = Elements(queue)
        /\ UNCHANGED <<delivered, queue, arrived>> /\ Taken' \subseteq Taken
        /\ overflow' \in {overflow, None}
    BY <1>20, <1>0 DEF CloseSinkDone, Taken, Elements
  <2>2. \A q \in Publishers : Inside(q)' => Inside(q) /\ publisher'[q].item = publisher[q].item
    BY <1>20, <1>0 DEF CloseSinkDone, Inside, Idle
  <2> QED
    BY <1>z, <2>1, <2>2
<1>21. ASSUME NEW c \in Closers, CloseEmitSettles(c)
       PROVE  Ordered'
  <2>1. /\ Elements(delivered') = Elements(delivered) /\ Elements(queue') = Elements(queue)
        /\ UNCHANGED <<delivered, queue, arrived>> /\ Taken' \subseteq Taken
        /\ overflow' \in {overflow, None}
    BY <1>21, <1>0 DEF CloseEmitSettles, Taken, Elements
  <2>2. \A q \in Publishers : Inside(q)' => Inside(q) /\ publisher'[q].item = publisher[q].item
    BY <1>21, <1>0 DEF CloseEmitSettles, Inside, Idle
  <2> QED
    BY <1>z, <2>1, <2>2
<1>22. ASSUME NEW c \in Closers, CloseSends(c)
       PROVE  Ordered'
  <2>0. UNCHANGED <<overflow, publisher, arrived, delivered>>
    BY <1>22 DEF CloseSends
  <2>1. CASE PutNowait(Sentinel)
    <3>1. queue' = Append(queue, Sentinel)
      BY <2>1 DEF PutNowait
    <3>2. Elements(queue') \ {Sentinel} = Elements(queue) \ {Sentinel}
      BY <1>0, <3>1, AppendElements DEF SeqTypes
    <3>3. Taken' = Taken
      BY <2>1, <1>0 DEF PutNowait, Taken
    <3>4. \A i \in DOMAIN queue' : queue'[i] = Sentinel \/ (i \in DOMAIN queue
              /\ queue'[i] = queue[i])
      BY <1>0, <3>1 DEF SeqTypes
    <3>5. Elements(delivered') = Elements(delivered) /\ Pipe' = Pipe
      BY <2>0, <3>2, <3>3 DEF Pipe, Elements
    <3>6. \A u \in Pipe' : /\ u.number <= arrived'
                           /\ \A q \in Publishers : Inside(q)' => Older(u, publisher'[q].item)
      BY <2>0, <3>5 DEF Ordered, Pipe, Inside
    <3>7. \A i, j \in DOMAIN queue' : i < j /\ queue'[i] # Sentinel /\ queue'[j] # Sentinel
                                      => Older(queue'[i], queue'[j])
      BY <3>4 DEF Ordered
    <3>8. (Elements(queue') \cup Taken') \ {Sentinel} = (Elements(queue) \cup Taken) \ {Sentinel}
      BY <3>2, <3>3
    <3> QED
      BY <2>0, <3>2, <3>3, <3>5, <3>6, <3>7, <3>8 DEF Ordered, Pipe, Older
  <2>2. CASE UNCHANGED <<queue, unfinished, consumer, accepted>>
    BY <1>z, <2>0, <2>2 DEF Inside, Taken
  <2> QED
    BY <1>22, <2>1, <2>2 DEF CloseSends
<1>23. ASSUME NEW c \in Closers, CloseEnds(c)
       PROVE  Ordered'
  <2>1. /\ Elements(delivered') = Elements(delivered) /\ Elements(queue') = Elements(queue)
        /\ UNCHANGED <<delivered, queue, arrived>> /\ Taken' \subseteq Taken
        /\ overflow' \in {overflow, None}
    BY <1>23, <1>0 DEF CloseEnds, Taken, Elements
  <2>2. \A q \in Publishers : Inside(q)' => Inside(q) /\ publisher'[q].item = publisher[q].item
    BY <1>23, <1>0 DEF CloseEnds, Inside, Idle
  <2> QED
    BY <1>z, <2>1, <2>2
<1>24. CASE UNCHANGED vars
  BY <1>24, <1>0 DEF vars, Ordered, Inside, Taken, Elements, Older
<1> QED
  BY <1>1, <1>2, <1>3, <1>4, <1>5, <1>6, <1>7, <1>8, <1>9, <1>10, <1>11, <1>12, <1>13, <1>14,
     <1>15, <1>16, <1>17, <1>18, <1>19, <1>20, <1>21, <1>22, <1>23, <1>24 DEF Next, RunHead,
     SinkDone, Environment, PublisherStep, ConsumerStep, CloserStep

LEMMA InitIInv == Init => IInv
<1> SUFFICES ASSUME Init PROVE IInv
  OBVIOUS
<1>1. Elements(queue) = {} /\ Elements(delivered) = {} /\ Taken = {}
  BY DEF Init, Elements, Taken
<1>2. TypeOK
  <2>1. PlainTypes
    <3>1. maxPending \in Nat \ {0} /\ maxPending \in Capacities /\ arrived \in 0..MaxUpdates
      BY RelayAssumption DEF Init
    <3>2. publisher \in [Publishers -> [pc : {"idle", "called", "put", "blocked"},
                                        item : Update \cup {None}]]
      BY DEF Init, Idle
    <3>3. closer \in [Closers -> {"none", "called", "joining", "drained", "emitting", "emitted",
                                  "flushed", "awaiting", "ended", "closed", "raised",
                                              "queue_full"}]
      BY DEF Init
    <3> QED
      BY <3>1, <3>2, <3>3 DEF Init, PlainTypes
  <2>2. /\ <<>> \in Seq(Update \cup {Sentinel}) /\ <<>> \in Seq(Publishers)
               /\ <<>> \in Seq(Update)
        /\ Len(<<>>) = 0 /\ <<Consumer>> \in Seq(Tasks)
    BY DEF Tasks
  <2>3. SeqTypes
    BY <2>1, <2>2 DEF Init, SeqTypes, PlainTypes
  <2> QED
    BY <2>1, <2>3, TypeParts
<1>3. Holding
  BY RelayAssumption, UpdateAssumption DEF Init, Holding, Busy, Inside, Idle
<1>4. Passage /\ Accounted /\ Room
  BY <1>1, RelayAssumption DEF Init, Passage, Accounted, Room, Passing, Draining, Ending
<1>5. Ordered
  BY <1>1 DEF Init, Ordered
<1> QED
  BY <1>2, <1>3, <1>4, <1>5 DEF IInv

LEMMA NextIInv == IInv /\ [Next]_vars => IInv'
<1> SUFFICES ASSUME IInv, [Next]_vars PROVE IInv'
  OBVIOUS
<1>1. TypeOK'
  <2>1. PlainTypes' /\ SeqTypes'
    BY PlainStep, SeqStep DEF IInv
  <2> QED
    BY <2>1, RelayAssumption DEF TypeOK, PlainTypes, SeqTypes
<1>2. Holding' /\ Passage' /\ Accounted' /\ Room' /\ Ordered'
  BY HoldingStep, PassageStep, AccountedStep, RoomStep, OrderedStep DEF IInv
<1> QED
  BY <1>1, <1>2 DEF IInv

\* Every reachable state of the relay satisfies the inductive invariant.
THEOREM Invariance == Spec => []IInv
BY InitIInv, NextIInv, PTL DEF Spec

\* No close() has to raise QueueFull: while fewer threads publish than the queue holds, its
\* sentinel finds room behind whatever the threads that it overtook have put.
LEMMA SentinelFitsStep ==
    ASSUME IInv, SentinelFits, [Next]_vars
    PROVE  SentinelFits'
<1>1. PlainTypes /\ SeqTypes /\ maxPending' = maxPending
  BY TypeParts, CapacityFixed DEF IInv
<1>2. ASSUME NEW c \in Closers, CloseSends(c), SpareSlot, closer[c] # "queue_full"
      PROVE  closer'[c] # "queue_full"
  <2>1. Len(queue) + Cardinality({p \in Publishers : Inside(p)}) <= Cardinality(Publishers)
    BY <1>2 DEF IInv, Room, Draining, CloseSends
  <2>2. Len(queue) < maxPending
    BY <1>1, <1>2, <2>1, InsideFinite DEF SpareSlot, SeqTypes, PlainTypes
  <2> QED
    BY <1>1, <1>2, <2>2 DEF CloseSends, PlainTypes, SeqTypes
<1>3. ASSUME NEW c \in Closers, closer[c] # "queue_full", ~CloseSends(c)
      PROVE  closer'[c] # "queue_full"
  BY ZenonT(60), <1>1, <1>3 DEF Next, RunHead, SinkDone, Environment, PublisherStep,
     ConsumerStep, CloserStep,
     vars, PlainTypes, Publish, PublishRefused, PublishAccepted, PublishBlocks, PublishPuts,
     ToolScheduled, Offer, ToolSuspends, ConsumerWaits, ConsumerGets, ConsumerEmits,
     ConsumerSinkDone, ConsumerEmitSettles, ConsumerTaskDone, ConsumerReturns, Close, CloseAgain,
     CloseJoins, CloseFlushes, CloseSinkDone, CloseEmitSettles, CloseSends, CloseEnds
<1> QED
  BY <1>1, <1>2, <1>3 DEF SentinelFits, SpareSlot

\* The queue of the relay is sound in every reachable state (QueueSound): the sentinel of close()
\* finds room, and no thread's updates overtake each other on their way to the sink.
THEOREM QueueSoundCorrect == Spec => []QueueSound
<1>1. Init => SentinelFits
  BY DEF Init, SentinelFits
<1>2. IInv /\ SentinelFits /\ [Next]_vars => SentinelFits'
  BY SentinelFitsStep
<1>3. IInv => TypeOK /\ ThreadOrder
  BY DEF IInv, Ordered, Older, ThreadOrder
<1>4. TypeOK /\ ThreadOrder /\ SentinelFits => QueueSound
  BY DEF QueueSound
<1> QED
  BY Invariance, <1>1, <1>2, <1>3, <1>4, PTL DEF Spec

\* A close() that returned without error left no accepted update behind (CloseDeliversAccepted).
THEOREM CloseDeliversAcceptedCorrect == Spec => []CloseDeliversAccepted
<1>1. IInv => CloseDeliversAccepted
  <2> SUFFICES ASSUME IInv, NEW c \in Closers, closer[c] = "closed"
               PROVE  accepted \subseteq Elements(delivered)
    BY DEF CloseDeliversAccepted, Elements
  <2>1. Ending /\ ~error
    BY DEF IInv, Passage, Ending
  <2> QED
    BY <2>1 DEF IInv, Accounted
<1> QED
  BY Invariance, <1>1, PTL

\* After a close() has returned or raised, the sink sees nothing more (NoDeliveryAfterClose).
THEOREM NoDeliveryAfterCloseCorrect == Spec => NoDeliveryAfterClose
<1>1. ASSUME IInv, [Next]_vars, NEW c \in Closers, Returned(c)
      PROVE  delivered' = delivered
  <2>1. consumer.pc = "done" /\ overflow = None
    BY <1>1 DEF IInv, Passage, Accounted, Ending, Returned
  <2> QED
    BY <1>1, <2>1 DEF Next, RunHead, SinkDone, Environment, PublisherStep, ConsumerStep,
       CloserStep,
     vars, Publish, PublishRefused, PublishAccepted, PublishBlocks, PublishPuts,
     ToolScheduled, Offer, ToolSuspends, ConsumerWaits, ConsumerGets, ConsumerEmits,
     ConsumerSinkDone, ConsumerEmitSettles, ConsumerTaskDone, ConsumerReturns, Close, CloseAgain,
     CloseJoins, CloseFlushes, CloseSinkDone, CloseEmitSettles, CloseSends, CloseEnds
<1>2. IInv /\ [Next]_vars => [(\E c \in Closers : Returned(c))
          => delivered' = delivered]_delivered
  BY <1>1
<1> QED
  BY Invariance, <1>2, PTL DEF Spec, NoDeliveryAfterClose
=============================================================================

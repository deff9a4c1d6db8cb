-------------------------- MODULE SubagentsProofs --------------------------
(***************************************************************************)
(* Proofs about Subagents, for any tasks, backends, pool size and steering *)
(* messages.  The invariants that the run checks are not inductive: that   *)
(* listeners hear of one end only needs to know which thread is between    *)
(* giving a task its result and announcing it; that wait() finds a task,   *)
(* where spawn() is; that nothing is taken after shutdown(), which tasks   *)
(* it has still on its list; and that a process which outlives it was      *)
(* signalled, how far the cancel() of its task and its own start have got. *)
(***************************************************************************)
EXTENDS Subagents, SequenceTheorems, TLAPS

\* The end of a task: who has given it, and what has been said of it so far.
Endings ==
  /\ DOMAIN events = Tasks
  /\ \A t \in Tasks :
        /\ result[t] = "none" => ender[t] = "none" /\ status[t] \notin Ended
        /\ worker[t] \in {"settle", "publish", "emit"} => verdict[t] \in Ended
        /\ worker[t] \in {"publish", "emit"} => result[t] = verdict[t] /\ ender[t] = "none"
        /\ result[t] = "none" \/ worker[t] \in {"publish", "emit"}
              \/ ender[t] \in {"control", "publish", "backend", "emit"} => events[t] = <<>>
        /\ events[t] \in {<<>>, <<result[t]>>}
        /\ roster[t] \in Ended => result[t] = roster[t]

\* A task that is known is one that spawn() has got to.
Spawning ==
    \A t \in Tasks :
        /\ spawner[t] \in {"none", "refused"} => status[t] = "none" /\ future[t] = "none"
        /\ spawner[t] \in {"reserved", "announced"} => status[t] # "none" /\ future[t] = "none"
        /\ spawner[t] = "spawned" => status[t] # "none" /\ (future[t] # "none"
               \/ result[t] # "none")
        /\ worker[t] # "off" => future[t] = "running"

\* What attach() has taken out of the queue is handed on before anything else.
Carrying == \A t \in Tasks : worker[t] # "deliver" => carried[t] = <<>>

\* shutdown() has every unfinished task on its list, and later no task is pending.
Closing ==
    /\ closer = "no" => own = {}
    /\ closer # "no" => \A t \in Tasks : status[t] # "none" => t \in todo \/ result[t] # "none"
    /\ closer \in {"join", "left", "done"} => todo = {} /\ \A t \in Tasks : future[t] # "pending"
    /\ closer = "done" => \A t \in Tasks : future[t] # "running"

\* A cancelled task is not taken any more, and once backend.cancel() has been called for one
\* of codex its process was signalled, or will be when it is registered.
Signals ==
    \A t \in Tasks :
        /\ result[t] = "cancelled" => future[t] # "pending"
        /\ t \in External => worker[t] \notin {"attach", "deliver", "prompt"}
        /\ t \in External /\ result[t] = "cancelled" /\ ender[t] \in {"emit", "done"} =>
              /\ worker[t] \in {"taken", "entered", "build", "popen"} => t \in cancelled
              /\ worker[t] = "running" => aborted[t]

\* The inductive invariant.
IInv == TypeOK /\ Endings /\ Spawning /\ Carrying /\ Closing /\ Signals /\ SteeringKept

\* What a queue holds is its first message and what is behind it.
LEMMA HeadAndTail ==
    ASSUME NEW S, NEW q \in Seq(S), q # <<>>
    PROVE  Elements(q) \subseteq {Head(q)} \cup Elements(Tail(q))
<1> SUFFICES ASSUME NEW i \in DOMAIN q, q[i] # Head(q)
             PROVE  \E j \in DOMAIN Tail(q) : Tail(q)[j] = q[i]
  BY DEF Elements
<1>1. i \in 2..Len(q)
  OBVIOUS
<1>2. i - 1 \in DOMAIN Tail(q) /\ Tail(q)[i - 1] = q[i]
  BY <1>1
<1> QED
  BY <1>2

\* A message put at the end of a queue is in it, with all that was there.
LEMMA AppendElements ==
    ASSUME NEW S, NEW q \in Seq(S), NEW x
    PROVE  Elements(Append(q, x)) = Elements(q) \cup {x}
<1>1. \A i \in DOMAIN q : i \in DOMAIN Append(q, x) /\ Append(q, x)[i] = q[i]
  OBVIOUS
<1>2. Len(q) + 1 \in DOMAIN Append(q, x) /\ Append(q, x)[Len(q) + 1] = x
  OBVIOUS
<1>3. \A i \in DOMAIN Append(q, x) : i \in DOMAIN q \/ i = Len(q) + 1
  OBVIOUS
<1> QED
  BY <1>1, <1>2, <1>3 DEF Elements

\* The end of a task is given once: by the worker, or by whoever finds it without a result
\* first, and it is announced after that by the same thread.
LEMMA EndingsStep ==
    ASSUME TypeOK, Endings, [Next]_vars
    PROVE  Endings'
<1> USE DEF TypeOK, Endings, Ended, Claim, supervisorVars, viewVars, controlVars, childVars,
        workerVars, closeVars
<1>1. ASSUME NEW t \in Tasks, SpawnReserves(t)
      PROVE  Endings'
  BY <1>1 DEF SpawnReserves
<1>2. ASSUME NEW t \in Tasks, SpawnPublishes(t)
      PROVE  Endings'
  BY <1>2 DEF SpawnPublishes
<1>3. ASSUME NEW t \in Tasks, SpawnSubmits(t)
      PROVE  Endings'
  BY <1>3 DEF SpawnSubmits
<1>4. ASSUME NEW t \in Tasks, WorkerTakes(t)
      PROVE  Endings'
  BY <1>4 DEF WorkerTakes
<1>5. ASSUME NEW t \in Tasks, WorkerEnters(t)
      PROVE  Endings'
  BY <1>5 DEF WorkerEnters
<1>6. ASSUME NEW t \in Tasks, WorkerAnnounces(t)
      PROVE  Endings'
  BY <1>6 DEF WorkerAnnounces
<1>7. ASSUME NEW t \in Tasks, ChildBuilt(t)
      PROVE  Endings'
  BY <1>7 DEF ChildBuilt
<1>8. ASSUME NEW t \in Tasks, WorkerAttaches(t)
      PROVE  Endings'
  BY <1>8 DEF WorkerAttaches
<1>9. ASSUME NEW t \in Tasks, WorkerDelivers(t)
      PROVE  Endings'
  BY <1>9 DEF WorkerDelivers
<1>10. ASSUME NEW t \in Tasks, ChildPrompted(t)
       PROVE  Endings'
  BY <1>10 DEF ChildPrompted
<1>11. ASSUME NEW t \in Tasks, ProcessSpawned(t)
       PROVE  Endings'
  BY <1>11 DEF ProcessSpawned
<1>12. ASSUME NEW t \in Tasks, ProcessRegistered(t)
       PROVE  Endings'
  BY <1>12 DEF ProcessRegistered
<1>13. ASSUME NEW t \in Tasks, ChildEnds(t)
       PROVE  Endings'
  BY <1>13 DEF ChildEnds
<1>14. ASSUME NEW t \in Tasks, WorkerSettles(t)
       PROVE  Endings'
  BY <1>14 DEF WorkerSettles
<1>15. ASSUME NEW t \in Tasks, WorkerPublishes(t)
       PROVE  Endings'
  BY <1>15 DEF WorkerPublishes
<1>16. ASSUME NEW t \in Tasks, WorkerEmits(t)
       PROVE  Endings'
  <2>1. events[t] = <<>> /\ result[t] = verdict[t]
    BY <1>16 DEF WorkerEmits
  <2>2. events'[t] = <<result[t]>> /\ \A u \in Tasks \ {t} : events'[u] = events[u]
    BY <1>16, <2>1 DEF WorkerEmits
  <2> QED
    BY <1>16, <2>2 DEF WorkerEmits
<1>17. ASSUME NEW t \in Tasks, Cancel(t)
       PROVE  Endings'
  BY <1>17 DEF Cancel
<1>18. ASSUME NEW t \in Tasks, WaitTimesOut(t)
       PROVE  Endings'
  BY <1>18 DEF WaitTimesOut
<1>19. ASSUME NEW t \in Tasks, EnderControls(t)
       PROVE  Endings'
  BY <1>19 DEF EnderControls
<1>20. ASSUME NEW t \in Tasks, EnderPublishes(t)
       PROVE  Endings'
  BY <1>20 DEF EnderPublishes
<1>21. ASSUME NEW t \in Tasks, EnderCancelsBackend(t)
       PROVE  Endings'
  BY <1>21 DEF EnderCancelsBackend
<1>22. ASSUME NEW t \in Tasks, EnderEmits(t)
       PROVE  Endings'
  <2>1. events[t] = <<>> /\ result[t] # "none"
    BY <1>22 DEF EnderEmits
  <2>2. events'[t] = <<result[t]>> /\ \A u \in Tasks \ {t} : events'[u] = events[u]
    BY <1>22, <2>1 DEF EnderEmits
  <2> QED
    BY <1>22, <2>1, <2>2 DEF EnderEmits
<1>23. ASSUME NEW t \in Tasks, ShutdownCancels(t)
       PROVE  Endings'
  BY <1>23 DEF ShutdownCancels
<1>24. ASSUME NEW t \in Tasks, NEW m \in 1..MaxSteers, SteerLooks(t, m)
       PROVE  Endings'
  BY <1>24 DEF SteerLooks
<1>25. ASSUME NEW t \in Tasks, NEW m \in 1..MaxSteers, SteerSends(t, m)
       PROVE  Endings'
  BY <1>25 DEF SteerSends
<1>26. ASSUME ShutdownBegins
       PROVE  Endings'
  BY <1>26 DEF ShutdownBegins
<1>27. ASSUME ShutdownJoins
       PROVE  Endings'
  BY <1>27 DEF ShutdownJoins
<1>28. ASSUME ShutdownReturns
       PROVE  Endings'
  BY <1>28 DEF ShutdownReturns
<1>29. CASE UNCHANGED vars
  BY <1>29 DEF vars, supervisorVars, viewVars, controlVars, childVars, workerVars, closeVars
<1> QED
  BY <1>1, <1>2, <1>3, <1>4, <1>5, <1>6, <1>7, <1>8, <1>9, <1>10, <1>11, <1>12, <1>13, <1>14,
     <1>15, <1>16, <1>17, <1>18, <1>19, <1>20, <1>21, <1>22, <1>23, <1>24, <1>25, <1>26, <1>27,
     <1>28, <1>29 DEF Next, SpawnerStep, WorkerStep, EnderStep, CloserStep

\* spawn() submits a task that has no result, and only a submitted task is ever run.
LEMMA SpawningStep ==
    ASSUME TypeOK, Endings, Spawning, [Next]_vars
    PROVE  Spawning'
<1> USE DEF TypeOK, Spawning, Endings, Ended, Claim, supervisorVars, viewVars, controlVars,
        childVars, workerVars, closeVars
<1>0. \A u \in Tasks : worker[u] # "off" => spawner[u] = "spawned"
  <2> HIDE DEF Endings
  <2> QED
    OBVIOUS
<1>1. ASSUME NEW t \in Tasks, SpawnReserves(t)
      PROVE  Spawning'
  BY <1>1 DEF SpawnReserves
<1>2. ASSUME NEW t \in Tasks, SpawnPublishes(t)
      PROVE  Spawning'
  BY <1>2 DEF SpawnPublishes
<1>3. ASSUME NEW t \in Tasks, SpawnSubmits(t)
      PROVE  Spawning'
  BY <1>3 DEF SpawnSubmits
<1>4. ASSUME NEW t \in Tasks, WorkerTakes(t)
      PROVE  Spawning'
  BY <1>4 DEF WorkerTakes
<1>5. ASSUME NEW t \in Tasks, WorkerEnters(t)
      PROVE  Spawning'
  <2>1. CASE result[t] # "none"
    <3>1. /\ future'[t] = "finished" /\ worker'[t] = "off" /\ spawner[t] = "spawned"
          /\ \A u \in Tasks \ {t} : future'[u] = future[u] /\ worker'[u] = worker[u]
          /\ UNCHANGED <<status, result, spawner>>
      BY <1>5, <1>0, <2>1 DEF WorkerEnters
    <3> HIDE DEF TypeOK, Endings
    <3> QED
      BY <3>1
  <2>2. CASE result[t] = "none"
    BY <1>5, <2>2 DEF WorkerEnters
  <2> QED
    BY <2>1, <2>2
<1>6. ASSUME NEW t \in Tasks, WorkerAnnounces(t)
      PROVE  Spawning'
  BY <1>6 DEF WorkerAnnounces
<1>7. ASSUME NEW t \in Tasks, ChildBuilt(t)
      PROVE  Spawning'
  BY <1>7 DEF ChildBuilt
<1>8. ASSUME NEW t \in Tasks, WorkerAttaches(t)
      PROVE  Spawning'
  BY <1>8 DEF WorkerAttaches
<1>9. ASSUME NEW t \in Tasks, WorkerDelivers(t)
      PROVE  Spawning'
  BY <1>9 DEF WorkerDelivers
<1>10. ASSUME NEW t \in Tasks, ChildPrompted(t)
       PROVE  Spawning'
  BY <1>10 DEF ChildPrompted
<1>11. ASSUME NEW t \in Tasks, ProcessSpawned(t)
       PROVE  Spawning'
  BY <1>11 DEF ProcessSpawned
<1>12. ASSUME NEW t \in Tasks, ProcessRegistered(t)
       PROVE  Spawning'
  BY <1>12 DEF ProcessRegistered
<1>13. ASSUME NEW t \in Tasks, ChildEnds(t)
       PROVE  Spawning'
  BY <1>13 DEF ChildEnds
<1>14. ASSUME NEW t \in Tasks, WorkerSettles(t)
       PROVE  Spawning'
  <2>1. CASE result[t] # "none"
    <3>1. /\ future'[t] = "finished" /\ worker'[t] = "off" /\ spawner[t] = "spawned"
          /\ \A u \in Tasks \ {t} : future'[u] = future[u] /\ worker'[u] = worker[u]
          /\ UNCHANGED <<status, result, spawner>>
      BY <1>14, <1>0, <2>1 DEF WorkerSettles
    <3> HIDE DEF TypeOK, Endings
    <3> QED
      BY <3>1
  <2>2. CASE result[t] = "none"
    <3>0. verdict[t] \in Ended
      BY <1>14 DEF WorkerSettles
    <3>1. /\ status'[t] # "none" /\ result'[t] # "none" /\ spawner[t] = "spawned"
                 /\ worker[t] # "off"
          /\ \A u \in Tasks \ {t} : status'[u] = status[u] /\ result'[u] = result[u]
                 /\ worker'[u] = worker[u]
          /\ UNCHANGED <<future, spawner>>
      BY <1>14, <1>0, <2>2, <3>0 DEF WorkerSettles
    <3> HIDE DEF TypeOK, Endings
    <3> QED
      BY <3>1
  <2> QED
    BY <2>1, <2>2
<1>15. ASSUME NEW t \in Tasks, WorkerPublishes(t)
       PROVE  Spawning'
  BY <1>15 DEF WorkerPublishes
<1>16. ASSUME NEW t \in Tasks, WorkerEmits(t)
       PROVE  Spawning'
  <2>1. result[t] # "none" /\ status' = status /\ result' = result /\ spawner' = spawner
    BY <1>16 DEF WorkerEmits
  <2>2. \A u \in Tasks : u # t => future'[u] = future[u] /\ worker'[u] = worker[u]
    BY <1>16 DEF WorkerEmits
  <2>3. future'[t] = "finished" /\ worker'[t] = "off" /\ spawner[t] = "spawned"
    BY <1>16 DEF WorkerEmits
  <2> HIDE DEF TypeOK, Endings
  <2> QED
    BY <2>1, <2>2, <2>3
<1>17. ASSUME NEW t \in Tasks, Cancel(t)
       PROVE  Spawning'
  BY <1>17 DEF Cancel
<1>18. ASSUME NEW t \in Tasks, WaitTimesOut(t)
       PROVE  Spawning'
  BY <1>18 DEF WaitTimesOut
<1>19. ASSUME NEW t \in Tasks, EnderControls(t)
       PROVE  Spawning'
  BY <1>19 DEF EnderControls
<1>20. ASSUME NEW t \in Tasks, EnderPublishes(t)
       PROVE  Spawning'
  BY <1>20 DEF EnderPublishes
<1>21. ASSUME NEW t \in Tasks, EnderCancelsBackend(t)
       PROVE  Spawning'
  BY <1>21 DEF EnderCancelsBackend
<1>22. ASSUME NEW t \in Tasks, EnderEmits(t)
       PROVE  Spawning'
  BY <1>22 DEF EnderEmits
<1>23. ASSUME NEW t \in Tasks, ShutdownCancels(t)
       PROVE  Spawning'
  BY <1>23 DEF ShutdownCancels
<1>24. ASSUME NEW t \in Tasks, NEW m \in 1..MaxSteers, SteerLooks(t, m)
       PROVE  Spawning'
  BY <1>24 DEF SteerLooks
<1>25. ASSUME NEW t \in Tasks, NEW m \in 1..MaxSteers, SteerSends(t, m)
       PROVE  Spawning'
  BY <1>25 DEF SteerSends
<1>26. ASSUME ShutdownBegins
       PROVE  Spawning'
  BY <1>26 DEF ShutdownBegins
<1>27. ASSUME ShutdownJoins
       PROVE  Spawning'
  BY <1>27 DEF ShutdownJoins
<1>28. ASSUME ShutdownReturns
       PROVE  Spawning'
  BY <1>28 DEF ShutdownReturns
<1>29. CASE UNCHANGED vars
  BY <1>29 DEF vars, supervisorVars, viewVars, controlVars, childVars, workerVars, closeVars
<1> QED
  BY <1>1, <1>2, <1>3, <1>4, <1>5, <1>6, <1>7, <1>8, <1>9, <1>10, <1>11, <1>12, <1>13, <1>14,
     <1>15, <1>16, <1>17, <1>18, <1>19, <1>20, <1>21, <1>22, <1>23, <1>24, <1>25, <1>26, <1>27,
     <1>28, <1>29 DEF Next, SpawnerStep, WorkerStep, EnderStep, CloserStep

\* attach() finds nothing left over from before, and is left with nothing to hand on.
LEMMA CarryingStep ==
    ASSUME TypeOK, Spawning, Carrying, [Next]_vars
    PROVE  Carrying'
<1> USE DEF TypeOK, Carrying, Claim, supervisorVars, viewVars, controlVars, childVars,
        workerVars, closeVars
<1>1. ASSUME NEW t \in Tasks, SpawnReserves(t)
      PROVE  Carrying'
  BY <1>1 DEF SpawnReserves
<1>2. ASSUME NEW t \in Tasks, SpawnPublishes(t)
      PROVE  Carrying'
  BY <1>2 DEF SpawnPublishes
<1>3. ASSUME NEW t \in Tasks, SpawnSubmits(t)
      PROVE  Carrying'
  BY <1>3 DEF SpawnSubmits
<1>4. ASSUME NEW t \in Tasks, WorkerTakes(t)
      PROVE  Carrying'
  BY <1>4 DEF WorkerTakes, Spawning
<1>5. ASSUME NEW t \in Tasks, WorkerEnters(t)
      PROVE  Carrying'
  BY <1>5 DEF WorkerEnters
<1>6. ASSUME NEW t \in Tasks, WorkerAnnounces(t)
      PROVE  Carrying'
  BY <1>6 DEF WorkerAnnounces
<1>7. ASSUME NEW t \in Tasks, ChildBuilt(t)
      PROVE  Carrying'
  BY <1>7 DEF ChildBuilt
<1>8. ASSUME NEW t \in Tasks, WorkerAttaches(t)
      PROVE  Carrying'
  BY <1>8 DEF WorkerAttaches
<1>9. ASSUME NEW t \in Tasks, WorkerDelivers(t)
      PROVE  Carrying'
  BY <1>9 DEF WorkerDelivers
<1>10. ASSUME NEW t \in Tasks, ChildPrompted(t)
       PROVE  Carrying'
  BY <1>10 DEF ChildPrompted
<1>11. ASSUME NEW t \in Tasks, ProcessSpawned(t)
       PROVE  Carrying'
  BY <1>11 DEF ProcessSpawned
<1>12. ASSUME NEW t \in Tasks, ProcessRegistered(t)
       PROVE  Carrying'
  BY <1>12 DEF ProcessRegistered
<1>13. ASSUME NEW t \in Tasks, ChildEnds(t)
       PROVE  Carrying'
  BY <1>13 DEF ChildEnds
<1>14. ASSUME NEW t \in Tasks, WorkerSettles(t)
       PROVE  Carrying'
  BY <1>14 DEF WorkerSettles
<1>15. ASSUME NEW t \in Tasks, WorkerPublishes(t)
       PROVE  Carrying'
  BY <1>15 DEF WorkerPublishes
<1>16. ASSUME NEW t \in Tasks, WorkerEmits(t)
       PROVE  Carrying'
  BY <1>16 DEF WorkerEmits
<1>17. ASSUME NEW t \in Tasks, Cancel(t)
       PROVE  Carrying'
  BY <1>17 DEF Cancel
<1>18. ASSUME NEW t \in Tasks, WaitTimesOut(t)
       PROVE  Carrying'
  BY <1>18 DEF WaitTimesOut
<1>19. ASSUME NEW t \in Tasks, EnderControls(t)
       PROVE  Carrying'
  BY <1>19 DEF EnderControls
<1>20. ASSUME NEW t \in Tasks, EnderPublishes(t)
       PROVE  Carrying'
  BY <1>20 DEF EnderPublishes
<1>21. ASSUME NEW t \in Tasks, EnderCancelsBackend(t)
       PROVE  Carrying'
  BY <1>21 DEF EnderCancelsBackend
<1>22. ASSUME NEW t \in Tasks, EnderEmits(t)
       PROVE  Carrying'
  BY <1>22 DEF EnderEmits
<1>23. ASSUME NEW t \in Tasks, ShutdownCancels(t)
       PROVE  Carrying'
  BY <1>23 DEF ShutdownCancels
<1>24. ASSUME NEW t \in Tasks, NEW m \in 1..MaxSteers, SteerLooks(t, m)
       PROVE  Carrying'
  BY <1>24 DEF SteerLooks
<1>25. ASSUME NEW t \in Tasks, NEW m \in 1..MaxSteers, SteerSends(t, m)
       PROVE  Carrying'
  BY <1>25 DEF SteerSends
<1>26. ASSUME ShutdownBegins
       PROVE  Carrying'
  BY <1>26 DEF ShutdownBegins
<1>27. ASSUME ShutdownJoins
       PROVE  Carrying'
  BY <1>27 DEF ShutdownJoins
<1>28. ASSUME ShutdownReturns
       PROVE  Carrying'
  BY <1>28 DEF ShutdownReturns
<1>29. CASE UNCHANGED vars
  BY <1>29 DEF vars, supervisorVars, viewVars, controlVars, childVars, workerVars, closeVars
<1> QED
  BY <1>1, <1>2, <1>3, <1>4, <1>5, <1>6, <1>7, <1>8, <1>9, <1>10, <1>11, <1>12, <1>13, <1>14,
     <1>15, <1>16, <1>17, <1>18, <1>19, <1>20, <1>21, <1>22, <1>23, <1>24, <1>25, <1>26, <1>27,
     <1>28, <1>29 DEF Next, SpawnerStep, WorkerStep, EnderStep, CloserStep

\* shutdown() ends or passes over every task that is known when it begins, and a spawn() it
\* overtakes finds the result it has left.
LEMMA ClosingStep ==
    ASSUME TypeOK, Endings, Spawning, Closing, [Next]_vars
    PROVE  Closing'
<1> USE DEF TypeOK, Spawning, Closing, Endings, Claim, Ended, Live, supervisorVars, viewVars,
        controlVars, childVars, workerVars, closeVars
<1>1. ASSUME NEW t \in Tasks, SpawnReserves(t)
      PROVE  Closing'
  BY <1>1 DEF SpawnReserves
<1>2. ASSUME NEW t \in Tasks, SpawnPublishes(t)
      PROVE  Closing'
  BY <1>2 DEF SpawnPublishes
<1>3. ASSUME NEW t \in Tasks, SpawnSubmits(t)
      PROVE  Closing'
  BY <1>3 DEF SpawnSubmits
<1>4. ASSUME NEW t \in Tasks, WorkerTakes(t)
      PROVE  Closing'
  BY <1>4 DEF WorkerTakes
<1>5. ASSUME NEW t \in Tasks, WorkerEnters(t)
      PROVE  Closing'
  <2>1. CASE result[t] # "none"
    BY <1>5, <2>1 DEF WorkerEnters
  <2>2. CASE ~(result[t] # "none")
    BY <1>5, <2>2 DEF WorkerEnters
  <2> QED
    BY <2>1, <2>2
<1>6. ASSUME NEW t \in Tasks, WorkerAnnounces(t)
      PROVE  Closing'
  BY <1>6 DEF WorkerAnnounces
<1>7. ASSUME NEW t \in Tasks, ChildBuilt(t)
      PROVE  Closing'
  BY <1>7 DEF ChildBuilt
<1>8. ASSUME NEW t \in Tasks, WorkerAttaches(t)
      PROVE  Closing'
  BY <1>8 DEF WorkerAttaches
<1>9. ASSUME NEW t \in Tasks, WorkerDelivers(t)
      PROVE  Closing'
  BY <1>9 DEF WorkerDelivers
<1>10. ASSUME NEW t \in Tasks, ChildPrompted(t)
       PROVE  Closing'
  BY <1>10 DEF ChildPrompted
<1>11. ASSUME NEW t \in Tasks, ProcessSpawned(t)
       PROVE  Closing'
  BY <1>11 DEF ProcessSpawned
<1>12. ASSUME NEW t \in Tasks, ProcessRegistered(t)
       PROVE  Closing'
  BY <1>12 DEF ProcessRegistered
<1>13. ASSUME NEW t \in Tasks, ChildEnds(t)
       PROVE  Closing'
  BY <1>13 DEF ChildEnds
<1>14. ASSUME NEW t \in Tasks, WorkerSettles(t)
       PROVE  Closing'
  <2>1. CASE result[t] # "none"
    BY <1>14, <2>1 DEF WorkerSettles
  <2>2. CASE ~(result[t] # "none")
    BY <1>14, <2>2 DEF WorkerSettles
  <2> QED
    BY <2>1, <2>2
<1>15. ASSUME NEW t \in Tasks, WorkerPublishes(t)
       PROVE  Closing'
  BY <1>15 DEF WorkerPublishes
<1>16. ASSUME NEW t \in Tasks, WorkerEmits(t)
       PROVE  Closing'
  BY <1>16 DEF WorkerEmits
<1>17. ASSUME NEW t \in Tasks, Cancel(t)
       PROVE  Closing'
  BY <1>17 DEF Cancel
<1>18. ASSUME NEW t \in Tasks, WaitTimesOut(t)
       PROVE  Closing'
  BY <1>18 DEF WaitTimesOut
<1>19. ASSUME NEW t \in Tasks, EnderControls(t)
       PROVE  Closing'
  BY <1>19 DEF EnderControls
<1>20. ASSUME NEW t \in Tasks, EnderPublishes(t)
       PROVE  Closing'
  BY <1>20 DEF EnderPublishes
<1>21. ASSUME NEW t \in Tasks, EnderCancelsBackend(t)
       PROVE  Closing'
  BY <1>21 DEF EnderCancelsBackend
<1>22. ASSUME NEW t \in Tasks, EnderEmits(t)
       PROVE  Closing'
  BY <1>22 DEF EnderEmits
<1>23. ASSUME NEW t \in Tasks, ShutdownCancels(t)
       PROVE  Closing'
  <2>1. CASE own = {} /\ Claim(t, "cancelled") /\ own' = {t} /\ UNCHANGED todo
    BY <1>23, <2>1 DEF ShutdownCancels
  <2>2. CASE UNCHANGED supervisorVars /\ todo' = todo \ {t} /\ result[t] # "none"
    BY <1>23, <2>2 DEF ShutdownCancels
  <2> QED
    BY <1>23, <2>1, <2>2 DEF ShutdownCancels
<1>24. ASSUME NEW t \in Tasks, NEW m \in 1..MaxSteers, SteerLooks(t, m)
       PROVE  Closing'
  BY <1>24 DEF SteerLooks
<1>25. ASSUME NEW t \in Tasks, NEW m \in 1..MaxSteers, SteerSends(t, m)
       PROVE  Closing'
  BY <1>25 DEF SteerSends
<1>26. ASSUME ShutdownBegins
       PROVE  Closing'
  BY <1>26 DEF ShutdownBegins
<1>27. ASSUME ShutdownJoins
       PROVE  Closing'
  BY <1>27 DEF ShutdownJoins
<1>28. ASSUME ShutdownReturns
       PROVE  Closing'
  BY <1>28 DEF ShutdownReturns
<1>29. CASE UNCHANGED vars
  BY <1>29 DEF vars, supervisorVars, viewVars, controlVars, childVars, workerVars, closeVars
<1> QED
  BY <1>1, <1>2, <1>3, <1>4, <1>5, <1>6, <1>7, <1>8, <1>9, <1>10, <1>11, <1>12, <1>13, <1>14,
     <1>15, <1>16, <1>17, <1>18, <1>19, <1>20, <1>21, <1>22, <1>23, <1>24, <1>25, <1>26, <1>27,
     <1>28, <1>29 DEF Next, SpawnerStep, WorkerStep, EnderStep, CloserStep

\* Neither the start of a process nor the cancel() of its task loses the signal, whichever of
\* them comes first at each of their steps.
LEMMA SignalsStep ==
    ASSUME TypeOK, Endings, Spawning, Signals, [Next]_vars
    PROVE  Signals'
<1> USE DEF TypeOK, Spawning, Signals, Endings, Internal, Claim, Ended, Live, supervisorVars, viewVars,
        controlVars, childVars, workerVars, closeVars
<1>1. ASSUME NEW t \in Tasks, SpawnReserves(t)
      PROVE  Signals'
  BY <1>1 DEF SpawnReserves
<1>2. ASSUME NEW t \in Tasks, SpawnPublishes(t)
      PROVE  Signals'
  BY <1>2 DEF SpawnPublishes
<1>3. ASSUME NEW t \in Tasks, SpawnSubmits(t)
      PROVE  Signals'
  BY <1>3 DEF SpawnSubmits
<1>4. ASSUME NEW t \in Tasks, WorkerTakes(t)
      PROVE  Signals'
  BY <1>4 DEF WorkerTakes
<1>5. ASSUME NEW t \in Tasks, WorkerEnters(t)
      PROVE  Signals'
  <2>1. CASE result[t] # "none"
    BY <1>5, <2>1 DEF WorkerEnters
  <2>2. CASE ~(result[t] # "none")
    BY <1>5, <2>2 DEF WorkerEnters
  <2> QED
    BY <2>1, <2>2
<1>6. ASSUME NEW t \in Tasks, WorkerAnnounces(t)
      PROVE  Signals'
  BY <1>6 DEF WorkerAnnounces
<1>7. ASSUME NEW t \in Tasks, ChildBuilt(t)
      PROVE  Signals'
  BY <1>7 DEF ChildBuilt
<1>8. ASSUME NEW t \in Tasks, WorkerAttaches(t)
      PROVE  Signals'
  BY <1>8 DEF WorkerAttaches
<1>9. ASSUME NEW t \in Tasks, WorkerDelivers(t)
      PROVE  Signals'
  BY <1>9 DEF WorkerDelivers
<1>10. ASSUME NEW t \in Tasks, ChildPrompted(t)
       PROVE  Signals'
  BY <1>10 DEF ChildPrompted
<1>11. ASSUME NEW t \in Tasks, ProcessSpawned(t)
       PROVE  Signals'
  BY <1>11 DEF ProcessSpawned
<1>12. ASSUME NEW t \in Tasks, ProcessRegistered(t)
       PROVE  Signals'
  <2>1. worker' = [worker EXCEPT ![t] = "running"] /\ UNCHANGED <<result, future, ender, cancelled>>
    BY <1>12 DEF ProcessRegistered
  <2>2. worker[t] = "popen"
    BY <1>12 DEF ProcessRegistered
  <2>3. t \in cancelled => aborted'[t]
    BY <1>12 DEF ProcessRegistered
  <2>4. \A u \in Tasks \ {t} : aborted'[u] = aborted[u]
    BY <1>12 DEF ProcessRegistered
  <2>5. aborted' \in [Tasks -> BOOLEAN]
    BY <1>12 DEF ProcessRegistered
  <2> QED
    BY <2>1, <2>2, <2>3, <2>4, <2>5
<1>13. ASSUME NEW t \in Tasks, ChildEnds(t)
       PROVE  Signals'
  BY <1>13 DEF ChildEnds
<1>14. ASSUME NEW t \in Tasks, WorkerSettles(t)
       PROVE  Signals'
  <2>1. CASE result[t] # "none"
    BY <1>14, <2>1 DEF WorkerSettles
  <2>2. CASE ~(result[t] # "none")
    <3>1. ender[t] = "none" /\ future[t] = "running"
      BY <1>14, <2>2 DEF WorkerSettles
    <3>2. /\ result' = [result EXCEPT ![t] = verdict[t]] /\ worker' = [worker EXCEPT ![t] = "publish"]
          /\ UNCHANGED <<future, ender, cancelled, aborted>>
      BY <1>14, <2>2 DEF WorkerSettles
    <3> QED
      BY <3>1, <3>2
  <2> QED
    BY <2>1, <2>2
<1>15. ASSUME NEW t \in Tasks, WorkerPublishes(t)
       PROVE  Signals'
  BY <1>15 DEF WorkerPublishes
<1>16. ASSUME NEW t \in Tasks, WorkerEmits(t)
       PROVE  Signals'
  BY <1>16 DEF WorkerEmits
<1>17. ASSUME NEW t \in Tasks, Cancel(t)
       PROVE  Signals'
  BY <1>17 DEF Cancel
<1>18. ASSUME NEW t \in Tasks, WaitTimesOut(t)
       PROVE  Signals'
  BY <1>18 DEF WaitTimesOut
<1>19. ASSUME NEW t \in Tasks, EnderControls(t)
       PROVE  Signals'
  BY <1>19 DEF EnderControls
<1>20. ASSUME NEW t \in Tasks, EnderPublishes(t)
       PROVE  Signals'
  BY <1>20 DEF EnderPublishes
<1>21. ASSUME NEW t \in Tasks, EnderCancelsBackend(t)
       PROVE  Signals'
  <2>1. UNCHANGED <<result, future, worker>>
    BY <1>21 DEF EnderCancelsBackend
  <2>2. ender' = [ender EXCEPT ![t] = "emit"] /\ cancelled \subseteq cancelled'
    BY <1>21 DEF EnderCancelsBackend
  <2>3. ASSUME NEW u \in Tasks, aborted[u] PROVE aborted'[u]
    BY <1>21, <2>3 DEF EnderCancelsBackend
  <2>4. t \in External => t \in cancelled'
    BY <1>21 DEF EnderCancelsBackend
  <2>5. t \in External /\ worker[t] = "running" => aborted'[t]
    BY <1>21 DEF EnderCancelsBackend
  <2> DEFINE Part(u) ==
        /\ result[u] = "cancelled" => future[u] # "pending"
        /\ u \in External => worker[u] \notin {"attach", "deliver", "prompt"}
        /\ u \in External /\ result[u] = "cancelled" /\ ender[u] \in {"emit", "done"} =>
              /\ worker[u] \in {"taken", "entered", "build", "popen"} => u \in cancelled
              /\ worker[u] = "running" => aborted[u]
  <2>6. ASSUME NEW u \in Tasks \ {t} PROVE Part(u)'
    <3>1. Part(u) /\ ender'[u] = ender[u]
      BY <2>2
    <3>2. aborted[u] => aborted'[u]
      BY <2>3
    <3> QED
      BY <2>1, <2>2, <3>1, <3>2
  <2>7. Part(t)'
    BY <2>1, <2>4, <2>5
  <2> QED
    BY <2>6, <2>7
<1>22. ASSUME NEW t \in Tasks, EnderEmits(t)
       PROVE  Signals'
  BY <1>22 DEF EnderEmits
<1>23. ASSUME NEW t \in Tasks, ShutdownCancels(t)
       PROVE  Signals'
  <2>1. CASE own = {} /\ Claim(t, "cancelled") /\ own' = {t} /\ UNCHANGED todo
    BY <1>23, <2>1 DEF ShutdownCancels
  <2>2. CASE UNCHANGED supervisorVars /\ todo' = todo \ {t} /\ result[t] # "none"
    BY <1>23, <2>2 DEF ShutdownCancels
  <2> QED
    BY <1>23, <2>1, <2>2 DEF ShutdownCancels
<1>24. ASSUME NEW t \in Tasks, NEW m \in 1..MaxSteers, SteerLooks(t, m)
       PROVE  Signals'
  BY <1>24 DEF SteerLooks
<1>25. ASSUME NEW t \in Tasks, NEW m \in 1..MaxSteers, SteerSends(t, m)
       PROVE  Signals'
  BY <1>25 DEF SteerSends
<1>26. ASSUME ShutdownBegins
       PROVE  Signals'
  BY <1>26 DEF ShutdownBegins
<1>27. ASSUME ShutdownJoins
       PROVE  Signals'
  BY <1>27 DEF ShutdownJoins
<1>28. ASSUME ShutdownReturns
       PROVE  Signals'
  BY <1>28 DEF ShutdownReturns
<1>29. CASE UNCHANGED vars
  BY <1>29 DEF vars, supervisorVars, viewVars, controlVars, childVars, workerVars, closeVars
<1> QED
  BY <1>1, <1>2, <1>3, <1>4, <1>5, <1>6, <1>7, <1>8, <1>9, <1>10, <1>11, <1>12, <1>13, <1>14,
     <1>15, <1>16, <1>17, <1>18, <1>19, <1>20, <1>21, <1>22, <1>23, <1>24, <1>25, <1>26, <1>27,
     <1>28, <1>29 DEF Next, SpawnerStep, WorkerStep, EnderStep, CloserStep

\* A steering message moves from the queue through attach() to the session, and is not
\* dropped on the way while the task goes on.
LEMMA SteeringStep ==
    ASSUME TypeOK, Endings, Carrying, SteeringKept, [Next]_vars
    PROVE  SteeringKept'
<1>1. ASSUME NEW t \in Tasks, SpawnReserves(t)
      PROVE  SteeringKept'
  <2>1. UNCHANGED <<result, accepted, received, pending, carried>>
    BY <1>1 DEF SpawnReserves, supervisorVars, viewVars, controlVars, childVars, workerVars,
       closeVars
  <2> QED
    BY <2>1 DEF SteeringKept, Elements
<1>2. ASSUME NEW t \in Tasks, SpawnPublishes(t)
      PROVE  SteeringKept'
  <2>1. UNCHANGED <<result, accepted, received, pending, carried>>
    BY <1>2 DEF SpawnPublishes, supervisorVars, viewVars, controlVars, childVars, workerVars,
       closeVars
  <2> QED
    BY <2>1 DEF SteeringKept, Elements
<1>3. ASSUME NEW t \in Tasks, SpawnSubmits(t)
      PROVE  SteeringKept'
  <2>1. UNCHANGED <<result, accepted, received, pending, carried>>
    BY <1>3 DEF SpawnSubmits, supervisorVars, viewVars, controlVars, childVars, workerVars,
       closeVars
  <2> QED
    BY <2>1 DEF SteeringKept, Elements
<1>4. ASSUME NEW t \in Tasks, WorkerTakes(t)
      PROVE  SteeringKept'
  <2>1. UNCHANGED <<result, accepted, received, pending, carried>>
    BY <1>4 DEF WorkerTakes, supervisorVars, viewVars, controlVars, childVars, workerVars,
       closeVars
  <2> QED
    BY <2>1 DEF SteeringKept, Elements
<1>5. ASSUME NEW t \in Tasks, WorkerEnters(t)
      PROVE  SteeringKept'
  <2>1. UNCHANGED <<result, accepted, received, pending, carried>>
    BY <1>5 DEF WorkerEnters, supervisorVars, viewVars, controlVars, childVars, workerVars,
       closeVars
  <2> QED
    BY <2>1 DEF SteeringKept, Elements
<1>6. ASSUME NEW t \in Tasks, WorkerAnnounces(t)
      PROVE  SteeringKept'
  <2>1. UNCHANGED <<result, accepted, received, pending, carried>>
    BY <1>6 DEF WorkerAnnounces, supervisorVars, viewVars, controlVars, childVars, workerVars,
       closeVars
  <2> QED
    BY <2>1 DEF SteeringKept, Elements
<1>7. ASSUME NEW t \in Tasks, ChildBuilt(t)
      PROVE  SteeringKept'
  <2>1. UNCHANGED <<result, accepted, received, pending, carried>>
    BY <1>7 DEF ChildBuilt, supervisorVars, viewVars, controlVars, childVars, workerVars,
       closeVars
  <2> QED
    BY <2>1 DEF SteeringKept, Elements
<1>8. ASSUME NEW t \in Tasks, WorkerAttaches(t)
      PROVE  SteeringKept'
  <2>1. carried[t] = <<>> /\ carried'[t] = pending[t] /\ UNCHANGED <<result, accepted, received>>
    BY <1>8 DEF WorkerAttaches, Carrying, TypeOK, supervisorVars, viewVars, controlVars,
       childVars, workerVars, closeVars
  <2>2. \A u \in Tasks \ {t} : pending'[u] = pending[u] /\ carried'[u] = carried[u]
    BY <1>8 DEF WorkerAttaches, TypeOK
  <2> QED
    BY <2>1, <2>2 DEF SteeringKept, Elements
<1>9. ASSUME NEW t \in Tasks, WorkerDelivers(t)
      PROVE  SteeringKept'
  <2>1. CASE carried[t] = <<>>
    <3>1. UNCHANGED <<result, accepted, received, pending, carried>>
      BY <1>9, <2>1 DEF WorkerDelivers, supervisorVars, viewVars, controlVars, childVars,
         workerVars, closeVars
    <3> QED
      BY <3>1 DEF SteeringKept, Elements
  <2>2. CASE carried[t] # <<>>
    <3>1. /\ result[t] = "none" => received'[t] = received[t] \cup {Head(carried[t])}
          /\ carried'[t] = Tail(carried[t]) /\ UNCHANGED <<result, accepted, pending>>
          /\ \A u \in Tasks \ {t} : received'[u] = received[u] /\ carried'[u] = carried[u]
      BY <1>9, <2>2 DEF WorkerDelivers, TypeOK, supervisorVars, viewVars, controlVars,
         childVars, workerVars, closeVars
    <3>2. Elements(carried[t]) \subseteq {Head(carried[t])} \cup Elements(Tail(carried[t]))
      BY <2>2, HeadAndTail DEF TypeOK
    <3> QED
      BY <3>1, <3>2 DEF SteeringKept
  <2> QED
    BY <2>1, <2>2
<1>10. ASSUME NEW t \in Tasks, ChildPrompted(t)
       PROVE  SteeringKept'
  <2>1. UNCHANGED <<result, accepted, received, pending, carried>>
    BY <1>10 DEF ChildPrompted, supervisorVars, viewVars, controlVars, childVars, workerVars,
       closeVars
  <2> QED
    BY <2>1 DEF SteeringKept, Elements
<1>11. ASSUME NEW t \in Tasks, ProcessSpawned(t)
       PROVE  SteeringKept'
  <2>1. UNCHANGED <<result, accepted, received, pending, carried>>
    BY <1>11 DEF ProcessSpawned, supervisorVars, viewVars, controlVars, childVars, workerVars,
       closeVars
  <2> QED
    BY <2>1 DEF SteeringKept, Elements
<1>12. ASSUME NEW t \in Tasks, ProcessRegistered(t)
       PROVE  SteeringKept'
  <2>1. UNCHANGED <<result, accepted, received, pending, carried>>
    BY <1>12 DEF ProcessRegistered, supervisorVars, viewVars, controlVars, childVars,
       workerVars, closeVars
  <2> QED
    BY <2>1 DEF SteeringKept, Elements
<1>13. ASSUME NEW t \in Tasks, ChildEnds(t)
       PROVE  SteeringKept'
  <2>1. UNCHANGED <<result, accepted, received, pending, carried>>
    BY <1>13 DEF ChildEnds, supervisorVars, viewVars, controlVars, childVars, workerVars,
       closeVars
  <2> QED
    BY <2>1 DEF SteeringKept, Elements
<1>14. ASSUME NEW t \in Tasks, WorkerSettles(t)
       PROVE  SteeringKept'
  <2>1. CASE result[t] # "none"
    <3>1. UNCHANGED <<result, accepted, received, pending, carried>>
      BY <1>14, <2>1 DEF WorkerSettles, supervisorVars, viewVars, controlVars, childVars,
         workerVars, closeVars
    <3> QED
      BY <3>1 DEF SteeringKept, Elements
  <2>2. CASE result[t] = "none"
    <3>0. verdict[t] # "none"
      BY <1>14 DEF WorkerSettles, Endings, Ended
    <3>1. result'[t] # "none" /\ UNCHANGED carried
      BY <1>14, <2>2, <3>0 DEF WorkerSettles, TypeOK
    <3>2. \A u \in Tasks \ {t} :
             /\ result'[u] = result[u] /\ accepted'[u] = accepted[u]
             /\ received'[u] = received[u] /\ pending'[u] = pending[u]
      BY <1>14, <2>2 DEF WorkerSettles, TypeOK
    <3> QED
      BY <3>1, <3>2 DEF SteeringKept, Elements
  <2> QED
    BY <2>1, <2>2
<1>15. ASSUME NEW t \in Tasks, WorkerPublishes(t)
       PROVE  SteeringKept'
  <2>1. UNCHANGED <<result, accepted, received, pending, carried>>
    BY <1>15 DEF WorkerPublishes, supervisorVars, viewVars, controlVars, childVars, workerVars,
       closeVars
  <2> QED
    BY <2>1 DEF SteeringKept, Elements
<1>16. ASSUME NEW t \in Tasks, WorkerEmits(t)
       PROVE  SteeringKept'
  <2>1. UNCHANGED <<result, accepted, received, pending, carried>>
    BY <1>16 DEF WorkerEmits, supervisorVars, viewVars, controlVars, childVars, workerVars,
       closeVars
  <2> QED
    BY <2>1 DEF SteeringKept, Elements
<1>17. ASSUME NEW t \in Tasks, Cancel(t)
       PROVE  SteeringKept'
  <2>1. /\ result'[t] # "none" /\ \A u \in Tasks \ {t} : result'[u] = result[u]
        /\ \A u \in Tasks \ {t} : accepted'[u] = accepted[u] /\ received'[u] = received[u]
        /\ UNCHANGED <<pending, carried>>
    BY <1>17 DEF Cancel, Claim, Ended, TypeOK, supervisorVars, viewVars, controlVars, childVars,
       workerVars, closeVars
  <2> QED
    BY <2>1 DEF SteeringKept, Elements
<1>18. ASSUME NEW t \in Tasks, WaitTimesOut(t)
       PROVE  SteeringKept'
  <2>1. /\ result'[t] # "none" /\ \A u \in Tasks \ {t} : result'[u] = result[u]
        /\ \A u \in Tasks \ {t} : accepted'[u] = accepted[u] /\ received'[u] = received[u]
        /\ UNCHANGED <<pending, carried>>
    BY <1>18 DEF WaitTimesOut, Claim, Ended, TypeOK, supervisorVars, viewVars, controlVars,
       childVars, workerVars, closeVars
  <2> QED
    BY <2>1 DEF SteeringKept, Elements
<1>19. ASSUME NEW t \in Tasks, EnderControls(t)
       PROVE  SteeringKept'
  <2>1. result[t] # "none" /\ UNCHANGED <<result, accepted, received, carried>>
    BY <1>19 DEF EnderControls, Endings, supervisorVars, viewVars, controlVars, childVars,
       workerVars, closeVars
  <2>2. \A u \in Tasks \ {t} : pending'[u] = pending[u]
    BY <1>19 DEF EnderControls, TypeOK
  <2> QED
    BY <2>1, <2>2 DEF SteeringKept, Elements
<1>20. ASSUME NEW t \in Tasks, EnderPublishes(t)
       PROVE  SteeringKept'
  <2>1. UNCHANGED <<result, accepted, received, pending, carried>>
    BY <1>20 DEF EnderPublishes, supervisorVars, viewVars, controlVars, childVars, workerVars,
       closeVars
  <2> QED
    BY <2>1 DEF SteeringKept, Elements
<1>21. ASSUME NEW t \in Tasks, EnderCancelsBackend(t)
       PROVE  SteeringKept'
  <2>1. UNCHANGED <<result, accepted, received, pending, carried>>
    BY <1>21 DEF EnderCancelsBackend, supervisorVars, viewVars, controlVars, childVars,
       workerVars, closeVars
  <2> QED
    BY <2>1 DEF SteeringKept, Elements
<1>22. ASSUME NEW t \in Tasks, EnderEmits(t)
       PROVE  SteeringKept'
  <2>1. UNCHANGED <<result, accepted, received, pending, carried>>
    BY <1>22 DEF EnderEmits, supervisorVars, viewVars, controlVars, childVars, workerVars,
       closeVars
  <2> QED
    BY <2>1 DEF SteeringKept, Elements
<1>23. ASSUME NEW t \in Tasks, ShutdownCancels(t)
       PROVE  SteeringKept'
  <2>1. CASE Claim(t, "cancelled")
    <3>1. /\ result'[t] # "none" /\ \A u \in Tasks \ {t} : result'[u] = result[u]
          /\ \A u \in Tasks \ {t} : accepted'[u] = accepted[u] /\ received'[u] = received[u]
          /\ UNCHANGED <<pending, carried>>
      BY <1>23, <2>1 DEF ShutdownCancels, Claim, TypeOK, supervisorVars, viewVars, controlVars,
         childVars, workerVars, closeVars
    <3> QED
      BY <3>1 DEF SteeringKept, Elements
  <2>2. CASE UNCHANGED <<result, accepted, received>>
    <3>1. UNCHANGED <<pending, carried>>
      BY <1>23 DEF ShutdownCancels, supervisorVars, viewVars, controlVars, childVars,
         workerVars, closeVars
    <3> QED
      BY <2>2, <3>1 DEF SteeringKept, Elements
  <2> QED
    BY <1>23, <2>1, <2>2 DEF ShutdownCancels, supervisorVars
<1>24. ASSUME NEW t \in Tasks, NEW m \in 1..MaxSteers, SteerLooks(t, m)
       PROVE  SteeringKept'
  <2>1. UNCHANGED <<result, accepted, received, pending, carried>>
    BY <1>24 DEF SteerLooks, supervisorVars, viewVars, controlVars, childVars, workerVars,
       closeVars
  <2> QED
    BY <2>1 DEF SteeringKept, Elements
<1>25. ASSUME NEW t \in Tasks, NEW m \in 1..MaxSteers, SteerSends(t, m)
       PROVE  SteeringKept'
  <2>1. UNCHANGED <<result, carried>> /\ \A u \in Tasks \ {t} :
             accepted'[u] = accepted[u] /\ received'[u] = received[u] /\ pending'[u] = pending[u]
    BY <1>25 DEF SteerSends, TypeOK, supervisorVars, viewVars, controlVars, childVars,
       workerVars, closeVars
  <2>2. result[t] = "none" => accepted'[t] = accepted[t] \cup {m}
    BY <1>25 DEF SteerSends, TypeOK
  <2>3. result[t] = "none" => \/ received'[t] = received[t] \cup {m} /\ pending'[t] = pending[t]
                              \/ received'[t] = received[t] /\ pending'[t] = Append(pending[t], m)
    <3>1. CASE handle[t]
      <4>1. pending' = pending
        BY <1>25, <3>1 DEF SteerSends
      <4>2. result[t] = "none" => received'[t] = received[t] \cup {m}
        BY <1>25, <3>1 DEF SteerSends, TypeOK
      <4> QED
        BY <4>1, <4>2
    <3>2. CASE ~handle[t]
      BY <1>25, <3>2 DEF SteerSends, TypeOK
    <3> QED
      BY <3>1, <3>2
  <2>4. Elements(Append(pending[t], m)) = Elements(pending[t]) \cup {m}
    BY AppendElements DEF TypeOK
  <2> QED
    BY <2>1, <2>2, <2>3, <2>4 DEF SteeringKept
<1>26. ASSUME ShutdownBegins
       PROVE  SteeringKept'
  <2>1. UNCHANGED <<result, accepted, received, pending, carried>>
    BY <1>26 DEF ShutdownBegins, supervisorVars, viewVars, controlVars, childVars, workerVars,
       closeVars
  <2> QED
    BY <2>1 DEF SteeringKept, Elements
<1>27. ASSUME ShutdownJoins
       PROVE  SteeringKept'
  <2>1. UNCHANGED <<result, accepted, received, pending, carried>>
    BY <1>27 DEF ShutdownJoins, supervisorVars, viewVars, controlVars, childVars, workerVars,
       closeVars
  <2> QED
    BY <2>1 DEF SteeringKept, Elements
<1>28. ASSUME ShutdownReturns
       PROVE  SteeringKept'
  <2>1. UNCHANGED <<result, accepted, received, pending, carried>>
    BY <1>28 DEF ShutdownReturns, supervisorVars, viewVars, controlVars, childVars, workerVars,
       closeVars
  <2> QED
    BY <2>1 DEF SteeringKept, Elements
<1>29. CASE UNCHANGED vars
  BY <1>29 DEF vars, supervisorVars, viewVars, controlVars, childVars, workerVars, closeVars,
     SteeringKept, Elements
<1> QED
  BY <1>1, <1>2, <1>3, <1>4, <1>5, <1>6, <1>7, <1>8, <1>9, <1>10, <1>11, <1>12, <1>13, <1>14,
     <1>15, <1>16, <1>17, <1>18, <1>19, <1>20, <1>21, <1>22, <1>23, <1>24, <1>25, <1>26, <1>27,
     <1>28, <1>29 DEF Next, SpawnerStep, WorkerStep, EnderStep, CloserStep

\* Every section writes values of the declared types, and a task has at most one stop event.
LEMMA TypeStep ==
    ASSUME TypeOK, Endings, Closing, [Next]_vars
    PROVE  TypeOK'
<1>1. ASSUME NEW t \in Tasks, SpawnReserves(t)
      PROVE  TypeOK'
  <2>1. CASE closer # "no" \/ Cardinality(Unfinished) >= MaxThreads
    <3>1. /\ spawner' = [spawner EXCEPT ![t] = "refused"]
          /\ UNCHANGED <<status, result, future, roster, events, handle, pending, carried,
                         accepted, received, aborted, cancelled, worker, verdict, ender, closer,
                         todo, own>>
      BY <1>1, <2>1 DEF SpawnReserves, supervisorVars, viewVars, controlVars, childVars,
         workerVars, closeVars
    <3>2. spawner' \in [Tasks -> {"none", "refused", "reserved", "announced", "spawned"}]
      BY <3>1 DEF TypeOK, Ended, Live
    <3> QED
      BY <3>1, <3>2 DEF TypeOK
  <2>2. CASE ~(closer # "no" \/ Cardinality(Unfinished) >= MaxThreads)
    <3>1. /\ spawner' = [spawner EXCEPT ![t] = "reserved"]
          /\ status' = [status EXCEPT ![t] = "queued"]
          /\ UNCHANGED <<result, future, roster, events, handle, pending, carried, accepted,
                         received, aborted, cancelled, worker, verdict, ender, closer, todo, own>>
      BY <1>1, <2>2 DEF SpawnReserves, supervisorVars, viewVars, controlVars, childVars,
         workerVars, closeVars
    <3>2. spawner' \in [Tasks -> {"none", "refused", "reserved", "announced", "spawned"}]
      BY <3>1 DEF TypeOK, Ended, Live
    <3>3. status' \in [Tasks -> Live \cup Ended]
      BY <3>1 DEF TypeOK, Ended, Live
    <3> QED
      BY <3>1, <3>2, <3>3 DEF TypeOK
  <2> QED
    BY <1>1, <2>1, <2>2 DEF SpawnReserves
<1>2. ASSUME NEW t \in Tasks, SpawnPublishes(t)
      PROVE  TypeOK'
  <2> USE DEF TypeOK, Claim, Ended, Live, supervisorVars, viewVars, controlVars, childVars,
              workerVars, closeVars
  <2> QED
    BY <1>2 DEF SpawnPublishes
<1>3. ASSUME NEW t \in Tasks, SpawnSubmits(t)
      PROVE  TypeOK'
  <2> USE DEF TypeOK, Claim, Ended, Live, supervisorVars, viewVars, controlVars, childVars,
              workerVars, closeVars
  <2> QED
    BY <1>3 DEF SpawnSubmits
<1>4. ASSUME NEW t \in Tasks, WorkerTakes(t)
      PROVE  TypeOK'
  <2> USE DEF TypeOK, Claim, Ended, Live, supervisorVars, viewVars, controlVars, childVars,
              workerVars, closeVars
  <2> QED
    BY <1>4 DEF WorkerTakes
<1>5. ASSUME NEW t \in Tasks, WorkerEnters(t)
      PROVE  TypeOK'
  <2>1. CASE result[t] # "none"
    <3>1. /\ worker' = [worker EXCEPT ![t] = "off"]
          /\ future' = [future EXCEPT ![t] = "finished"]
          /\ UNCHANGED <<status, result, roster, events, handle, pending, carried, accepted,
                         received, aborted, cancelled, spawner, verdict, ender, closer, todo,
                         own>>
      BY <1>5, <2>1 DEF WorkerEnters, supervisorVars, viewVars, controlVars, childVars,
         workerVars, closeVars
    <3>2. worker' \in [Tasks -> {"off", "taken", "entered", "build", "attach", "deliver",
                      "prompt", "popen", "running", "settle", "publish", "emit"}]
      BY <3>1 DEF TypeOK, Ended, Live
    <3>3. future' \in [Tasks -> {"none", "pending", "running", "finished", "cancelled"}]
      BY <3>1 DEF TypeOK, Ended, Live
    <3> QED
      BY <3>1, <3>2, <3>3 DEF TypeOK
  <2>2. CASE ~(result[t] # "none")
    <3>1. /\ worker' = [worker EXCEPT ![t] = "entered"]
          /\ status' = [status EXCEPT ![t] = "running"]
          /\ UNCHANGED <<result, future, roster, events, handle, pending, carried, accepted,
                         received, aborted, cancelled, spawner, verdict, ender, closer, todo,
                         own>>
      BY <1>5, <2>2 DEF WorkerEnters, supervisorVars, viewVars, controlVars, childVars,
         workerVars, closeVars
    <3>2. worker' \in [Tasks -> {"off", "taken", "entered", "build", "attach", "deliver",
                      "prompt", "popen", "running", "settle", "publish", "emit"}]
      BY <3>1 DEF TypeOK, Ended, Live
    <3>3. status' \in [Tasks -> Live \cup Ended]
      BY <3>1 DEF TypeOK, Ended, Live
    <3> QED
      BY <3>1, <3>2, <3>3 DEF TypeOK
  <2> QED
    BY <1>5, <2>1, <2>2 DEF WorkerEnters
<1>6. ASSUME NEW t \in Tasks, WorkerAnnounces(t)
      PROVE  TypeOK'
  <2> USE DEF TypeOK, Claim, Ended, Live, supervisorVars, viewVars, controlVars, childVars,
              workerVars, closeVars
  <2> QED
    BY <1>6 DEF WorkerAnnounces
<1>7. ASSUME NEW t \in Tasks, ChildBuilt(t)
      PROVE  TypeOK'
  <2>1. CASE worker' = [worker EXCEPT ![t] = IF result[t] = "none" THEN "attach" ELSE "prompt"] /\ UNCHANGED verdict
    <3>1. /\ worker' = [worker EXCEPT ![t] = IF result[t] = "none" THEN "attach" ELSE "prompt"]
          /\ UNCHANGED <<status, result, future, roster, events, handle, pending, carried,
                         accepted, received, aborted, cancelled, spawner, verdict, ender,
                         closer, todo, own>>
      BY <1>7, <2>1 DEF ChildBuilt, supervisorVars, viewVars, controlVars, childVars,
         workerVars, closeVars
    <3>2. worker' \in [Tasks -> {"off", "taken", "entered", "build", "attach", "deliver",
                      "prompt", "popen", "running", "settle", "publish", "emit"}]
      BY <3>1 DEF TypeOK, Ended, Live
    <3> QED
      BY <3>1, <3>2 DEF TypeOK
  <2>2. CASE worker' = [worker EXCEPT ![t] = "settle"]
            /\ verdict' = [verdict EXCEPT ![t] = "failed"]
    <3>1. /\ worker' = [worker EXCEPT ![t] = "settle"]
          /\ verdict' = [verdict EXCEPT ![t] = "failed"]
          /\ UNCHANGED <<status, result, future, roster, events, handle, pending, carried,
                         accepted, received, aborted, cancelled, spawner, ender, closer, todo,
                         own>>
      BY <1>7, <2>2 DEF ChildBuilt, supervisorVars, viewVars, controlVars, childVars,
         workerVars, closeVars
    <3>2. worker' \in [Tasks -> {"off", "taken", "entered", "build", "attach", "deliver",
                      "prompt", "popen", "running", "settle", "publish", "emit"}]
      BY <3>1 DEF TypeOK, Ended, Live
    <3>3. verdict' \in [Tasks -> Ended \cup {"none"}]
      BY <3>1 DEF TypeOK, Ended, Live
    <3> QED
      BY <3>1, <3>2, <3>3 DEF TypeOK
  <2> QED
    BY <1>7, <2>1, <2>2 DEF ChildBuilt
<1>8. ASSUME NEW t \in Tasks, WorkerAttaches(t)
      PROVE  TypeOK'
  <2> USE DEF TypeOK, Claim, Ended, Live, supervisorVars, viewVars, controlVars, childVars,
              workerVars, closeVars
  <2> QED
    BY <1>8 DEF WorkerAttaches
<1>9. ASSUME NEW t \in Tasks, WorkerDelivers(t)
      PROVE  TypeOK'
  <2>0. CASE carried[t] # <<>>
    <3>0. /\ carried[t] \in Seq(1..MaxSteers) /\ received[t] \in SUBSET (1..MaxSteers)
          /\ received \in [Tasks -> SUBSET (1..MaxSteers)]
      BY DEF TypeOK
    <3>1. Head(carried[t]) \in 1..MaxSteers /\ Tail(carried[t]) \in Seq(1..MaxSteers)
      BY <2>0, <3>0, HeadTailProperties
    <3>2. received' = received
              \/ received' = [received EXCEPT ![t] = received[t] \cup {Head(carried[t])}]
      BY <1>9, <2>0 DEF WorkerDelivers, TypeOK
    <3>3. received' \in [Tasks -> SUBSET (1..MaxSteers)]
      BY <3>0, <3>1, <3>2
    <3>4. carried' = [carried EXCEPT ![t] = Tail(carried[t])]
      BY <1>9, <2>0 DEF WorkerDelivers
    <3>5. carried' \in [Tasks -> Seq(1..MaxSteers)]
      BY <3>1, <3>4 DEF TypeOK
    <3>6. UNCHANGED <<status, result, future, roster, events, handle, pending, accepted,
                      aborted, cancelled, spawner, worker, verdict, ender, closer, todo, own>>
      BY <1>9, <2>0 DEF WorkerDelivers, supervisorVars, viewVars, controlVars, childVars,
         workerVars, closeVars
    <3> QED
      BY <3>3, <3>5, <3>6 DEF TypeOK
  <2>1. CASE carried[t] = <<>>
    <3>1. /\ worker' = [worker EXCEPT ![t] = "prompt"]
          /\ UNCHANGED <<status, result, future, roster, events, handle, pending, carried,
                         accepted, received, aborted, cancelled, spawner, verdict, ender,
                         closer, todo, own>>
      BY <1>9, <2>1 DEF WorkerDelivers, supervisorVars, viewVars, controlVars, childVars,
         workerVars, closeVars
    <3>2. worker' \in [Tasks -> {"off", "taken", "entered", "build", "attach", "deliver",
                      "prompt", "popen", "running", "settle", "publish", "emit"}]
      BY <3>1 DEF TypeOK, Ended, Live
    <3> QED
      BY <3>1, <3>2 DEF TypeOK
  <2> QED
    BY <2>0, <2>1
<1>10. ASSUME NEW t \in Tasks, ChildPrompted(t)
       PROVE  TypeOK'
  <2> USE DEF TypeOK, Claim, Ended, Live, supervisorVars, viewVars, controlVars, childVars,
              workerVars, closeVars
  <2> QED
    BY <1>10 DEF ChildPrompted
<1>11. ASSUME NEW t \in Tasks, ProcessSpawned(t)
       PROVE  TypeOK'
  <2>1. CASE worker' = [worker EXCEPT ![t] = "popen"] /\ UNCHANGED verdict
    <3>1. /\ worker' = [worker EXCEPT ![t] = "popen"]
          /\ UNCHANGED <<status, result, future, roster, events, handle, pending, carried,
                         accepted, received, aborted, cancelled, spawner, verdict, ender,
                         closer, todo, own>>
      BY <1>11, <2>1 DEF ProcessSpawned, supervisorVars, viewVars, controlVars, childVars,
         workerVars, closeVars
    <3>2. worker' \in [Tasks -> {"off", "taken", "entered", "build", "attach", "deliver",
                      "prompt", "popen", "running", "settle", "publish", "emit"}]
      BY <3>1 DEF TypeOK, Ended, Live
    <3> QED
      BY <3>1, <3>2 DEF TypeOK
  <2>2. CASE worker' = [worker EXCEPT ![t] = "settle"]
            /\ verdict' = [verdict EXCEPT ![t] = "failed"]
    <3>1. /\ worker' = [worker EXCEPT ![t] = "settle"]
          /\ verdict' = [verdict EXCEPT ![t] = "failed"]
          /\ UNCHANGED <<status, result, future, roster, events, handle, pending, carried,
                         accepted, received, aborted, cancelled, spawner, ender, closer, todo,
                         own>>
      BY <1>11, <2>2 DEF ProcessSpawned, supervisorVars, viewVars, controlVars, childVars,
         workerVars, closeVars
    <3>2. worker' \in [Tasks -> {"off", "taken", "entered", "build", "attach", "deliver",
                      "prompt", "popen", "running", "settle", "publish", "emit"}]
      BY <3>1 DEF TypeOK, Ended, Live
    <3>3. verdict' \in [Tasks -> Ended \cup {"none"}]
      BY <3>1 DEF TypeOK, Ended, Live
    <3> QED
      BY <3>1, <3>2, <3>3 DEF TypeOK
  <2> QED
    BY <1>11, <2>1, <2>2 DEF ProcessSpawned
<1>12. ASSUME NEW t \in Tasks, ProcessRegistered(t)
       PROVE  TypeOK'
  <2> USE DEF TypeOK, Claim, Ended, Live, supervisorVars, viewVars, controlVars, childVars,
              workerVars, closeVars
  <2> QED
    BY <1>12 DEF ProcessRegistered
<1>13. ASSUME NEW t \in Tasks, ChildEnds(t)
       PROVE  TypeOK'
  <2> USE DEF TypeOK, Claim, Ended, Live, supervisorVars, viewVars, controlVars, childVars,
              workerVars, closeVars
  <2> QED
    BY <1>13 DEF ChildEnds
<1>14. ASSUME NEW t \in Tasks, WorkerSettles(t)
       PROVE  TypeOK'
  <2>0. verdict[t] \in Ended
    BY <1>14 DEF WorkerSettles, Endings
  <2>1. CASE result[t] # "none"
    <3>1. /\ worker' = [worker EXCEPT ![t] = "off"]
          /\ future' = [future EXCEPT ![t] = "finished"]
          /\ verdict' = [verdict EXCEPT ![t] = "none"]
          /\ UNCHANGED <<status, result, roster, events, handle, pending, carried, accepted,
                         received, aborted, cancelled, spawner, ender, closer, todo, own>>
      BY <1>14, <2>1 DEF WorkerSettles, supervisorVars, viewVars, controlVars, childVars,
         workerVars, closeVars
    <3>2. worker' \in [Tasks -> {"off", "taken", "entered", "build", "attach", "deliver",
                      "prompt", "popen", "running", "settle", "publish", "emit"}]
      BY <3>1 DEF TypeOK, Ended, Live
    <3>3. future' \in [Tasks -> {"none", "pending", "running", "finished", "cancelled"}]
      BY <3>1 DEF TypeOK, Ended, Live
    <3>4. verdict' \in [Tasks -> Ended \cup {"none"}]
      BY <3>1 DEF TypeOK, Ended, Live
    <3> QED
      BY <3>1, <3>2, <3>3, <3>4 DEF TypeOK
  <2>2. CASE ~(result[t] # "none")
    <3>1. /\ status' = [status EXCEPT ![t] = verdict[t]]
          /\ result' = [result EXCEPT ![t] = verdict[t]]
          /\ handle' = [handle EXCEPT ![t] = FALSE]
          /\ pending' = [pending EXCEPT ![t] = <<>>]
          /\ accepted' = [accepted EXCEPT ![t] = {}]
          /\ received' = [received EXCEPT ![t] = {}]
          /\ worker' = [worker EXCEPT ![t] = "publish"]
          /\ UNCHANGED <<future, roster, events, carried, aborted, cancelled, spawner, verdict,
                         ender, closer, todo, own>>
      BY <1>14, <2>2 DEF WorkerSettles, supervisorVars, viewVars, controlVars, childVars,
         workerVars, closeVars
    <3>2. status' \in [Tasks -> Live \cup Ended]
      BY <3>1, <2>0 DEF TypeOK, Ended, Live
    <3>3. result' \in [Tasks -> Ended \cup {"none"}]
      BY <3>1, <2>0 DEF TypeOK, Ended, Live
    <3>4. handle' \in [Tasks -> BOOLEAN]
      BY <3>1 DEF TypeOK, Ended, Live
    <3>5. pending' \in [Tasks -> Seq(1..MaxSteers)]
      BY <3>1 DEF TypeOK, Ended, Live
    <3>6. accepted' \in [Tasks -> SUBSET (1..MaxSteers)]
      BY <3>1 DEF TypeOK, Ended, Live
    <3>7. received' \in [Tasks -> SUBSET (1..MaxSteers)]
      BY <3>1 DEF TypeOK, Ended, Live
    <3>8. worker' \in [Tasks -> {"off", "taken", "entered", "build", "attach", "deliver",
                      "prompt", "popen", "running", "settle", "publish", "emit"}]
      BY <3>1 DEF TypeOK, Ended, Live
    <3> QED
      BY <3>1, <3>2, <3>3, <3>4, <3>5, <3>6, <3>7, <3>8 DEF TypeOK
  <2> QED
    BY <1>14, <2>1, <2>2 DEF WorkerSettles
<1>15. ASSUME NEW t \in Tasks, WorkerPublishes(t)
       PROVE  TypeOK'
  <2> USE DEF TypeOK, Claim, Ended, Live, supervisorVars, viewVars, controlVars, childVars,
              workerVars, closeVars
  <2> QED
    BY <1>15 DEF WorkerPublishes
<1>16. ASSUME NEW t \in Tasks, WorkerEmits(t)
       PROVE  TypeOK'
  <2> USE DEF TypeOK, Ended, supervisorVars, viewVars, controlVars, childVars, workerVars,
              closeVars
  <2> QED
    BY <1>16 DEF WorkerEmits, Endings
<1>17. ASSUME NEW t \in Tasks, Cancel(t)
       PROVE  TypeOK'
  <2> USE DEF TypeOK, Claim, Ended, Live, supervisorVars, viewVars, controlVars, childVars,
              workerVars, closeVars
  <2> QED
    BY <1>17 DEF Cancel
<1>18. ASSUME NEW t \in Tasks, WaitTimesOut(t)
       PROVE  TypeOK'
  <2> USE DEF TypeOK, Claim, Ended, Live, supervisorVars, viewVars, controlVars, childVars,
              workerVars, closeVars
  <2> QED
    BY <1>18 DEF WaitTimesOut
<1>19. ASSUME NEW t \in Tasks, EnderControls(t)
       PROVE  TypeOK'
  <2> USE DEF TypeOK, Claim, Ended, Live, supervisorVars, viewVars, controlVars, childVars,
              workerVars, closeVars
  <2> QED
    BY <1>19 DEF EnderControls
<1>20. ASSUME NEW t \in Tasks, EnderPublishes(t)
       PROVE  TypeOK'
  <2> USE DEF TypeOK, Claim, Ended, Live, supervisorVars, viewVars, controlVars, childVars,
              workerVars, closeVars
  <2> QED
    BY <1>20 DEF EnderPublishes
<1>21. ASSUME NEW t \in Tasks, EnderCancelsBackend(t)
       PROVE  TypeOK'
  <2>1. /\ ender' = [ender EXCEPT ![t] = "emit"]
        /\ cancelled' = IF Internal(t) THEN cancelled ELSE cancelled \cup {t}
        /\ aborted' = [aborted EXCEPT ![t] = (aborted[t] \/ (~Internal(t)
               /\ worker[t] = "running"))]
        /\ UNCHANGED <<status, result, future, roster, events, handle, pending, carried,
                       accepted, received, spawner, worker, verdict, closer, todo, own>>
    BY <1>21 DEF EnderCancelsBackend, supervisorVars, viewVars, controlVars, childVars,
       workerVars, closeVars
  <2>2. ender' \in [Tasks -> {"none", "control", "publish", "backend", "emit", "done"}]
    BY <2>1 DEF TypeOK, Internal
  <2>3. cancelled' \subseteq External
    BY <2>1 DEF TypeOK, Internal
  <2>4. aborted' \in [Tasks -> BOOLEAN]
    BY <2>1 DEF TypeOK, Internal
  <2> QED
    BY <2>1, <2>2, <2>3, <2>4 DEF TypeOK
<1>22. ASSUME NEW t \in Tasks, EnderEmits(t)
       PROVE  TypeOK'
  <2> USE DEF TypeOK, Ended, supervisorVars, viewVars, controlVars, childVars, workerVars,
              closeVars
  <2> QED
    BY <1>22 DEF EnderEmits, Endings
<1>23. ASSUME NEW t \in Tasks, ShutdownCancels(t)
       PROVE  TypeOK'
  <2>1. CASE own = {} /\ Claim(t, "cancelled") /\ own' = {t} /\ UNCHANGED todo
    BY <1>23, <2>1 DEF ShutdownCancels, TypeOK, Claim, Ended, Live, supervisorVars, viewVars,
       controlVars, childVars, workerVars, closeVars
  <2>2. CASE UNCHANGED <<status, result, future, ender, accepted, received>>
            /\ todo' = todo \ {t} /\ own' = {}
    BY <1>23, <2>2 DEF ShutdownCancels, TypeOK, Claim, Ended, Live, supervisorVars, viewVars,
       controlVars, childVars, workerVars, closeVars
  <2> QED
    BY <1>23, <2>1, <2>2 DEF ShutdownCancels, TypeOK, Claim, Ended, Live, supervisorVars,
       viewVars, controlVars, childVars, workerVars, closeVars
<1>24. ASSUME NEW t \in Tasks, NEW m \in 1..MaxSteers, SteerLooks(t, m)
       PROVE  TypeOK'
  <2> USE DEF TypeOK, Claim, Ended, Live, supervisorVars, viewVars, controlVars, childVars,
              workerVars, closeVars
  <2> QED
    BY <1>24 DEF SteerLooks
<1>25. ASSUME NEW t \in Tasks, NEW m \in 1..MaxSteers, SteerSends(t, m)
       PROVE  TypeOK'
  <2>0. /\ accepted \in [Tasks -> SUBSET (1..MaxSteers)] /\ accepted[t] \in SUBSET (1..MaxSteers)
        /\ received \in [Tasks -> SUBSET (1..MaxSteers)] /\ received[t] \in SUBSET (1..MaxSteers)
        /\ pending \in [Tasks -> Seq(1..MaxSteers)] /\ pending[t] \in Seq(1..MaxSteers)
    BY DEF TypeOK
  <2>1. accepted' = accepted \/ accepted' = [accepted EXCEPT ![t] = accepted[t] \cup {m}]
    BY ZenonT(60), <1>25 DEF SteerSends, TypeOK
  <2>2. accepted' \in [Tasks -> SUBSET (1..MaxSteers)]
    BY <2>0, <2>1
  <2>3. received' = received \/ received' = [received EXCEPT ![t] = received[t] \cup {m}]
    <3>1. CASE handle[t]
      <4>1. CASE result[t] = "none"
        BY <1>25, <3>1, <4>1 DEF SteerSends
      <4>2. CASE result[t] # "none"
        <5>1. received' = [received EXCEPT ![t] = received[t] \cup {}]
          BY <1>25, <3>1, <4>2 DEF SteerSends
        <5> QED
          BY <2>0, <5>1
      <4> QED
        BY <4>1, <4>2
    <3>2. CASE ~handle[t]
      BY <1>25, <3>2 DEF SteerSends
    <3> QED
      BY <3>1, <3>2
  <2>4. received' \in [Tasks -> SUBSET (1..MaxSteers)]
    BY <2>0, <2>3
  <2>5. pending' = pending \/ pending' = [pending EXCEPT ![t] = Append(pending[t], m)]
    BY <1>25 DEF SteerSends
  <2>6. pending' \in [Tasks -> Seq(1..MaxSteers)]
    <3>1. Append(pending[t], m) \in Seq(1..MaxSteers)
      BY <2>0
    <3> QED
      BY <2>0, <2>5, <3>1
  <2>7. UNCHANGED <<status, result, future, roster, events, handle, carried, aborted, cancelled,
                    spawner, worker, verdict, ender, closer, todo, own>>
    BY <1>25 DEF SteerSends, supervisorVars, viewVars, controlVars, childVars, workerVars,
       closeVars
  <2> QED
    BY <2>2, <2>4, <2>6, <2>7 DEF TypeOK
<1>26. ASSUME ShutdownBegins
       PROVE  TypeOK'
  <2>1. todo' \subseteq Tasks /\ own' = own /\ own = {}
    BY <1>26 DEF ShutdownBegins, Closing
  <2> QED
    BY <1>26, <2>1 DEF ShutdownBegins, TypeOK, supervisorVars, viewVars, controlVars, childVars,
       workerVars, closeVars
<1>27. ASSUME ShutdownJoins
       PROVE  TypeOK'
  <2> USE DEF TypeOK, Claim, Ended, Live, supervisorVars, viewVars, controlVars, childVars,
              workerVars, closeVars
  <2> QED
    BY <1>27 DEF ShutdownJoins
<1>28. ASSUME ShutdownReturns
       PROVE  TypeOK'
  <2> USE DEF TypeOK, Claim, Ended, Live, supervisorVars, viewVars, controlVars, childVars,
              workerVars, closeVars
  <2> QED
    BY <1>28 DEF ShutdownReturns
<1>29. CASE UNCHANGED vars
  BY <1>29 DEF vars, supervisorVars, viewVars, controlVars, childVars, workerVars, closeVars,
     TypeOK
<1> QED
  BY <1>1, <1>2, <1>3, <1>4, <1>5, <1>6, <1>7, <1>8, <1>9, <1>10, <1>11, <1>12, <1>13, <1>14,
     <1>15, <1>16, <1>17, <1>18, <1>19, <1>20, <1>21, <1>22, <1>23, <1>24, <1>25, <1>26, <1>27,
     <1>28, <1>29 DEF Next, SpawnerStep, WorkerStep, EnderStep, CloserStep

\* The tables are empty at the start: no task is known and nothing is under way.
LEMMA InitInv == Init => IInv
<1> SUFFICES ASSUME Init PROVE IInv
  OBVIOUS
<1>1. TypeOK
  BY SubagentsAssumption DEF Init, TypeOK, Ended, Live
<1>2. Endings /\ Spawning /\ Carrying /\ Closing /\ Signals
  BY DEF Init, Endings, Spawning, Carrying, Closing, Signals, Ended
<1>3. SteeringKept
  BY DEF Init, SteeringKept
<1> QED
  BY <1>1, <1>2, <1>3 DEF IInv

\* The parts above are, together, preserved by every step of every thread.
THEOREM Invariance == Spec => []IInv
<1>1. IInv /\ [Next]_vars => IInv'
  BY TypeStep, EndingsStep, SpawningStep, CarryingStep, ClosingStep, SignalsStep, SteeringStep
     DEF IInv
<1> QED
  BY InitInv, <1>1, PTL DEF Spec

\* The supervisor's tables agree with each other whatever cancel(), a timeout of wait(),
\* shutdown() and the worker do to a task at the same time: wait() finds every task that
\* spawn() has returned, listeners hear of at most one end of it, and that end is the one in
\* its result and in its snapshot.
THEOREM TasksSoundCorrect == Spec => []TasksSound
<1>1. IInv => TasksSound
  <2> SUFFICES ASSUME IInv PROVE TasksSound
    OBVIOUS
  <2>1. WaitFindsTask
    BY DEF IInv, Spawning, WaitFindsTask
  <2>2. OneStop
    <3> SUFFICES ASSUME NEW t \in Tasks, NEW i \in DOMAIN events[t], NEW j \in DOMAIN events[t]
                 PROVE  events[t][i] = result[t] /\ i = j
      BY DEF OneStop
    <3>1. events[t] = <<result[t]>>
      BY DEF IInv, Endings
    <3> QED
      BY <3>1
  <2>3. RosterIsResult
    BY DEF IInv, Endings, RosterIsResult
  <2> QED
    BY <2>1, <2>2, <2>3 DEF IInv, TasksSound
<1> QED
  BY Invariance, <1>1, PTL

\* SubagentControlStore hands on what steer() has accepted: a message is in the queue, on its
\* way from attach(), or with the child session, as long as the task goes on.
THEOREM SteeringKeptCorrect == Spec => []SteeringKept
<1>1. IInv => SteeringKept
  BY DEF IInv
<1> QED
  BY Invariance, <1>1, PTL

\* Once shutdown() has returned every task that is known has a result and no worker takes
\* another, a spawn() in the middle of which it came included.  With wait=True none runs any
\* more; with wait=False a codex process that still does was signalled, unless the thread
\* that cancels it has not got that far.
THEOREM QuietAfterShutdownCorrect == Spec => []QuietAfterShutdown
<1>1. IInv => QuietAfterShutdown
  BY DEF IInv, TypeOK, Closing, Signals, QuietAfterShutdown
<1> QED
  BY Invariance, <1>1, PTL

\* The first end of a task stands: neither a backend that returns late nor a second cancel(),
\* timeout or shutdown() changes a result that is there.
THEOREM ResultStandsCorrect == Spec => ResultStands
<1> DEFINE Stands == \A t \in Tasks : result[t] # "none" => result'[t] = result[t]
<1>1. ASSUME IInv, [Next]_vars
      PROVE  [Stands]_result
  <2> SUFFICES ASSUME ~UNCHANGED result PROVE Stands
    OBVIOUS
  <2>1. ASSUME NEW t \in Tasks, SpawnReserves(t)
        PROVE  Stands
    BY <2>1 DEF SpawnReserves, supervisorVars
  <2>2. ASSUME NEW t \in Tasks, SpawnPublishes(t)
        PROVE  Stands
    BY <2>2 DEF SpawnPublishes, supervisorVars
  <2>3. ASSUME NEW t \in Tasks, SpawnSubmits(t)
        PROVE  Stands
    BY <2>3 DEF SpawnSubmits, supervisorVars
  <2>4. ASSUME NEW t \in Tasks, WorkerTakes(t)
        PROVE  Stands
    BY <2>4 DEF WorkerTakes, supervisorVars
  <2>5. ASSUME NEW t \in Tasks, WorkerEnters(t)
        PROVE  Stands
    BY <2>5 DEF WorkerEnters, supervisorVars
  <2>6. ASSUME NEW t \in Tasks, WorkerAnnounces(t)
        PROVE  Stands
    BY <2>6 DEF WorkerAnnounces, supervisorVars
  <2>7. ASSUME NEW t \in Tasks, ChildBuilt(t)
        PROVE  Stands
    BY <2>7 DEF ChildBuilt, supervisorVars
  <2>8. ASSUME NEW t \in Tasks, WorkerAttaches(t)
        PROVE  Stands
    BY <2>8 DEF WorkerAttaches, supervisorVars
  <2>9. ASSUME NEW t \in Tasks, WorkerDelivers(t)
        PROVE  Stands
    BY <2>9 DEF WorkerDelivers, supervisorVars
  <2>10. ASSUME NEW t \in Tasks, ChildPrompted(t)
         PROVE  Stands
    BY <2>10 DEF ChildPrompted, supervisorVars
  <2>11. ASSUME NEW t \in Tasks, ProcessSpawned(t)
         PROVE  Stands
    BY <2>11 DEF ProcessSpawned, supervisorVars
  <2>12. ASSUME NEW t \in Tasks, ProcessRegistered(t)
         PROVE  Stands
    BY <2>12 DEF ProcessRegistered, supervisorVars
  <2>13. ASSUME NEW t \in Tasks, ChildEnds(t)
         PROVE  Stands
    BY <2>13 DEF ChildEnds, supervisorVars
  <2>14. ASSUME NEW t \in Tasks, WorkerSettles(t)
         PROVE  Stands
    BY <1>1, <2>14 DEF WorkerSettles, IInv, TypeOK
  <2>15. ASSUME NEW t \in Tasks, WorkerPublishes(t)
         PROVE  Stands
    BY <2>15 DEF WorkerPublishes, supervisorVars
  <2>16. ASSUME NEW t \in Tasks, WorkerEmits(t)
         PROVE  Stands
    BY <2>16 DEF WorkerEmits, supervisorVars
  <2>17. ASSUME NEW t \in Tasks, Cancel(t)
         PROVE  Stands
    BY <1>1, <2>17 DEF Cancel, Claim, IInv, TypeOK
  <2>18. ASSUME NEW t \in Tasks, WaitTimesOut(t)
         PROVE  Stands
    BY <1>1, <2>18 DEF WaitTimesOut, Claim, IInv, TypeOK
  <2>19. ASSUME NEW t \in Tasks, EnderControls(t)
         PROVE  Stands
    BY <2>19 DEF EnderControls, supervisorVars
  <2>20. ASSUME NEW t \in Tasks, EnderPublishes(t)
         PROVE  Stands
    BY <2>20 DEF EnderPublishes, supervisorVars
  <2>21. ASSUME NEW t \in Tasks, EnderCancelsBackend(t)
         PROVE  Stands
    BY <2>21 DEF EnderCancelsBackend, supervisorVars
  <2>22. ASSUME NEW t \in Tasks, EnderEmits(t)
         PROVE  Stands
    BY <2>22 DEF EnderEmits, supervisorVars
  <2>23. ASSUME NEW t \in Tasks, ShutdownCancels(t)
         PROVE  Stands
    BY <1>1, <2>23 DEF ShutdownCancels, Claim, IInv, TypeOK, supervisorVars
  <2>24. ASSUME NEW t \in Tasks, NEW m \in 1..MaxSteers, SteerLooks(t, m)
         PROVE  Stands
    BY <2>24 DEF SteerLooks, supervisorVars
  <2>25. ASSUME NEW t \in Tasks, NEW m \in 1..MaxSteers, SteerSends(t, m)
         PROVE  Stands
    BY <2>25 DEF SteerSends, supervisorVars
  <2>26. ASSUME ShutdownBegins
         PROVE  Stands
    BY <2>26 DEF ShutdownBegins, supervisorVars
  <2>27. ASSUME ShutdownJoins
         PROVE  Stands
    BY <2>27 DEF ShutdownJoins, supervisorVars
  <2>28. ASSUME ShutdownReturns
         PROVE  Stands
    BY <2>28 DEF ShutdownReturns, supervisorVars
  <2> QED
    BY <1>1, <2>1, <2>2, <2>3, <2>4, <2>5, <2>6, <2>7, <2>8, <2>9, <2>10, <2>11, <2>12, <2>13,
       <2>14, <2>15, <2>16, <2>17, <2>18, <2>19, <2>20, <2>21, <2>22, <2>23, <2>24, <2>25,
       <2>26, <2>27, <2>28 DEF Next, SpawnerStep, WorkerStep, EnderStep, CloserStep, vars,
       supervisorVars
<1> QED
  BY Invariance, <1>1, PTL DEF Spec, ResultStands
=============================================================================

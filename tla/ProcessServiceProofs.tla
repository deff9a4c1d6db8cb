------------------------ MODULE ProcessServiceProofs ------------------------
(***************************************************************************)
(* Proofs about ProcessService, for any processes and limits.  The         *)
(* invariants that the run checks are not inductive: they need to know how *)
(* far start(), the monitor and close() are with a process, since each of  *)
(* them writes the record in several sections, between which the others    *)
(* come.                                                                   *)
(***************************************************************************)
EXTENDS ProcessService, FiniteSetTheorems, TLAPS

\* The chunks on disk, which Used counts.
Chunks == {c \in Live \X (1..MaxSize) : c[2] <= size[c[1]]}

\* How far start() is with a process tells what there is of it.
Starting ==
    \A p \in Procs :
        /\ starter[p] = "none" => table[p] = "free" /\ size[p] = 0 /\ os[p] = "none"
        /\ (spool[p] = "none") <=> (starter[p] = "none")
        /\ starter[p] = "reserved" => os[p] = "none"
        /\ starter[p] = "spawned" => os[p] # "none"
        /\ starter[p] \in {"reserved", "spawned"} => table[p] = "starting" /\ spool[p] = "open"
        /\ starter[p] \in {"registered", "handoff"} => table[p] = "kept"
        /\ starter[p] = "returned" => table[p] \in {"kept", "gone"}
        /\ (starter[p] = "raised") <=> (table[p] \in {"never", "dropped"})
        /\ table[p] \in {"kept", "gone", "dropped"} => os[p] # "none"
        /\ starter[p] \in {"handoff", "returned"} => monitor[p] # "off"
        /\ monitor[p] # "off" => starter[p] \in {"handoff", "returned"} \/ table[p] = "dropped"
        /\ caller[p] => table[p] \in {"kept", "dropped"}
        /\ os[p] = "none" => /\ ~forced[p] /\ ~stopper[p] /\ ~input[p]
                            /\ reader[p] = "off" /\ failure[p] = "none"

\* How far the monitor is tells what is decided, stored and published.
Monitoring ==
    \A p \in Procs :
        /\ (monitor[p] = "done") <=> IsTerminal(p)
        /\ monitor[p] \in {"drain", "decide", "persist", "publish", "done"} => Exited(p)
               \/ forced[p]
        /\ monitor[p] \in {"decide", "persist", "publish", "done"}
               => spool[p] \in {"finished", "closed"}
        /\ monitor[p] \in {"persist", "publish"} => verdict[p] \in Terminal
        /\ monitor[p] \notin {"publish", "done"} => store[p] = "none"
        /\ monitor[p] = "publish" => store[p] \in {"none", verdict[p]}
        /\ monitor[p] = "done" => store[p] \in {"none", state[p]}

\* A spool is removed when no call is under way, and no call begins on it any more; a failing
\* start() removes it at once.
Reading ==
    \A p \in Procs :
        /\ ~NoCalls(p) => spool[p] # "closed" \/ table[p] = "dropped"
        /\ table[p] = "kept" /\ spool[p] = "closed" => Closed

\* close() has on its list what start() has registered, and kills all of it.
Closing ==
    /\ \A p \in todo : table[p] \in {"kept", "gone", "dropped"}
    /\ closer \in {"terminate", "kill", "force"} => Kept \subseteq todo
    /\ closer = "release" => \A p \in Kept \ todo : NoCalls(p)
    /\ closer \in {"force", "release"} => \A p \in todo : os[p] = "live" => signalled[p] = "kill"
    /\ \A p \in Procs : os[p] = "live" =>
          /\ forced[p] => signalled[p] = "kill"
          /\ table[p] = "gone" => signalled[p] = "kill"
          /\ table[p] = "kept" /\ closer \in {"force", "release", "done"} => signalled[p] = "kill"

\* The inductive invariant.
IInv == TypeOK /\ ActiveBound /\ Starting /\ Monitoring /\ Reading /\ Closing

\* _safe_signal sends to one process only, and does not take back a KILL.
LEMMA SentFacts ==
    ASSUME signalled \in [Procs -> {"none", "terminate", "kill"}],
           NEW p \in Procs, NEW s \in {"terminate", "kill"}
    PROVE  /\ Sent(p, s) \in [Procs -> {"none", "terminate", "kill"}]
           /\ \A r \in Procs \ {p} : Sent(p, s)[r] = signalled[r]
           /\ signalled[p] = "kill" => Sent(p, s)[p] = "kill"
           /\ s = "kill" => Exited(p) \/ Sent(p, s)[p] = "kill"
<1>1. CASE Exited(p) \/ signalled[p] = "kill" \/ signalled[p] = s
  BY <1>1 DEF Sent
<1>2. CASE ~(Exited(p) \/ signalled[p] = "kill" \/ signalled[p] = s)
  BY <1>2 DEF Sent
<1> QED
  BY <1>1, <1>2

\* What _begin_stop does to the record: the state of a process that has none of the terminal
\* ones may become "stopping", and nothing happens to any other process.
LEMMA StopFacts ==
    ASSUME TypeOK, NEW p \in Procs, NEW c \in {"timeout", "abort", "terminate", "kill"},
           BeginStop(p, c)
    PROVE  /\ state' \in [Procs -> States]
           /\ cause' \in [Procs -> {"none", "timeout", "request", "shutdown"}]
           /\ signalled' \in [Procs -> {"none", "terminate", "kill"}]
           /\ stopper' \in [Procs -> BOOLEAN]
           /\ \A r \in Procs \ {p} : state'[r] = state[r] /\ stopper'[r] = stopper[r]
           /\ state'[p] = state[p] \/ (~IsTerminal(p) /\ state'[p] = "stopping")
           /\ \A r \in Procs : signalled[r] = "kill" => signalled'[r] = "kill"
           /\ UNCHANGED <<os, table, failure, forced, input, spool, size, starter, caller, reader,
                          monitor, verdict, closer, todo, store>>
<1>0. signalled \in [Procs -> {"none", "terminate", "kill"}] /\ state \in [Procs -> States]
      /\ cause \in [Procs -> {"none", "timeout", "request", "shutdown"}]
      /\ stopper \in [Procs -> BOOLEAN]
  BY DEF TypeOK
<1>1. UNCHANGED <<os, table, failure, forced, input, spool, size, starter, caller, reader,
                  monitor, verdict, closer, todo, store>>
  BY DEF BeginStop, spoolVars, monitorVars, closeVars
<1>2. /\ state' \in [Procs -> States]
      /\ cause' \in [Procs -> {"none", "timeout", "request", "shutdown"}]
      /\ \A r \in Procs \ {p} : state'[r] = state[r]
      /\ state'[p] = state[p] \/ (~IsTerminal(p) /\ state'[p] = "stopping")
  <2>1. CASE MayClaim(p)
    <3>1. /\ state' = [state EXCEPT ![p] = "stopping"]
          /\ cause' = [cause EXCEPT ![p] = IF c = "timeout" THEN c ELSE "request"]
          /\ ~IsTerminal(p)
      BY <2>1 DEF BeginStop, ClaimStop, MayClaim
    <3> QED
      BY <1>0, <3>1 DEF States
  <2>2. CASE ~MayClaim(p)
    <3>1. UNCHANGED <<cause, state>>
      BY <2>2 DEF BeginStop, ClaimStop
    <3> QED
      BY <1>0, <3>1
  <2> QED
    BY <2>1, <2>2
<1>3. signalled' = signalled \/ \E s \in {"terminate", "kill"} : signalled' = Sent(p, s)
  BY DEF BeginStop
<1>4. /\ signalled' \in [Procs -> {"none", "terminate", "kill"}]
      /\ \A r \in Procs : signalled[r] = "kill" => signalled'[r] = "kill"
  BY <1>0, <1>3, SentFacts
<1>5. \E b \in BOOLEAN : stopper' = [stopper EXCEPT ![p] = b]
  BY <1>0 DEF BeginStop
<1>6. stopper' \in [Procs -> BOOLEAN] /\ \A r \in Procs \ {p} : stopper'[r] = stopper[r]
  BY <1>0, <1>5
<1> QED
  BY <1>1, <1>2, <1>4, <1>6

\* The same of _set_output_failure and _claim_input_failure.
LEMMA FailureFacts ==
    ASSUME TypeOK, NEW p \in Procs, NEW f \in {"output", "input"}, ClaimFailure(p, f)
    PROVE  /\ state' \in [Procs -> States]
           /\ failure' \in [Procs -> {"none", "output", "input", "monitor"}]
           /\ signalled' \in [Procs -> {"none", "terminate", "kill"}]
           /\ stopper' \in [Procs -> BOOLEAN]
           /\ \A r \in Procs \ {p} :
                 state'[r] = state[r] /\ stopper'[r] = stopper[r] /\ failure'[r] = failure[r]
           /\ state'[p] = state[p] \/ (~IsTerminal(p) /\ state'[p] = "stopping")
           /\ \A r \in Procs : signalled[r] = "kill" => signalled'[r] = "kill"
<1>0. signalled \in [Procs -> {"none", "terminate", "kill"}] /\ state \in [Procs -> States]
      /\ failure \in [Procs -> {"none", "output", "input", "monitor"}]
      /\ stopper \in [Procs -> BOOLEAN]
  BY DEF TypeOK
<1>1. CASE IsTerminal(p) \/ failure[p] # "none"
  <2>1. UNCHANGED <<failure, state, signalled, stopper>>
    BY <1>1 DEF ClaimFailure
  <2> QED
    BY <1>0, <2>1
<1>2. CASE ~(IsTerminal(p) \/ failure[p] # "none")
  <2>1. /\ failure' = [failure EXCEPT ![p] = f]
        /\ state' = [state EXCEPT ![p] = "stopping"]
        /\ signalled' = Sent(p, "terminate")
        /\ stopper' = [stopper EXCEPT ![p] = ~Exited(p)]
    BY <1>2 DEF ClaimFailure
  <2>2. /\ signalled' \in [Procs -> {"none", "terminate", "kill"}]
        /\ \A r \in Procs : signalled[r] = "kill" => signalled'[r] = "kill"
    BY <1>0, <2>1, SentFacts
  <2>3. state' \in [Procs -> States]
            /\ failure' \in [Procs -> {"none", "output", "input", "monitor"}]
    BY <1>0, <2>1 DEF States
  <2>4. stopper' \in [Procs -> BOOLEAN]
    BY <1>0, <2>1
  <2> QED
    BY <1>0, <1>2, <2>1, <2>2, <2>3, <2>4
<1> QED
  BY <1>1, <1>2

\* start() moves a process from section to section, and nobody else moves it back.
LEMMA StartingStep ==
    ASSUME TypeOK, Starting, Monitoring, Closing, [Next]_vars
    PROVE  Starting'
<1> USE DEF TypeOK, Starting, NoCalls, IsTerminal, Exited, Terminal, Kept, Closed, Evict,
        CloseSpool, Reclaimable, osVars, recordVars, spoolVars, threadVars, monitorVars, closeVars
<1>1. ASSUME NEW p \in Procs, StartReserves(p)
      PROVE  Starting'
  BY <1>1 DEF StartReserves
<1>2. ASSUME NEW p \in Procs, StartSpawns(p)
      PROVE  Starting'
  BY <1>2 DEF StartSpawns
<1>3. ASSUME NEW p \in Procs, StartRegisters(p)
      PROVE  Starting'
  <2>1. CASE Closed
    BY <1>3, <2>1 DEF StartRegisters
  <2>2. CASE ~Closed
    BY <1>3, <2>2 DEF StartRegisters
  <2> QED
    BY <2>1, <2>2
<1>4. ASSUME NEW p \in Procs, StartWorkers(p)
      PROVE  Starting'
  BY <1>4 DEF StartWorkers
<1>5. ASSUME NEW p \in Procs, StartReturns(p)
      PROVE  Starting'
  BY <1>5 DEF StartReturns
<1>6. ASSUME NEW p \in Procs, MonitorSees(p)
      PROVE  Starting'
  BY <1>6 DEF MonitorSees
<1>7. ASSUME NEW p \in Procs, MonitorReaps(p)
      PROVE  Starting'
  BY <1>7 DEF MonitorReaps
<1>8. ASSUME NEW p \in Procs, MonitorFinishes(p)
      PROVE  Starting'
  BY <1>8 DEF MonitorFinishes
<1>9. ASSUME NEW p \in Procs, MonitorDecides(p)
      PROVE  Starting'
  BY <1>9 DEF MonitorDecides
<1>10. ASSUME NEW p \in Procs, MonitorPersists(p)
       PROVE  Starting'
  BY <1>10 DEF MonitorPersists
<1>11. ASSUME NEW p \in Procs, MonitorPublishes(p)
       PROVE  Starting'
  BY <1>11 DEF MonitorPublishes
<1>12. ASSUME NEW p \in Procs, Timeout(p)
       PROVE  Starting'
  <2>1. BeginStop(p, "timeout")
    BY <1>12 DEF Timeout
  <2> QED
    BY <1>12, <2>1, StopFacts DEF Timeout
<1>13. ASSUME NEW p \in Procs, Abort(p)
       PROVE  Starting'
  <2>1. BeginStop(p, "abort")
    BY <1>13 DEF Abort
  <2> QED
    BY <1>13, <2>1, StopFacts DEF Abort
<1>14. ASSUME NEW p \in Procs, Escalate(p)
       PROVE  Starting'
  BY <1>14 DEF Escalate
<1>15. ASSUME NEW p \in Procs, ReapForces(p)
       PROVE  Starting'
  BY <1>15 DEF ReapForces
<1>16. ASSUME NEW p \in Procs, MonitorBreaks(p)
       PROVE  Starting'
  <2>1. signalled' = Sent(p, "terminate")
            /\ signalled \in [Procs -> {"none", "terminate", "kill"}]
    BY <1>16 DEF MonitorBreaks, TypeOK
  <2>2. \A r \in Procs : signalled[r] = "kill" => signalled'[r] = "kill"
    BY <2>1, SentFacts
  <2> QED
    BY <1>16, <2>2 DEF MonitorBreaks
<1>17. ASSUME NEW p \in Procs, ReaderAppends(p)
       PROVE  Starting'
  BY <1>17 DEF ReaderAppends
<1>18. ASSUME NEW p \in Procs, ReaderFails(p)
       PROVE  Starting'
  <2>1. ClaimFailure(p, "output")
    BY <1>18 DEF ReaderFails
  <2> QED
    BY <1>18, <2>1, FailureFacts DEF ReaderFails
<1>19. ASSUME NEW p \in Procs, ReaderEnds(p)
       PROVE  Starting'
  BY <1>19 DEF ReaderEnds
<1>20. ASSUME NEW p \in Procs, PumpWrites(p)
       PROVE  Starting'
  <2>1. CASE ClaimFailure(p, "input")
    BY <1>20, <2>1, FailureFacts DEF PumpWrites
  <2>2. CASE UNCHANGED <<failure, state, signalled, stopper>>
    BY <1>20, <2>2 DEF PumpWrites
  <2> QED
    BY <1>20, <2>1, <2>2 DEF PumpWrites
<1>21. ASSUME NEW p \in Procs, Jams(p)
       PROVE  Starting'
  BY <1>21 DEF Jams
<1>22. ASSUME NEW p \in Procs, NEW q \in Procs, ReaderReclaims(p, q)
       PROVE  Starting'
  BY <1>22 DEF ReaderReclaims
<1>23. ASSUME NEW p \in Procs, CallerEnters(p)
       PROVE  Starting'
  BY <1>23 DEF CallerEnters
<1>24. ASSUME NEW p \in Procs, CallerReturns(p)
       PROVE  Starting'
  BY <1>24 DEF CallerReturns
<1>25. ASSUME NEW p \in Procs, CallerWrites(p)
       PROVE  Starting'
  BY <1>25 DEF CallerWrites
<1>26. ASSUME NEW p \in Procs, Prune(p)
       PROVE  Starting'
  BY <1>26 DEF Prune
<1>27. ASSUME NEW p \in Procs, NEW c \in {"terminate", "kill"}, CallerStops(p, c)
       PROVE  Starting'
  <2>1. BeginStop(p, c)
    BY <1>27 DEF CallerStops
  <2> QED
    BY <1>27, <2>1, StopFacts DEF CallerStops
<1>28. ASSUME CloseBegins
       PROVE  Starting'
  BY <1>28 DEF CloseBegins
<1>29. ASSUME CloseTerminates
       PROVE  Starting'
  BY <1>29 DEF CloseTerminates
<1>30. ASSUME CloseKills
       PROVE  Starting'
  BY <1>30 DEF CloseKills
<1>31. ASSUME CloseForces
       PROVE  Starting'
  BY <1>31 DEF CloseForces, Closing
<1>32. ASSUME CloseEnds
       PROVE  Starting'
  BY <1>32 DEF CloseEnds, Closing
<1>33. ASSUME NEW p \in Procs, CloseReleases(p)
       PROVE  Starting'
  BY <1>33 DEF CloseReleases, Closing
<1>34. ASSUME NEW p \in Procs, Dies(p)
       PROVE  Starting'
  BY <1>34 DEF Dies
<1>35. ASSUME NEW p \in Procs, StartRaises(p)
       PROVE  Starting'
  BY <1>35 DEF StartRaises
<1>36. CASE UNCHANGED vars
  BY <1>36 DEF vars, osVars, recordVars, spoolVars, threadVars, monitorVars, closeVars
<1> QED
  BY Z3T(60), <1>1, <1>2, <1>3, <1>4, <1>5, <1>6, <1>7, <1>8, <1>9, <1>10, <1>11, <1>12, <1>13, <1>14,
     <1>15, <1>16, <1>17, <1>18, <1>19, <1>20, <1>21, <1>22, <1>23, <1>24, <1>25, <1>26, <1>27,
     <1>28, <1>29, <1>30, <1>31, <1>32, <1>33, <1>34, <1>35, <1>36 DEF Next, StarterStep, MonitorStep,
     WorkerStep, CallerStep, CloseStep

\* The monitor goes through its sections once, and the verdict it has decided on is the one it
\* stores and publishes, whatever fails in between.
LEMMA MonitoringStep ==
    ASSUME TypeOK, Starting, Monitoring, [Next]_vars
    PROVE  Monitoring'
<1> USE DEF TypeOK, Starting, Monitoring, IsTerminal, Exited, Terminal, Kept, Closed, Evict,
        CloseSpool, Reclaimable, TerminalState, osVars, recordVars, spoolVars, threadVars,
        monitorVars, closeVars
<1>1. ASSUME NEW p \in Procs, StartReserves(p)
      PROVE  Monitoring'
  BY <1>1 DEF StartReserves
<1>2. ASSUME NEW p \in Procs, StartSpawns(p)
      PROVE  Monitoring'
  BY <1>2 DEF StartSpawns
<1>3. ASSUME NEW p \in Procs, StartRegisters(p)
      PROVE  Monitoring'
  BY <1>3 DEF StartRegisters
<1>4. ASSUME NEW p \in Procs, StartWorkers(p)
      PROVE  Monitoring'
  BY <1>4 DEF StartWorkers
<1>5. ASSUME NEW p \in Procs, StartReturns(p)
      PROVE  Monitoring'
  BY <1>5 DEF StartReturns
<1>6. ASSUME NEW p \in Procs, MonitorSees(p)
      PROVE  Monitoring'
  BY <1>6 DEF MonitorSees
<1>7. ASSUME NEW p \in Procs, MonitorReaps(p)
      PROVE  Monitoring'
  BY <1>7 DEF MonitorReaps
<1>8. ASSUME NEW p \in Procs, MonitorFinishes(p)
      PROVE  Monitoring'
  BY <1>8 DEF MonitorFinishes
<1>9. ASSUME NEW p \in Procs, MonitorDecides(p)
      PROVE  Monitoring'
  BY <1>9 DEF MonitorDecides
<1>10. ASSUME NEW p \in Procs, MonitorPersists(p)
       PROVE  Monitoring'
  BY <1>10 DEF MonitorPersists
<1>11. ASSUME NEW p \in Procs, MonitorPublishes(p)
       PROVE  Monitoring'
  BY <1>11 DEF MonitorPublishes
<1>12. ASSUME NEW p \in Procs, Timeout(p)
       PROVE  Monitoring'
  <2>1. BeginStop(p, "timeout")
    BY <1>12 DEF Timeout
  <2> QED
    BY <1>12, <2>1, StopFacts DEF Timeout
<1>13. ASSUME NEW p \in Procs, Abort(p)
       PROVE  Monitoring'
  <2>1. BeginStop(p, "abort")
    BY <1>13 DEF Abort
  <2> QED
    BY <1>13, <2>1, StopFacts DEF Abort
<1>14. ASSUME NEW p \in Procs, Escalate(p)
       PROVE  Monitoring'
  BY <1>14 DEF Escalate
<1>15. ASSUME NEW p \in Procs, ReapForces(p)
       PROVE  Monitoring'
  BY <1>15 DEF ReapForces
<1>16. ASSUME NEW p \in Procs, MonitorBreaks(p)
       PROVE  Monitoring'
  <2>1. signalled' = Sent(p, "terminate")
            /\ signalled \in [Procs -> {"none", "terminate", "kill"}]
    BY <1>16 DEF MonitorBreaks, TypeOK
  <2>2. \A r \in Procs : signalled[r] = "kill" => signalled'[r] = "kill"
    BY <2>1, SentFacts
  <2> QED
    BY <1>16, <2>2 DEF MonitorBreaks
<1>17. ASSUME NEW p \in Procs, ReaderAppends(p)
       PROVE  Monitoring'
  BY <1>17 DEF ReaderAppends
<1>18. ASSUME NEW p \in Procs, ReaderFails(p)
       PROVE  Monitoring'
  <2>1. ClaimFailure(p, "output")
    BY <1>18 DEF ReaderFails
  <2> QED
    BY <1>18, <2>1, FailureFacts DEF ReaderFails
<1>19. ASSUME NEW p \in Procs, ReaderEnds(p)
       PROVE  Monitoring'
  BY <1>19 DEF ReaderEnds
<1>20. ASSUME NEW p \in Procs, PumpWrites(p)
       PROVE  Monitoring'
  <2>1. CASE ClaimFailure(p, "input")
    BY <1>20, <2>1, FailureFacts DEF PumpWrites
  <2>2. CASE UNCHANGED <<failure, state, signalled, stopper>>
    BY <1>20, <2>2 DEF PumpWrites
  <2> QED
    BY <1>20, <2>1, <2>2 DEF PumpWrites
<1>21. ASSUME NEW p \in Procs, Jams(p)
       PROVE  Monitoring'
  BY <1>21 DEF Jams
<1>22. ASSUME NEW p \in Procs, NEW q \in Procs, ReaderReclaims(p, q)
       PROVE  Monitoring'
  BY <1>22 DEF ReaderReclaims
<1>23. ASSUME NEW p \in Procs, CallerEnters(p)
       PROVE  Monitoring'
  BY <1>23 DEF CallerEnters
<1>24. ASSUME NEW p \in Procs, CallerReturns(p)
       PROVE  Monitoring'
  BY <1>24 DEF CallerReturns
<1>25. ASSUME NEW p \in Procs, CallerWrites(p)
       PROVE  Monitoring'
  BY <1>25 DEF CallerWrites
<1>26. ASSUME NEW p \in Procs, Prune(p)
       PROVE  Monitoring'
  BY <1>26 DEF Prune
<1>27. ASSUME NEW p \in Procs, NEW c \in {"terminate", "kill"}, CallerStops(p, c)
       PROVE  Monitoring'
  <2>1. BeginStop(p, c)
    BY <1>27 DEF CallerStops
  <2> QED
    BY <1>27, <2>1, StopFacts DEF CallerStops
<1>28. ASSUME CloseBegins
       PROVE  Monitoring'
  BY <1>28 DEF CloseBegins
<1>29. ASSUME CloseTerminates
       PROVE  Monitoring'
  BY <1>29 DEF CloseTerminates, MayClaim
<1>30. ASSUME CloseKills
       PROVE  Monitoring'
  BY <1>30 DEF CloseKills
<1>31. ASSUME CloseForces
       PROVE  Monitoring'
  BY <1>31 DEF CloseForces
<1>32. ASSUME CloseEnds
       PROVE  Monitoring'
  BY <1>32 DEF CloseEnds
<1>33. ASSUME NEW p \in Procs, CloseReleases(p)
       PROVE  Monitoring'
  BY <1>33 DEF CloseReleases
<1>34. ASSUME NEW p \in Procs, Dies(p)
       PROVE  Monitoring'
  BY <1>34 DEF Dies
<1>35. ASSUME NEW p \in Procs, StartRaises(p)
       PROVE  Monitoring'
  BY <1>35 DEF StartRaises
<1>36. CASE UNCHANGED vars
  BY <1>36 DEF vars, osVars, recordVars, spoolVars, threadVars, monitorVars, closeVars
<1> QED
  BY SMTT(60), <1>1, <1>2, <1>3, <1>4, <1>5, <1>6, <1>7, <1>8, <1>9, <1>10, <1>11, <1>12, <1>13, <1>14,
     <1>15, <1>16, <1>17, <1>18, <1>19, <1>20, <1>21, <1>22, <1>23, <1>24, <1>25, <1>26, <1>27,
     <1>28, <1>29, <1>30, <1>31, <1>32, <1>33, <1>34, <1>35, <1>36 DEF Next, StarterStep, MonitorStep,
     WorkerStep, CallerStep, CloseStep

\* A call that has entered keeps the spool of its process until it returns.
LEMMA ReadingStep ==
    ASSUME TypeOK, Starting, Monitoring, Reading, [Next]_vars
    PROVE  Reading'
<1> USE DEF TypeOK, Starting, Reading, Closed, NoCalls, Evict, CloseSpool, Reclaimable, osVars,
        recordVars, spoolVars, threadVars, monitorVars, closeVars
<1>1. ASSUME NEW p \in Procs, StartReserves(p)
      PROVE  Reading'
  BY <1>1 DEF StartReserves
<1>2. ASSUME NEW p \in Procs, StartSpawns(p)
      PROVE  Reading'
  BY <1>2 DEF StartSpawns
<1>3. ASSUME NEW p \in Procs, StartRegisters(p)
      PROVE  Reading'
  BY <1>3 DEF StartRegisters
<1>4. ASSUME NEW p \in Procs, StartWorkers(p)
      PROVE  Reading'
  BY <1>4 DEF StartWorkers
<1>5. ASSUME NEW p \in Procs, StartReturns(p)
      PROVE  Reading'
  BY <1>5 DEF StartReturns
<1>6. ASSUME NEW p \in Procs, MonitorSees(p)
      PROVE  Reading'
  BY <1>6 DEF MonitorSees
<1>7. ASSUME NEW p \in Procs, MonitorReaps(p)
      PROVE  Reading'
  BY <1>7 DEF MonitorReaps
<1>8. ASSUME NEW p \in Procs, MonitorFinishes(p)
      PROVE  Reading'
  BY <1>8 DEF MonitorFinishes
<1>9. ASSUME NEW p \in Procs, MonitorDecides(p)
      PROVE  Reading'
  BY <1>9 DEF MonitorDecides
<1>10. ASSUME NEW p \in Procs, MonitorPersists(p)
       PROVE  Reading'
  BY <1>10 DEF MonitorPersists
<1>11. ASSUME NEW p \in Procs, MonitorPublishes(p)
       PROVE  Reading'
  BY <1>11 DEF MonitorPublishes
<1>12. ASSUME NEW p \in Procs, Timeout(p)
       PROVE  Reading'
  <2>1. BeginStop(p, "timeout")
    BY <1>12 DEF Timeout
  <2> QED
    BY <1>12, <2>1, StopFacts DEF Timeout
<1>13. ASSUME NEW p \in Procs, Abort(p)
       PROVE  Reading'
  <2>1. BeginStop(p, "abort")
    BY <1>13 DEF Abort
  <2> QED
    BY <1>13, <2>1, StopFacts DEF Abort
<1>14. ASSUME NEW p \in Procs, Escalate(p)
       PROVE  Reading'
  BY <1>14 DEF Escalate
<1>15. ASSUME NEW p \in Procs, ReapForces(p)
       PROVE  Reading'
  BY <1>15 DEF ReapForces
<1>16. ASSUME NEW p \in Procs, MonitorBreaks(p)
       PROVE  Reading'
  <2>1. signalled' = Sent(p, "terminate")
            /\ signalled \in [Procs -> {"none", "terminate", "kill"}]
    BY <1>16 DEF MonitorBreaks, TypeOK
  <2>2. \A r \in Procs : signalled[r] = "kill" => signalled'[r] = "kill"
    BY <2>1, SentFacts
  <2> QED
    BY <1>16, <2>2 DEF MonitorBreaks
<1>17. ASSUME NEW p \in Procs, ReaderAppends(p)
       PROVE  Reading'
  BY <1>17 DEF ReaderAppends
<1>18. ASSUME NEW p \in Procs, ReaderFails(p)
       PROVE  Reading'
  <2>1. ClaimFailure(p, "output")
    BY <1>18 DEF ReaderFails
  <2> QED
    BY <1>18, <2>1, FailureFacts DEF ReaderFails
<1>19. ASSUME NEW p \in Procs, ReaderEnds(p)
       PROVE  Reading'
  BY <1>19 DEF ReaderEnds
<1>20. ASSUME NEW p \in Procs, PumpWrites(p)
       PROVE  Reading'
  <2>1. CASE ClaimFailure(p, "input")
    BY <1>20, <2>1, FailureFacts DEF PumpWrites
  <2>2. CASE UNCHANGED <<failure, state, signalled, stopper>>
    BY <1>20, <2>2 DEF PumpWrites
  <2> QED
    BY <1>20, <2>1, <2>2 DEF PumpWrites
<1>21. ASSUME NEW p \in Procs, Jams(p)
       PROVE  Reading'
  BY <1>21 DEF Jams
<1>22. ASSUME NEW p \in Procs, NEW q \in Procs, ReaderReclaims(p, q)
       PROVE  Reading'
  BY <1>22 DEF ReaderReclaims
<1>23. ASSUME NEW p \in Procs, CallerEnters(p)
       PROVE  Reading'
  BY <1>23 DEF CallerEnters
<1>24. ASSUME NEW p \in Procs, CallerReturns(p)
       PROVE  Reading'
  BY <1>24 DEF CallerReturns
<1>25. ASSUME NEW p \in Procs, CallerWrites(p)
       PROVE  Reading'
  BY <1>25 DEF CallerWrites
<1>26. ASSUME NEW p \in Procs, Prune(p)
       PROVE  Reading'
  BY <1>26 DEF Prune
<1>27. ASSUME NEW p \in Procs, NEW c \in {"terminate", "kill"}, CallerStops(p, c)
       PROVE  Reading'
  <2>1. BeginStop(p, c)
    BY <1>27 DEF CallerStops
  <2> QED
    BY <1>27, <2>1, StopFacts DEF CallerStops
<1>28. ASSUME CloseBegins
       PROVE  Reading'
  BY <1>28 DEF CloseBegins
<1>29. ASSUME CloseTerminates
       PROVE  Reading'
  BY <1>29 DEF CloseTerminates
<1>30. ASSUME CloseKills
       PROVE  Reading'
  BY <1>30 DEF CloseKills
<1>31. ASSUME CloseForces
       PROVE  Reading'
  BY <1>31 DEF CloseForces
<1>32. ASSUME CloseEnds
       PROVE  Reading'
  <2>1. /\ UNCHANGED <<spool, caller, starter>> /\ closer' # "no"
        /\ \A r \in Procs : table'[r] = table[r] \/ (table'[r] = "gone" /\ table[r] = "kept")
    <3>1. UNCHANGED <<spool, caller, starter>> /\ closer' = "done"
      BY <1>32 DEF CloseEnds
    <3>2. table' = [r \in Procs |-> IF r \in Kept THEN "gone" ELSE table[r]]
      BY <1>32 DEF CloseEnds
    <3>3. \A r \in Procs : table'[r] = table[r] \/ (table'[r] = "gone" /\ table[r] = "kept")
      <4> HIDE DEF TypeOK, Starting, Reading, Evict
      <4> QED
        BY <3>2 DEF Kept
    <3> QED
      BY <3>1, <3>3
  <2>2. \A r \in Procs : ~NoCalls(r) => spool[r] # "closed" \/ table[r] = "dropped"
    OBVIOUS
  <2> QED
    BY <2>1, <2>2
<1>33. ASSUME NEW p \in Procs, CloseReleases(p)
       PROVE  Reading'
  BY <1>33 DEF CloseReleases
<1>34. ASSUME NEW p \in Procs, Dies(p)
       PROVE  Reading'
  BY <1>34 DEF Dies
<1>35. ASSUME NEW p \in Procs, StartRaises(p)
       PROVE  Reading'
  BY <1>35 DEF StartRaises
<1>36. CASE UNCHANGED vars
  BY <1>36 DEF vars, osVars, recordVars, spoolVars, threadVars, monitorVars, closeVars
<1> QED
  BY <1>1, <1>2, <1>3, <1>4, <1>5, <1>6, <1>7, <1>8, <1>9, <1>10, <1>11, <1>12, <1>13, <1>14,
     <1>15, <1>16, <1>17, <1>18, <1>19, <1>20, <1>21, <1>22, <1>23, <1>24, <1>25, <1>26, <1>27,
     <1>28, <1>29, <1>30, <1>31, <1>32, <1>33, <1>34, <1>35, <1>36 DEF Next, StarterStep, MonitorStep,
     WorkerStep, CallerStep, CloseStep

\* What close() has found registered is killed, or gone, before it gives up waiting.
LEMMA ClosingStep ==
    ASSUME TypeOK, Starting, Monitoring, Closing, [Next]_vars
    PROVE  Closing'
<1> USE DEF TypeOK, Starting, Monitoring, Closing, NoCalls, IsTerminal, Exited, Kept, Closed,
        Evict, CloseSpool, Reclaimable, osVars, recordVars, spoolVars, threadVars, monitorVars,
        closeVars
<1>1. ASSUME NEW p \in Procs, StartReserves(p)
      PROVE  Closing'
  BY <1>1 DEF StartReserves
<1>2. ASSUME NEW p \in Procs, StartSpawns(p)
      PROVE  Closing'
  BY SMTT(60), <1>2 DEF StartSpawns
<1>3. ASSUME NEW p \in Procs, StartRegisters(p)
      PROVE  Closing'
  BY <1>3 DEF StartRegisters
<1>4. ASSUME NEW p \in Procs, StartWorkers(p)
      PROVE  Closing'
  BY <1>4 DEF StartWorkers
<1>5. ASSUME NEW p \in Procs, StartReturns(p)
      PROVE  Closing'
  BY <1>5 DEF StartReturns
<1>6. ASSUME NEW p \in Procs, MonitorSees(p)
      PROVE  Closing'
  BY <1>6 DEF MonitorSees
<1>7. ASSUME NEW p \in Procs, MonitorReaps(p)
      PROVE  Closing'
  BY <1>7 DEF MonitorReaps
<1>8. ASSUME NEW p \in Procs, MonitorFinishes(p)
      PROVE  Closing'
  BY <1>8 DEF MonitorFinishes
<1>9. ASSUME NEW p \in Procs, MonitorDecides(p)
      PROVE  Closing'
  BY <1>9 DEF MonitorDecides
<1>10. ASSUME NEW p \in Procs, MonitorPersists(p)
       PROVE  Closing'
  BY <1>10 DEF MonitorPersists
<1>11. ASSUME NEW p \in Procs, MonitorPublishes(p)
       PROVE  Closing'
  BY <1>11 DEF MonitorPublishes
<1>12. ASSUME NEW p \in Procs, Timeout(p)
       PROVE  Closing'
  <2>1. BeginStop(p, "timeout")
    BY <1>12 DEF Timeout
  <2> QED
    BY <1>12, <2>1, StopFacts DEF Timeout
<1>13. ASSUME NEW p \in Procs, Abort(p)
       PROVE  Closing'
  <2>1. BeginStop(p, "abort")
    BY <1>13 DEF Abort
  <2> QED
    BY <1>13, <2>1, StopFacts DEF Abort
<1>14. ASSUME NEW p \in Procs, Escalate(p)
       PROVE  Closing'
  <2>0. signalled \in [Procs -> {"none", "terminate", "kill"}]
    BY DEF TypeOK
  <2>1. \A r \in Procs : signalled[r] = "kill" => signalled'[r] = "kill"
    BY <1>14, <2>0, SentFacts DEF Escalate
  <2> QED
    BY <1>14, <2>1 DEF Escalate
<1>15. ASSUME NEW p \in Procs, ReapForces(p)
       PROVE  Closing'
  BY <1>15 DEF ReapForces
<1>16. ASSUME NEW p \in Procs, MonitorBreaks(p)
       PROVE  Closing'
  <2>1. signalled' = Sent(p, "terminate")
            /\ signalled \in [Procs -> {"none", "terminate", "kill"}]
    BY <1>16 DEF MonitorBreaks, TypeOK
  <2>2. \A r \in Procs : signalled[r] = "kill" => signalled'[r] = "kill"
    BY <2>1, SentFacts
  <2> QED
    BY <1>16, <2>2 DEF MonitorBreaks
<1>17. ASSUME NEW p \in Procs, ReaderAppends(p)
       PROVE  Closing'
  BY <1>17 DEF ReaderAppends
<1>18. ASSUME NEW p \in Procs, ReaderFails(p)
       PROVE  Closing'
  <2>1. ClaimFailure(p, "output")
    BY <1>18 DEF ReaderFails
  <2> QED
    BY <1>18, <2>1, FailureFacts DEF ReaderFails
<1>19. ASSUME NEW p \in Procs, ReaderEnds(p)
       PROVE  Closing'
  BY <1>19 DEF ReaderEnds
<1>20. ASSUME NEW p \in Procs, PumpWrites(p)
       PROVE  Closing'
  <2>1. CASE ClaimFailure(p, "input")
    BY <1>20, <2>1, FailureFacts DEF PumpWrites
  <2>2. CASE UNCHANGED <<failure, state, signalled, stopper>>
    BY <1>20, <2>2 DEF PumpWrites
  <2> QED
    BY <1>20, <2>1, <2>2 DEF PumpWrites
<1>21. ASSUME NEW p \in Procs, Jams(p)
       PROVE  Closing'
  BY <1>21 DEF Jams
<1>22. ASSUME NEW p \in Procs, NEW q \in Procs, ReaderReclaims(p, q)
       PROVE  Closing'
  BY <1>22 DEF ReaderReclaims
<1>23. ASSUME NEW p \in Procs, CallerEnters(p)
       PROVE  Closing'
  BY <1>23 DEF CallerEnters
<1>24. ASSUME NEW p \in Procs, CallerReturns(p)
       PROVE  Closing'
  BY <1>24 DEF CallerReturns
<1>25. ASSUME NEW p \in Procs, CallerWrites(p)
       PROVE  Closing'
  BY <1>25 DEF CallerWrites
<1>26. ASSUME NEW p \in Procs, Prune(p)
       PROVE  Closing'
  BY <1>26 DEF Prune
<1>27. ASSUME NEW p \in Procs, NEW c \in {"terminate", "kill"}, CallerStops(p, c)
       PROVE  Closing'
  <2>1. BeginStop(p, c)
    BY <1>27 DEF CallerStops
  <2> QED
    BY <1>27, <2>1, StopFacts DEF CallerStops
<1>28. ASSUME CloseBegins
       PROVE  Closing'
  BY <1>28 DEF CloseBegins
<1>29. ASSUME CloseTerminates
       PROVE  Closing'
  <2>0. signalled \in [Procs -> {"none", "terminate", "kill"}]
    BY DEF TypeOK
  <2>1. \A r \in Procs : signalled[r] = "kill" => signalled'[r] = "kill"
    BY <1>29, <2>0, SentFacts DEF CloseTerminates
  <2> QED
    BY <1>29, <2>1 DEF CloseTerminates
<1>30. ASSUME CloseKills
       PROVE  Closing'
  <2>0. signalled \in [Procs -> {"none", "terminate", "kill"}]
    BY DEF TypeOK
  <2>1. \A r \in Procs : signalled[r] = "kill" => signalled'[r] = "kill"
    BY <1>30, <2>0, SentFacts DEF CloseKills
  <2>2. \A r \in todo : os[r] = "live" => signalled'[r] = "kill"
    BY <1>30, <2>0, SentFacts DEF CloseKills
  <2> QED
    BY <1>30, <2>1, <2>2 DEF CloseKills
<1>31. ASSUME CloseForces
       PROVE  Closing'
  BY <1>31 DEF CloseForces
<1>32. ASSUME CloseEnds
       PROVE  Closing'
  BY <1>32 DEF CloseEnds
<1>33. ASSUME NEW p \in Procs, CloseReleases(p)
       PROVE  Closing'
  BY <1>33 DEF CloseReleases
<1>34. ASSUME NEW p \in Procs, Dies(p)
       PROVE  Closing'
  BY <1>34 DEF Dies
<1>35. ASSUME NEW p \in Procs, StartRaises(p)
       PROVE  Closing'
  BY <1>35 DEF StartRaises
<1>36. CASE UNCHANGED vars
  BY <1>36 DEF vars, osVars, recordVars, spoolVars, threadVars, monitorVars, closeVars
<1> QED
  BY <1>1, <1>2, <1>3, <1>4, <1>5, <1>6, <1>7, <1>8, <1>9, <1>10, <1>11, <1>12, <1>13, <1>14,
     <1>15, <1>16, <1>17, <1>18, <1>19, <1>20, <1>21, <1>22, <1>23, <1>24, <1>25, <1>26, <1>27,
     <1>28, <1>29, <1>30, <1>31, <1>32, <1>33, <1>34, <1>35, <1>36 DEF Next, StarterStep, MonitorStep,
     WorkerStep, CallerStep, CloseStep

\* Fewer processes under way are still within the limit.
LEMMA ActiveShrinks ==
    ASSUME ActiveBound, Active' \subseteq Active
    PROVE  ActiveBound'
<1>1. IsFiniteSet(Active)
  BY ServiceAssumption, FS_Subset DEF Active, Kept
<1>2. Cardinality(Active') <= Cardinality(Active) /\ IsFiniteSet(Active')
  BY <1>1, FS_Subset
<1>3. Cardinality(Active) \in Nat /\ Cardinality(Active') \in Nat
  BY <1>1, <1>2, FS_CardinalityType
<1> QED
  BY <1>2, <1>3, ServiceAssumption DEF ActiveBound

\* The limit is looked at under the lock in which a place is taken, and a terminal state is final.
LEMMA ActiveStep ==
    ASSUME TypeOK, ActiveBound, Starting, Monitoring, [Next]_vars
    PROVE  ActiveBound'
<1>1. ASSUME NEW p \in Procs, StartReserves(p)
      PROVE  ActiveBound'
  <2>1. Active' \subseteq Active \cup {p} /\ Cardinality(Active) < MaxActive
    BY <1>1 DEF StartReserves, TypeOK, Active, Kept, IsTerminal, recordVars
  <2>2. IsFiniteSet(Active)
    BY ServiceAssumption, FS_Subset DEF Active, Kept
  <2>3. IsFiniteSet(Active \cup {p}) /\ Cardinality(Active \cup {p}) <= Cardinality(Active) + 1
    BY <2>2, FS_AddElement, FS_CardinalityType
  <2>4. IsFiniteSet(Active') /\ Cardinality(Active') <= Cardinality(Active \cup {p})
    BY <2>1, <2>3, FS_Subset
  <2>5. /\ Cardinality(Active) \in Nat /\ Cardinality(Active \cup {p}) \in Nat
        /\ Cardinality(Active') \in Nat
    BY <2>2, <2>3, <2>4, FS_CardinalityType
  <2> QED
    BY <2>1, <2>3, <2>4, <2>5, ServiceAssumption DEF ActiveBound
<1>2. ASSUME NEW p \in Procs, StartSpawns(p)
      PROVE  ActiveBound'
  <2>1. Active' \subseteq Active
    BY <1>2 DEF StartSpawns, TypeOK, Active, Kept, IsTerminal, Terminal, Evict, Starting,
       osVars, recordVars, spoolVars, threadVars, monitorVars, closeVars
  <2> QED
    BY <2>1, ActiveShrinks
<1>3. ASSUME NEW p \in Procs, StartRegisters(p)
      PROVE  ActiveBound'
  <2>1. Active' \subseteq Active
    BY <1>3 DEF StartRegisters, TypeOK, Active, Kept, IsTerminal, Terminal, Evict, Starting,
       osVars, recordVars, spoolVars, threadVars, monitorVars, closeVars
  <2> QED
    BY <2>1, ActiveShrinks
<1>4. ASSUME NEW p \in Procs, StartWorkers(p)
      PROVE  ActiveBound'
  <2>1. Active' \subseteq Active
    BY <1>4 DEF StartWorkers, TypeOK, Active, Kept, IsTerminal, Terminal, Evict, Starting,
       osVars, recordVars, spoolVars, threadVars, monitorVars, closeVars
  <2> QED
    BY <2>1, ActiveShrinks
<1>5. ASSUME NEW p \in Procs, StartReturns(p)
      PROVE  ActiveBound'
  <2>1. Active' \subseteq Active
    BY <1>5 DEF StartReturns, TypeOK, Active, Kept, IsTerminal, Terminal, Evict, Starting,
       osVars, recordVars, spoolVars, threadVars, monitorVars, closeVars
  <2> QED
    BY <2>1, ActiveShrinks
<1>6. ASSUME NEW p \in Procs, MonitorSees(p)
      PROVE  ActiveBound'
  <2>1. Active' \subseteq Active
    BY <1>6 DEF MonitorSees, TypeOK, Active, Kept, IsTerminal, Terminal, Evict, Starting,
       osVars, recordVars, spoolVars, threadVars, monitorVars, closeVars, Monitoring
  <2> QED
    BY <2>1, ActiveShrinks
<1>7. ASSUME NEW p \in Procs, MonitorReaps(p)
      PROVE  ActiveBound'
  <2>1. Active' \subseteq Active
    BY <1>7 DEF MonitorReaps, TypeOK, Active, Kept, IsTerminal, Terminal, Evict, Starting,
       osVars, recordVars, spoolVars, threadVars, monitorVars, closeVars
  <2> QED
    BY <2>1, ActiveShrinks
<1>8. ASSUME NEW p \in Procs, MonitorFinishes(p)
      PROVE  ActiveBound'
  <2>1. Active' \subseteq Active
    BY <1>8 DEF MonitorFinishes, TypeOK, Active, Kept, IsTerminal, Terminal, Evict, Starting,
       osVars, recordVars, spoolVars, threadVars, monitorVars, closeVars, Monitoring
  <2> QED
    BY <2>1, ActiveShrinks
<1>9. ASSUME NEW p \in Procs, MonitorDecides(p)
      PROVE  ActiveBound'
  <2>1. Active' \subseteq Active
    BY <1>9 DEF MonitorDecides, TypeOK, Active, Kept, IsTerminal, Terminal, Evict, Starting,
       osVars, recordVars, spoolVars, threadVars, monitorVars, closeVars
  <2> QED
    BY <2>1, ActiveShrinks
<1>10. ASSUME NEW p \in Procs, MonitorPersists(p)
       PROVE  ActiveBound'
  <2>1. Active' \subseteq Active
    BY <1>10 DEF MonitorPersists, TypeOK, Active, Kept, IsTerminal, Terminal, Evict, Starting,
       osVars, recordVars, spoolVars, threadVars, monitorVars, closeVars
  <2> QED
    BY <2>1, ActiveShrinks
<1>11. ASSUME NEW p \in Procs, MonitorPublishes(p)
       PROVE  ActiveBound'
  <2>1. Active' \subseteq Active
    BY <1>11 DEF MonitorPublishes, TypeOK, Active, Kept, IsTerminal, Terminal, Evict, Starting,
       osVars, recordVars, spoolVars, threadVars, monitorVars, closeVars, Monitoring
  <2> QED
    BY <2>1, ActiveShrinks
<1>12. ASSUME NEW p \in Procs, Timeout(p)
       PROVE  ActiveBound'
  <2>0. BeginStop(p, "timeout")
    BY <1>12 DEF Timeout
  <2>1. Active' \subseteq Active
    BY <2>0, StopFacts DEF Active, Kept, IsTerminal, Terminal
  <2> QED
    BY <2>1, ActiveShrinks
<1>13. ASSUME NEW p \in Procs, Abort(p)
       PROVE  ActiveBound'
  <2>0. BeginStop(p, "abort")
    BY <1>13 DEF Abort
  <2>1. Active' \subseteq Active
    BY <2>0, StopFacts DEF Active, Kept, IsTerminal, Terminal
  <2> QED
    BY <2>1, ActiveShrinks
<1>14. ASSUME NEW p \in Procs, Escalate(p)
       PROVE  ActiveBound'
  <2>1. Active' \subseteq Active
    BY <1>14 DEF Escalate, TypeOK, Active, Kept, IsTerminal, Terminal, Evict, Starting, osVars,
       recordVars, spoolVars, threadVars, monitorVars, closeVars
  <2> QED
    BY <2>1, ActiveShrinks
<1>15. ASSUME NEW p \in Procs, ReapForces(p)
       PROVE  ActiveBound'
  <2>1. Active' \subseteq Active
    BY <1>15 DEF ReapForces, TypeOK, Active, Kept, IsTerminal, Terminal, Evict, Starting,
       osVars, recordVars, spoolVars, threadVars, monitorVars, closeVars
  <2> QED
    BY <2>1, ActiveShrinks
<1>16. ASSUME NEW p \in Procs, MonitorBreaks(p)
       PROVE  ActiveBound'
  <2>1. Active' \subseteq Active
    BY <1>16 DEF MonitorBreaks, TypeOK, Active, Kept, IsTerminal, Terminal, Evict, Starting,
       osVars, recordVars, spoolVars, threadVars, monitorVars, closeVars, Monitoring
  <2> QED
    BY <2>1, ActiveShrinks
<1>17. ASSUME NEW p \in Procs, ReaderAppends(p)
       PROVE  ActiveBound'
  <2>1. Active' \subseteq Active
    BY <1>17 DEF ReaderAppends, TypeOK, Active, Kept, IsTerminal, Terminal, Evict, Starting,
       osVars, recordVars, spoolVars, threadVars, monitorVars, closeVars
  <2> QED
    BY <2>1, ActiveShrinks
<1>18. ASSUME NEW p \in Procs, ReaderFails(p)
       PROVE  ActiveBound'
  <2>0. ClaimFailure(p, "output") /\ table' = table
    BY <1>18 DEF ReaderFails
  <2>1. Active' \subseteq Active
    BY <2>0, FailureFacts DEF Active, Kept, IsTerminal, Terminal
  <2> QED
    BY <2>1, ActiveShrinks
<1>19. ASSUME NEW p \in Procs, ReaderEnds(p)
       PROVE  ActiveBound'
  <2>1. Active' \subseteq Active
    BY <1>19 DEF ReaderEnds, TypeOK, Active, Kept, IsTerminal, Terminal, Evict, Starting,
       osVars, recordVars, spoolVars, threadVars, monitorVars, closeVars
  <2> QED
    BY <2>1, ActiveShrinks
<1>20. ASSUME NEW p \in Procs, PumpWrites(p)
       PROVE  ActiveBound'
  <2>0. table' = table /\ (ClaimFailure(p, "input") \/ state' = state)
    BY <1>20 DEF PumpWrites
  <2>1. Active' \subseteq Active
    BY <2>0, FailureFacts DEF Active, Kept, IsTerminal, Terminal
  <2> QED
    BY <2>1, ActiveShrinks
<1>21. ASSUME NEW p \in Procs, Jams(p)
       PROVE  ActiveBound'
  <2>1. Active' \subseteq Active
    BY <1>21 DEF Jams, TypeOK, Active, Kept, IsTerminal, Terminal, Evict, Starting, osVars,
       recordVars, spoolVars, threadVars, monitorVars, closeVars
  <2> QED
    BY <2>1, ActiveShrinks
<1>22. ASSUME NEW p \in Procs, NEW q \in Procs, ReaderReclaims(p, q)
       PROVE  ActiveBound'
  <2>1. Active' \subseteq Active
    BY <1>22 DEF ReaderReclaims, TypeOK, Active, Kept, IsTerminal, Terminal, Evict, Starting,
       osVars, recordVars, spoolVars, threadVars, monitorVars, closeVars
  <2> QED
    BY <2>1, ActiveShrinks
<1>23. ASSUME NEW p \in Procs, CallerEnters(p)
       PROVE  ActiveBound'
  <2>1. Active' \subseteq Active
    BY <1>23 DEF CallerEnters, TypeOK, Active, Kept, IsTerminal, Terminal, Evict, Starting,
       osVars, recordVars, spoolVars, threadVars, monitorVars, closeVars
  <2> QED
    BY <2>1, ActiveShrinks
<1>24. ASSUME NEW p \in Procs, CallerReturns(p)
       PROVE  ActiveBound'
  <2>1. Active' \subseteq Active
    BY <1>24 DEF CallerReturns, TypeOK, Active, Kept, IsTerminal, Terminal, Evict, Starting,
       osVars, recordVars, spoolVars, threadVars, monitorVars, closeVars
  <2> QED
    BY <2>1, ActiveShrinks
<1>25. ASSUME NEW p \in Procs, CallerWrites(p)
       PROVE  ActiveBound'
  <2>1. Active' \subseteq Active
    BY <1>25 DEF CallerWrites, TypeOK, Active, Kept, IsTerminal, Terminal, Evict, Starting,
       osVars, recordVars, spoolVars, threadVars, monitorVars, closeVars
  <2> QED
    BY <2>1, ActiveShrinks
<1>26. ASSUME NEW p \in Procs, Prune(p)
       PROVE  ActiveBound'
  <2>1. Active' \subseteq Active
    BY <1>26 DEF Prune, TypeOK, Active, Kept, IsTerminal, Terminal, Evict, Starting, osVars,
       recordVars, spoolVars, threadVars, monitorVars, closeVars
  <2> QED
    BY <2>1, ActiveShrinks
<1>27. ASSUME NEW p \in Procs, NEW c \in {"terminate", "kill"}, CallerStops(p, c)
       PROVE  ActiveBound'
  <2>0. BeginStop(p, c)
    BY <1>27 DEF CallerStops
  <2>1. Active' \subseteq Active
    BY <2>0, StopFacts DEF Active, Kept, IsTerminal, Terminal
  <2> QED
    BY <2>1, ActiveShrinks
<1>28. ASSUME CloseBegins
       PROVE  ActiveBound'
  <2>1. Active' \subseteq Active
    BY <1>28 DEF CloseBegins, TypeOK, Active, Kept, IsTerminal, Terminal, Evict, Starting,
       osVars, recordVars, spoolVars, threadVars, monitorVars, closeVars
  <2> QED
    BY <2>1, ActiveShrinks
<1>29. ASSUME CloseTerminates
       PROVE  ActiveBound'
  <2>1. Active' \subseteq Active
    BY <1>29 DEF CloseTerminates, TypeOK, Active, Kept, IsTerminal, Terminal, Evict, Starting,
       osVars, recordVars, spoolVars, threadVars, monitorVars, closeVars, MayClaim
  <2> QED
    BY <2>1, ActiveShrinks
<1>30. ASSUME CloseKills
       PROVE  ActiveBound'
  <2>1. Active' \subseteq Active
    BY <1>30 DEF CloseKills, TypeOK, Active, Kept, IsTerminal, Terminal, Evict, Starting,
       osVars, recordVars, spoolVars, threadVars, monitorVars, closeVars
  <2> QED
    BY <2>1, ActiveShrinks
<1>31. ASSUME CloseForces
       PROVE  ActiveBound'
  <2>1. Active' \subseteq Active
    BY <1>31 DEF CloseForces, TypeOK, Active, Kept, IsTerminal, Terminal, Evict, Starting,
       osVars, recordVars, spoolVars, threadVars, monitorVars, closeVars
  <2> QED
    BY <2>1, ActiveShrinks
<1>32. ASSUME CloseEnds
       PROVE  ActiveBound'
  <2>1. Active' \subseteq Active
    BY <1>32 DEF CloseEnds, TypeOK, Active, Kept, IsTerminal, Terminal, Evict, Starting, osVars,
       recordVars, spoolVars, threadVars, monitorVars, closeVars
  <2> QED
    BY <2>1, ActiveShrinks
<1>33. ASSUME NEW p \in Procs, CloseReleases(p)
       PROVE  ActiveBound'
  <2>1. Active' \subseteq Active
    BY <1>33 DEF CloseReleases, TypeOK, Active, Kept, IsTerminal, Terminal, Evict, Starting,
       osVars, recordVars, spoolVars, threadVars, monitorVars, closeVars
  <2> QED
    BY <2>1, ActiveShrinks
<1>34. ASSUME NEW p \in Procs, Dies(p)
       PROVE  ActiveBound'
  <2>1. Active' \subseteq Active
    BY <1>34 DEF Dies, TypeOK, Active, Kept, IsTerminal, Terminal, Evict, Starting, osVars,
       recordVars, spoolVars, threadVars, monitorVars, closeVars
  <2> QED
    BY <2>1, ActiveShrinks
<1>35. ASSUME NEW p \in Procs, StartRaises(p)
       PROVE  ActiveBound'
  <2>1. Active' \subseteq Active
    BY <1>35 DEF StartRaises, TypeOK, Active, Kept, IsTerminal, Terminal, Starting, recordVars
  <2> QED
    BY <2>1, ActiveShrinks
<1>36. CASE UNCHANGED vars
  BY <1>36 DEF vars, osVars, recordVars, spoolVars, threadVars, monitorVars, closeVars,
     ActiveBound, Active, Kept, IsTerminal
<1> QED
  BY <1>1, <1>2, <1>3, <1>4, <1>5, <1>6, <1>7, <1>8, <1>9, <1>10, <1>11, <1>12, <1>13, <1>14,
     <1>15, <1>16, <1>17, <1>18, <1>19, <1>20, <1>21, <1>22, <1>23, <1>24, <1>25, <1>26, <1>27,
     <1>28, <1>29, <1>30, <1>31, <1>32, <1>33, <1>34, <1>35, <1>36 DEF Next, StarterStep, MonitorStep,
     WorkerStep, CallerStep, CloseStep

\* The chunks on disk are finitely many ...
LEMMA ChunksFinite == IsFiniteSet(Chunks)
<1>1. 1 \in Int /\ MaxSize \in Int
  BY ServiceAssumption
<1>2. IsFiniteSet(1..MaxSize)
  BY <1>1, FS_Interval
<1>3. IsFiniteSet(Procs \X (1..MaxSize))
  BY <1>2, ServiceAssumption, FS_Product
<1>4. Chunks \in SUBSET (Procs \X (1..MaxSize))
  BY DEF Chunks, Live
<1> QED
  BY <1>3, <1>4, FS_Subset

\* ... and their number does not grow when they become fewer.
LEMMA ChunksShrink ==
    ASSUME TypeOK, Chunks' \subseteq Chunks
    PROVE  Used' <= MaxLive
<1>2. IsFiniteSet(Chunks)
  BY ChunksFinite
<1>3. Cardinality(Chunks') <= Cardinality(Chunks) /\ IsFiniteSet(Chunks')
  BY <1>2, FS_Subset
<1>4. Cardinality(Chunks) \in Nat /\ Cardinality(Chunks') \in Nat
  BY <1>2, <1>3, FS_CardinalityType
<1>5. Used = Cardinality(Chunks) /\ Used' = Cardinality(Chunks')
  BY DEF Used, Chunks
<1> QED
  BY <1>3, <1>4, <1>5, ServiceAssumption DEF TypeOK

\* The budget of the spools is looked at before a chunk is appended.
LEMMA BudgetStep ==
    ASSUME TypeOK, Starting, [Next]_vars
    PROVE  Used' <= MaxLive
<1>1. ASSUME NEW p \in Procs, StartReserves(p)
      PROVE  Used' <= MaxLive
  <2>0. /\ size' = size /\ size[p] = 0
        /\ \A r \in Procs \ {p} : spool'[r] = spool[r]
    BY <1>1 DEF StartReserves, Starting, TypeOK
  <2>1. Chunks' \subseteq Chunks
    BY <2>0 DEF Chunks, Live
  <2> QED
    BY <2>1, ChunksShrink
<1>2. ASSUME NEW p \in Procs, StartSpawns(p)
      PROVE  Used' <= MaxLive
  <2>0. size' = size /\ \A r \in Procs : spool'[r] \in {"open", "finished"}
            => spool[r] \in {"open", "finished"}
    BY <1>2 DEF StartSpawns, TypeOK, osVars, recordVars, spoolVars, threadVars, monitorVars,
       closeVars
  <2>1. Chunks' \subseteq Chunks
    BY <2>0 DEF Chunks, Live
  <2> QED
    BY <2>1, ChunksShrink
<1>3. ASSUME NEW p \in Procs, StartRegisters(p)
      PROVE  Used' <= MaxLive
  <2>0. size' = size /\ \A r \in Procs : spool'[r] \in {"open", "finished"}
            => spool[r] \in {"open", "finished"}
    BY <1>3 DEF StartRegisters, TypeOK, osVars, recordVars, spoolVars, threadVars, monitorVars,
       closeVars
  <2>1. Chunks' \subseteq Chunks
    BY <2>0 DEF Chunks, Live
  <2> QED
    BY <2>1, ChunksShrink
<1>4. ASSUME NEW p \in Procs, StartWorkers(p)
      PROVE  Used' <= MaxLive
  <2>1. Chunks' \subseteq Chunks
    BY <1>4 DEF StartWorkers, Chunks, Live, osVars, recordVars, spoolVars, threadVars,
       monitorVars, closeVars
  <2> QED
    BY <2>1, ChunksShrink
<1>5. ASSUME NEW p \in Procs, StartReturns(p)
      PROVE  Used' <= MaxLive
  <2>1. Chunks' \subseteq Chunks
    BY <1>5 DEF StartReturns, Chunks, Live, osVars, recordVars, spoolVars, threadVars,
       monitorVars, closeVars
  <2> QED
    BY <2>1, ChunksShrink
<1>6. ASSUME NEW p \in Procs, MonitorSees(p)
      PROVE  Used' <= MaxLive
  <2>1. Chunks' \subseteq Chunks
    BY <1>6 DEF MonitorSees, Chunks, Live, osVars, recordVars, spoolVars, threadVars,
       monitorVars, closeVars
  <2> QED
    BY <2>1, ChunksShrink
<1>7. ASSUME NEW p \in Procs, MonitorReaps(p)
      PROVE  Used' <= MaxLive
  <2>1. Chunks' \subseteq Chunks
    BY <1>7 DEF MonitorReaps, Chunks, Live, osVars, recordVars, spoolVars, threadVars,
       monitorVars, closeVars
  <2> QED
    BY <2>1, ChunksShrink
<1>8. ASSUME NEW p \in Procs, MonitorFinishes(p)
      PROVE  Used' <= MaxLive
  <2>0. size' = size /\ \A r \in Procs : spool'[r] \in {"open", "finished"}
            => spool[r] \in {"open", "finished"}
    BY <1>8 DEF MonitorFinishes, TypeOK, osVars, recordVars, spoolVars, threadVars, monitorVars,
       closeVars
  <2>1. Chunks' \subseteq Chunks
    BY <2>0 DEF Chunks, Live
  <2> QED
    BY <2>1, ChunksShrink
<1>9. ASSUME NEW p \in Procs, MonitorDecides(p)
      PROVE  Used' <= MaxLive
  <2>1. Chunks' \subseteq Chunks
    BY <1>9 DEF MonitorDecides, Chunks, Live, osVars, recordVars, spoolVars, threadVars,
       monitorVars, closeVars
  <2> QED
    BY <2>1, ChunksShrink
<1>10. ASSUME NEW p \in Procs, MonitorPersists(p)
       PROVE  Used' <= MaxLive
  <2>1. Chunks' \subseteq Chunks
    BY <1>10 DEF MonitorPersists, Chunks, Live, osVars, recordVars, spoolVars, threadVars,
       monitorVars, closeVars
  <2> QED
    BY <2>1, ChunksShrink
<1>11. ASSUME NEW p \in Procs, MonitorPublishes(p)
       PROVE  Used' <= MaxLive
  <2>1. Chunks' \subseteq Chunks
    BY <1>11 DEF MonitorPublishes, Chunks, Live, osVars, recordVars, spoolVars, threadVars,
       monitorVars, closeVars
  <2> QED
    BY <2>1, ChunksShrink
<1>12. ASSUME NEW p \in Procs, Timeout(p)
       PROVE  Used' <= MaxLive
  <2>0. BeginStop(p, "timeout")
    BY <1>12 DEF Timeout
  <2>1. Chunks' = Chunks
    BY <2>0, StopFacts DEF Chunks, Live
  <2> QED
    BY <2>1, ChunksShrink
<1>13. ASSUME NEW p \in Procs, Abort(p)
       PROVE  Used' <= MaxLive
  <2>0. BeginStop(p, "abort")
    BY <1>13 DEF Abort
  <2>1. Chunks' = Chunks
    BY <2>0, StopFacts DEF Chunks, Live
  <2> QED
    BY <2>1, ChunksShrink
<1>14. ASSUME NEW p \in Procs, Escalate(p)
       PROVE  Used' <= MaxLive
  <2>1. Chunks' \subseteq Chunks
    BY <1>14 DEF Escalate, Chunks, Live, osVars, recordVars, spoolVars, threadVars, monitorVars,
       closeVars
  <2> QED
    BY <2>1, ChunksShrink
<1>15. ASSUME NEW p \in Procs, ReapForces(p)
       PROVE  Used' <= MaxLive
  <2>1. Chunks' \subseteq Chunks
    BY <1>15 DEF ReapForces, Chunks, Live, osVars, recordVars, spoolVars, threadVars,
       monitorVars, closeVars
  <2> QED
    BY <2>1, ChunksShrink
<1>16. ASSUME NEW p \in Procs, MonitorBreaks(p)
       PROVE  Used' <= MaxLive
  <2>1. Chunks' \subseteq Chunks
    BY <1>16 DEF MonitorBreaks, Chunks, Live, osVars, recordVars, spoolVars, threadVars,
       monitorVars, closeVars
  <2> QED
    BY <2>1, ChunksShrink
<1>17. ASSUME NEW p \in Procs, ReaderAppends(p)
       PROVE  Used' <= MaxLive
  <2>0. size' = [size EXCEPT ![p] = size[p] + 1] /\ spool' = spool /\ Used < MaxLive
    BY <1>17 DEF ReaderAppends
  <2>1. Chunks' \subseteq Chunks \cup {<<p, size[p] + 1>>}
    <3> SUFFICES ASSUME NEW c \in Chunks', c \notin Chunks PROVE c = <<p, size[p] + 1>>
      OBVIOUS
    <3>1. /\ c \in Live \X (1..MaxSize) /\ c[2] <= size'[c[1]] /\ ~(c[2] <= size[c[1]])
      BY <2>0 DEF Chunks, Live
    <3>2. c[1] \in Procs /\ c[2] \in Nat /\ c = <<c[1], c[2]>>
      BY <3>1, ServiceAssumption DEF Live
    <3>3. c[1] = p
      BY <2>0, <3>1, <3>2 DEF TypeOK
    <3>4. c[2] = size[p] + 1
      BY <2>0, <3>1, <3>2, <3>3 DEF TypeOK
    <3> QED
      BY <3>2, <3>3, <3>4
  <2>2. IsFiniteSet(Chunks)
    BY ChunksFinite
  <2>3. /\ IsFiniteSet(Chunks \cup {<<p, size[p] + 1>>})
        /\ Cardinality(Chunks \cup {<<p, size[p] + 1>>}) <= Cardinality(Chunks) + 1
    BY <2>2, FS_AddElement, FS_CardinalityType
  <2>4. /\ IsFiniteSet(Chunks')
        /\ Cardinality(Chunks') <= Cardinality(Chunks \cup {<<p, size[p] + 1>>})
    BY <2>1, <2>3, FS_Subset
  <2>5. /\ Cardinality(Chunks) \in Nat /\ Cardinality(Chunks') \in Nat
        /\ Cardinality(Chunks \cup {<<p, size[p] + 1>>}) \in Nat
    BY <2>2, <2>3, <2>4, FS_CardinalityType
  <2>6. Used = Cardinality(Chunks) /\ Used' = Cardinality(Chunks')
    BY DEF Used, Chunks
  <2> QED
    BY <2>0, <2>3, <2>4, <2>5, <2>6, ServiceAssumption
<1>18. ASSUME NEW p \in Procs, ReaderFails(p)
       PROVE  Used' <= MaxLive
  <2>1. Chunks' \subseteq Chunks
    BY <1>18 DEF ReaderFails, Chunks, Live, osVars, recordVars, spoolVars, threadVars,
       monitorVars, closeVars
  <2> QED
    BY <2>1, ChunksShrink
<1>19. ASSUME NEW p \in Procs, ReaderEnds(p)
       PROVE  Used' <= MaxLive
  <2>1. Chunks' \subseteq Chunks
    BY <1>19 DEF ReaderEnds, Chunks, Live, osVars, recordVars, spoolVars, threadVars,
       monitorVars, closeVars
  <2> QED
    BY <2>1, ChunksShrink
<1>20. ASSUME NEW p \in Procs, PumpWrites(p)
       PROVE  Used' <= MaxLive
  <2>1. Chunks' \subseteq Chunks
    BY <1>20 DEF PumpWrites, Chunks, Live, osVars, recordVars, spoolVars, threadVars,
       monitorVars, closeVars
  <2> QED
    BY <2>1, ChunksShrink
<1>21. ASSUME NEW p \in Procs, Jams(p)
       PROVE  Used' <= MaxLive
  <2>1. Chunks' \subseteq Chunks
    BY <1>21 DEF Jams, Chunks, Live, osVars, recordVars, spoolVars, threadVars, monitorVars,
       closeVars
  <2> QED
    BY <2>1, ChunksShrink
<1>22. ASSUME NEW p \in Procs, NEW q \in Procs, ReaderReclaims(p, q)
       PROVE  Used' <= MaxLive
  <2>0. spool' = [spool EXCEPT ![q] = "closed"] /\ size' = [size EXCEPT ![q] = 0]
    BY <1>22 DEF ReaderReclaims, CloseSpool
  <2>1. Chunks' \subseteq Chunks
    BY <2>0 DEF Chunks, Live, TypeOK
  <2> QED
    BY <2>1, ChunksShrink
<1>23. ASSUME NEW p \in Procs, CallerEnters(p)
       PROVE  Used' <= MaxLive
  <2>1. Chunks' \subseteq Chunks
    BY <1>23 DEF CallerEnters, Chunks, Live, osVars, recordVars, spoolVars, threadVars,
       monitorVars, closeVars
  <2> QED
    BY <2>1, ChunksShrink
<1>24. ASSUME NEW p \in Procs, CallerReturns(p)
       PROVE  Used' <= MaxLive
  <2>1. Chunks' \subseteq Chunks
    BY <1>24 DEF CallerReturns, Chunks, Live, osVars, recordVars, spoolVars, threadVars,
       monitorVars, closeVars
  <2> QED
    BY <2>1, ChunksShrink
<1>25. ASSUME NEW p \in Procs, CallerWrites(p)
       PROVE  Used' <= MaxLive
  <2>1. Chunks' \subseteq Chunks
    BY <1>25 DEF CallerWrites, Chunks, Live, osVars, recordVars, spoolVars, threadVars,
       monitorVars, closeVars
  <2> QED
    BY <2>1, ChunksShrink
<1>26. ASSUME NEW p \in Procs, Prune(p)
       PROVE  Used' <= MaxLive
  <2>0. spool' = [spool EXCEPT ![p] = "closed"] /\ size' = [size EXCEPT ![p] = 0]
    BY <1>26 DEF Prune, CloseSpool
  <2>1. Chunks' \subseteq Chunks
    BY <2>0 DEF Chunks, Live, TypeOK
  <2> QED
    BY <2>1, ChunksShrink
<1>27. ASSUME NEW p \in Procs, NEW c \in {"terminate", "kill"}, CallerStops(p, c)
       PROVE  Used' <= MaxLive
  <2>0. BeginStop(p, c)
    BY <1>27 DEF CallerStops
  <2>1. Chunks' = Chunks
    BY <2>0, StopFacts DEF Chunks, Live
  <2> QED
    BY <2>1, ChunksShrink
<1>28. ASSUME CloseBegins
       PROVE  Used' <= MaxLive
  <2>1. Chunks' \subseteq Chunks
    BY <1>28 DEF CloseBegins, Chunks, Live, osVars, recordVars, spoolVars, threadVars,
       monitorVars, closeVars
  <2> QED
    BY <2>1, ChunksShrink
<1>29. ASSUME CloseTerminates
       PROVE  Used' <= MaxLive
  <2>1. Chunks' \subseteq Chunks
    BY <1>29 DEF CloseTerminates, Chunks, Live, osVars, recordVars, spoolVars, threadVars,
       monitorVars, closeVars
  <2> QED
    BY <2>1, ChunksShrink
<1>30. ASSUME CloseKills
       PROVE  Used' <= MaxLive
  <2>1. Chunks' \subseteq Chunks
    BY <1>30 DEF CloseKills, Chunks, Live, osVars, recordVars, spoolVars, threadVars,
       monitorVars, closeVars
  <2> QED
    BY <2>1, ChunksShrink
<1>31. ASSUME CloseForces
       PROVE  Used' <= MaxLive
  <2>1. Chunks' \subseteq Chunks
    BY <1>31 DEF CloseForces, Chunks, Live, osVars, recordVars, spoolVars, threadVars,
       monitorVars, closeVars
  <2> QED
    BY <2>1, ChunksShrink
<1>32. ASSUME CloseEnds
       PROVE  Used' <= MaxLive
  <2>1. Chunks' \subseteq Chunks
    BY <1>32 DEF CloseEnds, Chunks, Live, osVars, recordVars, spoolVars, threadVars,
       monitorVars, closeVars
  <2> QED
    BY <2>1, ChunksShrink
<1>33. ASSUME NEW p \in Procs, CloseReleases(p)
       PROVE  Used' <= MaxLive
  <2>0. spool' = [spool EXCEPT ![p] = "closed"] /\ size' = [size EXCEPT ![p] = 0]
    BY <1>33 DEF CloseReleases, CloseSpool
  <2>1. Chunks' \subseteq Chunks
    BY <2>0 DEF Chunks, Live, TypeOK
  <2> QED
    BY <2>1, ChunksShrink
<1>34. ASSUME NEW p \in Procs, Dies(p)
       PROVE  Used' <= MaxLive
  <2>1. Chunks' \subseteq Chunks
    BY <1>34 DEF Dies, Chunks, Live, osVars, recordVars, spoolVars, threadVars, monitorVars,
       closeVars
  <2> QED
    BY <2>1, ChunksShrink
<1>35. ASSUME NEW p \in Procs, StartRaises(p)
       PROVE  Used' <= MaxLive
  <2>0. spool' = [spool EXCEPT ![p] = "closed"] /\ size' = [size EXCEPT ![p] = 0]
    BY <1>35 DEF StartRaises
  <2>1. Chunks' \subseteq Chunks
    BY <2>0 DEF Chunks, Live, TypeOK
  <2> QED
    BY <2>1, ChunksShrink
<1>36. CASE UNCHANGED vars
  BY <1>36 DEF vars, osVars, recordVars, spoolVars, threadVars, monitorVars, closeVars, TypeOK,
     Used, Live
<1> QED
  BY <1>1, <1>2, <1>3, <1>4, <1>5, <1>6, <1>7, <1>8, <1>9, <1>10, <1>11, <1>12, <1>13, <1>14,
     <1>15, <1>16, <1>17, <1>18, <1>19, <1>20, <1>21, <1>22, <1>23, <1>24, <1>25, <1>26, <1>27,
     <1>28, <1>29, <1>30, <1>31, <1>32, <1>33, <1>34, <1>35, <1>36 DEF Next, StarterStep, MonitorStep,
     WorkerStep, CallerStep, CloseStep

\* Every section writes values of the declared types.
LEMMA TypeStep ==
    ASSUME TypeOK, Starting, Monitoring, [Next]_vars
    PROVE  TypeOK'
<1>0. Used' <= MaxLive
  BY BudgetStep
<1>1. ASSUME NEW p \in Procs, StartReserves(p)
      PROVE  TypeOK'
  <2>1. table' \in [Procs -> {"free", "starting", "kept", "gone", "never", "dropped"}]
    BY <1>1 DEF StartReserves, TypeOK
  <2>2. spool' \in [Procs -> {"none", "open", "finished", "closed"}]
    BY <1>1 DEF StartReserves, TypeOK
  <2>3. starter' \in [Procs -> {"none", "reserved", "spawned", "registered", "handoff",
                    "returned", "raised"}]
    BY <1>1 DEF StartReserves, TypeOK
  <2>4. UNCHANGED <<os, signalled, state, cause, failure, forced, input, size, caller, stopper,
                    reader, monitor, verdict, closer, todo, store>>
    BY <1>1 DEF StartReserves, osVars, recordVars, spoolVars, threadVars, monitorVars, closeVars
  <2> QED
    BY <1>0, <2>1, <2>2, <2>3, <2>4 DEF TypeOK
<1>2. ASSUME NEW p \in Procs, StartSpawns(p)
      PROVE  TypeOK'
  <2>1. os' \in [Procs -> {"none", "live", "dead"}]
    BY <1>2 DEF StartSpawns, TypeOK
  <2>2. table' \in [Procs -> {"free", "starting", "kept", "gone", "never", "dropped"}]
    BY <1>2 DEF StartSpawns, TypeOK
  <2>3. spool' \in [Procs -> {"none", "open", "finished", "closed"}]
    BY <1>2 DEF StartSpawns, TypeOK
  <2>4. starter' \in [Procs -> {"none", "reserved", "spawned", "registered", "handoff",
                    "returned", "raised"}]
    BY <1>2 DEF StartSpawns, TypeOK
  <2>5. UNCHANGED <<signalled, state, cause, failure, forced, input, size, caller, stopper,
                    reader, monitor, verdict, closer, todo, store>>
    BY <1>2 DEF StartSpawns, osVars, recordVars, spoolVars, threadVars, monitorVars, closeVars
  <2> QED
    BY <1>0, <2>1, <2>2, <2>3, <2>4, <2>5 DEF TypeOK
<1>3. ASSUME NEW p \in Procs, StartRegisters(p)
      PROVE  TypeOK'
  <2>1. table' \in [Procs -> {"free", "starting", "kept", "gone", "never", "dropped"}]
    BY <1>3 DEF StartRegisters, TypeOK
  <2>2. state' \in [Procs -> States]
    BY <1>3 DEF StartRegisters, TypeOK, States, Terminal
  <2>3. spool' \in [Procs -> {"none", "open", "finished", "closed"}]
    BY <1>3 DEF StartRegisters, TypeOK
  <2>4. starter' \in [Procs -> {"none", "reserved", "spawned", "registered", "handoff",
                    "returned", "raised"}]
    BY <1>3 DEF StartRegisters, TypeOK
  <2>5. UNCHANGED <<os, signalled, cause, failure, forced, input, size, caller, stopper, reader,
                    monitor, verdict, closer, todo, store>>
    BY <1>3 DEF StartRegisters, osVars, recordVars, spoolVars, threadVars, monitorVars, closeVars
  <2> QED
    BY <1>0, <2>1, <2>2, <2>3, <2>4, <2>5 DEF TypeOK
<1>4. ASSUME NEW p \in Procs, StartWorkers(p)
      PROVE  TypeOK'
  <2>1. starter' \in [Procs -> {"none", "reserved", "spawned", "registered", "handoff",
                    "returned", "raised"}]
    BY <1>4 DEF StartWorkers, TypeOK
  <2>2. reader' \in [Procs -> {"off", "reading", "done", "jammed"}]
    BY <1>4 DEF StartWorkers, TypeOK
  <2>3. monitor' \in [Procs -> {"off", "watch", "reap", "drain", "decide", "persist", "publish",
                    "done"}]
    BY <1>4 DEF StartWorkers, TypeOK
  <2>4. UNCHANGED <<os, signalled, table, state, cause, failure, forced, input, spool, size,
                    caller, stopper, verdict, closer, todo, store>>
    BY <1>4 DEF StartWorkers, osVars, recordVars, spoolVars, threadVars, monitorVars, closeVars
  <2> QED
    BY <1>0, <2>1, <2>2, <2>3, <2>4 DEF TypeOK
<1>5. ASSUME NEW p \in Procs, StartReturns(p)
      PROVE  TypeOK'
  <2>1. starter' \in [Procs -> {"none", "reserved", "spawned", "registered", "handoff",
                    "returned", "raised"}]
    BY <1>5 DEF StartReturns, TypeOK
  <2>2. UNCHANGED <<os, signalled, table, state, cause, failure, forced, input, spool, size,
                    caller, stopper, reader, monitor, verdict, closer, todo, store>>
    BY <1>5 DEF StartReturns, osVars, recordVars, spoolVars, threadVars, monitorVars, closeVars
  <2> QED
    BY <1>0, <2>1, <2>2 DEF TypeOK
<1>6. ASSUME NEW p \in Procs, MonitorSees(p)
      PROVE  TypeOK'
  <2>1. monitor' \in [Procs -> {"off", "watch", "reap", "drain", "decide", "persist", "publish",
                    "done"}]
    BY <1>6 DEF MonitorSees, TypeOK
  <2>2. state' \in [Procs -> States]
    BY <1>6 DEF MonitorSees, TypeOK, States, Terminal
  <2>3. UNCHANGED <<os, signalled, table, cause, failure, forced, input, spool, size, starter,
                    caller, stopper, reader, verdict, closer, todo, store>>
    BY <1>6 DEF MonitorSees, osVars, recordVars, spoolVars, threadVars, monitorVars, closeVars
  <2> QED
    BY <1>0, <2>1, <2>2, <2>3 DEF TypeOK
<1>7. ASSUME NEW p \in Procs, MonitorReaps(p)
      PROVE  TypeOK'
  <2>1. monitor' \in [Procs -> {"off", "watch", "reap", "drain", "decide", "persist", "publish",
                    "done"}]
    BY <1>7 DEF MonitorReaps, TypeOK
  <2>2. UNCHANGED <<os, signalled, table, state, cause, failure, forced, input, spool, size,
                    starter, caller, stopper, reader, verdict, closer, todo, store>>
    BY <1>7 DEF MonitorReaps, osVars, recordVars, spoolVars, threadVars, monitorVars, closeVars
  <2> QED
    BY <1>0, <2>1, <2>2 DEF TypeOK
<1>8. ASSUME NEW p \in Procs, MonitorFinishes(p)
      PROVE  TypeOK'
  <2>1. monitor' \in [Procs -> {"off", "watch", "reap", "drain", "decide", "persist", "publish",
                    "done"}]
    BY <1>8 DEF MonitorFinishes, TypeOK
  <2>2. spool' \in [Procs -> {"none", "open", "finished", "closed"}]
    BY <1>8 DEF MonitorFinishes, TypeOK
  <2>3. failure' \in [Procs -> {"none", "output", "input", "monitor"}]
    BY <1>8 DEF MonitorFinishes, TypeOK
  <2>4. state' \in [Procs -> States]
    BY <1>8 DEF MonitorFinishes, TypeOK, States, Terminal
  <2>5. UNCHANGED <<os, signalled, table, cause, forced, input, size, starter, caller, stopper,
                    reader, verdict, closer, todo, store>>
    BY <1>8 DEF MonitorFinishes, osVars, recordVars, spoolVars, threadVars, monitorVars, closeVars
  <2> QED
    BY <1>0, <2>1, <2>2, <2>3, <2>4, <2>5 DEF TypeOK
<1>9. ASSUME NEW p \in Procs, MonitorDecides(p)
      PROVE  TypeOK'
  <2>1. monitor' \in [Procs -> {"off", "watch", "reap", "drain", "decide", "persist", "publish",
                    "done"}]
    BY <1>9 DEF MonitorDecides, TypeOK
  <2>2. verdict' \in [Procs -> Terminal \cup {"none"}]
    BY <1>9 DEF MonitorDecides, TypeOK, Terminal, TerminalState
  <2>3. UNCHANGED <<os, signalled, table, state, cause, failure, forced, input, spool, size,
                    starter, caller, stopper, reader, closer, todo, store>>
    BY <1>9 DEF MonitorDecides, osVars, recordVars, spoolVars, threadVars, monitorVars, closeVars
  <2> QED
    BY <1>0, <2>1, <2>2, <2>3 DEF TypeOK
<1>10. ASSUME NEW p \in Procs, MonitorPersists(p)
       PROVE  TypeOK'
  <2>1. monitor' \in [Procs -> {"off", "watch", "reap", "drain", "decide", "persist", "publish",
                    "done"}]
    BY <1>10 DEF MonitorPersists, TypeOK
  <2>2. store' \in [Procs -> Terminal \cup {"none"}]
    BY <1>10 DEF MonitorPersists, TypeOK, Monitoring
  <2>3. UNCHANGED <<os, signalled, table, state, cause, failure, forced, input, spool, size,
                    starter, caller, stopper, reader, verdict, closer, todo>>
    BY <1>10 DEF MonitorPersists, osVars, recordVars, spoolVars, threadVars, monitorVars,
       closeVars
  <2> QED
    BY <1>0, <2>1, <2>2, <2>3 DEF TypeOK
<1>11. ASSUME NEW p \in Procs, MonitorPublishes(p)
       PROVE  TypeOK'
  <2>1. monitor' \in [Procs -> {"off", "watch", "reap", "drain", "decide", "persist", "publish",
                    "done"}]
    BY <1>11 DEF MonitorPublishes, TypeOK
  <2>2. state' \in [Procs -> States]
    BY <1>11 DEF MonitorPublishes, TypeOK, States, Monitoring
  <2>3. verdict' \in [Procs -> Terminal \cup {"none"}]
    BY <1>11 DEF MonitorPublishes, TypeOK, Terminal, TerminalState
  <2>4. input' \in [Procs -> BOOLEAN]
    BY <1>11 DEF MonitorPublishes, TypeOK
  <2>5. UNCHANGED <<os, signalled, table, cause, failure, forced, spool, size, starter, caller,
                    stopper, reader, closer, todo, store>>
    BY <1>11 DEF MonitorPublishes, osVars, recordVars, spoolVars, threadVars, monitorVars,
       closeVars
  <2> QED
    BY <1>0, <2>1, <2>2, <2>3, <2>4, <2>5 DEF TypeOK
<1>12. ASSUME NEW p \in Procs, Timeout(p)
       PROVE  TypeOK'
  <2>0. BeginStop(p, "timeout")
    BY <1>12 DEF Timeout
  <2> QED
    BY <1>0, <2>0, StopFacts DEF TypeOK
<1>13. ASSUME NEW p \in Procs, Abort(p)
       PROVE  TypeOK'
  <2>0. BeginStop(p, "abort")
    BY <1>13 DEF Abort
  <2> QED
    BY <1>0, <2>0, StopFacts DEF TypeOK
<1>14. ASSUME NEW p \in Procs, Escalate(p)
       PROVE  TypeOK'
  <2>1. stopper' \in [Procs -> BOOLEAN]
    BY <1>14 DEF Escalate, TypeOK
  <2>2. signalled' \in [Procs -> {"none", "terminate", "kill"}]
    BY <1>14, SentFacts DEF Escalate, TypeOK
  <2>3. UNCHANGED <<os, table, state, cause, failure, forced, input, spool, size, starter,
                    caller, reader, monitor, verdict, closer, todo, store>>
    BY <1>14 DEF Escalate, osVars, recordVars, spoolVars, threadVars, monitorVars, closeVars
  <2> QED
    BY <1>0, <2>1, <2>2, <2>3 DEF TypeOK
<1>15. ASSUME NEW p \in Procs, ReapForces(p)
       PROVE  TypeOK'
  <2>1. forced' \in [Procs -> BOOLEAN]
    BY <1>15 DEF ReapForces, TypeOK
  <2>2. UNCHANGED <<os, signalled, table, state, cause, failure, input, spool, size, starter,
                    caller, stopper, reader, monitor, verdict, closer, todo, store>>
    BY <1>15 DEF ReapForces, osVars, recordVars, spoolVars, threadVars, monitorVars, closeVars
  <2> QED
    BY <1>0, <2>1, <2>2 DEF TypeOK
<1>16. ASSUME NEW p \in Procs, MonitorBreaks(p)
       PROVE  TypeOK'
  <2>1. monitor' \in [Procs -> {"off", "watch", "reap", "drain", "decide", "persist", "publish",
                    "done"}]
    BY <1>16 DEF MonitorBreaks, TypeOK
  <2>2. state' \in [Procs -> States]
    BY <1>16 DEF MonitorBreaks, TypeOK, States, Terminal
  <2>3. failure' \in [Procs -> {"none", "output", "input", "monitor"}]
    BY <1>16 DEF MonitorBreaks, TypeOK
  <2>4. signalled' \in [Procs -> {"none", "terminate", "kill"}]
    BY <1>16, SentFacts DEF MonitorBreaks, TypeOK
  <2>5. stopper' \in [Procs -> BOOLEAN]
    BY <1>16 DEF MonitorBreaks, TypeOK
  <2>6. UNCHANGED <<os, table, cause, forced, input, spool, size, starter, caller, reader,
                    verdict, closer, todo, store>>
    BY <1>16 DEF MonitorBreaks, osVars, recordVars, spoolVars, threadVars, monitorVars, closeVars
  <2> QED
    BY <1>0, <2>1, <2>2, <2>3, <2>4, <2>5, <2>6 DEF TypeOK
<1>17. ASSUME NEW p \in Procs, ReaderAppends(p)
       PROVE  TypeOK'
  <2>1. size' \in [Procs -> 0..MaxSize]
    BY <1>17, ServiceAssumption DEF ReaderAppends, TypeOK
  <2>2. UNCHANGED <<os, signalled, table, state, cause, failure, forced, input, spool, starter,
                    caller, stopper, reader, monitor, verdict, closer, todo, store>>
    BY <1>17 DEF ReaderAppends, osVars, recordVars, spoolVars, threadVars, monitorVars, closeVars
  <2> QED
    BY <1>0, <2>1, <2>2 DEF TypeOK
<1>18. ASSUME NEW p \in Procs, ReaderFails(p)
       PROVE  TypeOK'
  <2>1. ClaimFailure(p, "output")
    BY <1>18 DEF ReaderFails
  <2>2. reader' \in [Procs -> {"off", "reading", "done", "jammed"}]
    BY <1>18 DEF ReaderFails, TypeOK
  <2>3. UNCHANGED <<os, table, cause, forced, input, spool, size, starter, caller, monitor,
                    verdict, closer, todo, store>>
    BY <1>18 DEF ReaderFails, osVars, recordVars, spoolVars, threadVars, monitorVars, closeVars
  <2> QED
    BY <1>0, <2>1, <2>2, <2>3, FailureFacts DEF TypeOK
<1>19. ASSUME NEW p \in Procs, ReaderEnds(p)
       PROVE  TypeOK'
  <2>1. reader' \in [Procs -> {"off", "reading", "done", "jammed"}]
    BY <1>19 DEF ReaderEnds, TypeOK
  <2>2. UNCHANGED <<os, signalled, table, state, cause, failure, forced, input, spool, size,
                    starter, caller, stopper, monitor, verdict, closer, todo, store>>
    BY <1>19 DEF ReaderEnds, osVars, recordVars, spoolVars, threadVars, monitorVars, closeVars
  <2> QED
    BY <1>0, <2>1, <2>2 DEF TypeOK
<1>20. ASSUME NEW p \in Procs, PumpWrites(p)
       PROVE  TypeOK'
  <2>1. ClaimFailure(p, "input") \/ UNCHANGED <<failure, state, signalled, stopper>>
    BY <1>20 DEF PumpWrites
  <2>2. input' \in [Procs -> BOOLEAN]
    BY <1>20 DEF PumpWrites, TypeOK
  <2>3. UNCHANGED <<os, table, cause, forced, spool, size, starter, caller, reader, monitor,
                    verdict, closer, todo, store>>
    BY <1>20 DEF PumpWrites, osVars, recordVars, spoolVars, threadVars, monitorVars, closeVars
  <2>4. /\ failure' \in [Procs -> {"none", "output", "input", "monitor"}]
               /\ state' \in [Procs -> States]
        /\ signalled' \in [Procs -> {"none", "terminate", "kill"}]
        /\ stopper' \in [Procs -> BOOLEAN]
    BY <2>1, FailureFacts DEF TypeOK
  <2> QED
    BY <1>0, <2>2, <2>3, <2>4 DEF TypeOK
<1>21. ASSUME NEW p \in Procs, Jams(p)
       PROVE  TypeOK'
  <2>1. reader' \in [Procs -> {"off", "reading", "done", "jammed"}]
    BY <1>21 DEF Jams, TypeOK
  <2>2. UNCHANGED <<os, signalled, table, state, cause, failure, forced, input, spool, size,
                    starter, caller, stopper, monitor, verdict, closer, todo, store>>
    BY <1>21 DEF Jams, osVars, recordVars, spoolVars, threadVars, monitorVars, closeVars
  <2> QED
    BY <1>0, <2>1, <2>2 DEF TypeOK
<1>22. ASSUME NEW p \in Procs, NEW q \in Procs, ReaderReclaims(p, q)
       PROVE  TypeOK'
  <2>1. table' \in [Procs -> {"free", "starting", "kept", "gone", "never", "dropped"}]
    BY <1>22 DEF ReaderReclaims, Evict, CloseSpool, TypeOK
  <2>2. cause' \in [Procs -> {"none", "timeout", "request", "shutdown"}]
    BY <1>22 DEF ReaderReclaims, Evict, CloseSpool, TypeOK
  <2>3. failure' \in [Procs -> {"none", "output", "input", "monitor"}]
    BY <1>22 DEF ReaderReclaims, Evict, CloseSpool, TypeOK
  <2>4. spool' \in [Procs -> {"none", "open", "finished", "closed"}]
    BY <1>22 DEF ReaderReclaims, Evict, CloseSpool, TypeOK
  <2>5. size' \in [Procs -> 0..MaxSize]
    BY <1>22, ServiceAssumption DEF ReaderReclaims, Evict, CloseSpool, TypeOK
  <2>6. UNCHANGED <<os, signalled, state, forced, input, starter, caller, stopper, reader,
                    monitor, verdict, closer, todo, store>>
    BY <1>22 DEF ReaderReclaims, osVars, recordVars, spoolVars, threadVars, monitorVars, closeVars
  <2> QED
    BY <1>0, <2>1, <2>2, <2>3, <2>4, <2>5, <2>6 DEF TypeOK
<1>23. ASSUME NEW p \in Procs, CallerEnters(p)
       PROVE  TypeOK'
  <2>1. caller' \in [Procs -> BOOLEAN]
    BY <1>23 DEF CallerEnters, TypeOK
  <2>2. UNCHANGED <<os, signalled, table, state, cause, failure, forced, input, spool, size,
                    starter, stopper, reader, monitor, verdict, closer, todo, store>>
    BY <1>23 DEF CallerEnters, osVars, recordVars, spoolVars, threadVars, monitorVars, closeVars
  <2> QED
    BY <1>0, <2>1, <2>2 DEF TypeOK
<1>24. ASSUME NEW p \in Procs, CallerReturns(p)
       PROVE  TypeOK'
  <2>1. caller' \in [Procs -> BOOLEAN]
    BY <1>24 DEF CallerReturns, TypeOK
  <2>2. UNCHANGED <<os, signalled, table, state, cause, failure, forced, input, spool, size,
                    starter, stopper, reader, monitor, verdict, closer, todo, store>>
    BY <1>24 DEF CallerReturns, osVars, recordVars, spoolVars, threadVars, monitorVars, closeVars
  <2> QED
    BY <1>0, <2>1, <2>2 DEF TypeOK
<1>25. ASSUME NEW p \in Procs, CallerWrites(p)
       PROVE  TypeOK'
  <2>1. input' \in [Procs -> BOOLEAN]
    BY <1>25 DEF CallerWrites, TypeOK
  <2>2. UNCHANGED <<os, signalled, table, state, cause, failure, forced, spool, size, starter,
                    caller, stopper, reader, monitor, verdict, closer, todo, store>>
    BY <1>25 DEF CallerWrites, osVars, recordVars, spoolVars, threadVars, monitorVars, closeVars
  <2> QED
    BY <1>0, <2>1, <2>2 DEF TypeOK
<1>26. ASSUME NEW p \in Procs, Prune(p)
       PROVE  TypeOK'
  <2>1. table' \in [Procs -> {"free", "starting", "kept", "gone", "never", "dropped"}]
    BY <1>26 DEF Prune, Evict, CloseSpool, TypeOK
  <2>2. cause' \in [Procs -> {"none", "timeout", "request", "shutdown"}]
    BY <1>26 DEF Prune, Evict, CloseSpool, TypeOK
  <2>3. failure' \in [Procs -> {"none", "output", "input", "monitor"}]
    BY <1>26 DEF Prune, Evict, CloseSpool, TypeOK
  <2>4. spool' \in [Procs -> {"none", "open", "finished", "closed"}]
    BY <1>26 DEF Prune, Evict, CloseSpool, TypeOK
  <2>5. size' \in [Procs -> 0..MaxSize]
    BY <1>26, ServiceAssumption DEF Prune, Evict, CloseSpool, TypeOK
  <2>6. UNCHANGED <<os, signalled, state, forced, input, starter, caller, stopper, reader,
                    monitor, verdict, closer, todo, store>>
    BY <1>26 DEF Prune, osVars, recordVars, spoolVars, threadVars, monitorVars, closeVars
  <2> QED
    BY <1>0, <2>1, <2>2, <2>3, <2>4, <2>5, <2>6 DEF TypeOK
<1>27. ASSUME NEW p \in Procs, NEW c \in {"terminate", "kill"}, CallerStops(p, c)
       PROVE  TypeOK'
  <2>0. BeginStop(p, c)
    BY <1>27 DEF CallerStops
  <2> QED
    BY <1>0, <2>0, StopFacts DEF TypeOK
<1>28. ASSUME CloseBegins
       PROVE  TypeOK'
  <2>1. closer' \in {"no", "terminate", "kill", "force", "release", "done"}
    BY <1>28 DEF CloseBegins, TypeOK
  <2>2. todo' \in SUBSET Procs
    BY <1>28 DEF CloseBegins, Kept
  <2>3. UNCHANGED <<os, signalled, table, state, cause, failure, forced, input, spool, size,
                    starter, caller, stopper, reader, monitor, verdict, store>>
    BY <1>28 DEF CloseBegins, osVars, recordVars, spoolVars, threadVars, monitorVars, closeVars
  <2> QED
    BY <1>0, <2>1, <2>2, <2>3 DEF TypeOK
<1>29. ASSUME CloseTerminates
       PROVE  TypeOK'
  <2>1. closer' \in {"no", "terminate", "kill", "force", "release", "done"}
    BY <1>29 DEF CloseTerminates, TypeOK
  <2>2. cause' \in [Procs -> {"none", "timeout", "request", "shutdown"}]
    BY <1>29 DEF CloseTerminates, TypeOK
  <2>3. state' \in [Procs -> States]
    BY <1>29 DEF CloseTerminates, TypeOK, States, Terminal
  <2>4. signalled' \in [Procs -> {"none", "terminate", "kill"}]
    BY <1>29, SentFacts DEF CloseTerminates, TypeOK
  <2>5. UNCHANGED <<os, table, failure, forced, input, spool, size, starter, caller, stopper,
                    reader, monitor, verdict, todo, store>>
    BY <1>29 DEF CloseTerminates, osVars, recordVars, spoolVars, threadVars, monitorVars,
       closeVars
  <2> QED
    BY <1>0, <2>1, <2>2, <2>3, <2>4, <2>5 DEF TypeOK
<1>30. ASSUME CloseKills
       PROVE  TypeOK'
  <2>1. closer' \in {"no", "terminate", "kill", "force", "release", "done"}
    BY <1>30 DEF CloseKills, TypeOK
  <2>2. signalled' \in [Procs -> {"none", "terminate", "kill"}]
    BY <1>30, SentFacts DEF CloseKills, TypeOK
  <2>3. UNCHANGED <<os, table, state, cause, failure, forced, input, spool, size, starter,
                    caller, stopper, reader, monitor, verdict, todo, store>>
    BY <1>30 DEF CloseKills, osVars, recordVars, spoolVars, threadVars, monitorVars, closeVars
  <2> QED
    BY <1>0, <2>1, <2>2, <2>3 DEF TypeOK
<1>31. ASSUME CloseForces
       PROVE  TypeOK'
  <2>1. closer' \in {"no", "terminate", "kill", "force", "release", "done"}
    BY <1>31 DEF CloseForces, TypeOK
  <2>2. forced' \in [Procs -> BOOLEAN]
    BY <1>31 DEF CloseForces, TypeOK
  <2>3. UNCHANGED <<os, signalled, table, state, cause, failure, input, spool, size, starter,
                    caller, stopper, reader, monitor, verdict, todo, store>>
    BY <1>31 DEF CloseForces, osVars, recordVars, spoolVars, threadVars, monitorVars, closeVars
  <2> QED
    BY <1>0, <2>1, <2>2, <2>3 DEF TypeOK
<1>32. ASSUME CloseEnds
       PROVE  TypeOK'
  <2>1. closer' \in {"no", "terminate", "kill", "force", "release", "done"}
    BY <1>32 DEF CloseEnds, Evict, CloseSpool, TypeOK
  <2>2. table' \in [Procs -> {"free", "starting", "kept", "gone", "never", "dropped"}]
    BY <1>32 DEF CloseEnds, Evict, CloseSpool, TypeOK
  <2>3. cause' \in [Procs -> {"none", "timeout", "request", "shutdown"}]
    BY <1>32 DEF CloseEnds, Evict, CloseSpool, TypeOK
  <2>4. failure' \in [Procs -> {"none", "output", "input", "monitor"}]
    BY <1>32 DEF CloseEnds, Evict, CloseSpool, TypeOK
  <2>5. UNCHANGED <<os, signalled, state, forced, input, spool, size, starter, caller, stopper,
                    reader, monitor, verdict, todo, store>>
    BY <1>32 DEF CloseEnds, osVars, recordVars, spoolVars, threadVars, monitorVars, closeVars
  <2> QED
    BY <1>0, <2>1, <2>2, <2>3, <2>4, <2>5 DEF TypeOK
<1>33. ASSUME NEW p \in Procs, CloseReleases(p)
       PROVE  TypeOK'
  <2>1. todo' \in SUBSET Procs
    BY <1>33 DEF CloseReleases, Evict, CloseSpool, TypeOK
  <2>2. spool' \in [Procs -> {"none", "open", "finished", "closed"}]
    BY <1>33 DEF CloseReleases, Evict, CloseSpool, TypeOK
  <2>3. size' \in [Procs -> 0..MaxSize]
    BY <1>33, ServiceAssumption DEF CloseReleases, Evict, CloseSpool, TypeOK
  <2>4. UNCHANGED <<os, signalled, table, state, cause, failure, forced, input, starter, caller,
                    stopper, reader, monitor, verdict, closer, store>>
    BY <1>33 DEF CloseReleases, osVars, recordVars, spoolVars, threadVars, monitorVars, closeVars
  <2> QED
    BY <1>0, <2>1, <2>2, <2>3, <2>4 DEF TypeOK
<1>34. ASSUME NEW p \in Procs, Dies(p)
       PROVE  TypeOK'
  <2>1. os' \in [Procs -> {"none", "live", "dead"}]
    BY <1>34 DEF Dies, TypeOK
  <2>2. signalled' \in [Procs -> {"none", "terminate", "kill"}]
    BY <1>34 DEF Dies, TypeOK
  <2>3. stopper' \in [Procs -> BOOLEAN]
    BY <1>34 DEF Dies, TypeOK
  <2>4. forced' \in [Procs -> BOOLEAN]
    BY <1>34 DEF Dies, TypeOK
  <2>5. UNCHANGED <<table, state, cause, failure, input, spool, size, starter, caller, reader,
                    monitor, verdict, closer, todo, store>>
    BY <1>34 DEF Dies, osVars, recordVars, spoolVars, threadVars, monitorVars, closeVars
  <2> QED
    BY <1>0, <2>1, <2>2, <2>3, <2>4, <2>5 DEF TypeOK
<1>35. ASSUME NEW p \in Procs, StartRaises(p)
       PROVE  TypeOK'
  <2>1. table' \in [Procs -> {"free", "starting", "kept", "gone", "never", "dropped"}]
    BY <1>35 DEF StartRaises, TypeOK
  <2>2. spool' \in [Procs -> {"none", "open", "finished", "closed"}]
    BY <1>35 DEF StartRaises, TypeOK
  <2>3. size' \in [Procs -> 0..MaxSize]
    BY <1>35, ServiceAssumption DEF StartRaises, TypeOK
  <2>4. starter' \in [Procs -> {"none", "reserved", "spawned", "registered", "handoff",
                    "returned", "raised"}]
    BY <1>35 DEF StartRaises, TypeOK
  <2>5. reader' \in [Procs -> {"off", "reading", "done", "jammed"}]
    BY <1>35 DEF StartRaises, TypeOK
  <2>6. UNCHANGED <<os, signalled, state, cause, failure, forced, input, caller, stopper,
                    monitor, verdict, closer, todo, store>>
    BY <1>35 DEF StartRaises, osVars, recordVars, monitorVars, closeVars
  <2> QED
    BY <1>0, <2>1, <2>2, <2>3, <2>4, <2>5, <2>6 DEF TypeOK
<1>36. CASE UNCHANGED vars
  BY <1>0, <1>36 DEF vars, osVars, recordVars, spoolVars, threadVars, monitorVars, closeVars,
     TypeOK
<1> QED
  BY <1>1, <1>2, <1>3, <1>4, <1>5, <1>6, <1>7, <1>8, <1>9, <1>10, <1>11, <1>12, <1>13, <1>14,
     <1>15, <1>16, <1>17, <1>18, <1>19, <1>20, <1>21, <1>22, <1>23, <1>24, <1>25, <1>26, <1>27,
     <1>28, <1>29, <1>30, <1>31, <1>32, <1>33, <1>34, <1>35, <1>36 DEF Next, StarterStep, MonitorStep,
     WorkerStep, CallerStep, CloseStep

\* At the start there is no process and nothing is on disk.
LEMMA InitInv == Init => IInv
<1> SUFFICES ASSUME Init PROVE IInv
  OBVIOUS
<1>1. Used <= MaxLive
  <2>1. Chunks = {}
    BY DEF Init, Chunks, Live
  <2>2. Used = 0
    BY <2>1, FS_EmptySet DEF Used, Chunks
  <2> QED
    BY <2>2, ServiceAssumption
<1>2. TypeOK
  BY <1>1, ServiceAssumption DEF Init, TypeOK, States, Terminal
<1>3. ActiveBound
  <2>1. Active = {}
    BY DEF Init, Active, Kept
  <2> QED
    BY <2>1, FS_EmptySet, ServiceAssumption DEF ActiveBound
<1>4. Starting /\ Monitoring
  BY DEF Init, Starting, Monitoring, IsTerminal, Terminal
<1>5. Reading /\ Closing
  BY DEF Init, Reading, Closing, NoCalls
<1> QED
  BY <1>2, <1>3, <1>4, <1>5 DEF IInv

\* The parts above are, together, preserved by every step of every thread.
THEOREM Invariance == Spec => []IInv
<1>1. IInv /\ [Next]_vars => IInv'
  BY TypeStep, ActiveStep, StartingStep, MonitoringStep, ReadingStep, ClosingStep DEF IInv
<1> QED
  BY InitInv, <1>1, PTL DEF Spec

\* The records of the service are sound, for any number of processes and whatever stops,
\* failures, calls and close() come between two sections of start() and the monitor: the
\* limits on processes and on disk hold, a call keeps the output that it reads, a process that
\* is said to have ended is gone or could not be killed, and the completion store has what was
\* published.
THEOREM RecordsSoundCorrect == Spec => []RecordsSound
<1>1. IInv => RecordsSound
  <2> SUFFICES ASSUME IInv PROVE RecordsSound
    OBVIOUS
  <2>1. OutputKept
    BY DEF IInv, Reading, OutputKept
  <2>2. TerminalIsDead
    BY DEF IInv, Monitoring, TerminalIsDead
  <2>3. PublishedIsStored
    BY DEF IInv, Monitoring, PublishedIsStored
  <2> QED
    BY <2>1, <2>2, <2>3 DEF IInv, RecordsSound
<1> QED
  BY Invariance, <1>1, PTL

\* When close() has returned, a process that still lives was killed and did not end, or is one
\* that a start() had spawned which then failed, or is about to: close() overlooks no other.
THEOREM OnlyFailedStartsSurviveCorrect == Spec => []OnlyFailedStartsSurvive
<1>1. IInv => OnlyFailedStartsSurvive
  <2> SUFFICES ASSUME IInv, closer = "done", NEW p \in Procs, os[p] = "live",
                      starter[p] \notin {"spawned", "raised"}
               PROVE  signalled[p] = "kill"
    BY DEF OnlyFailedStartsSurvive
  <2>1. table[p] \in {"kept", "gone"}
    BY DEF IInv, Starting, TypeOK
  <2> QED
    BY <2>1 DEF IInv, TypeOK, Closing
<1> QED
  BY Invariance, <1>1, PTL

\* A terminal state and the output that goes with it are final: no stop, failure or late chunk
\* that the reader still has changes either.
THEOREM TerminalStandsCorrect == Spec => TerminalStands
<1> DEFINE Stands == \A p \in Procs : IsTerminal(p) =>
                         state'[p] = state[p] /\ (size'[p] = size[p] \/ spool'[p] = "closed")
<1>1. ASSUME IInv, [Next]_vars
      PROVE  [Stands]_vars
  <2> SUFFICES ASSUME ~UNCHANGED vars PROVE Stands
    OBVIOUS
  <2>0. /\ TypeOK
        /\ \A r \in Procs : IsTerminal(r) => /\ monitor[r] = "done" /\ starter[r] # "spawned"
                                             /\ spool[r] # "open"
    BY <1>1 DEF IInv, Monitoring, Starting
  <2>1. ASSUME NEW p \in Procs, StartReserves(p)
        PROVE  Stands
    BY <2>1, <2>0 DEF StartReserves, TypeOK, recordVars, spoolVars
  <2>2. ASSUME NEW p \in Procs, StartSpawns(p)
        PROVE  Stands
    BY <2>2, <2>0 DEF StartSpawns, TypeOK, recordVars, spoolVars
  <2>3. ASSUME NEW p \in Procs, StartRegisters(p)
        PROVE  Stands
    BY <2>3, <2>0 DEF StartRegisters, TypeOK, recordVars, spoolVars
  <2>4. ASSUME NEW p \in Procs, StartWorkers(p)
        PROVE  Stands
    BY <2>4, <2>0 DEF StartWorkers, TypeOK, recordVars, spoolVars
  <2>5. ASSUME NEW p \in Procs, StartReturns(p)
        PROVE  Stands
    BY <2>5, <2>0 DEF StartReturns, TypeOK, recordVars, spoolVars
  <2>6. ASSUME NEW p \in Procs, MonitorSees(p)
        PROVE  Stands
    BY <2>6, <2>0 DEF MonitorSees, TypeOK, recordVars, spoolVars
  <2>7. ASSUME NEW p \in Procs, MonitorReaps(p)
        PROVE  Stands
    BY <2>7, <2>0 DEF MonitorReaps, TypeOK, recordVars, spoolVars
  <2>8. ASSUME NEW p \in Procs, MonitorFinishes(p)
        PROVE  Stands
    BY <2>8, <2>0 DEF MonitorFinishes, TypeOK, recordVars, spoolVars
  <2>9. ASSUME NEW p \in Procs, MonitorDecides(p)
        PROVE  Stands
    BY <2>9, <2>0 DEF MonitorDecides, TypeOK, recordVars, spoolVars
  <2>10. ASSUME NEW p \in Procs, MonitorPersists(p)
         PROVE  Stands
    BY <2>10, <2>0 DEF MonitorPersists, TypeOK, recordVars, spoolVars
  <2>11. ASSUME NEW p \in Procs, MonitorPublishes(p)
         PROVE  Stands
    BY <2>11, <2>0 DEF MonitorPublishes, TypeOK, recordVars, spoolVars
  <2>12. ASSUME NEW p \in Procs, Timeout(p)
         PROVE  Stands
    BY <2>12, <2>0, StopFacts DEF Timeout
  <2>13. ASSUME NEW p \in Procs, Abort(p)
         PROVE  Stands
    BY <2>13, <2>0, StopFacts DEF Abort
  <2>14. ASSUME NEW p \in Procs, Escalate(p)
         PROVE  Stands
    BY <2>14, <2>0 DEF Escalate, TypeOK, recordVars, spoolVars
  <2>15. ASSUME NEW p \in Procs, ReapForces(p)
         PROVE  Stands
    BY <2>15, <2>0 DEF ReapForces, TypeOK, recordVars, spoolVars
  <2>16. ASSUME NEW p \in Procs, MonitorBreaks(p)
         PROVE  Stands
    BY <2>16, <2>0 DEF MonitorBreaks, TypeOK, recordVars, spoolVars
  <2>17. ASSUME NEW p \in Procs, ReaderAppends(p)
         PROVE  Stands
    BY <2>17, <2>0 DEF ReaderAppends, TypeOK, recordVars, spoolVars
  <2>18. ASSUME NEW p \in Procs, ReaderFails(p)
         PROVE  Stands
    BY <2>18, <2>0, FailureFacts DEF ReaderFails, spoolVars
  <2>19. ASSUME NEW p \in Procs, ReaderEnds(p)
         PROVE  Stands
    BY <2>19, <2>0 DEF ReaderEnds, TypeOK, recordVars, spoolVars
  <2>20. ASSUME NEW p \in Procs, PumpWrites(p)
         PROVE  Stands
    BY <2>20, <2>0, FailureFacts DEF PumpWrites, spoolVars
  <2>21. ASSUME NEW p \in Procs, Jams(p)
         PROVE  Stands
    BY <2>21, <2>0 DEF Jams, TypeOK, recordVars, spoolVars
  <2>22. ASSUME NEW p \in Procs, NEW q \in Procs, ReaderReclaims(p, q)
         PROVE  Stands
    BY <2>22, <2>0 DEF ReaderReclaims, CloseSpool, TypeOK, recordVars
  <2>23. ASSUME NEW p \in Procs, CallerEnters(p)
         PROVE  Stands
    BY <2>23, <2>0 DEF CallerEnters, TypeOK, recordVars, spoolVars
  <2>24. ASSUME NEW p \in Procs, CallerReturns(p)
         PROVE  Stands
    BY <2>24, <2>0 DEF CallerReturns, TypeOK, recordVars, spoolVars
  <2>25. ASSUME NEW p \in Procs, CallerWrites(p)
         PROVE  Stands
    BY <2>25, <2>0 DEF CallerWrites, TypeOK, recordVars, spoolVars
  <2>26. ASSUME NEW p \in Procs, Prune(p)
         PROVE  Stands
    BY <2>26, <2>0 DEF Prune, CloseSpool, TypeOK, recordVars
  <2>27. ASSUME NEW p \in Procs, NEW c \in {"terminate", "kill"}, CallerStops(p, c)
         PROVE  Stands
    BY <2>27, <2>0, StopFacts DEF CallerStops
  <2>28. ASSUME CloseBegins
         PROVE  Stands
    BY <2>28, <2>0 DEF CloseBegins, TypeOK, recordVars, spoolVars
  <2>29. ASSUME CloseTerminates
         PROVE  Stands
    BY <2>29, <2>0 DEF CloseTerminates, TypeOK, recordVars, spoolVars, MayClaim
  <2>30. ASSUME CloseKills
         PROVE  Stands
    BY <2>30, <2>0 DEF CloseKills, TypeOK, recordVars, spoolVars
  <2>31. ASSUME CloseForces
         PROVE  Stands
    BY <2>31, <2>0 DEF CloseForces, TypeOK, recordVars, spoolVars
  <2>32. ASSUME CloseEnds
         PROVE  Stands
    BY <2>32, <2>0 DEF CloseEnds, TypeOK, recordVars, spoolVars
  <2>33. ASSUME NEW p \in Procs, CloseReleases(p)
         PROVE  Stands
    BY <2>33, <2>0 DEF CloseReleases, CloseSpool, TypeOK, recordVars
  <2>34. ASSUME NEW p \in Procs, Dies(p)
         PROVE  Stands
    BY <2>34, <2>0 DEF Dies, TypeOK, recordVars, spoolVars
  <2>35. ASSUME NEW p \in Procs, StartRaises(p)
         PROVE  Stands
    BY <2>35, <2>0 DEF StartRaises, TypeOK, recordVars
  <2> QED
    BY <1>1, <2>1, <2>2, <2>3, <2>4, <2>5, <2>6, <2>7, <2>8, <2>9, <2>10, <2>11, <2>12, <2>13,
       <2>14, <2>15, <2>16, <2>17, <2>18, <2>19, <2>20, <2>21, <2>22, <2>23, <2>24, <2>25,
       <2>26, <2>27, <2>28, <2>29, <2>30, <2>31, <2>32, <2>33, <2>34, <2>35 DEF Next, StarterStep,
       MonitorStep, WorkerStep, CallerStep, CloseStep
<1> QED
  BY Invariance, <1>1, PTL DEF Spec, TerminalStands
=============================================================================

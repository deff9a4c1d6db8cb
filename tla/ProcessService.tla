--------------------------- MODULE ProcessService ---------------------------
(***************************************************************************)
(* travis/coding_agent/processes: ProcessSessionService, which starts      *)
(* processes for the session, keeps their output and their results, stops  *)
(* them, and closes.                                                       *)
(*                                                                         *)
(* Of each process the service runs a reader, an input pump and a monitor  *)
(* thread; start(), the other calls and close() come from threads of the   *)
(* session and the user interface.  A step is one section under the        *)
(* service's lock or the process's condition, or what a thread does to the *)
(* process between two.                                                    *)
(*                                                                         *)
(* Abstractions: every process is started once, by a thread of its own,    *)
(* and has one reader; one more thread calls poll, write, terminate, kill; *)
(* deadlines pass at any moment; output is counted in chunks of the size   *)
(* that one append writes.                                                 *)
(***************************************************************************)
EXTENDS Naturals, FiniteSets

CONSTANTS
    Procs,          \* processes that are asked for
    MaxActive,      \* max_active_total and max_active_per_owner: one owner
    MaxSize,        \* max_spool_bytes_per_process, in chunks
    MaxLive,        \* max_live_spool_bytes, in chunks
    MaxFaults,      \* bound: stops and failures, but for the ones of close()
    Disturbed,      \* bound: the processes to which they happen, whose result the
                    \* completion store may refuse, and on which calls are made
    Unkillable      \* processes that even KILL does not end

ASSUME ServiceAssumption ==
    /\ IsFiniteSet(Procs) /\ Unkillable \subseteq Procs /\ Disturbed \subseteq Procs
    /\ MaxActive \in Nat \ {0} /\ MaxSize \in Nat /\ MaxLive \in Nat /\ MaxFaults \in Nat

VARIABLES
    \* the operating system
    os,         \* the process: "none", "live", "dead"
    signalled,  \* the last signal it got while it lived: "none", "terminate", "kill"
    \* _ManagedProcess
    table,      \* in _records: "free", "starting", "kept", "gone", "never", or "dropped" by
                \* a start() that failed
    state,      \* ProcessState
    cause,      \* stop_cause: abort, terminate and kill, once claimed, are alike: "request"
    failure,    \* failure_code
    forced,     \* force_finalize
    input,      \* an item waits for the input pump
    spool,      \* the output file: "none", "open", "finished", "closed"
    size,       \* and its size
    \* threads
    starter,    \* where start() is
    caller,     \* another call on the process is under way
    stopper,    \* a thread that has sent TERM has yet to send KILL
    reader,     \* the reader thread
    monitor,    \* where the monitor thread is
    verdict,    \* and the terminal state it has decided on
    closer,     \* where close() is
    todo,       \* and the records it has still to deal with
    \* the completion store
    store       \* the state stored for the process; durable_output is that there is one

osVars == <<os, signalled>>
recordVars == <<state, cause, failure, forced, input>>
spoolVars == <<spool, size>>
threadVars == <<starter, caller, stopper, reader>>
monitorVars == <<monitor, verdict>>
closeVars == <<closer, todo>>
vars == <<osVars, table, recordVars, spoolVars, threadVars, monitorVars, closeVars, store>>

Terminal == {"exited", "timed_out", "terminated", "failed"}
Closed == closer # "no"
IsTerminal(p) == state[p] \in Terminal
Exited(p) == os[p] = "dead"                     \* transport.poll() is not None
Kept == {p \in Procs : table[p] = "kept"}
\* active_calls: start() counts as one from the moment the record is in the table.
NoCalls(p) == ~caller[p] /\ starter[p] \notin {"registered", "handoff"}
Live == {p \in Procs : spool[p] \in {"open", "finished"}}
\* LiveSpoolBudget.used: the chunks on disk.
Used == Cardinality({c \in Live \X (1..MaxSize) : c[2] <= size[c[1]]})

\* Who can have the lock of the service, and the condition of a process: the locks are
\* free between steps, unless three threads wait for each other (Jams).
Jammed(p) == reader[p] = "jammed"
ServiceFree == \A p \in Procs : ~Jammed(p)

\* _reserve_start: what counts against the limits.
Active == {p \in Procs : table[p] = "starting"} \cup {p \in Kept : ~IsTerminal(p)}

\* Whether the bound leaves room for one more stop or failure.
Room(p) == p \in Disturbed /\ Cardinality({q \in Procs : cause[q] \notin {"none", "shutdown"}})
            + Cardinality({q \in Procs : failure[q] # "none"})
            + Cardinality({q \in Procs : table[q] = "dropped"}) < MaxFaults

-----------------------------------------------------------------------------
(* start()                                                                 *)

\* _reserve_start, and the spool; over the limit, or closed, start() raises.
StartReserves(p) ==
    /\ starter[p] = "none" /\ ~Closed /\ ServiceFree /\ Cardinality(Active) < MaxActive
    /\ starter' = [starter EXCEPT ![p] = "reserved"]
    /\ table' = [table EXCEPT ![p] = "starting"]
    /\ spool' = [spool EXCEPT ![p] = "open"]
    /\ UNCHANGED <<osVars, recordVars, size, caller, stopper, reader, monitorVars,
                   closeVars, store>>

\* transport_factory: the process is spawned, or start() gives its place back and raises.
StartSpawns(p) ==
    /\ starter[p] = "reserved"
    /\ \/ /\ starter' = [starter EXCEPT ![p] = "spawned"]
          /\ os' = [os EXCEPT ![p] = "live"]
          /\ UNCHANGED <<table, spool>>
       \/ /\ starter' = [starter EXCEPT ![p] = "raised"]
          /\ table' = [table EXCEPT ![p] = "never"]
          /\ spool' = [spool EXCEPT ![p] = "closed"]
          /\ UNCHANGED os
    /\ UNCHANGED <<signalled, recordVars, size, caller, stopper, reader, monitorVars,
                   closeVars, store>>

\* The record enters the table, unless the service was closed meanwhile: then start()
\* closes the transport, which does not end the process, and raises.
StartRegisters(p) ==
    /\ starter[p] = "spawned" /\ ServiceFree
    /\ IF Closed
       THEN /\ starter' = [starter EXCEPT ![p] = "raised"]
            /\ table' = [table EXCEPT ![p] = "never"]
            /\ spool' = [spool EXCEPT ![p] = "closed"]
            /\ UNCHANGED state
       ELSE /\ starter' = [starter EXCEPT ![p] = "registered"]
            /\ table' = [table EXCEPT ![p] = "kept"]
            /\ state' = [state EXCEPT ![p] = "running"]
            /\ UNCHANGED spool
    /\ UNCHANGED <<osVars, cause, failure, forced, input, size, caller, stopper,
                   reader, monitorVars, closeVars, store>>

\* _start_workers
StartWorkers(p) ==
    /\ starter[p] = "registered"
    /\ starter' = [starter EXCEPT ![p] = "handoff"]
    /\ reader' = [reader EXCEPT ![p] = "reading"]
    /\ monitor' = [monitor EXCEPT ![p] = "watch"]
    /\ UNCHANGED <<osVars, table, recordVars, spoolVars, caller, stopper, verdict,
                   closeVars, store>>

\* _wait_for_initial_handoff returns: with the terminal state, or at the deadline with a
\* running process, but not while a stop is under way.
StartReturns(p) ==
    /\ starter[p] = "handoff" /\ ~Jammed(p)
    /\ IsTerminal(p) \/ cause[p] = "none"
    /\ starter' = [starter EXCEPT ![p] = "returned"]
    /\ UNCHANGED <<osVars, table, recordVars, spoolVars, caller, stopper, reader,
                   monitorVars, closeVars, store>>

\* start() fails with the record in the table: _start_workers raises, with or without a
\* reader, or the handoff does.  The record is popped, and the transport and the spool are
\* closed, neither of which ends the process.
StartRaises(p) ==
    /\ starter[p] \in {"registered", "handoff"} /\ Room(p) /\ ServiceFree
    /\ starter' = [starter EXCEPT ![p] = "raised"]
    /\ table' = [table EXCEPT ![p] = "dropped"]
    /\ spool' = [spool EXCEPT ![p] = "closed"] /\ size' = [size EXCEPT ![p] = 0]
    /\ \/ UNCHANGED reader
       \/ starter[p] = "registered" /\ reader' = [reader EXCEPT ![p] = "reading"]
    /\ UNCHANGED <<osVars, recordVars, caller, stopper, monitorVars, closeVars, store>>

-----------------------------------------------------------------------------
(* Stopping a process, and its failures.                                   *)

\* _safe_signal: TERM once, KILL once, and nothing to a process that is gone.
Sent(p, signal) ==
    IF Exited(p) \/ signalled[p] = "kill" \/ (signalled[p] = signal) THEN signalled
    ELSE [signalled EXCEPT ![p] = signal]

\* _claim_stop: the first cause wins, and only on a process that is seen alive.
MayClaim(p) == ~Jammed(p) /\ ~IsTerminal(p) /\ cause[p] = "none" /\ ~Exited(p)
ClaimStop(p, c) ==
    IF MayClaim(p)
    THEN /\ cause' = [cause EXCEPT ![p] = IF c = "timeout" THEN c ELSE "request"]
         /\ state' = [state EXCEPT ![p] = "stopping"]
    ELSE UNCHANGED <<cause, state>>

\* _begin_stop, as the monitor's timeout, start()'s abort signal and the other calls use it.
BeginStop(p, c) ==
    /\ ClaimStop(p, c)
    /\ signalled' = IF c = "kill" \/ (c = "abort" /\ MayClaim(p)) THEN Sent(p, "kill")
                    ELSE IF MayClaim(p) THEN Sent(p, "terminate") ELSE signalled
    /\ stopper' = [stopper EXCEPT ![p] = @ \/ (MayClaim(p) /\ c \in {"timeout", "terminate"})]
    /\ UNCHANGED <<os, table, failure, forced, input, spoolVars, starter, caller,
                   reader, monitorVars, closeVars, store>>

Timeout(p) == monitor[p] = "watch" /\ MayClaim(p) /\ Room(p) /\ BeginStop(p, "timeout")
Abort(p) == starter[p] = "handoff" /\ MayClaim(p) /\ Room(p) /\ BeginStop(p, "abort")
CallerStops(p, c) == caller[p] /\ ~Jammed(p) /\ Room(p) /\ BeginStop(p, c)

\* Mutant: no second signal.
GivesUp(p) ==
    /\ stopper[p] /\ ~Jammed(p)
    /\ stopper' = [stopper EXCEPT ![p] = FALSE]
    /\ UNCHANGED <<osVars, table, recordVars, spoolVars, starter, caller, reader,
                   monitorVars, closeVars, store>>

\* The grace period is over: KILL, if it takes it.
Escalate(p) ==
    /\ stopper[p] /\ ~Jammed(p)
    /\ stopper' = [stopper EXCEPT ![p] = FALSE]
    /\ signalled' = Sent(p, "kill")
    /\ UNCHANGED <<os, table, recordVars, spoolVars, starter, caller, reader, monitorVars,
                   closeVars, store>>

\* _set_output_failure and _claim_input_failure: the first failure counts, on a process
\* that has no terminal state yet, and TERM is sent.
ClaimFailure(p, f) ==
    IF IsTerminal(p) \/ failure[p] # "none" THEN UNCHANGED <<failure, state, signalled, stopper>>
    ELSE /\ failure' = [failure EXCEPT ![p] = f]
         /\ state' = [state EXCEPT ![p] = "stopping"]
         /\ signalled' = Sent(p, "terminate")
         /\ stopper' = [stopper EXCEPT ![p] = ~Exited(p)]

-----------------------------------------------------------------------------
(* Output and input.                                                       *)

\* Terminal, stored and in no call: what the spool of another process may displace.
Reclaimable(p) == table[p] = "kept" /\ IsTerminal(p) /\ store[p] # "none" /\ NoCalls(p)

\* A record leaves the table.  Of one with a terminal state nobody reads any more why it
\* ended: what is left of it is the same for all.
Evict(ps) ==
    /\ table' = [p \in Procs |-> IF p \in ps THEN "gone" ELSE table[p]]
    /\ cause' = [p \in Procs |-> IF p \in ps /\ IsTerminal(p) THEN "none" ELSE cause[p]]
    /\ failure' = [p \in Procs |-> IF p \in ps /\ IsTerminal(p) THEN "none" ELSE failure[p]]

\* output.close(): the file is removed, and its bytes are given back.
CloseSpool(p) ==
    /\ spool' = [spool EXCEPT ![p] = "closed"]
    /\ size' = [size EXCEPT ![p] = 0]

\* Mutant: output is taken after finish() too.
AppendsLate(p) ==
    /\ reader[p] = "reading" /\ size[p] < MaxSize /\ Used < MaxLive
    /\ size' = [size EXCEPT ![p] = @ + 1]
    /\ UNCHANGED <<osVars, table, recordVars, spool, threadVars, monitorVars, closeVars, store>>

\* _read_output: a chunk is appended ...
ReaderAppends(p) ==
    /\ reader[p] = "reading" /\ spool[p] = "open" /\ size[p] < MaxSize /\ Used < MaxLive
    /\ size' = [size EXCEPT ![p] = @ + 1]
    /\ UNCHANGED <<osVars, table, recordVars, spool, threadVars, monitorVars, closeVars, store>>

\* ... for which _reclaim_durable_terminal_spools makes room ...
ReaderReclaims(p, q) ==
    /\ reader[p] = "reading" /\ spool[p] = "open" /\ size[p] < MaxSize /\ Used = MaxLive
    /\ Reclaimable(q) /\ ServiceFree
    /\ Evict({q}) /\ CloseSpool(q)
    /\ UNCHANGED <<osVars, state, forced, input, threadVars, monitorVars, closeVars, store>>

\* ... or the reader fails: over a limit, on a spool that is finished, or reading.
ReaderFails(p) ==
    /\ reader[p] = "reading" /\ Room(p)
    /\ reader' = [reader EXCEPT ![p] = "done"]
    /\ ClaimFailure(p, "output")
    /\ UNCHANGED <<os, table, cause, forced, input, spoolVars, starter, caller,
                   monitorVars, closeVars, store>>

\* ... or never gets on.  It holds the lock of its spool and waits for the service's, to
\* make room; a call that enters holds the service's and waits for the condition of the
\* process; start(), a call before it or the monitor in _drain_readers holds the condition
\* and waits for the spool.
Jams(p) ==
    /\ reader[p] = "reading" /\ spool[p] = "open" /\ size[p] < MaxSize /\ Used = MaxLive
    /\ table[p] = "kept" /\ (starter[p] = "handoff" \/ caller[p] \/ monitor[p] = "drain")
    /\ p \in Disturbed /\ ~Closed /\ ServiceFree
    /\ reader' = [reader EXCEPT ![p] = "jammed"]
    /\ UNCHANGED <<osVars, table, recordVars, spoolVars, starter, caller, stopper, monitorVars,
                   closeVars, store>>

\* End of file: the process is gone, and so is everything that had its output open.
ReaderEnds(p) ==
    /\ reader[p] = "reading" /\ Exited(p)
    /\ reader' = [reader EXCEPT ![p] = "done"]
    /\ UNCHANGED <<osVars, table, recordVars, spoolVars, starter, caller, stopper,
                   monitorVars, closeVars, store>>

\* write(): refused unless running; the pump writes it, or fails and reaps the process.
CallerWrites(p) ==
    /\ caller[p] /\ ~Jammed(p) /\ state[p] = "running" /\ ~input[p]
    /\ input' = [input EXCEPT ![p] = TRUE]
    /\ UNCHANGED <<osVars, table, state, cause, failure, forced, spoolVars,
                   threadVars, monitorVars, closeVars, store>>

PumpWrites(p) ==
    /\ input[p] /\ ~Jammed(p)
    /\ input' = [input EXCEPT ![p] = FALSE]
    /\ \/ UNCHANGED <<failure, state, signalled, stopper>>
       \/ Room(p) /\ ClaimFailure(p, "input")
    /\ UNCHANGED <<os, table, cause, forced, spoolVars, starter, caller, reader,
                   monitorVars, closeVars, store>>

\* _reap_failed_transport, when KILL did not help: the monitor is told not to wait.
ReapForces(p) ==
    /\ (failure[p] = "input" \/ monitor[p] = "reap") /\ signalled[p] = "kill" /\ ~Exited(p) /\ ~forced[p]
    /\ ~IsTerminal(p) /\ ~Jammed(p)
    /\ forced' = [forced EXCEPT ![p] = TRUE]
    /\ UNCHANGED <<osVars, table, state, cause, failure, input, spoolVars,
                   threadVars, monitorVars, closeVars, store>>

-----------------------------------------------------------------------------
(* The monitor.                                                            *)

\* The process is gone, or close() does not wait for it any longer.
MonitorSees(p) ==
    /\ monitor[p] = "watch" /\ (Exited(p) \/ forced[p])
    /\ monitor' = [monitor EXCEPT ![p] = "drain"]
    /\ state' = [state EXCEPT ![p] = "draining"]
    /\ UNCHANGED <<osVars, table, cause, failure, forced, input, spoolVars,
                   threadVars, verdict, closeVars, store>>

\* The transport raises, and the monitor ends the process itself.
MonitorBreaks(p) ==
    /\ monitor[p] = "watch" /\ ~Exited(p) /\ Room(p) /\ ~Jammed(p)
    /\ monitor' = [monitor EXCEPT ![p] = "reap"]
    /\ state' = [state EXCEPT ![p] = "stopping"]
    /\ failure' = [failure EXCEPT ![p] = IF @ = "none" THEN "monitor" ELSE @]
    /\ signalled' = Sent(p, "terminate")
    /\ stopper' = [stopper EXCEPT ![p] = TRUE]
    /\ UNCHANGED <<os, table, cause, forced, input, spoolVars, starter, caller,
                   reader, verdict, closeVars, store>>

MonitorReaps(p) ==
    /\ monitor[p] = "reap" /\ (Exited(p) \/ forced[p])
    /\ monitor' = [monitor EXCEPT ![p] = "drain"]
    /\ UNCHANGED <<osVars, table, recordVars, spoolVars, threadVars, verdict, closeVars, store>>

\* _drain_readers and output.finish(): when the reader is done, or at the deadline, with
\* a KILL for whoever still has the output open.  The last bytes may not fit.
MonitorFinishes(p) ==
    /\ monitor[p] = "drain"
    /\ monitor' = [monitor EXCEPT ![p] = "decide"]
    /\ spool' = [spool EXCEPT ![p] = IF @ = "open" THEN "finished" ELSE @]
    /\ \/ UNCHANGED <<failure, state>>
       \/ /\ failure[p] = "none" /\ spool[p] = "open" /\ Room(p)
          /\ failure' = [failure EXCEPT ![p] = "output"]
          /\ state' = [state EXCEPT ![p] = "stopping"]
    /\ UNCHANGED <<osVars, table, cause, forced, input, size, threadVars, verdict,
                   closeVars, store>>

TerminalState(p) ==
    IF failure[p] # "none" THEN "failed"
    ELSE IF cause[p] = "timeout" THEN "timed_out"
    ELSE IF cause[p] # "none" THEN "terminated" ELSE "exited"

MonitorDecides(p) ==
    /\ monitor[p] = "decide"
    /\ monitor' = [monitor EXCEPT ![p] = "persist"]
    /\ verdict' = [verdict EXCEPT ![p] = TerminalState(p)]
    /\ UNCHANGED <<osVars, table, recordVars, spoolVars, threadVars, closeVars, store>>

\* _persist_completion: stored, or not; never from a spool that close() has removed.
MonitorPersists(p) ==
    /\ monitor[p] = "persist"
    /\ monitor' = [monitor EXCEPT ![p] = "publish"]
    /\ \/ /\ spool[p] # "closed"
          /\ store' = [store EXCEPT ![p] = verdict[p]]
       \/ /\ p \in Disturbed \/ spool[p] = "closed"
          /\ UNCHANGED store
    /\ UNCHANGED <<osVars, table, recordVars, spoolVars, threadVars, verdict, closeVars>>

\* Mutant: the state is decided again when it is published.
PublishesAfresh(p) ==
    /\ monitor[p] = "publish"
    /\ monitor' = [monitor EXCEPT ![p] = "done"]
    /\ state' = [state EXCEPT ![p] = TerminalState(p)]
    /\ verdict' = [verdict EXCEPT ![p] = "none"]
    /\ input' = [input EXCEPT ![p] = FALSE]
    /\ UNCHANGED <<osVars, table, cause, failure, forced, spoolVars, threadVars,
                   closeVars, store>>

\* The terminal state, and the event to the listeners.  What the pump has not written by
\* now fails without effect.
MonitorPublishes(p) ==
    /\ monitor[p] = "publish"
    /\ monitor' = [monitor EXCEPT ![p] = "done"]
    /\ state' = [state EXCEPT ![p] = verdict[p]]
    /\ verdict' = [verdict EXCEPT ![p] = "none"]
    /\ input' = [input EXCEPT ![p] = FALSE]
    /\ UNCHANGED <<osVars, table, cause, failure, forced, spoolVars, threadVars,
                   closeVars, store>>

-----------------------------------------------------------------------------
(* Other calls, eviction, and close().                                     *)

\* _acquire_record_call and _release_record_call: poll, wait_terminal, write, ... return
\* at the latest when their deadline has passed.
CallerEnters(p) ==
    /\ ~caller[p] /\ p \in Disturbed /\ ~Closed /\ ServiceFree /\ table[p] = "kept"
    /\ caller' = [caller EXCEPT ![p] = TRUE]
    /\ UNCHANGED <<osVars, table, recordVars, spoolVars, starter, stopper, reader,
                   monitorVars, closeVars, store>>

CallerReturns(p) ==
    /\ caller[p] /\ ~Jammed(p)
    /\ caller' = [caller EXCEPT ![p] = FALSE]
    /\ UNCHANGED <<osVars, table, recordVars, spoolVars, starter, stopper, reader,
                   monitorVars, closeVars, store>>

\* _prune: by age or number, at the beginning of any call.
Prune(p) ==
    /\ table[p] = "kept" /\ IsTerminal(p) /\ NoCalls(p) /\ ServiceFree
    /\ Evict({p}) /\ CloseSpool(p)
    /\ UNCHANGED <<osVars, state, forced, input, threadVars, monitorVars, closeVars, store>>

\* close() does to one process after the other what is one step here: they do not meet.
CloseBegins ==
    /\ closer = "no" /\ ServiceFree
    /\ closer' = "terminate" /\ todo' = Kept
    /\ UNCHANGED <<osVars, table, recordVars, spoolVars, threadVars, monitorVars, store>>

CloseTerminates ==
    /\ closer = "terminate"
    /\ closer' = "kill"
    /\ LET claimed == {p \in todo : MayClaim(p)}
       IN /\ cause' = [p \in Procs |-> IF p \in claimed THEN "shutdown" ELSE cause[p]]
          /\ state' = [p \in Procs |-> IF p \in claimed THEN "stopping" ELSE state[p]]
          /\ signalled' = [p \in Procs |-> IF p \in claimed THEN Sent(p, "terminate")[p]
                                           ELSE signalled[p]]
    /\ UNCHANGED <<os, table, failure, forced, input, spoolVars, threadVars, monitorVars, todo, store>>

\* Mutant: only what has been claimed is killed.
CloseKillsClaimed ==
    /\ closer = "kill"
    /\ closer' = "force"
    /\ signalled' = [p \in Procs |-> IF p \in todo /\ cause[p] = "shutdown" THEN Sent(p, "kill")[p]
                                     ELSE signalled[p]]
    /\ UNCHANGED <<os, table, recordVars, spoolVars, threadVars, monitorVars, todo, store>>

CloseKills ==
    /\ closer = "kill"
    /\ closer' = "force"
    /\ signalled' = [p \in Procs |-> IF p \in todo THEN Sent(p, "kill")[p] ELSE signalled[p]]
    /\ UNCHANGED <<os, table, recordVars, spoolVars, threadVars, monitorVars, todo, store>>


\* What KILL has not ended is given up: the monitor need not wait for it.
CloseForces ==
    /\ closer = "force"
    /\ closer' = "release"
    /\ forced' = [p \in Procs |-> forced[p] \/ (p \in todo /\ ~Exited(p))]
    /\ UNCHANGED <<osVars, table, state, cause, failure, input, spoolVars, threadVars, monitorVars,
                   todo, store>>

\* The monitor is waited for until a deadline, the calls for as long as they take.
CloseReleases(p) ==
    /\ closer = "release" /\ p \in todo /\ NoCalls(p)
    /\ todo' = todo \ {p}
    /\ CloseSpool(p)
    /\ UNCHANGED <<osVars, table, recordVars, threadVars, monitorVars, closer, store>>

CloseEnds ==
    /\ closer = "release" /\ todo = {}
    /\ closer' = "done"
    /\ Evict(Kept)
    /\ UNCHANGED <<osVars, state, forced, input, spoolVars, threadVars, monitorVars, todo, store>>

\* The operating system: a process exits when it likes, and after KILL it has to.  Of a
\* process that is gone nobody asks whether it was signalled or given up, and the second
\* signal of a thread that stops it has no effect.
Dies(p) ==
    /\ os[p] = "live"
    /\ os' = [os EXCEPT ![p] = "dead"]
    /\ signalled' = [signalled EXCEPT ![p] = "none"]
    /\ stopper' = [stopper EXCEPT ![p] = FALSE]
    /\ forced' = [forced EXCEPT ![p] = FALSE]
    /\ UNCHANGED <<table, state, cause, failure, input, spoolVars, starter, caller, reader,
                   monitorVars, closeVars, store>>

-----------------------------------------------------------------------------
Init ==
    /\ os = [p \in Procs |-> "none"] /\ signalled = [p \in Procs |-> "none"]
    /\ table = [p \in Procs |-> "free"] /\ state = [p \in Procs |-> "starting"]
    /\ cause = [p \in Procs |-> "none"] /\ failure = [p \in Procs |-> "none"]
    /\ forced = [p \in Procs |-> FALSE]
    /\ input = [p \in Procs |-> FALSE]
    /\ spool = [p \in Procs |-> "none"] /\ size = [p \in Procs |-> 0]
    /\ starter = [p \in Procs |-> "none"] /\ caller = [p \in Procs |-> FALSE]
    /\ stopper = [p \in Procs |-> FALSE] /\ reader = [p \in Procs |-> "off"]
    /\ monitor = [p \in Procs |-> "off"] /\ verdict = [p \in Procs |-> "none"]
    /\ closer = "no" /\ todo = {}
    /\ store = [p \in Procs |-> "none"]

StarterStep(p) ==
    \/ StartReserves(p) \/ StartSpawns(p) \/ StartRegisters(p) \/ StartWorkers(p)
    \/ StartReturns(p)
MonitorStep(p) ==
    /\ ~Jammed(p)
    /\ \/ MonitorSees(p) \/ MonitorReaps(p) \/ MonitorFinishes(p) \/ MonitorDecides(p)
       \/ MonitorPersists(p) \/ MonitorPublishes(p)
WorkerStep(p) ==
    \/ Timeout(p) \/ Abort(p) \/ Escalate(p) \/ ReapForces(p) \/ MonitorBreaks(p)
    \/ ReaderAppends(p) \/ ReaderFails(p) \/ ReaderEnds(p) \/ PumpWrites(p) \/ Jams(p)
    \/ \E q \in Procs : ReaderReclaims(p, q)
CallerStep(p) ==
    \/ CallerEnters(p) \/ CallerReturns(p) \/ CallerWrites(p) \/ Prune(p)
    \/ \E c \in {"terminate", "kill"} : CallerStops(p, c)
CloseStep ==
    \/ CloseBegins \/ CloseTerminates \/ CloseKills \/ CloseForces \/ CloseEnds
    \/ \E p \in Procs : CloseReleases(p)

Next ==
    \/ \E p \in Procs : StarterStep(p) \/ StartRaises(p) \/ MonitorStep(p) \/ WorkerStep(p) \/ CallerStep(p) \/ Dies(p)
    \/ CloseStep

Spec == Init /\ [][Next]_vars

\* Threads are scheduled, deadlines pass, and KILL ends a process that it can end.  (Stops,
\* failures and calls happen to Disturbed processes only.)
Fairness ==
    /\ \A p \in Procs :
          WF_vars(starter[p] # "none" /\ StarterStep(p)) /\ WF_vars(MonitorStep(p))
    /\ \A p \in Disturbed :
          WF_vars(Escalate(p)) /\ WF_vars(ReapForces(p)) /\ WF_vars(CallerReturns(p))
    /\ \A p \in Procs \ Unkillable : WF_vars(signalled[p] = "kill" /\ Dies(p))
    /\ WF_vars(Closed /\ CloseStep)
FairSpec == Spec /\ Fairness

-----------------------------------------------------------------------------
States == {"starting", "running", "stopping", "draining"} \cup Terminal
TypeOK ==
    /\ os \in [Procs -> {"none", "live", "dead"}]
    /\ signalled \in [Procs -> {"none", "terminate", "kill"}]
    /\ table \in [Procs -> {"free", "starting", "kept", "gone", "never", "dropped"}]
    /\ state \in [Procs -> States]
    /\ cause \in [Procs -> {"none", "timeout", "request", "shutdown"}]
    /\ failure \in [Procs -> {"none", "output", "input", "monitor"}]
    /\ forced \in [Procs -> BOOLEAN]
    /\ input \in [Procs -> BOOLEAN]
    /\ spool \in [Procs -> {"none", "open", "finished", "closed"}]
    /\ size \in [Procs -> 0..MaxSize] /\ Used <= MaxLive
    /\ starter \in [Procs -> {"none", "reserved", "spawned", "registered", "handoff", "returned",
                              "raised"}]
    /\ caller \in [Procs -> BOOLEAN] /\ stopper \in [Procs -> BOOLEAN]
    /\ reader \in [Procs -> {"off", "reading", "done", "jammed"}]
    /\ monitor \in [Procs -> {"off", "watch", "reap", "drain", "decide", "persist", "publish", "done"}]
    /\ verdict \in [Procs -> Terminal \cup {"none"}]
    /\ closer \in {"no", "terminate", "kill", "force", "release", "done"}
    /\ todo \in SUBSET Procs
    /\ store \in [Procs -> Terminal \cup {"none"}]

\* The limits hold at every moment, the processes whose start() is under way included.
ActiveBound == Cardinality(Active) <= MaxActive

\* No call loses the output it reads: neither eviction nor close() removes the spool of a
\* process while a call on it is under way.  (A start() that fails does, under a call that
\* has found its process in the list of the owner.)
OutputKept == \A p \in Procs : ~NoCalls(p) => spool[p] # "closed" \/ table[p] = "dropped"

\* A terminal state is said of a process that is gone, or that KILL could not end.
TerminalIsDead == \A p \in Procs : IsTerminal(p) => Exited(p) \/ forced[p]

\* What a resumed session reads from the completion store is what was published, even
\* if a reader or the pump fails while the monitor is at it.
PublishedIsStored == \A p \in Procs : IsTerminal(p) /\ store[p] # "none" => store[p] = state[p]

\* "Terminal states are immutable", and so is the output that goes with them.
TerminalStands ==
    [][\A p \in Procs : IsTerminal(p) =>
          state'[p] = state[p] /\ (size'[p] = size[p] \/ spool'[p] = "closed")]_vars

\* When close() has returned, the only processes left are ones that KILL did not end, and
\* ones that a start() had spawned which then failed: because the service was closed when it
\* came to register them (it may still be about to find out), or after that.
OnlyFailedStartsSurvive ==
    closer = "done" => \A p \in Procs : os[p] = "live" =>
        signalled[p] = "kill" \/ starter[p] \in {"spawned", "raised"}

\* A process that was told to stop ends, and says so, unless the locks are jammed.  One
\* whose start() failed may have no monitor to say it.
StopsEnd ==
    \A p \in Procs \ Unkillable : cause[p] # "none" ~>
        IsTerminal(p) \/ Jammed(p) \/ (table[p] = "dropped" /\ Exited(p))


\* The records of the service are sound: they have their types, are within the limit, keep the
\* output that a call reads, call a process ended that is, and agree with the store.
RecordsSound ==
    /\ TypeOK
    /\ ActiveBound
    /\ OutputKept
    /\ TerminalIsDead
    /\ PublishedIsStored
=============================================================================

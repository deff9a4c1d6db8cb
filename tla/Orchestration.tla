--------------------------- MODULE Orchestration ---------------------------
(***************************************************************************)
(* The orchestration skill's helper, scripts/orchestrate.py: a coordinator *)
(* (A) runs its commands, each a process of its own, against a SQLite      *)
(* store and the relay of each worker, a server in a tmux session around   *)
(* one child (B) that takes prompts and reports with commands of its own.  *)
(*                                                                         *)
(* A step is one transaction of the store, one request to a relay, or one  *)
(* look at tmux: between two steps of a command other commands, B and      *)
(* crashes may come.  Two commands are under way at most.                  *)
(*                                                                         *)
(* Abstractions: one run, whose tasks exist; a worker's identity is used   *)
(* for one start; success and failure of a dispatch are both "reported";   *)
(* B's status messages, which wait for an acknowledgement and change       *)
(* nothing, are left out, and so are the second and later packets for an   *)
(* abandoned dispatch.  A command repeated with its key finds the result   *)
(* of the first and changes nothing.  Neither does one that fails, or is   *)
(* killed, before its first change; these are left out.                    *)
(***************************************************************************)
EXTENDS Naturals, FiniteSets

CONSTANTS
    Tasks,          \* tasks of the run
    Handoff,        \* the ones whose mode is full_handoff
    Workers,        \* workers that may be started
    Commands,       \* commands of A that are under way at a time
    MaxWorkers,     \* max_workers
    MaxRounds,      \* maxRounds of every task
    MaxDispatches,  \* bound: dispatches created
    Employed,       \* bound: the workers on which the other commands are used, and that fail;
                    \* the others are only started, and not in a run with dispatches
    Asking,         \* bound: the dispatches in which B asks a question
    MaxFaults,      \* bound: requests that fail or are not answered, relays that die, commands that are killed
    SharedFails     \* bound: whether something may fail once a worker has two unsettled dispatches

ASSUME OrchestrationAssumption ==
    /\ IsFiniteSet(Tasks) /\ Handoff \subseteq Tasks /\ IsFiniteSet(Workers) /\ Employed \subseteq Workers
    /\ MaxWorkers \in Nat \ {0} /\ MaxRounds \in Nat /\ MaxDispatches \in Nat /\ MaxFaults \in Nat
    /\ SharedFails \in BOOLEAN

VARIABLES
    \* the store
    task,       \* tasks: status and prompt_count
    worker,     \* workers: status ("none": no row) and retained
    dispatch,   \* dispatches: task, worker, status, settled_at is set ("none": no row)
    message,    \* messages: B's question and its terminal packet, for each dispatch
    \* tmux and the relays
    relay,      \* of each worker: "none", "up", "childless" (its child is dead), "gone"
    capability, \* the dispatch whose capability its child has, or 0
    turn,       \* the dispatch whose prompt is under way, or 0
    \* the commands of A
    command,    \* for each, what it does next, and on what
    \* history
    prompted,   \* prompts and replies that B got, for each dispatch
    shared,     \* workers that had two unsettled dispatches at a time
    raced,      \* "reply": a question was replied to while B went on with its turn
    misjudged,  \* workers of which a command took it that they have no session, wrongly: tmux
                \* did not answer, or recover recorded as lost what was still to be started
    faults

storeVars == <<task, worker, dispatch, message>>
relayVars == <<relay, capability, turn>>
history == <<prompted, shared, raced, misjudged, faults>>
vars == <<storeVars, relayVars, command, history>>

Dispatches == 1..MaxDispatches
Kinds == {"question", "packet"}
ActiveWorkerStatuses == {"starting", "ready", "busy", "idle", "retained", "outcome_unknown"}

Exists(d) == dispatch[d].status # "none"
OfTask(t) == {d \in Dispatches : Exists(d) /\ dispatch[d].task = t}
OfWorker(w) == {d \in Dispatches : Exists(d) /\ dispatch[d].worker = w}
Unsettled(ds) == {d \in ds : ~dispatch[d].settled}
WorkerOf(d) == dispatch[d].worker
\* The session is there.  A command asks tmux with has_session, for which an answer that does
\* not come is a "no": see Unseen.
HasSession(w) == relay[w] \in {"up", "childless"}
TaskOf(d) == dispatch[d].task

SetTask(t, s) == task' = [task EXCEPT ![t].status = s]
SetWorker(w, s) == worker' = [worker EXCEPT ![w].status = s]
SetDispatch(d, s) == dispatch' = [dispatch EXCEPT ![d].status = s]

\* What the command c does next, and that it is over.
Idle == [at |-> "none", on |-> 0]
At(c, at) == command[c].at = at
On(c) == command[c].on
Goes(c, at, on) == command' = [command EXCEPT ![c] = [at |-> at, on |-> on]]
Ends(c) == command' = [command EXCEPT ![c] = Idle]

MayFail == faults < MaxFaults /\ (shared = {} \/ SharedFails)
Fails == MayFail /\ faults' = faults + 1

\* has_session says "no" of a session that is there: tmux cannot be run, or takes too long.
Unseen(w) == HasSession(w) /\ w \in Employed /\ Fails
Misjudge(w) == misjudged' = misjudged \cup {w}

-----------------------------------------------------------------------------
(* worker-start                                                            *)

ActiveWorkers == {w \in Workers : worker[w].status \in ActiveWorkerStatuses}

\* reserve_worker
ReserveWorker(c, w) ==
    /\ At(c, "none") /\ worker[w].status = "none"
    /\ Cardinality(ActiveWorkers) < MaxWorkers
    /\ w \in Employed \/ \A d \in Dispatches : ~Exists(d)
    /\ SetWorker(w, "starting")
    /\ Goes(c, "launch", w)
    /\ UNCHANGED <<task, dispatch, message, relayVars, history>>

\* prepare_workspace and start_relay.  When one of them fails the worker is "stopped", or,
\* if the workspace may be there or the session is seen, "outcome_unknown".
LaunchWorker(c) ==
    LET w == On(c) IN
    /\ At(c, "launch")
    /\ \/ /\ relay' = [relay EXCEPT ![w] = "up"]
          /\ Goes(c, "health", w)
          /\ UNCHANGED <<worker, misjudged, faults>>
       \/ /\ w \in Employed /\ Fails /\ Ends(c)
          /\ \/ SetWorker(w, "stopped") /\ UNCHANGED <<relay, misjudged>>
             \/ SetWorker(w, "stopped") /\ relay' = [relay EXCEPT ![w] = "up"] /\ Misjudge(w)
             \/ /\ SetWorker(w, "outcome_unknown") /\ relay' \in {relay, [relay EXCEPT ![w] = "up"]}
                /\ UNCHANGED misjudged
    /\ UNCHANGED <<task, dispatch, message, capability, turn, prompted, shared, raced>>

\* Mutant: a worker that does not answer in time is taken for stopped.
AwaitImpatient(c) ==
    LET w == On(c) IN
    /\ At(c, "health") /\ Ends(c)
    /\ \/ relay[w] = "up" /\ SetWorker(w, "ready") /\ UNCHANGED faults
       \/ relay[w] = "up" /\ SetWorker(w, "stopped") /\ Fails
    /\ UNCHANGED <<task, dispatch, message, relayVars, prompted, shared, raced, misjudged>>

\* The session is there and answers, does not answer in time, is gone, or is not seen.
AwaitHealth(c) ==
    LET w == On(c) IN
    /\ At(c, "health") /\ Ends(c)
    /\ \/ HasSession(w) /\ SetWorker(w, "ready") /\ UNCHANGED <<misjudged, faults>>
       \/ HasSession(w) /\ SetWorker(w, "outcome_unknown") /\ w \in Employed /\ Fails /\ UNCHANGED misjudged
       \/ ~HasSession(w) /\ SetWorker(w, "stopped") /\ UNCHANGED <<misjudged, faults>>
       \/ Unseen(w) /\ SetWorker(w, "stopped") /\ Misjudge(w)
    /\ UNCHANGED <<task, dispatch, message, relayVars, prompted, shared, raced>>

-----------------------------------------------------------------------------
(* dispatch-start                                                          *)

\* The bound on the other workers.
OnlyEmployed == \A w \in Workers \ Employed : worker[w].status = "none"

\* A correction has the acknowledged packet of the latest dispatch for its parent.
HasParent(t) == \E d \in OfTask(t) : message[d]["packet"] = "acknowledged" /\ \A e \in OfTask(t) : e <= d

\* create_dispatch
CreateDispatch(c, t, w) ==
    LET d == 1 + Cardinality({e \in Dispatches : Exists(e)}) IN
    /\ At(c, "none") /\ d \in Dispatches /\ w \in Employed /\ OnlyEmployed
    /\ task[t].status \in {"pending", "active", "awaiting_coordinator", "reported"}
    /\ worker[w].status \in {"ready", "idle"}
    /\ task[t].prompts < MaxRounds
    /\ Unsettled(OfTask(t)) = {}
    /\ task[t].status = "reported" => HasParent(t)
    /\ dispatch' = [dispatch EXCEPT ![d] =
                       [task |-> t, worker |-> w, status |-> "queued", settled |-> FALSE]]
    /\ task' = [task EXCEPT ![t] = [status |-> "active", prompts |-> @.prompts + 1]]
    /\ shared' = IF Unsettled(OfWorker(w)) = {} THEN shared ELSE shared \cup {w}
    /\ Goes(c, "configure", d)
    /\ UNCHANGED <<worker, message, relayVars, prompted, raced, misjudged, faults>>

\* A relay and its child can be reached; what they are asked, or the answer, may still be lost.
Up(d) == relay[WorkerOf(d)] = "up"
Quiet(d) == turn[WorkerOf(d)] = 0

\* Mutant: a child that has a capability keeps it.
ConfigureOnce(c) ==
    LET d == On(c) IN
    /\ At(c, "configure") /\ Up(d) /\ Quiet(d)
    /\ capability' = [capability EXCEPT ![WorkerOf(d)] = IF @ = 0 THEN d ELSE @]
    /\ Goes(c, "prompt", d)
    /\ UNCHANGED <<storeVars, relay, turn, history>>

\* The relay of w is left without a child.
Orphaned(w) ==
    /\ relay' = [relay EXCEPT ![w] = "childless"]
    /\ capability' = [capability EXCEPT ![w] = 0]

\* configure_dispatch: the child is replaced by one that has the capability of d; the old one
\* is shut down before the new one is known to work.
Configure(c) ==
    LET d == On(c)
        taken == [capability EXCEPT ![WorkerOf(d)] = d]
    IN
    /\ At(c, "configure")
    /\ \/ /\ Up(d) /\ Quiet(d)
          /\ \/ capability' = taken /\ Goes(c, "prompt", d) /\ UNCHANGED <<relay, faults>>
             \/ /\ Goes(c, "doubt", d) /\ Fails
                /\ \/ capability' \in {taken, capability} /\ UNCHANGED relay
                   \/ Orphaned(WorkerOf(d))
       \/ /\ ~Up(d) \/ ~Quiet(d)
          /\ Goes(c, "doubt", d)
          /\ UNCHANGED <<relay, capability, faults>>
    /\ UNCHANGED <<storeVars, turn, prompted, shared, raced, misjudged>>

\* _accept_prompt, _run_prompt: one prompt at a time.
Begins(d) ==
    /\ turn' = [turn EXCEPT ![WorkerOf(d)] = d]
    /\ prompted' = [prompted EXCEPT ![d] = @ + 1]

\* Mutant: a prompt whose answer is lost is sent again.
PromptRetries(c) ==
    LET d == On(c) IN
    /\ At(c, "prompt") /\ Up(d) /\ Quiet(d) /\ Begins(d)
    /\ \/ Goes(c, "accept", d) /\ UNCHANGED faults
       \/ Goes(c, "prompt", d) /\ Fails
    /\ UNCHANGED <<storeVars, relay, capability, shared, raced, misjudged>>

\* prompt: accepted when the child shows activity; an answer that comes too late, or is
\* lost, leaves a prompt that is being worked on.  A dispatch is then marked accepted, a
\* reply is over.  A prompt to a dead child fails, and is taken for accepted if its thread
\* ends between the look at its error and the look at the thread.
Prompt(c) ==
    LET d == On(c)
        accepted == IF At(c, "prompt") THEN Goes(c, "accept", d) ELSE Ends(c)
    IN
    /\ At(c, "prompt") \/ At(c, "resume")
    /\ \/ /\ Up(d) /\ Quiet(d)
          /\ \/ Begins(d) /\ accepted /\ UNCHANGED faults
             \/ Begins(d) /\ Goes(c, "doubt", d) /\ Fails
             \/ Goes(c, "doubt", d) /\ Fails /\ UNCHANGED <<turn, prompted>>
       \/ /\ ~Up(d) \/ ~Quiet(d)
          /\ \/ Goes(c, "doubt", d)
             \/ relay[WorkerOf(d)] = "childless" /\ Quiet(d) /\ accepted
          /\ UNCHANGED <<turn, prompted, faults>>
    /\ UNCHANGED <<storeVars, relay, capability, shared, raced, misjudged>>

\* set_dispatch_status looks at nothing before it writes.
SetDispatchStatus(d, s) ==
    /\ SetDispatch(d, s)
    /\ SetWorker(WorkerOf(d), IF s = "accepted" THEN "busy" ELSE "outcome_unknown")

Accept(c) ==
    LET d == On(c) IN
    /\ At(c, "accept")
    /\ SetDispatchStatus(d, "accepted")
    /\ IF TaskOf(d) \in Handoff THEN Goes(c, "retain", WorkerOf(d)) ELSE Ends(c)
    /\ UNCHANGED <<task, message, relayVars, history>>

Doubt(c) ==
    /\ At(c, "doubt") /\ Ends(c)
    /\ SetDispatchStatus(On(c), "outcome_unknown")
    /\ UNCHANGED <<task, message, relayVars, history>>

-----------------------------------------------------------------------------
(* Messages.                                                               *)

\* check_messages and wait_dispatch: a message of B is read, its relay is asked whether B
\* is idle, and only then is the delivery recorded (in a count that nothing reads).
CheckMessages(c, d, k) ==
    /\ At(c, "none") /\ message[d][k] = "sent" /\ Up(d) /\ Quiet(d)
    /\ Goes(c, "deliver", <<d, k>>)
    /\ UNCHANGED <<storeVars, relayVars, history>>

Deliver(c) ==
    /\ At(c, "deliver") /\ Ends(c)
    /\ UNCHANGED <<storeVars, relayVars, history>>

\* acknowledge_message: whether or not the message was delivered.
AcknowledgeMessage(d, k) ==
    /\ message[d][k] = "sent"
    /\ message' = [message EXCEPT ![d][k] = "acknowledged"]
    /\ UNCHANGED <<task, worker, dispatch, relayVars, command, history>>

\* reply_to_message asks the relay whether B is idle, if the question is acknowledged ...
\* (A dispatch that does not wait for a reply now never will.)
ReplyToMessage(c, d) ==
    /\ At(c, "none") /\ dispatch[d].status = "awaiting_coordinator"
    /\ message[d]["question"] = "acknowledged" => Up(d) /\ Quiet(d)
    /\ Goes(c, "reply", d)
    /\ UNCHANGED <<storeVars, relayVars, history>>

\* ... and create_reply decides.
CreateReply(c) ==
    LET d == On(c)
        t == TaskOf(d)
    IN
    /\ At(c, "reply")
    /\ IF /\ message[d]["question"] = "acknowledged"
          /\ dispatch[d].status = "awaiting_coordinator" /\ ~dispatch[d].settled
          /\ worker[WorkerOf(d)].status = "idle" /\ task[t].prompts < MaxRounds
       THEN /\ task' = [task EXCEPT ![t] = [status |-> "active", prompts |-> @.prompts + 1]]
            /\ SetDispatch(d, "running")
            /\ SetWorker(WorkerOf(d), "busy")
            /\ raced' = raced \cup (IF Quiet(d) THEN {} ELSE {"reply"})
            /\ Goes(c, "resume", d)
       ELSE Ends(c) /\ UNCHANGED <<task, dispatch, worker, raced>>
    /\ UNCHANGED <<message, relayVars, prompted, shared, misjudged, faults>>

-----------------------------------------------------------------------------
(* Lifecycle commands.                                                     *)

\* set_worker_retained
Retained(w) ==
    worker' = [worker EXCEPT ![w] = [status |-> IF @.status \in {"ready", "idle", "busy"}
                                                THEN "retained" ELSE @.status,
                                     retained |-> TRUE]]

\* worker-retain.  (It reads the status before its transaction; a status that is out of
\* date then only makes it set the flag of a worker that is stopped, lost or in doubt.)
RetainWorker(w) ==
    /\ ~worker[w].retained /\ worker[w].status \in {"ready", "idle", "busy", "retained"}
    /\ w \in Employed
    /\ Retained(w)
    /\ UNCHANGED <<task, dispatch, message, relayVars, command, history>>

\* The end of dispatch-start for a full handoff.
RetainHandoff(c) ==
    /\ At(c, "retain") /\ Ends(c)
    /\ Retained(On(c))
    /\ UNCHANGED <<task, dispatch, message, relayVars, history>>

\* worker-release: nothing is unacknowledged; then, if the session is there, B is idle; then
\* it is closed, and only then is the worker recorded as stopped.
Pending(w) == {d \in OfWorker(w) : \E k \in Kinds : message[d][k] = "sent"}
ReleaseWorker(c, w) ==
    /\ At(c, "none") /\ w \in Employed /\ worker[w].status \in {"ready", "idle", "retained"}
    /\ Pending(w) = {}
    /\ Goes(c, "look", w)
    /\ UNCHANGED <<storeVars, relayVars, history>>

ReleaseLooks(c) ==
    LET w == On(c) IN
    /\ At(c, "look")
    /\ \/ /\ \/ ~HasSession(w) /\ Goes(c, "stop", w)
             \/ relay[w] = "up" /\ turn[w] = 0 /\ Goes(c, "close", w)
             \/ HasSession(w) /\ (relay[w] = "childless" \/ turn[w] # 0) /\ Ends(c)
          /\ UNCHANGED <<misjudged, faults>>
       \/ Unseen(w) /\ Misjudge(w) /\ Goes(c, "stop", w)
    /\ UNCHANGED <<storeVars, relayVars, prompted, shared, raced>>

\* The session ends, and B's turn with it.
Gone(w) ==
    /\ relay' = [relay EXCEPT ![w] = "gone"]
    /\ turn' = [turn EXCEPT ![w] = 0]
    /\ capability' = [capability EXCEPT ![w] = 0]

\* (A relay that has answered "close" ends, whether or not it is waited for.)
ReleaseCloses(c) ==
    LET w == On(c) IN
    /\ At(c, "close")
    /\ \/ relay[w] = "up" /\ Gone(w) /\ Goes(c, "stop", w) /\ UNCHANGED faults
       \/ relay[w] # "up" /\ Ends(c) /\ UNCHANGED <<relayVars, faults>>
       \/ relay[w] = "up" /\ Gone(w) /\ Ends(c) /\ Fails
    /\ UNCHANGED <<storeVars, prompted, shared, raced, misjudged>>

\* set_worker_stopped
ReleaseStops(c) ==
    /\ At(c, "stop") /\ Ends(c)
    /\ worker' = [worker EXCEPT ![On(c)] = [status |-> "stopped", retained |-> FALSE]]
    /\ UNCHANGED <<task, dispatch, message, relayVars, history>>

\* dispatch-cancel ends the session of the worker, by request or by force, if it sees one, and
\* then marks the dispatch, if it is not settled.
CancelDispatch(c, d) ==
    /\ At(c, "none") /\ Exists(d) /\ dispatch[d].status # "cancelled" /\ TaskOf(d) \notin Handoff
    /\ Goes(c, "cancel", d)
    /\ \/ HasSession(WorkerOf(d)) /\ Gone(WorkerOf(d)) /\ UNCHANGED <<misjudged, faults>>
       \/ ~HasSession(WorkerOf(d)) /\ UNCHANGED <<relayVars, misjudged, faults>>
       \/ Unseen(WorkerOf(d)) /\ Misjudge(WorkerOf(d)) /\ UNCHANGED relayVars
    /\ UNCHANGED <<storeVars, prompted, shared, raced>>

MarkCancelled(c) ==
    LET d == On(c) IN
    /\ At(c, "cancel") /\ Ends(c)
    /\ IF dispatch[d].settled THEN UNCHANGED <<task, dispatch, worker>>
       ELSE /\ SetTask(TaskOf(d), "cancelled")
            /\ dispatch' = [dispatch EXCEPT ![d].status = "cancelled", ![d].settled = TRUE]
            /\ worker' = [worker EXCEPT ![WorkerOf(d)] = [status |-> "stopped", retained |-> FALSE]]
    /\ UNCHANGED <<message, relayVars, history>>

\* dispatch-abandon: B is left alone.
AbandonDispatch(d) ==
    /\ Exists(d) /\ dispatch[d].status # "abandoned" /\ ~dispatch[d].settled
    /\ SetTask(TaskOf(d), "abandoned")
    /\ SetDispatch(d, "abandoned")
    /\ worker' = [worker EXCEPT ![WorkerOf(d)] = [status |-> "retained", retained |-> TRUE]]
    /\ UNCHANGED <<message, relayVars, command, history>>

\* recover: what is recorded of a worker is compared with what is seen of it, and
\* corrected without another look.  A worker that is not ready has no session to be known by.
Recover(c, w) ==
    /\ At(c, "none") /\ w \in Employed /\ worker[w].status \in ActiveWorkerStatuses
    /\ \/ ~HasSession(w) /\ Goes(c, "lose", w) /\ UNCHANGED faults
       \/ Unseen(w) /\ Goes(c, "lose", w)
       \/ /\ HasSession(w) /\ worker[w].status # "outcome_unknown"
          /\ Goes(c, "suspect", w)
          /\ IF worker[w].status = "starting" \/ (relay[w] = "childless" /\ turn[w] = 0)
             THEN UNCHANGED faults ELSE Fails
    /\ UNCHANGED <<storeVars, relayVars, prompted, shared, raced, misjudged>>

RecoverSets(c) ==
    LET w == On(c) IN
    /\ At(c, "lose") \/ At(c, "suspect")
    /\ Ends(c)
    /\ SetWorker(w, IF At(c, "lose") THEN "lost" ELSE "outcome_unknown")
    /\ misjudged' = misjudged \cup (IF At(c, "lose") /\ relay[w] # "gone" THEN {w} ELSE {})
    /\ UNCHANGED <<task, dispatch, message, relayVars, prompted, shared, raced, faults>>

-----------------------------------------------------------------------------
(* B, and what happens to it.                                              *)

\* B has the capability of the dispatch it works on.
Authorised(w) == turn[w] # 0 /\ capability[w] = turn[w]

\* Mutant: a late packet counts.
RecordLate(w) ==
    LET d == turn[w] IN
    /\ Authorised(w) /\ ~dispatch[d].settled /\ message[d]["packet"] = "none"
    /\ message' = [message EXCEPT ![d]["packet"] = "sent"]
    /\ dispatch' = [dispatch EXCEPT ![d].status = "reported", ![d].settled = TRUE]
    /\ SetTask(TaskOf(d), "reported")
    /\ UNCHANGED <<worker, relayVars, command, history>>

\* worker-complete and worker-fail: record_terminal.
RecordTerminal(w) ==
    LET d == turn[w] IN
    /\ Authorised(w) /\ ~dispatch[d].settled /\ message[d]["packet"] = "none"
    /\ message' = [message EXCEPT ![d]["packet"] = "sent"]
    /\ IF dispatch[d].status = "abandoned" THEN UNCHANGED <<dispatch, task, worker>>
       ELSE /\ dispatch' = [dispatch EXCEPT ![d].status = "reported", ![d].settled = TRUE]
            /\ SetTask(TaskOf(d), "reported")
            /\ SetWorker(w, IF worker[w].retained THEN "retained" ELSE "idle")
    /\ UNCHANGED <<relayVars, command, history>>

\* message-send of a question: send_worker_message.
SendQuestion(w) ==
    LET d == turn[w] IN
    /\ Authorised(w) /\ d \in Asking /\ ~dispatch[d].settled /\ message[d]["question"] = "none"
    /\ dispatch[d].status \in {"accepted", "running", "awaiting_coordinator"}
    /\ message' = [message EXCEPT ![d]["question"] = "sent"]
    /\ SetDispatch(d, "awaiting_coordinator")
    /\ SetTask(TaskOf(d), "awaiting_coordinator")
    /\ SetWorker(w, "idle")
    /\ UNCHANGED <<relayVars, command, history>>

TurnEnds(w) ==
    /\ turn[w] # 0
    /\ turn' = [turn EXCEPT ![w] = 0]
    /\ UNCHANGED <<storeVars, relay, capability, command, history>>

\* The child dies.  The thread of its prompt sees it, or, when the output of the child ended
\* before the child did, waits for the answer until the request times out, after an hour.
ChildDies(w) ==
    /\ relay[w] = "up" /\ w \in Employed /\ Fails
    /\ Orphaned(w)
    /\ turn' \in {turn, [turn EXCEPT ![w] = 0]}
    /\ UNCHANGED <<storeVars, command, prompted, shared, raced, misjudged>>

RelayDies(w) ==
    /\ HasSession(w) /\ w \in Employed /\ Fails
    /\ Gone(w)
    /\ UNCHANGED <<storeVars, command, prompted, shared, raced, misjudged>>

\* A command is killed after a step that changed something.
CommandDies(c) ==
    /\ command[c].at \notin {"none", "deliver", "reply", "look", "close", "lose", "suspect"} /\ Fails
    /\ Ends(c)
    /\ UNCHANGED <<storeVars, relayVars, prompted, shared, raced, misjudged>>

-----------------------------------------------------------------------------
Init ==
    /\ task = [t \in Tasks |-> [status |-> "pending", prompts |-> 0]]
    /\ worker = [w \in Workers |-> [status |-> "none", retained |-> FALSE]]
    /\ dispatch = [d \in Dispatches |->
                      [task |-> 0, worker |-> 0, status |-> "none", settled |-> FALSE]]
    /\ message = [d \in Dispatches |-> [k \in Kinds |-> "none"]]
    /\ relay = [w \in Workers |-> "none"]
    /\ capability = [w \in Workers |-> 0] /\ turn = [w \in Workers |-> 0]
    /\ command = [c \in Commands |-> Idle]
    /\ prompted = [d \in Dispatches |-> 0]
    /\ shared = {} /\ raced = {} /\ misjudged = {} /\ faults = 0

CommandBegins(c) ==
    \/ \E w \in Workers : \/ ReserveWorker(c, w) \/ ReleaseWorker(c, w) \/ Recover(c, w)
                          \/ \E t \in Tasks : CreateDispatch(c, t, w)
    \/ \E d \in Dispatches : \/ CancelDispatch(c, d) \/ ReplyToMessage(c, d)
                             \/ \E k \in Kinds : CheckMessages(c, d, k)
CommandGoesOn(c) ==
    \/ LaunchWorker(c) \/ AwaitHealth(c) \/ Configure(c) \/ Prompt(c) \/ Accept(c) \/ Doubt(c)
    \/ Deliver(c) \/ CreateReply(c) \/ RetainHandoff(c) \/ ReleaseLooks(c) \/ ReleaseCloses(c)
    \/ ReleaseStops(c) \/ MarkCancelled(c) \/ RecoverSets(c) \/ CommandDies(c)
ShortCommand ==
    \/ \E d \in Dispatches : AbandonDispatch(d) \/ \E k \in Kinds : AcknowledgeMessage(d, k)
    \/ \E w \in Workers : RetainWorker(w)
WorkerStep(w) == RecordTerminal(w) \/ SendQuestion(w) \/ TurnEnds(w) \/ ChildDies(w) \/ RelayDies(w)

Next ==
    \/ \E c \in Commands : CommandBegins(c) \/ CommandGoesOn(c)
    \/ ShortCommand
    \/ \E w \in Workers : WorkerStep(w)

Spec == Init /\ [][Next]_vars

-----------------------------------------------------------------------------
TypeOK ==
    /\ task \in [Tasks -> [status : {"pending", "active", "awaiting_coordinator", "reported",
                                     "cancelled", "abandoned"},
                           prompts : 0..MaxRounds]]
    /\ worker \in [Workers -> [status : ActiveWorkerStatuses \cup {"none", "stopped", "lost"},
                               retained : BOOLEAN]]
    /\ dispatch \in [Dispatches ->
                       [task : Tasks \cup {0}, worker : Workers \cup {0}, settled : BOOLEAN,
                        status : {"none", "queued", "accepted", "running", "awaiting_coordinator",
                                  "reported", "cancelled", "abandoned", "outcome_unknown"}]]
    /\ message \in [Dispatches -> [Kinds -> {"none", "sent", "acknowledged"}]]
    /\ relay \in [Workers -> {"none", "up", "childless", "gone"}]
    /\ capability \in [Workers -> Dispatches \cup {0}] /\ turn \in [Workers -> Dispatches \cup {0}]
    /\ DOMAIN command = Commands
    /\ prompted \in [Dispatches -> Nat] /\ shared \subseteq Workers
    /\ raced \subseteq {"reply"} /\ misjudged \subseteq Workers /\ faults \in 0..MaxFaults

\* "Limits reject before spawning or replaying work": whatever is lost, killed or repeated,
\* B gets no more prompts for a task than the task has counted, at most one for a dispatch
\* and one for the reply to its question.
Prompts(t) == UNION {{d} \X (1..prompted[d]) : d \in OfTask(t)}
NoReplay ==
    /\ \A t \in Tasks : Cardinality(Prompts(t)) <= task[t].prompts
    /\ \A d \in Dispatches :
          prompted[d] <= IF message[d]["question"] = "acknowledged" THEN 2 ELSE 1

\* B can report on what it works on: the child that got a prompt has the capability of its
\* dispatch, as long as its worker has had one unsettled dispatch at a time, and no reply was
\* overtaken by the packet of its dispatch.
ReportsAuthorised ==
    "reply" \in raced \/
    \A w \in Workers \ shared : relay[w] = "up" /\ turn[w] # 0 => capability[w] = turn[w]

\* A worker that is recorded as stopped has no session, and never gets one, unless tmux did
\* not answer a command that asked for it.
StoppedIsGone ==
    \A w \in Workers \ misjudged : worker[w].status = "stopped" => ~HasSession(w)

\* No more sessions than the limit, not counting those that tmux did not show to a command, or
\* that were started after recover had taken their worker for lost.
LiveWorkerBound == Cardinality({w \in Workers : HasSession(w)} \ misjudged) <= MaxWorkers

\* dispatch-start or message-reply is under way for d.
InFlight(d) ==
    \E c \in Commands :
        /\ command[c].at \in {"configure", "prompt", "accept", "doubt", "reply", "resume"}
        /\ On(c) = d

\* "Earlier Dispatches stay immutable", and a late packet "cannot advance the abandoned
\* Task": unless a command that began before is still to write its result.
OutcomeStands ==
    [][\A d \in Dispatches : Exists(d) /\ ~InFlight(d) =>
          /\ dispatch[d].settled => dispatch'[d] = dispatch[d]
          /\ dispatch[d].status = "abandoned" =>
                /\ dispatch'[d].status \in {"abandoned", "cancelled"}
                /\ task'[TaskOf(d)].status = dispatch'[d].status]_vars

\* "Questions and terminal packets are not delivered until B's RPC turn is idle": from the
\* look at the relay to the delivery B does not go on with the dispatch, unless the message
\* is acknowledged meanwhile, or is the packet of a dispatch that was abandoned (and maybe
\* cancelled without its session being seen), or a reply that began before its question was
\* acknowledged did not ask whether B is idle.
DeliveredWhenIdle ==
    \A c \in Commands : At(c, "deliver") /\ "reply" \notin raced =>
        LET d == On(c)[1]
            k == On(c)[2]
        IN message[d][k] = "sent" /\ (k = "packet" => dispatch[d].settled /\ WorkerOf(d) \notin misjudged)
               => turn[WorkerOf(d)] # d

\* The store is right about workers: its rows have their types, a stopped worker has no
\* session, the limit counts all that have one, and messages are delivered when B is idle.
WorkersSound ==
    /\ TypeOK
    /\ StoppedIsGone
    /\ LiveWorkerBound
    /\ DeliveredWhenIdle
=============================================================================

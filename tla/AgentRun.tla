------------------------------ MODULE AgentRun ------------------------------
(***************************************************************************)
(* travis/agent/agent.py (Agent, PendingMessageQueue), run_lease.py and    *)
(* the turn loop of agent_loop.py: callers in their own threads start runs *)
(* (prompt, continue_) and reset the agent, while any thread               *)
(* queues steering and follow-up messages or aborts.                       *)
(*                                                                         *)
(* A run is a sequence of turns.  A turn delivers the pending messages,    *)
(* streams one assistant message, executes its tool calls and decides what *)
(* comes next.  Every emitted event goes through the agent's sink, which   *)
(* records finished messages in state.messages and then calls the internal *)
(* listeners, any of which may raise and fail the run.                     *)
(*                                                                         *)
(* Abstractions: a message is its role, its kind (where a user message     *)
(* came from, how an assistant message stopped) and a number (the user     *)
(* message, how many calls, which call); the start and end events of a     *)
(* message are one step; stream updates only replace the partial message   *)
(* and are left out.  The tool calls of a message are executed by module   *)
(* ToolBatch, of which this module keeps the contract: results in order of *)
(* the calls, all of them unless the run is aborted.                       *)
(***************************************************************************)
EXTENDS Naturals, Sequences, FiniteSets, MessageTranslation

CONSTANTS
    Callers,      \* threads that call prompt, continue_, reset
    None,
    MaxUsers,     \* bound: user messages created in one behaviour
    MaxTurns,     \* bound: assistant messages streamed in one behaviour
    MaxCalls,     \* bound: tool calls in one assistant message
    SinkMayFail   \* bound: whether an internal listener or a hook may raise, once

ASSUME RunAssumption ==
    /\ None \notin Callers
    /\ MaxUsers \in Nat /\ MaxTurns \in Nat /\ MaxCalls \in Nat
    /\ SinkMayFail \in BOOLEAN

VARIABLES
    \* Agent
    lease,        \* RunLease: the caller that holds the token, or None
    idle,         \* _idle_event is set
    aborted,      \* _signal.aborted
    steering,     \* _steering.messages
    followUp,     \* _follow_up.messages
    mode,         \* QueueMode of both queues
    messages,     \* state.messages
    \* each caller
    caller,       \* "out", "run", "ending", "locked" or "reset"
    \* the loop of the run that holds the lease
    loop,         \* where it is
    context,      \* current_context.messages
    newMessages,  \* new_messages
    pending,      \* messages it still has to deliver
    skipPoll,     \* skip_initial_steering_poll
    results,      \* tool results emitted for the last assistant message
    more,         \* has_more_tool_calls
    \* history
    users,        \* user messages created
    turns,        \* assistant messages streamed
    dropped,      \* user messages removed by reset() or by clearing the queues
    base,         \* state.messages when the run began
    broken,       \* a listener or a hook raised
    interrupted,  \* a run was aborted
    trampled      \* the last reset() cleared a run under way

agentVars == <<lease, idle, aborted, steering, followUp, mode, messages>>
loopVars == <<loop, context, newMessages, pending, skipPoll, results, more>>
history == <<users, turns, dropped, base, broken, interrupted, trampled>>
vars == <<agentVars, caller, loopVars, history>>

-----------------------------------------------------------------------------
(* Messages.                                                               *)

Sources == {"prompt", "steer", "follow_up"}
StopReasons == {"stop", "length", "error", "aborted"}   \* "stop" is "toolUse" too

User(source, n) == [role |-> "user", kind |-> source, n |-> n]
Assistant(stop, calls) == [role |-> "assistant", kind |-> stop, n |-> calls]
ToolResult(call) == [role |-> "toolResult", kind |-> "result", n |-> call]
Partial == Assistant("partial", 0)

Message ==
    [role : {"user"}, kind : Sources, n : 1..MaxUsers]
    \cup [role : {"assistant"}, kind : StopReasons \cup {"partial"}, n : 0..MaxCalls]
    \cup [role : {"toolResult"}, kind : {"result"}, n : 1..MaxCalls]

Last(s) == s[Len(s)]
ReplaceLast(s, m) == [s EXCEPT ![Len(s)] = m]

\* PendingMessageQueue.drain: everything, or the first message.
Drained(q) == IF mode = "all" \/ q = <<>> THEN q ELSE <<Head(q)>>
Left(q) == IF mode = "all" \/ q = <<>> THEN <<>> ELSE Tail(q)

-----------------------------------------------------------------------------
(* Starting a run.                                                         *)

\* _begin_run takes _run_state_lock, which a caller in _finish_run holds.
LockFree == \A c \in Callers : caller[c] # "locked"

Begin(c) ==
    /\ caller[c] = "out"
    /\ LockFree /\ lease = None
    /\ lease' = c /\ aborted' = FALSE /\ idle' = FALSE

\* run_agent_loop_async(prompts, context): the prompts are in the context and
\* among the new messages before they are emitted.
Launch(c, prompts, skip) ==
    /\ caller' = [caller EXCEPT ![c] = "run"]
    /\ loop' = "prompts" /\ pending' = prompts /\ skipPoll' = skip
    /\ context' = messages \o prompts /\ newMessages' = prompts
    /\ results' = 0 /\ more' = TRUE
    /\ base' = messages

\* Mutant: _begin_run inside the try: a refused prompt runs `finally'.
PromptFinishesAnyway(c) ==
    /\ caller[c] = "out" /\ users < MaxUsers /\ turns < MaxTurns
    /\ \/ /\ Begin(c) /\ Launch(c, <<User("prompt", users + 1)>>, FALSE) /\ users' = users + 1
       \/ /\ LockFree /\ lease # None /\ caller' = [caller EXCEPT ![c] = "ending"]
          /\ UNCHANGED <<lease, aborted, idle, loopVars, users, base>>
    /\ UNCHANGED <<steering, followUp, mode, messages, turns, dropped, broken, interrupted, trampled>>


Prompt(c) ==
    /\ users < MaxUsers /\ turns < MaxTurns
    /\ Begin(c)
    /\ Launch(c, <<User("prompt", users + 1)>>, FALSE)
    /\ users' = users + 1
    /\ UNCHANGED <<steering, followUp, mode, messages, turns, dropped, broken, interrupted, trampled>>

\* Mutant: the queued messages are read and not removed.
ContinuePeeks(c) ==
    /\ turns < MaxTurns
    /\ Begin(c)
    /\ messages # <<>> /\ steering # <<>>
    /\ Launch(c, Drained(steering), FALSE)
    /\ UNCHANGED <<steering, followUp, mode, messages, users, turns, dropped, broken, interrupted, trampled>>

\* async_continue runs on from a user or tool message, or delivers what is
\* queued after an assistant message, steering messages first.
Continue(c) ==
    /\ turns < MaxTurns
    /\ Begin(c)
    /\ messages # <<>>
    /\ \/ /\ Last(messages).role # "assistant"
          /\ Launch(c, <<>>, FALSE)
          /\ UNCHANGED <<steering, followUp>>
       \/ /\ Last(messages).role = "assistant" /\ steering # <<>>
          /\ Launch(c, Drained(steering), TRUE)
          /\ steering' = Left(steering) /\ UNCHANGED followUp
       \/ /\ Last(messages).role = "assistant" /\ steering = <<>> /\ followUp # <<>>
          /\ Launch(c, Drained(followUp), FALSE)
          /\ followUp' = Left(followUp) /\ UNCHANGED steering
    /\ UNCHANGED <<mode, messages, users, turns, dropped, broken, interrupted, trampled>>

\* It raises ValueError when there is nothing to continue from.
ContinueRaises(c) ==
    /\ Begin(c)
    /\ \/ messages = <<>>
       \/ /\ messages # <<>> /\ Last(messages).role = "assistant"
          /\ steering = <<>> /\ followUp = <<>>
    /\ caller' = [caller EXCEPT ![c] = "ending"]
    /\ UNCHANGED <<steering, followUp, mode, messages, loopVars, history>>

-----------------------------------------------------------------------------
(* The sink and failures.                                                  *)

\* MessageEndEvent: _process_event appends the message to state.messages.
Record(m) == messages' = Append(messages, m)

\* A listener or hook raises (once: that is the bound): the exception leaves the loop, and its pending
\* messages, for _handle_run_failure.
Raises == SinkMayFail /\ ~broken /\ broken' = TRUE /\ loop' = "failing" /\ pending' = <<>>

\* A listener raises while the loop delivers message m: before the sink has
\* recorded it (at its start event) or after (at its end event).
RecordRaises(m) == Raises /\ (Record(m) \/ UNCHANGED messages)

RunIdle == UNCHANGED <<lease, idle, aborted, mode>>

-----------------------------------------------------------------------------
(* The turn loop, in the order of _run_loop.                               *)

\* The prompts are emitted, then the steering queue is polled once.
EmitPrompt ==
    /\ loop = "prompts" /\ pending # <<>>
    /\ \/ Record(Head(pending)) /\ pending' = Tail(pending) /\ UNCHANGED <<loop, broken>>
       \/ RecordRaises(Head(pending))
    /\ RunIdle
    /\ UNCHANGED <<steering, followUp, caller, context, newMessages, skipPoll, results, more,
                   users, turns, dropped, base, interrupted, trampled>>

FirstPoll ==
    /\ loop = "prompts" /\ pending = <<>>
    /\ loop' = "turn" /\ skipPoll' = FALSE
    /\ IF skipPoll THEN UNCHANGED <<pending, steering>>
                   ELSE pending' = Drained(steering) /\ steering' = Left(steering)
    /\ RunIdle
    /\ UNCHANGED <<followUp, messages, caller, context, newMessages, results, more, history>>

\* A turn delivers the pending messages one by one.
EmitPending ==
    /\ loop = "turn" /\ pending # <<>>
    /\ \/ /\ Record(Head(pending)) /\ pending' = Tail(pending)
          /\ context' = Append(context, Head(pending))
          /\ newMessages' = Append(newMessages, Head(pending))
          /\ UNCHANGED <<loop, broken>>
       \/ RecordRaises(Head(pending)) /\ UNCHANGED <<context, newMessages>>
    /\ RunIdle
    /\ UNCHANGED <<steering, followUp, caller, skipPoll, results, more,
                   users, turns, dropped, base, interrupted, trampled>>

\* _stream_assistant_response sends the context to the provider.
Request ==
    /\ loop = "turn" /\ pending = <<>>
    /\ loop' = "stream"
    /\ RunIdle
    /\ UNCHANGED <<steering, followUp, messages, caller, context, newMessages, pending, skipPoll,
                   results, more, history>>

\* The first event of the stream: a partial message joins the context.
PartialAdded == context # <<>> /\ Last(context) = Partial
StreamStarts ==
    /\ loop = "stream" /\ ~aborted /\ ~PartialAdded
    /\ context' = Append(context, Partial)
    /\ RunIdle
    /\ UNCHANGED <<steering, followUp, messages, caller, loop, newMessages, pending, skipPoll,
                   results, more, history>>

\* Mutant: the partial message stays in the context.
AppendedAlways(m) == Append(context, m)

\* The final message replaces the partial one or is appended.
Finalized(m) == IF PartialAdded THEN ReplaceLast(context, m) ELSE Append(context, m)

StreamEnds(m) ==
    /\ turns' = turns + 1 /\ results' = 0
    /\ context' = Finalized(m)
    /\ \/ /\ Record(m) /\ newMessages' = Append(newMessages, m)
          /\ loop' = IF m.kind \in {"error", "aborted"} THEN "end"
                     ELSE IF m.n > 0 THEN "tools" ELSE "turn_end"
          /\ more' = FALSE
          /\ UNCHANGED <<pending, broken>>
       \/ RecordRaises(m) /\ UNCHANGED <<newMessages, more>>
    /\ RunIdle
    /\ UNCHANGED <<steering, followUp, caller, skipPoll, users, dropped, base, interrupted, trampled>>

\* A terminal event, the end of the stream without one, or a violation of the
\* stream protocol ("error").
StreamCompletes ==
    /\ loop = "stream" /\ ~aborted
    /\ \/ \E stop \in {"stop", "error"}, n \in 0..MaxCalls : StreamEnds(Assistant(stop, n))
       \/ \E n \in 1..MaxCalls : StreamEnds(Assistant("length", n))

\* The abort is seen before or after an event; the partial message, with the
\* calls it has so far, becomes the final one.
StreamAborts ==
    /\ loop = "stream" /\ aborted
    /\ \E n \in 0..(IF PartialAdded THEN MaxCalls ELSE 0) : StreamEnds(Assistant("aborted", n))

\* The tool calls of the last assistant message: each result message is emitted
\* in turn; an aborted batch may stop after the first.
Calls == Last(newMessages).n

EmitToolResult ==
    /\ loop = "tools" /\ results < Calls
    /\ \/ Record(ToolResult(results + 1)) /\ results' = results + 1
          /\ UNCHANGED <<loop, pending, broken>>
       \/ RecordRaises(ToolResult(results + 1)) /\ UNCHANGED results
    /\ RunIdle
    /\ UNCHANGED <<steering, followUp, caller, context, newMessages, skipPoll, more,
                   users, turns, dropped, base, interrupted, trampled>>

\* The batch returns; a truncated message's calls all fail and never terminate.
BatchReturns ==
    LET batch == [i \in 1..results |-> ToolResult(i)]
        truncated == Last(newMessages).kind = "length"
    IN /\ loop = "tools"
       /\ results = Calls \/ (aborted /\ results > 0 /\ ~truncated)
       /\ context' = context \o batch /\ newMessages' = newMessages \o batch
       /\ more' \in (IF truncated THEN {TRUE} ELSE BOOLEAN)
       /\ loop' = "turn_end"
       /\ RunIdle
       /\ UNCHANGED <<steering, followUp, messages, caller, pending, skipPoll, results, history>>

\* turn_end, then `if signal.aborted'.
TurnEnds ==
    /\ loop = "turn_end"
    /\ \/ loop' = (IF aborted THEN "end" ELSE "prepare") /\ UNCHANGED <<pending, broken>>
       \/ Raises
    /\ RunIdle
    /\ UNCHANGED <<steering, followUp, messages, caller, context, newMessages, skipPoll,
                   results, more, users, turns, dropped, base, interrupted, trampled>>

\* prepare_next_turn may replace the context by a copy of state.messages
\* (session_turns.py), should_stop_after_turn may end the run.
PreparesNextTurn ==
    /\ loop = "prepare"
    /\ \/ /\ context' \in {context, messages}
          /\ loop' \in (IF turns < MaxTurns THEN {"poll", "end"} ELSE {"end"})
          /\ UNCHANGED <<pending, broken>>
       \/ Raises /\ UNCHANGED context
    /\ RunIdle
    /\ UNCHANGED <<steering, followUp, messages, caller, newMessages, skipPoll,
                   results, more, users, turns, dropped, base, interrupted, trampled>>

\* Steering messages or more tool calls start another turn, then follow-ups do.
PollSteering ==
    /\ loop = "poll"
    /\ pending' = Drained(steering) /\ steering' = Left(steering)
    /\ loop' = IF more \/ steering # <<>> THEN "turn" ELSE "follow_up"
    /\ RunIdle
    /\ UNCHANGED <<followUp, messages, caller, context, newMessages, skipPoll, results, more, history>>

PollFollowUp ==
    /\ loop = "follow_up"
    /\ pending' = Drained(followUp) /\ followUp' = Left(followUp)
    /\ loop' = IF followUp # <<>> THEN "turn" ELSE "end"
    /\ more' = (followUp # <<>>)
    /\ RunIdle
    /\ UNCHANGED <<steering, messages, caller, context, newMessages, skipPoll, results, history>>

\* The loop returns or raises: its local state is gone, `finally' is next.
LeavesLoop ==
    /\ loop' = "none" /\ context' = <<>> /\ newMessages' = <<>> /\ pending' = <<>>
    /\ skipPoll' = FALSE /\ results' = 0 /\ more' = TRUE /\ base' = <<>>
    /\ caller' = [caller EXCEPT ![lease] = "ending"]

\* agent_end.
Ends ==
    /\ loop = "end"
    /\ \/ LeavesLoop /\ UNCHANGED broken
       \/ Raises /\ UNCHANGED <<caller, context, newMessages, skipPoll, results, more, base>>
    /\ RunIdle
    /\ UNCHANGED <<steering, followUp, messages, users, turns, dropped, interrupted, trampled>>

\* The provider request itself raises (transform_context, the key, the stream).
RequestRaises ==
    /\ loop = "stream" /\ Raises
    /\ RunIdle
    /\ UNCHANGED <<steering, followUp, messages, caller, context, newMessages, skipPoll,
                   results, more, users, turns, dropped, base, interrupted, trampled>>

\* Mutant: a failure to report the failure skips `finally'.
FailureEscapes ==
    /\ loop = "failing"
    /\ \/ Record(Assistant("error", 0)) /\ LeavesLoop
       \/ loop' = "none" /\ UNCHANGED <<messages, caller, context, newMessages, pending, skipPoll,
                                        results, more, base>>
    /\ RunIdle
    /\ UNCHANGED <<steering, followUp, users, turns, dropped, broken, interrupted, trampled>>

\* _handle_run_failure emits a failure message and agent_end; a listener that
\* raises again ends it early.
HandleRunFailure ==
    LET failure == Assistant(IF aborted THEN "aborted" ELSE "error", 0)
    IN /\ loop = "failing"
       /\ Record(failure) \/ UNCHANGED messages
       /\ LeavesLoop
       /\ RunIdle
       /\ UNCHANGED <<steering, followUp, users, turns, dropped, broken, interrupted, trampled>>

-----------------------------------------------------------------------------
(* _finish_run, under _run_state_lock: the idle event is set, then the     *)
(* lease is released.                                                      *)

SetsIdle(c) ==
    /\ caller[c] = "ending" /\ LockFree
    /\ idle' = TRUE
    /\ caller' = [caller EXCEPT ![c] = "locked"]
    /\ UNCHANGED <<lease, aborted, steering, followUp, mode, messages, loopVars, history>>

ReleasesLease(c) ==
    /\ caller[c] = "locked"
    /\ lease' = None
    /\ caller' = [caller EXCEPT ![c] = "out"]
    /\ UNCHANGED <<idle, aborted, steering, followUp, mode, messages, loopVars, history>>

-----------------------------------------------------------------------------
(* The rest of the Agent's interface.                                      *)

\* reset() looks at the lease, without the lock, and then clears the state.
ResetChecks(c) ==
    /\ caller[c] = "out" /\ lease = None
    /\ caller' = [caller EXCEPT ![c] = "reset"]
    /\ UNCHANGED <<agentVars, loopVars, history>>

ResetRefused(c) ==
    /\ caller[c] = "out" /\ lease # None
    /\ caller' = [caller EXCEPT ![c] = "out"]
    /\ UNCHANGED <<agentVars, loopVars, history>>

UsersIn(s) == {s[i].n : i \in {j \in DOMAIN s : s[j].role = "user"}}

ResetClears(c) ==
    /\ caller[c] = "reset"
    /\ caller' = [caller EXCEPT ![c] = "out"]
    /\ messages' = <<>> /\ steering' = <<>> /\ followUp' = <<>>
    /\ dropped' = dropped \cup UsersIn(messages \o steering \o followUp)
    /\ trampled' = (lease # None)
    /\ UNCHANGED <<lease, idle, aborted, mode, loopVars, users, turns, base, broken, interrupted>>

Steer ==
    /\ users < MaxUsers
    /\ steering' = Append(steering, User("steer", users + 1)) /\ users' = users + 1
    /\ UNCHANGED <<lease, idle, aborted, followUp, mode, messages, caller, loopVars,
                   turns, dropped, base, broken, interrupted, trampled>>

FollowUp ==
    /\ users < MaxUsers
    /\ followUp' = Append(followUp, User("follow_up", users + 1)) /\ users' = users + 1
    /\ UNCHANGED <<lease, idle, aborted, steering, mode, messages, caller, loopVars,
                   turns, dropped, base, broken, interrupted, trampled>>

\* clear_all_queues is the one and then the other; each holds its queue's lock.
ClearSteeringQueue ==
    /\ steering # <<>>
    /\ steering' = <<>>
    /\ dropped' = dropped \cup UsersIn(steering)
    /\ UNCHANGED <<lease, idle, aborted, followUp, mode, messages, caller, loopVars,
                   users, turns, base, broken, interrupted, trampled>>

ClearFollowUpQueue ==
    /\ followUp # <<>>
    /\ followUp' = <<>>
    /\ dropped' = dropped \cup UsersIn(followUp)
    /\ UNCHANGED <<lease, idle, aborted, steering, mode, messages, caller, loopVars,
                   users, turns, base, broken, interrupted, trampled>>

Abort ==
    /\ ~aborted
    /\ aborted' = TRUE
    /\ interrupted' = (interrupted \/ lease # None)
    /\ UNCHANGED <<lease, idle, steering, followUp, mode, messages, caller, loopVars,
                   users, turns, dropped, base, broken, trampled>>

\* reset_abort_signal replaces the signal of a run that is over.
ResetAbortSignal ==
    /\ idle /\ aborted
    /\ aborted' = FALSE
    /\ UNCHANGED <<lease, idle, steering, followUp, mode, messages, caller, loopVars, history>>

-----------------------------------------------------------------------------
Init ==
    /\ lease = None /\ idle = TRUE /\ aborted = FALSE
    /\ steering = <<>> /\ followUp = <<>> /\ mode \in {"all", "one-at-a-time"}
    /\ messages = <<>>
    /\ caller = [c \in Callers |-> "out"]
    /\ loop = "none" /\ context = <<>> /\ newMessages = <<>> /\ pending = <<>>
    /\ skipPoll = FALSE /\ results = 0 /\ more = TRUE
    /\ users = 0 /\ turns = 0 /\ dropped = {} /\ base = <<>>
    /\ broken = FALSE /\ interrupted = FALSE /\ trampled = FALSE

\* The loop of the run that holds the lease.
LoopStep ==
    \/ EmitPrompt \/ FirstPoll \/ EmitPending \/ Request \/ StreamStarts \/ StreamCompletes
    \/ StreamAborts \/ EmitToolResult \/ BatchReturns \/ TurnEnds \/ PreparesNextTurn
    \/ PollSteering \/ PollFollowUp \/ Ends \/ RequestRaises \/ HandleRunFailure

CallerStarts(c) == Prompt(c) \/ Continue(c) \/ ContinueRaises(c)
CallerFinishes(c) == SetsIdle(c) \/ ReleasesLease(c)
CallerResets(c) == ResetChecks(c) \/ ResetRefused(c) \/ ResetClears(c)
AnyThread == \/ Steer \/ FollowUp \/ ClearSteeringQueue \/ ClearFollowUpQueue
             \/ Abort \/ ResetAbortSignal

Next ==
    \/ LoopStep
    \/ \E c \in Callers : CallerStarts(c) \/ CallerFinishes(c) \/ CallerResets(c)
    \/ AnyThread

Spec == Init /\ [][Next]_vars

-----------------------------------------------------------------------------
TypeOK ==
    /\ lease \in Callers \cup {None}
    /\ idle \in BOOLEAN /\ aborted \in BOOLEAN
    /\ steering \in Seq(Message) /\ followUp \in Seq(Message)
    /\ mode \in {"all", "one-at-a-time"}
    /\ messages \in Seq(Message)
    /\ caller \in [Callers -> {"out", "run", "ending", "locked", "reset"}]
    /\ loop \in {"none", "prompts", "turn", "stream", "tools", "turn_end", "prepare", "poll",
                 "follow_up", "end", "failing"}
    /\ context \in Seq(Message) /\ newMessages \in Seq(Message) /\ pending \in Seq(Message)
    /\ skipPoll \in BOOLEAN /\ more \in BOOLEAN /\ results \in 0..MaxCalls
    /\ users \in 0..MaxUsers /\ turns \in 0..MaxTurns /\ dropped \in SUBSET (1..MaxUsers)
    /\ base \in Seq(Message) /\ broken \in BOOLEAN /\ interrupted \in BOOLEAN
    /\ trampled \in BOOLEAN

\* "Only one prompt or continuation may hold the lease": a caller is inside a run
\* exactly when it holds the lease, and while the lease is free the agent is idle
\* and no loop is left running.
LeaseExclusive ==
    /\ \A c \in Callers : (caller[c] \in {"run", "ending", "locked"}) <=> (lease = c)
    /\ lease = None => idle /\ loop = "none"

\* Every user message that was ever created is queued, about to be delivered or
\* in state.messages, unless it was cleared or a listener has raised; it is never
\* in two places, and messages of one queue are delivered in the order queued.
Everywhere == messages \o pending \o steering \o followUp
MessagesDelivered ==
    /\ ~broken => 1..users = UsersIn(Everywhere) \cup dropped
    /\ \A i, j \in DOMAIN Everywhere :
          /\ i < j
          /\ Everywhere[i].role = "user" /\ Everywhere[j].role = "user"
          => /\ Everywhere[i].n # Everywhere[j].n
             /\ Everywhere[i].kind = Everywhere[j].kind /\ Everywhere[i].kind # "prompt"
                   => Everywhere[i].n < Everywhere[j].n

\* The first k calls of the assistant message at a are answered at once, in order.
Answered(s, a, k) == \A j \in 1..k : a + j <= Len(s) /\ s[a + j] = ToolResult(j)

\* A tool result follows the message that called it, and the results before its own.
ResultsFollow(s) ==
    \A i \in DOMAIN s :
        s[i].role = "toolResult" =>
            \E a \in 1..(i - 1) : /\ s[a].role = "assistant" /\ i - a = s[i].n
                                  /\ s[i].n <= s[a].n /\ Answered(s, a, s[i].n)

\* What the provider is sent is what state.messages records, and in it the tool
\* results follow the message that called them, in the order of the calls; no
\* call is left without its result unless the message or a run was cut short
\* (ai/providers/message_translation.py repairs those).
RequestWellFormed ==
    loop = "stream" /\ ~PartialAdded /\ ~trampled =>
        /\ context = messages
        /\ ResultsFollow(context)
        /\ ~broken /\ ~interrupted =>
              \A i \in DOMAIN context :
                  context[i].role = "assistant" /\ context[i].kind # "error" =>
                      Answered(context, i, context[i].n)

\* Whatever was aborted or raised before, the provider is sent every call
\* followed at once by its results, one each and in order, no result of
\* anything else and no failed message; and the user messages that wait for an
\* answer are at the end of the request.
RequestRepaired ==
    LET sent == Repaired(context)
        last == {0} \cup {i \in DOMAIN context : context[i].role # "user"}
        said == SubSeq(context, 1 + CHOOSE i \in last : \A j \in last : j <= i, Len(context))
    IN  loop = "stream" /\ ~PartialAdded /\ ~trampled =>
            /\ \A i \in DOMAIN sent :
                  /\ ~Failed(sent[i])
                  /\ sent[i].role = "assistant" =>
                        /\ i + sent[i].n <= Len(sent)
                        /\ \A j \in 1..sent[i].n : /\ sent[i + j].role = "toolResult"
                                                  /\ sent[i + j].n = j
                  /\ sent[i].role = "toolResult" =>
                        \E a \in 1..(i - 1) : /\ sent[a].role = "assistant"
                                              /\ i - a <= sent[a].n
            /\ \E k \in 0..Len(sent) : SubSeq(sent, k + 1, Len(sent)) = said

\* agent_end reports exactly the messages that the run added to state.messages.
EndReportsRun == loop = "end" /\ ~trampled => messages = base \o newMessages

\* Every run settles: whatever raises, and wherever, the run that holds the lease always
\* has a step to take, and turns are bounded, so that its last step is to release it.
LeaseNeverStuck == lease # None => ENABLED (LoopStep \/ CallerFinishes(lease))

\* The conversation is sound: the variables have their types, what the provider is sent is
\* what is recorded, with the results after their calls, and agent_end reports what a run added.
ConversationSound ==
    /\ TypeOK
    /\ RequestWellFormed
    /\ EndReportsRun
=============================================================================

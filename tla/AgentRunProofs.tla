-------------------------- MODULE AgentRunProofs --------------------------
(***************************************************************************)
(* Proofs about AgentRun, for any callers and any number of messages,      *)
(* turns and calls.                                                        *)
(***************************************************************************)
EXTENDS AgentRun, SequenceTheorems, WellFoundedInduction, TLAPS

\* Who is in a run: the loop runs for the caller that holds the lease, and whoever is about
\* to release the lease has set the idle event.
Leasing ==
    /\ LeaseExclusive
    /\ loop # "none" <=> lease # None /\ caller[lease] = "run"
    /\ \A c \in Callers : caller[c] = "locked" => idle
    /\ loop # "none" /\ aborted => interrupted

\* User messages, those of one queue, and what may be recorded.
Users == {m \in Message : m.role = "user"}
From(source) == {m \in Users : m.kind = source}
Whole == {m \in Message : m # Partial}

\* What the queues hold, and when the loop has nothing left to deliver.
Queues ==
    /\ steering \in Seq(From("steer")) /\ followUp \in Seq(From("follow_up"))
    /\ pending \in Seq(Users) /\ messages \in Seq(Whole)
    /\ loop \notin {"prompts", "turn"} => pending = <<>>

\* The message whose calls are executed.
Executing ==
    loop = "tools" => /\ newMessages # <<>> /\ Last(newMessages).role = "assistant"
                      /\ Last(newMessages).kind \in {"stop", "length"}
                      /\ results <= Calls

\* A turn begins only below the bound on turns.
Budget == loop \in {"prompts", "turn", "stream", "poll", "follow_up"} => turns < MaxTurns

\* The results of the first k calls.
Batch(k) == [i \in 1..k |-> ToolResult(i)]

\* How what is recorded, what the provider will be sent and what the run reports agree, unless
\* the record was cleared under the run.
Agreement ==
    ~trampled =>
        /\ loop = "prompts" => messages \o pending = base \o newMessages
               /\ context = messages \o pending
        /\ loop \in {"turn", "turn_end", "prepare", "poll", "follow_up", "end"} =>
              messages = base \o newMessages /\ context = messages
        /\ loop = "stream" => /\ messages = base \o newMessages
                              /\ context \in {messages, Append(messages, Partial)}
        /\ loop = "tools" => messages = (base \o newMessages) \o Batch(results)
               /\ context = base \o newMessages

\* The message whose calls are being answered, or 0.
Calling == IF loop = "tools" THEN Len(messages) - results ELSE 0

\* The calls of all messages but one are answered.
Complete(s, but) ==
    \A i \in DOMAIN s : s[i].role = "assistant" /\ s[i].kind # "error" /\ i # but
        => Answered(s, i, s[i].n)

\* The results in the record are in their places; calls are answered but for those of the last
\* message while they are executed.
Structure ==
    ~trampled =>
        /\ ResultsFollow(messages)
        /\ loop = "tools" => /\ Calling \in DOMAIN messages
               /\ messages[Calling] = Last(newMessages)
                             /\ Answered(messages, Calling, results)
        /\ ~broken /\ ~interrupted => Complete(messages, Calling)

\* One user message comes before another: it is not the same, and of the same queue earlier.
Earlier(l, m) ==
    l.role = "user" /\ m.role = "user" =>
        l.n # m.n /\ (l.kind = m.kind /\ l.kind # "prompt" => l.n < m.n)
Sorted(s) == \A i, j \in DOMAIN s : i < j => Earlier(s[i], s[j])
Before(s, t) == \A i \in DOMAIN s, j \in DOMAIN t : Earlier(s[i], t[j])
UpTo(s, k) == \A i \in DOMAIN s : s[i].role = "user" => s[i].n <= k

\* The order of the user messages, and which there are, with m recorded, p to be delivered and
\* s and f queued.
Ordered(m, p, s, f) ==
    /\ Sorted(m) /\ Sorted(p) /\ Sorted(s) /\ Sorted(f)
    /\ Before(m, p) /\ Before(m, s) /\ Before(m, f) /\ Before(p, s) /\ Before(p, f)
           /\ Before(s, f)
AllUpTo(m, p, s, f, k) == UpTo(m, k) /\ UpTo(p, k) /\ UpTo(s, k) /\ UpTo(f, k)
Present(m, p, s, f) == UsersIn(m) \cup UsersIn(p) \cup UsersIn(s) \cup UsersIn(f)

\* Where the user messages are, and in which order.
Places ==
    /\ ~broken => 1..users = Present(messages, pending, steering, followUp) \cup dropped
    /\ Ordered(messages, pending, steering, followUp)
    /\ AllUpTo(messages, pending, steering, followUp, users)

\* Nothing answers a failed message.
Unreplied(s) ==
    \A i \in DOMAIN s : Failed(s[i]) /\ i + 1 \in DOMAIN s => s[i + 1].role # "toolResult"
Failures == ~trampled => Unreplied(messages)

\* The inductive invariant.
IInv ==
    /\ TypeOK
    /\ Leasing
    /\ Queues
    /\ Executing
    /\ Budget
    /\ Agreement
    /\ Structure
    /\ Failures
    /\ Places

-----------------------------------------------------------------------------
(* The steps of the loop that may fail, one branch at a time.  (What they  *)
(* do to turns, skipPoll and more is left out.)                            *)

Rest == UNCHANGED <<lease, idle, aborted, mode, steering, followUp, caller, users, dropped, base,
                    interrupted, trampled>>

DeliversPrompt ==
    /\ loop = "prompts" /\ pending # <<>>
    /\ Record(Head(pending)) /\ pending' = Tail(pending)
    /\ Rest /\ UNCHANGED <<loop, context, newMessages, results, broken>>

DeliversPending ==
    /\ loop = "turn" /\ pending # <<>>
    /\ Record(Head(pending)) /\ pending' = Tail(pending)
    /\ context' = Append(context, Head(pending))
           /\ newMessages' = Append(newMessages, Head(pending))
    /\ Rest /\ UNCHANGED <<loop, results, broken>>

\* An assistant message that a stream may end with.
Spoken(m) ==
    /\ m \in Message /\ m.role = "assistant" /\ m.kind \in StopReasons
    /\ m.kind = "aborted" => aborted

Speaks(m) ==
    /\ loop = "stream" /\ Spoken(m)
    /\ Record(m) /\ newMessages' = Append(newMessages, m) /\ context' = Finalized(m)
    /\ results' = 0
    /\ m.kind \in {"error", "aborted"} => loop' = "end"
    /\ m.kind \notin {"error", "aborted"} => loop' = IF m.n > 0 THEN "tools" ELSE "turn_end"
    /\ Rest /\ UNCHANGED <<pending, broken>>

Answers ==
    /\ loop = "tools" /\ results < Calls
    /\ Record(ToolResult(results + 1)) /\ results' = results + 1
    /\ Rest /\ UNCHANGED <<loop, pending, context, newMessages, broken>>

\* Between two turns.
Proceeds ==
    /\ \/ loop = "turn_end" /\ loop' \in {"prepare", "end"}
       \/ loop = "prepare" /\ loop' \in {"poll", "end"}
    /\ context' \in {context, messages}
    /\ Rest /\ UNCHANGED <<messages, pending, newMessages, results, broken>>

\* The loop ends, with a message if it failed.
Leaves ==
    /\ loop \in {"end", "failing"} /\ LeavesLoop
    /\ \/ messages' = messages
       \/ loop = "failing" /\ \E kind \in {"error", "aborted"} : Record(Assistant(kind, 0))
    /\ UNCHANGED <<lease, idle, aborted, mode, steering, followUp, users, dropped, broken,
                   interrupted, trampled>>

\* A listener or a hook raises, before or after message m is recorded.
Raised(m) ==
    /\ loop \notin {"none", "failing"}
    /\ loop' = "failing" /\ pending' = <<>> /\ broken' = TRUE /\ Rest
    /\ \/ messages' = messages
       \/ /\ Record(m)
          /\ \/ loop \in {"prompts", "turn"} /\ pending # <<>> /\ m = Head(pending)
             \/ loop = "stream" /\ Spoken(m)
             \/ loop = "tools" /\ results < Calls /\ m = ToolResult(results + 1)

LoopBranch ==
    \/ DeliversPrompt \/ FirstPoll \/ DeliversPending \/ Request \/ StreamStarts
    \/ \E m \in Message : Speaks(m) \/ Raised(m)
    \/ Answers \/ BatchReturns \/ Proceeds \/ PollSteering \/ PollFollowUp \/ Leaves

-----------------------------------------------------------------------------
\* The types of the sequences, and of everything else.
SeqTypes ==
    /\ steering \in Seq(Message) /\ followUp \in Seq(Message) /\ messages \in Seq(Message)
    /\ context \in Seq(Message) /\ newMessages \in Seq(Message) /\ pending \in Seq(Message)
    /\ base \in Seq(Message)
PlainTypes ==
    /\ lease \in Callers \cup {None}
    /\ idle \in BOOLEAN /\ aborted \in BOOLEAN
    /\ mode \in {"all", "one-at-a-time"}
    /\ caller \in [Callers -> {"out", "run", "ending", "locked", "reset"}]
    /\ loop \in {"none", "prompts", "turn", "stream", "tools", "turn_end", "prepare", "poll",
                 "follow_up", "end", "failing"}
    /\ skipPoll \in BOOLEAN /\ more \in BOOLEAN /\ results \in 0..MaxCalls
    /\ users \in 0..MaxUsers /\ turns \in 0..MaxTurns /\ dropped \in SUBSET (1..MaxUsers)
    /\ broken \in BOOLEAN /\ interrupted \in BOOLEAN /\ trampled \in BOOLEAN

-----------------------------------------------------------------------------
(* Types.                                                                  *)

\* Two halves of the types.
LEMMA TypeParts == TypeOK <=> SeqTypes /\ PlainTypes
BY DEF TypeOK, SeqTypes, PlainTypes

\* What the operations on sequences keep.
LEMMA SeqFacts ==
    ASSUME NEW S
    PROVE  /\ <<>> \in Seq(S)
           /\ \A m \in S : <<m>> \in Seq(S)
           /\ \A q \in Seq(S) : q # <<>> => Head(q) \in S /\ Tail(q) \in Seq(S)
           /\ \A q \in Seq(S), m \in S : Append(q, m) \in Seq(S)
           /\ \A q, r \in Seq(S) : q \o r \in Seq(S)
OBVIOUS

\* The messages that are created are messages.
LEMMA Created ==
    /\ \A s \in Sources, k \in 1..MaxUsers : User(s, k) \in Message
    /\ \A s \in StopReasons \cup {"partial"}, k \in 0..MaxCalls : Assistant(s, k) \in Message
    /\ \A k \in 1..MaxCalls : ToolResult(k) \in Message
BY DEF Message, User, Assistant, ToolResult

\* What a message is like.
LEMMA MessageForm ==
    ASSUME NEW m \in Message
    PROVE  /\ m.role = "user" => m.n \in 1..MaxUsers /\ m.kind \in Sources
           /\ m.role = "assistant" => m.n \in 0..MaxCalls
           /\ m.role \in {"user", "assistant", "toolResult"}
BY DEF Message

\* What a queue gives in either mode, and what is left of it.
LEMMA DrainForm ==
    ASSUME TypeOK, NEW q \in Seq(Message)
    PROVE  /\ Drained(q) \in Seq(Message) /\ Left(q) \in Seq(Message) /\ q = Drained(q) \o Left(q)
           /\ q = <<>> <=> Drained(q) = <<>>
<1>1. CASE mode = "all" \/ q = <<>>
  BY <1>1 DEF Drained, Left
<1>2. CASE ~(mode = "all" \/ q = <<>>)
  BY <1>2 DEF Drained, Left
<1> QED
  BY <1>1, <1>2

\* The user messages in a sequence are numbered from 1.
LEMMA UsersInRange ==
    ASSUME NEW s \in Seq(Message)
    PROVE  UsersIn(s) \subseteq 1..MaxUsers
BY MessageForm DEF UsersIn

\* Every step keeps the sequences of messages.
LEMMA SeqStep ==
    ASSUME TypeOK, Leasing, Queues, Executing, Budget, [Next]_vars
    PROVE  SeqTypes'
<1> USE TypeParts
<1>1. ASSUME EmitPrompt
      PROVE  SeqTypes'
  BY <1>1, SeqFacts, Zenon DEF EmitPrompt, SeqTypes, RunIdle, Record, RecordRaises, Raises
<1>2. ASSUME FirstPoll
      PROVE  SeqTypes'
  BY <1>2, DrainForm DEF FirstPoll, SeqTypes, RunIdle, history
<1>3. ASSUME EmitPending
      PROVE  SeqTypes'
  BY <1>3, SeqFacts, Zenon DEF EmitPending, SeqTypes, RunIdle, Record, RecordRaises, Raises
<1>4. ASSUME Request
      PROVE  SeqTypes'
  BY <1>4, SeqFacts, Zenon DEF Request, SeqTypes, RunIdle, history
<1>5. ASSUME StreamStarts
      PROVE  SeqTypes'
  <2>1. Partial \in Message
    BY Created, RunAssumption DEF Partial
  <2> QED
    BY <1>5, <2>1, SeqFacts, Zenon DEF StreamStarts, SeqTypes, RunIdle, history
<1>6. ASSUME StreamCompletes
      PROVE  SeqTypes'
  <2> SUFFICES ASSUME NEW m \in Message, StreamEnds(m) PROVE SeqTypes'
    BY <1>6, Created DEF StreamCompletes, StopReasons
  <2>1. context' \in Seq(Message)
    <3>1. CASE PartialAdded
      <4>1. context' = [context EXCEPT ![Len(context)] = m] /\ context \in Seq(Message)
                /\ context # <<>>
        BY <3>1 DEF StreamEnds, Finalized, ReplaceLast, SeqTypes, PartialAdded
      <4>2. Len(context) \in 1..Len(context)
        BY <4>1
      <4> QED
        BY <4>1, <4>2, ExceptSeq
    <3>2. CASE ~PartialAdded
      BY <3>2, SeqFacts DEF StreamEnds, Finalized, SeqTypes
    <3> QED
      BY <3>1, <3>2
  <2> QED
    BY <2>1, SeqFacts, ZenonT(60) DEF StreamEnds, SeqTypes, RunIdle, Record, RecordRaises, Raises
<1>7. ASSUME StreamAborts
      PROVE  SeqTypes'
  <2> SUFFICES ASSUME NEW m \in Message, StreamEnds(m) PROVE SeqTypes'
    <3>1. PICK k \in 0..(IF PartialAdded THEN MaxCalls ELSE 0) :
              StreamEnds(Assistant("aborted", k))
      BY <1>7 DEF StreamAborts
    <3>2. k \in 0..MaxCalls
      BY RunAssumption
    <3> QED
      BY <3>1, <3>2, Created DEF StopReasons
  <2>1. context' \in Seq(Message)
    <3>1. CASE PartialAdded
      <4>1. context' = [context EXCEPT ![Len(context)] = m] /\ context \in Seq(Message)
                /\ context # <<>>
        BY <3>1 DEF StreamEnds, Finalized, ReplaceLast, SeqTypes, PartialAdded
      <4>2. Len(context) \in 1..Len(context)
        BY <4>1
      <4> QED
        BY <4>1, <4>2, ExceptSeq
    <3>2. CASE ~PartialAdded
      BY <3>2, SeqFacts DEF StreamEnds, Finalized, SeqTypes
    <3> QED
      BY <3>1, <3>2
  <2> QED
    BY <2>1, SeqFacts, ZenonT(60) DEF StreamEnds, SeqTypes, RunIdle, Record, RecordRaises, Raises
<1>8. ASSUME EmitToolResult
      PROVE  SeqTypes'
  <2>1. ToolResult(results + 1) \in Message
    <3>1. results < Calls /\ loop = "tools"
      BY <1>8 DEF EmitToolResult
    <3>2. Last(newMessages) \in Message
      BY <3>1 DEF Executing, TypeOK, Last
    <3>3. Calls \in 0..MaxCalls
      BY <3>1, <3>2, MessageForm DEF Executing, Calls
    <3> QED
      BY <3>1, <3>3, RunAssumption, Created DEF TypeOK
  <2> QED
    BY <1>8, <2>1, SeqFacts, Zenon DEF EmitToolResult, SeqTypes, RunIdle, Record, RecordRaises,
       Raises
<1>9. ASSUME BatchReturns
      PROVE  SeqTypes'
  <2>1. Batch(results) \in Seq(Message)
    <3>1. \A i \in 1..results : ToolResult(i) \in Message
      BY Created, RunAssumption DEF TypeOK
    <3> QED
      BY <3>1 DEF Batch, TypeOK
  <2> QED
    BY <1>9, <2>1, SeqFacts, Zenon DEF BatchReturns, SeqTypes, RunIdle, history, Batch
<1>10. ASSUME TurnEnds
       PROVE  SeqTypes'
  BY <1>10, SeqFacts, Zenon DEF TurnEnds, SeqTypes, RunIdle, Raises
<1>11. ASSUME PreparesNextTurn
       PROVE  SeqTypes'
  BY <1>11, SeqFacts, Zenon DEF PreparesNextTurn, SeqTypes, RunIdle, Raises
<1>12. ASSUME PollSteering
       PROVE  SeqTypes'
  BY <1>12, DrainForm DEF PollSteering, SeqTypes, RunIdle, history
<1>13. ASSUME PollFollowUp
       PROVE  SeqTypes'
  BY <1>13, DrainForm DEF PollFollowUp, SeqTypes, RunIdle, history
<1>14. ASSUME Ends
       PROVE  SeqTypes'
  BY <1>14, SeqFacts, Zenon DEF Ends, SeqTypes, RunIdle, Raises, LeavesLoop
<1>15. ASSUME RequestRaises
       PROVE  SeqTypes'
  BY <1>15, SeqFacts, Zenon DEF RequestRaises, SeqTypes, RunIdle, Raises
<1>16. ASSUME HandleRunFailure
       PROVE  SeqTypes'
  <2>1. Assistant("aborted", 0) \in Message /\ Assistant("error", 0) \in Message
    BY Created, RunAssumption DEF StopReasons
  <2>2. \/ messages' = messages
        \/ messages' = Append(messages, Assistant("aborted", 0))
        \/ messages' = Append(messages, Assistant("error", 0))
    BY <1>16 DEF HandleRunFailure, Record
  <2>3. messages' \in Seq(Message)
    BY <2>1, <2>2, SeqFacts, Zenon DEF SeqTypes
  <2> QED
    BY <1>16, <2>3, SeqFacts, Zenon DEF HandleRunFailure, SeqTypes, RunIdle, LeavesLoop
<1>17. ASSUME NEW c \in Callers, Prompt(c)
       PROVE  SeqTypes'
  <2>1. User("prompt", users + 1) \in Message
    BY <1>17, Created, RunAssumption DEF Prompt, TypeOK, Sources
  <2> QED
    BY <1>17, <2>1, SeqFacts, Zenon DEF Prompt, SeqTypes, Launch, Begin
<1>18. ASSUME NEW c \in Callers, Continue(c)
       PROVE  SeqTypes'
  <2>1. /\ Drained(steering) \in Seq(Message) /\ Left(steering) \in Seq(Message)
        /\ Drained(followUp) \in Seq(Message) /\ Left(followUp) \in Seq(Message)
    BY DrainForm DEF SeqTypes
  <2>2. PICK q \in {<<>>, Drained(steering), Drained(followUp)}, skip \in BOOLEAN :
            Launch(c, q, skip)
    BY <1>18 DEF Continue
  <2>3. q \in Seq(Message)
    BY <2>1, <2>2, SeqFacts
  <2>4. (steering' = steering \/ steering' = Left(steering)) /\ (followUp' = followUp
            \/ followUp' = Left(followUp))
        /\ messages' = messages
    BY <1>18 DEF Continue
  <2> QED
    BY <2>1, <2>2, <2>3, <2>4, SeqFacts, Zenon DEF SeqTypes, Launch
<1>19. ASSUME NEW c \in Callers, ContinueRaises(c)
       PROVE  SeqTypes'
  BY <1>19, SeqFacts, Zenon DEF ContinueRaises, SeqTypes, history, loopVars, Begin
<1>20. ASSUME NEW c \in Callers, SetsIdle(c)
       PROVE  SeqTypes'
  BY <1>20, SeqFacts, Zenon DEF SetsIdle, SeqTypes, history, loopVars
<1>21. ASSUME NEW c \in Callers, ReleasesLease(c)
       PROVE  SeqTypes'
  BY <1>21, SeqFacts, Zenon DEF ReleasesLease, SeqTypes, history, loopVars
<1>22. ASSUME NEW c \in Callers, ResetChecks(c)
       PROVE  SeqTypes'
  BY <1>22, SeqFacts, Zenon DEF ResetChecks, SeqTypes, history, agentVars, loopVars
<1>23. ASSUME NEW c \in Callers, ResetRefused(c)
       PROVE  SeqTypes'
  BY <1>23, SeqFacts, Zenon DEF ResetRefused, SeqTypes, history, agentVars, loopVars
<1>24. ASSUME NEW c \in Callers, ResetClears(c)
       PROVE  SeqTypes'
  BY <1>24, SeqFacts, Zenon DEF ResetClears, SeqTypes, loopVars
<1>25. ASSUME Steer
       PROVE  SeqTypes'
  <2>1. User("steer", users + 1) \in Message
    BY <1>25, Created, RunAssumption DEF Steer, TypeOK, Sources
  <2> QED
    BY <1>25, <2>1, SeqFacts, Zenon DEF Steer, SeqTypes, loopVars
<1>26. ASSUME FollowUp
       PROVE  SeqTypes'
  <2>1. User("follow_up", users + 1) \in Message
    BY <1>26, Created, RunAssumption DEF FollowUp, TypeOK, Sources
  <2> QED
    BY <1>26, <2>1, SeqFacts, Zenon DEF FollowUp, SeqTypes, loopVars
<1>27. ASSUME ClearSteeringQueue
       PROVE  SeqTypes'
  BY <1>27, SeqFacts, Zenon DEF ClearSteeringQueue, SeqTypes, loopVars
<1>28. ASSUME ClearFollowUpQueue
       PROVE  SeqTypes'
  BY <1>28, SeqFacts, Zenon DEF ClearFollowUpQueue, SeqTypes, loopVars
<1>29. ASSUME Abort
       PROVE  SeqTypes'
  BY <1>29, SeqFacts, Zenon DEF Abort, SeqTypes, loopVars
<1>30. ASSUME ResetAbortSignal
       PROVE  SeqTypes'
  BY <1>30, SeqFacts, Zenon DEF ResetAbortSignal, SeqTypes, history, loopVars
<1>31. CASE UNCHANGED vars
  BY <1>31 DEF SeqTypes, vars, agentVars, loopVars, history
<1> QED
  BY <1>1, <1>2, <1>3, <1>4, <1>5, <1>6, <1>7, <1>8, <1>9, <1>10, <1>11, <1>12, <1>13, <1>14,
     <1>15, <1>16, <1>17, <1>18, <1>19, <1>20, <1>21, <1>22, <1>23, <1>24, <1>25, <1>26, <1>27,
     <1>28, <1>29, <1>30, <1>31 DEF Next, LoopStep, CallerStarts, CallerFinishes, CallerResets,
     AnyThread

\* Every step keeps the other types.
LEMMA PlainStep ==
    ASSUME TypeOK, Leasing, Queues, Executing, Budget, [Next]_vars
    PROVE  PlainTypes'
<1> USE TypeParts
<1>1. ASSUME EmitPrompt
      PROVE  PlainTypes'
  BY <1>1, RunAssumption DEF EmitPrompt, PlainTypes, RunIdle, Record, RecordRaises, Raises
<1>2. ASSUME FirstPoll
      PROVE  PlainTypes'
  <2>1. /\ loop' = "turn" /\ skipPoll' = FALSE
        /\ UNCHANGED <<lease, idle, aborted, mode, caller, results, more, users, turns, dropped,
                       broken, interrupted, trampled>>
    BY <1>2 DEF FirstPoll, RunIdle, history
  <2> QED
    BY <2>1, RunAssumption DEF PlainTypes
<1>3. ASSUME EmitPending
      PROVE  PlainTypes'
  BY <1>3, RunAssumption DEF EmitPending, PlainTypes, RunIdle, Record, RecordRaises, Raises
<1>4. ASSUME Request
      PROVE  PlainTypes'
  BY <1>4, RunAssumption DEF Request, PlainTypes, RunIdle, history
<1>5. ASSUME StreamStarts
      PROVE  PlainTypes'
  BY <1>5, RunAssumption DEF StreamStarts, PlainTypes, RunIdle, history
<1>6. ASSUME StreamCompletes
      PROVE  PlainTypes'
  <2> SUFFICES ASSUME NEW m \in Message, StreamEnds(m) PROVE PlainTypes'
    BY <1>6, Created DEF StreamCompletes, StopReasons
  <2>1. turns < MaxTurns
    BY <1>6 DEF StreamCompletes, Budget
  <2>2. /\ turns' = turns + 1 /\ results' = 0 /\ loop' \in {"end", "tools", "turn_end", "failing"}
        /\ more' \in {more, FALSE} /\ broken' \in {broken, TRUE}
        /\ UNCHANGED <<lease, idle, aborted, mode, caller, skipPoll, users, dropped,
                       interrupted, trampled>>
    BY DEF StreamEnds, RunIdle, Record, RecordRaises, Raises
  <2>3. turns' \in 0..MaxTurns /\ results' \in 0..MaxCalls
    BY <2>1, <2>2, RunAssumption DEF PlainTypes
  <2>4. more' \in BOOLEAN /\ broken' \in BOOLEAN
    BY <2>2 DEF PlainTypes
  <2> QED
    BY <2>2, <2>3, <2>4, ZenonT(60) DEF PlainTypes
<1>7. ASSUME StreamAborts
      PROVE  PlainTypes'
  <2> SUFFICES ASSUME NEW m \in Message, StreamEnds(m) PROVE PlainTypes'
    <3>1. PICK k \in 0..(IF PartialAdded THEN MaxCalls ELSE 0) :
              StreamEnds(Assistant("aborted", k))
      BY <1>7 DEF StreamAborts
    <3>2. k \in 0..MaxCalls
      BY RunAssumption
    <3> QED
      BY <3>1, <3>2, Created DEF StopReasons
  <2>1. turns < MaxTurns
    BY <1>7 DEF StreamAborts, Budget
  <2>2. /\ turns' = turns + 1 /\ results' = 0 /\ loop' \in {"end", "tools", "turn_end", "failing"}
        /\ more' \in {more, FALSE} /\ broken' \in {broken, TRUE}
        /\ UNCHANGED <<lease, idle, aborted, mode, caller, skipPoll, users, dropped,
                       interrupted, trampled>>
    BY DEF StreamEnds, RunIdle, Record, RecordRaises, Raises
  <2>3. turns' \in 0..MaxTurns /\ results' \in 0..MaxCalls
    BY <2>1, <2>2, RunAssumption DEF PlainTypes
  <2>4. more' \in BOOLEAN /\ broken' \in BOOLEAN
    BY <2>2 DEF PlainTypes
  <2> QED
    BY <2>2, <2>3, <2>4, ZenonT(60) DEF PlainTypes
<1>8. ASSUME EmitToolResult
      PROVE  PlainTypes'
  <2>1. /\ results < Calls /\ results' \in {results, results + 1}
        /\ loop' \in {loop, "failing"} /\ broken' \in {broken, TRUE} /\ loop = "tools"
        /\ UNCHANGED <<lease, idle, aborted, mode, caller, skipPoll, more, users, turns,
                       dropped, interrupted, trampled>>
    BY <1>8 DEF EmitToolResult, RunIdle, Record, RecordRaises, Raises
  <2>2. Last(newMessages) \in Message
    BY <2>1 DEF Executing, TypeOK, Last
  <2>3. Calls \in 0..MaxCalls
    BY <2>1, <2>2, MessageForm DEF Executing, Calls
  <2>4. results' \in 0..MaxCalls
    BY <2>1, <2>3, RunAssumption DEF PlainTypes
  <2>5. loop' \in {"tools", "failing"} /\ broken' \in BOOLEAN
    BY <2>1 DEF PlainTypes
  <2> QED
    BY <2>1, <2>4, <2>5 DEF PlainTypes
<1>9. ASSUME BatchReturns
      PROVE  PlainTypes'
  <2>1. /\ loop' = "turn_end" /\ more' \in BOOLEAN
        /\ UNCHANGED <<lease, idle, aborted, mode, caller, skipPoll, results, users, turns,
                       dropped, broken, interrupted, trampled>>
    BY <1>9 DEF BatchReturns, RunIdle, history
  <2> QED
    BY <2>1, RunAssumption DEF PlainTypes
<1>10. ASSUME TurnEnds
       PROVE  PlainTypes'
  BY <1>10, RunAssumption DEF TurnEnds, PlainTypes, RunIdle, Raises
<1>11. ASSUME PreparesNextTurn
       PROVE  PlainTypes'
  BY <1>11, RunAssumption DEF PreparesNextTurn, PlainTypes, RunIdle, Raises
<1>12. ASSUME PollSteering
       PROVE  PlainTypes'
  <2>1. /\ loop' \in {"turn", "follow_up"}
        /\ UNCHANGED <<lease, idle, aborted, mode, caller, skipPoll, results, more, users,
                       turns, dropped, broken, interrupted, trampled>>
    BY <1>12 DEF PollSteering, RunIdle, history
  <2> QED
    BY <2>1, RunAssumption DEF PlainTypes
<1>13. ASSUME PollFollowUp
       PROVE  PlainTypes'
  <2>1. /\ loop' \in {"turn", "end"}
        /\ more' \in BOOLEAN
        /\ UNCHANGED <<lease, idle, aborted, mode, caller, skipPoll, results, users, turns,
                       dropped, broken, interrupted, trampled>>
    BY <1>13 DEF PollFollowUp, RunIdle, history
  <2> QED
    BY <2>1, RunAssumption DEF PlainTypes
<1>14. ASSUME Ends
       PROVE  PlainTypes'
  <2>1. lease \in Callers
    BY <1>14 DEF Ends, Leasing, PlainTypes
  <2>2. /\ UNCHANGED <<lease, idle, aborted, mode, users, turns, dropped, interrupted, trampled>>
        /\ broken' \in BOOLEAN /\ loop' \in {"none", "failing"} /\ skipPoll' \in {skipPoll, FALSE}
        /\ more' \in {more, TRUE} /\ results' \in {results, 0}
        /\ caller' = caller \/ caller' = [caller EXCEPT ![lease] = "ending"]
    BY <1>14 DEF Ends, RunIdle, LeavesLoop, Raises, PlainTypes
  <2>3. caller' \in [Callers -> {"out", "run", "ending", "locked", "reset"}]
    BY <2>1, <2>2 DEF PlainTypes
  <2>4. results' \in 0..MaxCalls
    BY <2>2, RunAssumption DEF PlainTypes
  <2> QED
    BY <2>2, <2>3, <2>4, ZenonT(60) DEF PlainTypes
<1>15. ASSUME RequestRaises
       PROVE  PlainTypes'
  BY <1>15, RunAssumption DEF RequestRaises, PlainTypes, RunIdle, Raises
<1>16. ASSUME HandleRunFailure
       PROVE  PlainTypes'
  <2>1. lease \in Callers
    BY <1>16 DEF HandleRunFailure, Leasing, PlainTypes
  <2>2. /\ UNCHANGED <<lease, idle, aborted, mode, users, turns, dropped, interrupted, trampled>>
        /\ broken' \in BOOLEAN /\ loop' \in {"none", "failing"} /\ skipPoll' \in {skipPoll, FALSE}
        /\ more' \in {more, TRUE} /\ results' \in {results, 0}
        /\ caller' = caller \/ caller' = [caller EXCEPT ![lease] = "ending"]
    BY <1>16 DEF HandleRunFailure, RunIdle, LeavesLoop, Raises, PlainTypes
  <2>3. caller' \in [Callers -> {"out", "run", "ending", "locked", "reset"}]
    BY <2>1, <2>2 DEF PlainTypes
  <2>4. results' \in 0..MaxCalls
    BY <2>2, RunAssumption DEF PlainTypes
  <2> QED
    BY <2>2, <2>3, <2>4, ZenonT(60) DEF PlainTypes
<1>17. ASSUME NEW c \in Callers, Prompt(c)
       PROVE  PlainTypes'
  <2>1. /\ lease' = c /\ c \in Callers /\ aborted' = FALSE /\ idle' = FALSE
               /\ caller' = [caller EXCEPT ![c] = "run"] /\ loop' = "prompts" /\ results' = 0
               /\ more' = TRUE
        /\ skipPoll' = FALSE /\ users < MaxUsers /\ users' = users + 1
        /\ UNCHANGED <<mode, turns, dropped, broken, interrupted, trampled>>
    BY <1>17 DEF Prompt, Launch, Begin
  <2>2. caller' \in [Callers -> {"out", "run", "ending", "locked", "reset"}]
            /\ results' \in 0..MaxCalls
    BY <2>1, RunAssumption DEF PlainTypes
  <2>3. users' \in 0..MaxUsers
    BY <2>1, RunAssumption DEF PlainTypes
  <2> QED
    BY <2>1, <2>2, <2>3, RunAssumption DEF PlainTypes
<1>18. ASSUME NEW c \in Callers, Continue(c)
       PROVE  PlainTypes'
  <2>1. /\ lease' = c /\ c \in Callers /\ aborted' = FALSE /\ idle' = FALSE
               /\ caller' = [caller EXCEPT ![c] = "run"] /\ loop' = "prompts" /\ results' = 0
               /\ more' = TRUE
        /\ skipPoll' \in BOOLEAN
        /\ UNCHANGED <<mode, users, turns, dropped, broken, interrupted, trampled>>
    BY <1>18 DEF Continue, Launch, Begin
  <2>2. caller' \in [Callers -> {"out", "run", "ending", "locked", "reset"}]
            /\ results' \in 0..MaxCalls
    BY <2>1, RunAssumption DEF PlainTypes
  <2>3. users' \in 0..MaxUsers
    BY <2>1, RunAssumption DEF PlainTypes
  <2> QED
    BY <2>1, <2>2, <2>3, RunAssumption DEF PlainTypes
<1>19. ASSUME NEW c \in Callers, ContinueRaises(c)
       PROVE  PlainTypes'
  BY <1>19, RunAssumption DEF ContinueRaises, PlainTypes, history, loopVars, Begin
<1>20. ASSUME NEW c \in Callers, SetsIdle(c)
       PROVE  PlainTypes'
  BY <1>20, RunAssumption DEF SetsIdle, PlainTypes, history, loopVars
<1>21. ASSUME NEW c \in Callers, ReleasesLease(c)
       PROVE  PlainTypes'
  BY <1>21, RunAssumption DEF ReleasesLease, PlainTypes, history, loopVars
<1>22. ASSUME NEW c \in Callers, ResetChecks(c)
       PROVE  PlainTypes'
  BY <1>22, RunAssumption DEF ResetChecks, PlainTypes, history, agentVars, loopVars
<1>23. ASSUME NEW c \in Callers, ResetRefused(c)
       PROVE  PlainTypes'
  BY <1>23, RunAssumption DEF ResetRefused, PlainTypes, history, agentVars, loopVars
<1>24. ASSUME NEW c \in Callers, ResetClears(c)
       PROVE  PlainTypes'
  <2>1. /\ dropped' = dropped \cup UsersIn(messages \o steering \o followUp)
        /\ trampled' \in BOOLEAN
        /\ caller' = [caller EXCEPT ![c] = "out"]
        /\ UNCHANGED <<lease, idle, aborted, mode, loop, skipPoll, results, more, users, turns,
                       broken, interrupted>>
    BY <1>24 DEF ResetClears, loopVars
  <2>2. messages \o steering \o followUp \in Seq(Message)
    BY SeqFacts DEF SeqTypes
  <2>3. UsersIn(messages \o steering \o followUp) \subseteq 1..MaxUsers
    BY <2>2, UsersInRange
  <2>4. dropped' \in SUBSET (1..MaxUsers)
    BY <2>1, <2>3 DEF PlainTypes
  <2>5. caller' \in [Callers -> {"out", "run", "ending", "locked", "reset"}]
    BY <2>1 DEF PlainTypes
  <2> QED
    BY <2>1, <2>4, <2>5 DEF PlainTypes
<1>25. ASSUME Steer
       PROVE  PlainTypes'
  BY <1>25, RunAssumption DEF Steer, PlainTypes, loopVars
<1>26. ASSUME FollowUp
       PROVE  PlainTypes'
  BY <1>26, RunAssumption DEF FollowUp, PlainTypes, loopVars
<1>27. ASSUME ClearSteeringQueue
       PROVE  PlainTypes'
  <2>1. /\ dropped' = dropped \cup UsersIn(steering)
        /\ UNCHANGED <<lease, idle, aborted, mode, caller, loop, skipPoll, results, more, users,
                       turns, broken, interrupted, trampled>>
    BY <1>27 DEF ClearSteeringQueue, loopVars
  <2>2. UsersIn(steering) \subseteq 1..MaxUsers
    BY UsersInRange DEF SeqTypes
  <2> QED
    BY <2>1, <2>2, RunAssumption DEF PlainTypes
<1>28. ASSUME ClearFollowUpQueue
       PROVE  PlainTypes'
  <2>1. /\ dropped' = dropped \cup UsersIn(followUp)
        /\ UNCHANGED <<lease, idle, aborted, mode, caller, loop, skipPoll, results, more, users,
                       turns, broken, interrupted, trampled>>
    BY <1>28 DEF ClearFollowUpQueue, loopVars
  <2>2. UsersIn(followUp) \subseteq 1..MaxUsers
    BY UsersInRange DEF SeqTypes
  <2> QED
    BY <2>1, <2>2, RunAssumption DEF PlainTypes
<1>29. ASSUME Abort
       PROVE  PlainTypes'
  BY <1>29, RunAssumption DEF Abort, PlainTypes, loopVars
<1>30. ASSUME ResetAbortSignal
       PROVE  PlainTypes'
  <2>1. aborted' = FALSE
        /\ UNCHANGED <<lease, idle, mode, caller, loop, skipPoll, results, more, users, turns,
                       dropped, broken, interrupted, trampled>>
    BY <1>30 DEF ResetAbortSignal, history, loopVars
  <2>2. aborted' \in BOOLEAN
    BY <2>1
  <2>3. PlainTypes
    BY DEF PlainTypes
  <2> QED
    BY ZenonT(60), <2>1, <2>2, <2>3 DEF PlainTypes
<1>31. CASE UNCHANGED vars
  BY <1>31 DEF PlainTypes, vars, agentVars, loopVars, history
<1> QED
  BY <1>1, <1>2, <1>3, <1>4, <1>5, <1>6, <1>7, <1>8, <1>9, <1>10, <1>11, <1>12, <1>13, <1>14,
     <1>15, <1>16, <1>17, <1>18, <1>19, <1>20, <1>21, <1>22, <1>23, <1>24, <1>25, <1>26, <1>27,
     <1>28, <1>29, <1>30, <1>31 DEF Next, LoopStep, CallerStarts, CallerFinishes, CallerResets,
     AnyThread

\* Every step keeps the types.
LEMMA TypeStep ==
    ASSUME TypeOK, Leasing, Queues, Executing, Budget, [Next]_vars
    PROVE  TypeOK'
<1>1. TypeOK' <=> SeqTypes' /\ PlainTypes'
  BY DEF TypeOK, SeqTypes, PlainTypes
<1> QED
  BY <1>1, SeqStep, PlainStep

-----------------------------------------------------------------------------
(* The loop, branch by branch, and the lease.                              *)

\* A message that a stream ends with: it is recorded, or a listener raises.
LEMMA StreamBranch ==
    ASSUME loop = "stream", NEW m \in Message, Spoken(m), StreamEnds(m)
    PROVE  LoopBranch
<1>1. Rest /\ results' = 0 /\ context' = Finalized(m)
  BY DEF StreamEnds, Rest, RunIdle
<1>2. CASE Record(m) /\ newMessages' = Append(newMessages, m) /\ UNCHANGED <<pending, broken>>
           /\ (m.kind \in {"error", "aborted"} => loop' = "end")
           /\ (m.kind \notin {"error", "aborted"}
                  => loop' = IF m.n > 0 THEN "tools" ELSE "turn_end")
  BY <1>1, <1>2 DEF Speaks, LoopBranch
<1>3. CASE RecordRaises(m)
  BY <1>1, <1>3 DEF Raised, RecordRaises, Raises, LoopBranch
<1>4. ASSUME ~RecordRaises(m)
      PROVE  Record(m) /\ newMessages' = Append(newMessages, m) /\ UNCHANGED <<pending, broken>>
             /\ loop' = IF m.kind \in {"error", "aborted"} THEN "end"
                        ELSE IF m.n > 0 THEN "tools" ELSE "turn_end"
  BY <1>4 DEF StreamEnds
<1>5. CASE m.kind \in {"error", "aborted"}
  <2>1. ~RecordRaises(m) => loop' = "end"
    BY <1>4, <1>5
  <2> QED
    BY <1>2, <1>3, <1>4, <1>5, <2>1
<1>6. CASE m.kind \notin {"error", "aborted"} /\ m.n > 0
  <2>1. ~RecordRaises(m) => loop' = "tools"
    BY <1>4, <1>6
  <2> QED
    BY <1>2, <1>3, <1>4, <1>6, <2>1
<1>7. CASE m.kind \notin {"error", "aborted"} /\ ~(m.n > 0)
  <2>1. ~RecordRaises(m) => loop' = "turn_end"
    BY <1>4, <1>7
  <2> QED
    BY <1>2, <1>3, <1>4, <1>7, <2>1
<1> QED
  BY <1>5, <1>6, <1>7

\* Every step of the loop is one of the branches.
LEMMA LoopBranches ==
    ASSUME TypeOK, Leasing, Queues, Executing, LoopStep
    PROVE  LoopBranch
<1> USE DEF Rest, RunIdle, history
<1>0. Partial \in Message /\ StopReasons \subseteq StopReasons \cup {"partial"}
  BY Created, RunAssumption DEF Partial
<1>1. ASSUME EmitPrompt
      PROVE  LoopBranch
  <2>1. Head(pending) \in Message
    BY <1>1 DEF EmitPrompt, TypeOK
  <2>2. CASE DeliversPrompt
    BY <2>2 DEF LoopBranch
  <2>3. CASE ~DeliversPrompt
    <3>1. Raised(Head(pending))
      BY <1>1, <2>3 DEF EmitPrompt, Raised, DeliversPrompt, RecordRaises, Raises
    <3> QED
      BY <2>1, <3>1 DEF LoopBranch
  <2> QED
    BY <2>2, <2>3
<1>2. ASSUME EmitPending
      PROVE  LoopBranch
  <2>1. Head(pending) \in Message
    BY <1>2 DEF EmitPending, TypeOK
  <2>2. CASE DeliversPending
    BY <2>2 DEF LoopBranch
  <2>3. CASE ~DeliversPending
    <3>1. Raised(Head(pending))
      BY <1>2, <2>3 DEF EmitPending, Raised, DeliversPending, RecordRaises, Raises
    <3> QED
      BY <2>1, <3>1 DEF LoopBranch
  <2> QED
    BY <2>2, <2>3
<1>3. ASSUME StreamCompletes
      PROVE  LoopBranch
  <2>1. PICK stop \in {"stop", "error", "length"}, k \in 0..MaxCalls :
            StreamEnds(Assistant(stop, k))
    BY <1>3 DEF StreamCompletes
  <2>2. Assistant(stop, k) \in Message /\ Spoken(Assistant(stop, k))
    BY Created DEF StopReasons, Spoken, Assistant
  <2> QED
    BY <1>3, <2>1, <2>2, StreamBranch DEF StreamCompletes
<1>4. ASSUME StreamAborts
      PROVE  LoopBranch
  <2>1. PICK k \in 0..(IF PartialAdded THEN MaxCalls ELSE 0) : StreamEnds(Assistant("aborted", k))
    BY <1>4 DEF StreamAborts
  <2>2. k \in 0..MaxCalls
    BY RunAssumption
  <2>3. Assistant("aborted", k) \in Message /\ Spoken(Assistant("aborted", k))
    BY <1>4, <2>2, Created DEF StopReasons, Spoken, Assistant, StreamAborts
  <2> QED
    BY <1>4, <2>1, <2>3, StreamBranch DEF StreamAborts
<1>5. ASSUME EmitToolResult
      PROVE  LoopBranch
  <2>1. ToolResult(results + 1) \in Message
    <3>1. results < Calls /\ loop = "tools"
      BY <1>5 DEF EmitToolResult
    <3>2. Last(newMessages) \in Message
      BY <3>1 DEF Executing, TypeOK, Last
    <3>3. Calls \in 0..MaxCalls
      BY <3>1, <3>2, MessageForm DEF Executing, Calls
    <3> QED
      BY <3>1, <3>3, RunAssumption, Created DEF TypeOK
  <2>2. CASE Answers
    BY <2>2 DEF LoopBranch
  <2>3. CASE ~Answers
    <3>1. Raised(ToolResult(results + 1))
      BY <1>5, <2>3 DEF EmitToolResult, Raised, Answers, RecordRaises, Raises
    <3> QED
      BY <2>1, <3>1 DEF LoopBranch
  <2> QED
    BY <2>2, <2>3
<1>6. ASSUME TurnEnds
      PROVE  LoopBranch
  <2>1. CASE Raises
    <3>1. Raised(Partial)
      BY <1>6, <2>1 DEF TurnEnds, Raised, Raises
    <3> QED
      BY <1>0, <3>1 DEF LoopBranch
  <2>2. CASE ~Raises
    BY <1>6, <2>2 DEF TurnEnds, Proceeds, LoopBranch
  <2> QED
    BY <2>1, <2>2
<1>7. ASSUME PreparesNextTurn
      PROVE  LoopBranch
  <2>1. CASE Raises
    <3>1. Raised(Partial)
      BY <1>7, <2>1 DEF PreparesNextTurn, Raised, Raises
    <3> QED
      BY <1>0, <3>1 DEF LoopBranch
  <2>2. CASE ~Raises
    BY <1>7, <2>2 DEF PreparesNextTurn, Proceeds, LoopBranch
  <2> QED
    BY <2>1, <2>2
<1>8. ASSUME Ends
      PROVE  LoopBranch
  <2>1. CASE Raises /\ UNCHANGED <<caller, base>>
    <3>1. Raised(Partial)
      BY <1>8, <2>1 DEF Ends, Raised, Raises
    <3> QED
      BY <1>0, <3>1 DEF LoopBranch
  <2>2. CASE LeavesLoop /\ UNCHANGED broken
    BY <1>8, <2>2 DEF Ends, Leaves, LoopBranch
  <2> QED
    BY <1>8, <2>1, <2>2 DEF Ends
<1>9. ASSUME RequestRaises
      PROVE  LoopBranch
  <2>1. Raised(Partial)
    BY <1>9 DEF RequestRaises, Raised, Raises
  <2> QED
    BY <1>0, <2>1 DEF LoopBranch
<1>10. ASSUME HandleRunFailure
       PROVE  LoopBranch
  <2>1. \/ messages' = messages
        \/ \E kind \in {"error", "aborted"} : Record(Assistant(kind, 0))
    BY <1>10 DEF HandleRunFailure
  <2> QED
    BY <1>10, <2>1 DEF HandleRunFailure, Leaves, LoopBranch
<1> HIDE DEF Rest, RunIdle, history
<1> QED
  BY <1>1, <1>2, <1>3, <1>4, <1>5, <1>6, <1>7, <1>8, <1>9, <1>10 DEF LoopStep, LoopBranch

\* Every step keeps to the bound on turns.
LEMMA BudgetStep ==
    ASSUME TypeOK, Budget, [Next]_vars
    PROVE  Budget'
<1>1. ASSUME EmitPrompt
      PROVE  Budget'
  BY <1>1 DEF EmitPrompt, Budget, StreamEnds, RunIdle, Record, RecordRaises, Raises
<1>2. ASSUME FirstPoll
      PROVE  Budget'
  BY <1>2 DEF FirstPoll, Budget, StreamEnds, RunIdle, history, Record, RecordRaises, Raises
<1>3. ASSUME EmitPending
      PROVE  Budget'
  BY <1>3 DEF EmitPending, Budget, StreamEnds, RunIdle, Record, RecordRaises, Raises
<1>4. ASSUME Request
      PROVE  Budget'
  BY <1>4 DEF Request, Budget, StreamEnds, RunIdle, history, Record, RecordRaises, Raises
<1>5. ASSUME StreamStarts
      PROVE  Budget'
  BY <1>5 DEF StreamStarts, Budget, StreamEnds, RunIdle, history, Record, RecordRaises, Raises
<1>6. ASSUME StreamCompletes
      PROVE  Budget'
  BY <1>6 DEF StreamCompletes, Budget, StreamEnds, RunIdle, Record, RecordRaises, Raises
<1>7. ASSUME StreamAborts
      PROVE  Budget'
  BY <1>7 DEF StreamAborts, Budget, StreamEnds, RunIdle, Record, RecordRaises, Raises
<1>8. ASSUME EmitToolResult
      PROVE  Budget'
  BY <1>8 DEF EmitToolResult, Budget, StreamEnds, RunIdle, Record, RecordRaises, Raises
<1>9. ASSUME BatchReturns
      PROVE  Budget'
  BY <1>9 DEF BatchReturns, Budget, StreamEnds, RunIdle, history, Record, RecordRaises, Raises
<1>10. ASSUME TurnEnds
       PROVE  Budget'
  BY <1>10 DEF TurnEnds, Budget, StreamEnds, RunIdle, Record, RecordRaises, Raises
<1>11. ASSUME PreparesNextTurn
       PROVE  Budget'
  BY <1>11 DEF PreparesNextTurn, Budget, StreamEnds, RunIdle, Record, RecordRaises, Raises
<1>12. ASSUME PollSteering
       PROVE  Budget'
  BY <1>12 DEF PollSteering, Budget, StreamEnds, RunIdle, history, Record, RecordRaises, Raises
<1>13. ASSUME PollFollowUp
       PROVE  Budget'
  BY <1>13 DEF PollFollowUp, Budget, StreamEnds, RunIdle, history, Record, RecordRaises, Raises
<1>14. ASSUME Ends
       PROVE  Budget'
  BY <1>14 DEF Ends, Budget, StreamEnds, RunIdle, Record, RecordRaises, Raises, LeavesLoop
<1>15. ASSUME RequestRaises
       PROVE  Budget'
  BY <1>15 DEF RequestRaises, Budget, StreamEnds, RunIdle, Record, RecordRaises, Raises
<1>16. ASSUME HandleRunFailure
       PROVE  Budget'
  BY <1>16 DEF HandleRunFailure, Budget, StreamEnds, RunIdle, Record, RecordRaises, Raises,
     LeavesLoop
<1>17. ASSUME NEW c \in Callers, Prompt(c)
       PROVE  Budget'
  BY <1>17 DEF Prompt, Budget, StreamEnds, RunIdle, Record, RecordRaises, Raises, Launch, Begin
<1>18. ASSUME NEW c \in Callers, Continue(c)
       PROVE  Budget'
  BY <1>18 DEF Continue, Budget, StreamEnds, RunIdle, Record, RecordRaises, Raises, Launch,
     Begin
<1>19. ASSUME NEW c \in Callers, ContinueRaises(c)
       PROVE  Budget'
  BY <1>19 DEF ContinueRaises, Budget, StreamEnds, RunIdle, history, loopVars, Record,
     RecordRaises, Raises, Begin
<1>20. ASSUME NEW c \in Callers, SetsIdle(c)
       PROVE  Budget'
  BY <1>20 DEF SetsIdle, Budget, StreamEnds, RunIdle, history, loopVars, Record, RecordRaises,
     Raises
<1>21. ASSUME NEW c \in Callers, ReleasesLease(c)
       PROVE  Budget'
  BY <1>21 DEF ReleasesLease, Budget, StreamEnds, RunIdle, history, loopVars, Record,
     RecordRaises, Raises
<1>22. ASSUME NEW c \in Callers, ResetChecks(c)
       PROVE  Budget'
  BY <1>22 DEF ResetChecks, Budget, StreamEnds, RunIdle, history, agentVars, loopVars, Record,
     RecordRaises, Raises
<1>23. ASSUME NEW c \in Callers, ResetRefused(c)
       PROVE  Budget'
  BY <1>23 DEF ResetRefused, Budget, StreamEnds, RunIdle, history, agentVars, loopVars, Record,
     RecordRaises, Raises
<1>24. ASSUME NEW c \in Callers, ResetClears(c)
       PROVE  Budget'
  BY <1>24 DEF ResetClears, Budget, StreamEnds, RunIdle, loopVars, Record, RecordRaises, Raises
<1>25. ASSUME Steer
       PROVE  Budget'
  BY <1>25 DEF Steer, Budget, StreamEnds, RunIdle, loopVars, Record, RecordRaises, Raises
<1>26. ASSUME FollowUp
       PROVE  Budget'
  BY <1>26 DEF FollowUp, Budget, StreamEnds, RunIdle, loopVars, Record, RecordRaises, Raises
<1>27. ASSUME ClearSteeringQueue
       PROVE  Budget'
  BY <1>27 DEF ClearSteeringQueue, Budget, StreamEnds, RunIdle, loopVars, Record, RecordRaises,
     Raises
<1>28. ASSUME ClearFollowUpQueue
       PROVE  Budget'
  BY <1>28 DEF ClearFollowUpQueue, Budget, StreamEnds, RunIdle, loopVars, Record, RecordRaises,
     Raises
<1>29. ASSUME Abort
       PROVE  Budget'
  BY <1>29 DEF Abort, Budget, StreamEnds, RunIdle, loopVars, Record, RecordRaises, Raises
<1>30. ASSUME ResetAbortSignal
       PROVE  Budget'
  BY <1>30 DEF ResetAbortSignal, Budget, StreamEnds, RunIdle, history, loopVars, Record,
     RecordRaises, Raises
<1>31. CASE UNCHANGED vars
  BY <1>31 DEF Budget, vars, agentVars, loopVars, history
<1> QED
  BY <1>1, <1>2, <1>3, <1>4, <1>5, <1>6, <1>7, <1>8, <1>9, <1>10, <1>11, <1>12, <1>13, <1>14,
     <1>15, <1>16, <1>17, <1>18, <1>19, <1>20, <1>21, <1>22, <1>23, <1>24, <1>25, <1>26, <1>27,
     <1>28, <1>29, <1>30, <1>31 DEF Next, LoopStep, CallerStarts, CallerFinishes, CallerResets,
     AnyThread

\* Every step keeps one run at a time.
LEMMA LeasingStep ==
    ASSUME TypeOK, Leasing, Queues, Executing, [Next]_vars
    PROVE  Leasing'
<1>1. ASSUME DeliversPrompt
      PROVE  Leasing'
  BY <1>1, RunAssumption DEF DeliversPrompt, TypeOK, Leasing, LeaseExclusive, Rest, Record
<1>2. ASSUME FirstPoll
      PROVE  Leasing'
  BY <1>2, RunAssumption DEF FirstPoll, TypeOK, Leasing, LeaseExclusive, RunIdle, history
<1>3. ASSUME DeliversPending
      PROVE  Leasing'
  BY <1>3, RunAssumption DEF DeliversPending, TypeOK, Leasing, LeaseExclusive, Rest, Record
<1>4. ASSUME Request
      PROVE  Leasing'
  BY <1>4, RunAssumption DEF Request, TypeOK, Leasing, LeaseExclusive, RunIdle, history
<1>5. ASSUME StreamStarts
      PROVE  Leasing'
  BY <1>5, RunAssumption DEF StreamStarts, TypeOK, Leasing, LeaseExclusive, RunIdle, history
<1>6. ASSUME NEW m \in Message, Speaks(m)
      PROVE  Leasing'
  BY <1>6, RunAssumption DEF Speaks, TypeOK, Leasing, LeaseExclusive, Rest, Record
<1>7. ASSUME NEW m \in Message, Raised(m)
      PROVE  Leasing'
  BY <1>7, RunAssumption DEF Raised, TypeOK, Leasing, LeaseExclusive, Rest, Record
<1>8. ASSUME Answers
      PROVE  Leasing'
  BY <1>8, RunAssumption DEF Answers, TypeOK, Leasing, LeaseExclusive, Rest, Record
<1>9. ASSUME BatchReturns
      PROVE  Leasing'
  BY <1>9, RunAssumption DEF BatchReturns, TypeOK, Leasing, LeaseExclusive, RunIdle, history
<1>10. ASSUME Proceeds
       PROVE  Leasing'
  BY <1>10, RunAssumption DEF Proceeds, TypeOK, Leasing, LeaseExclusive, Rest
<1>11. ASSUME PollSteering
       PROVE  Leasing'
  BY <1>11, RunAssumption DEF PollSteering, TypeOK, Leasing, LeaseExclusive, RunIdle, history
<1>12. ASSUME PollFollowUp
       PROVE  Leasing'
  BY <1>12, RunAssumption DEF PollFollowUp, TypeOK, Leasing, LeaseExclusive, RunIdle, history
<1>13. ASSUME Leaves
       PROVE  Leasing'
  BY <1>13, RunAssumption DEF Leaves, TypeOK, Leasing, LeaseExclusive, Record, LeavesLoop
<1>14. ASSUME NEW c \in Callers, Prompt(c)
       PROVE  Leasing'
  BY <1>14, RunAssumption DEF Prompt, TypeOK, Leasing, LeaseExclusive, LockFree, Launch, Begin
<1>15. ASSUME NEW c \in Callers, Continue(c)
       PROVE  Leasing'
  BY <1>15, RunAssumption DEF Continue, TypeOK, Leasing, LeaseExclusive, LockFree, Launch,
     Begin
<1>16. ASSUME NEW c \in Callers, ContinueRaises(c)
       PROVE  Leasing'
  BY <1>16, RunAssumption DEF ContinueRaises, TypeOK, Leasing, LeaseExclusive, LockFree,
     history, loopVars, Begin
<1>17. ASSUME NEW c \in Callers, SetsIdle(c)
       PROVE  Leasing'
  BY <1>17, RunAssumption DEF SetsIdle, TypeOK, Leasing, LeaseExclusive, LockFree, history,
     loopVars
<1>18. ASSUME NEW c \in Callers, ReleasesLease(c)
       PROVE  Leasing'
  BY <1>18, RunAssumption DEF ReleasesLease, TypeOK, Leasing, LeaseExclusive, history, loopVars
<1>19. ASSUME NEW c \in Callers, ResetChecks(c)
       PROVE  Leasing'
  BY <1>19, RunAssumption DEF ResetChecks, TypeOK, Leasing, LeaseExclusive, history, agentVars,
     loopVars
<1>20. ASSUME NEW c \in Callers, ResetRefused(c)
       PROVE  Leasing'
  BY <1>20, RunAssumption DEF ResetRefused, TypeOK, Leasing, LeaseExclusive, history,
     agentVars, loopVars
<1>21. ASSUME NEW c \in Callers, ResetClears(c)
       PROVE  Leasing'
  BY <1>21, RunAssumption DEF ResetClears, TypeOK, Leasing, LeaseExclusive, loopVars
<1>22. ASSUME Steer
       PROVE  Leasing'
  BY <1>22, RunAssumption DEF Steer, TypeOK, Leasing, LeaseExclusive, loopVars
<1>23. ASSUME FollowUp
       PROVE  Leasing'
  BY <1>23, RunAssumption DEF FollowUp, TypeOK, Leasing, LeaseExclusive, loopVars
<1>24. ASSUME ClearSteeringQueue
       PROVE  Leasing'
  BY <1>24, RunAssumption DEF ClearSteeringQueue, TypeOK, Leasing, LeaseExclusive, loopVars
<1>25. ASSUME ClearFollowUpQueue
       PROVE  Leasing'
  BY <1>25, RunAssumption DEF ClearFollowUpQueue, TypeOK, Leasing, LeaseExclusive, loopVars
<1>26. ASSUME Abort
       PROVE  Leasing'
  BY <1>26, RunAssumption DEF Abort, TypeOK, Leasing, LeaseExclusive, loopVars
<1>27. ASSUME ResetAbortSignal
       PROVE  Leasing'
  BY <1>27, RunAssumption DEF ResetAbortSignal, TypeOK, Leasing, LeaseExclusive, history,
     loopVars
<1>28. CASE UNCHANGED vars
  BY <1>28 DEF Leasing, LeaseExclusive, vars, agentVars, loopVars, history
<1> QED
  BY LoopBranches, <1>1, <1>2, <1>3, <1>4, <1>5, <1>6, <1>7, <1>8, <1>9, <1>10, <1>11, <1>12,
     <1>13, <1>14, <1>15, <1>16, <1>17, <1>18, <1>19, <1>20, <1>21, <1>22, <1>23, <1>24, <1>25,
     <1>26, <1>27, <1>28 DEF Next, LoopBranch, CallerStarts, CallerFinishes, CallerResets,
     AnyThread

-----------------------------------------------------------------------------
(* The queues and the calls that are executed.                             *)

\* Sequences over a larger set.
LEMMA SeqMore ==
    ASSUME NEW S, NEW T, S \subseteq T, NEW s \in Seq(S)
    PROVE  s \in Seq(T)
OBVIOUS

\* Which messages are which.
LEMMA Kinds ==
    /\ From("steer") \subseteq Users /\ From("follow_up") \subseteq Users
    /\ Users \subseteq Whole /\ Whole \subseteq Message
BY DEF From, Users, Whole, Partial, Assistant

\* What a queue gives and keeps.
LEMMA DrainKeeps ==
    ASSUME NEW S, NEW q \in Seq(S)
    PROVE  Drained(q) \in Seq(S) /\ Left(q) \in Seq(S)
<1>1. CASE mode = "all" \/ q = <<>>
  BY <1>1, SeqFacts DEF Drained, Left
<1>2. CASE ~(mode = "all" \/ q = <<>>)
  BY <1>2, SeqFacts DEF Drained, Left
<1> QED
  BY <1>1, <1>2

\* What a queue gives can be delivered.
LEMMA DrainUsers ==
    ASSUME Queues
    PROVE  /\ Drained(steering) \in Seq(Users) /\ Left(steering) \in Seq(From("steer"))
           /\ Drained(followUp) \in Seq(Users) /\ Left(followUp) \in Seq(From("follow_up"))
<1>1. steering \in Seq(From("steer")) /\ followUp \in Seq(From("follow_up"))
  BY DEF Queues
<1>2. Drained(steering) \in Seq(From("steer")) /\ Drained(followUp) \in Seq(From("follow_up"))
  BY <1>1, DrainKeeps
<1> QED
  BY <1>1, <1>2, DrainKeeps, SeqMore, Kinds

\* Every step keeps what the queues hold.
LEMMA QueuesStep ==
    ASSUME TypeOK, Leasing, Queues, Executing, [Next]_vars
    PROVE  Queues'
<1>1. ASSUME DeliversPrompt
      PROVE  Queues'
  <2>1. pending # <<>> /\ messages' = Append(messages, Head(pending)) /\ pending' = Tail(pending)
    BY <1>1 DEF DeliversPrompt, Record
  <2>2. Head(pending) \in Whole /\ Tail(pending) \in Seq(Users)
    BY <2>1, SeqFacts, Kinds DEF Queues
  <2> QED
    BY <1>1, <2>1, <2>2, SeqFacts, Zenon DEF DeliversPrompt, Queues, Rest
<1>2. ASSUME FirstPoll
      PROVE  Queues'
  BY <1>2, DrainUsers DEF FirstPoll, Queues, RunIdle, history
<1>3. ASSUME DeliversPending
      PROVE  Queues'
  <2>1. pending # <<>> /\ messages' = Append(messages, Head(pending)) /\ pending' = Tail(pending)
    BY <1>3 DEF DeliversPending, Record
  <2>2. Head(pending) \in Whole /\ Tail(pending) \in Seq(Users)
    BY <2>1, SeqFacts, Kinds DEF Queues
  <2> QED
    BY <1>3, <2>1, <2>2, SeqFacts, Zenon DEF DeliversPending, Queues, Rest
<1>4. ASSUME Request
      PROVE  Queues'
  BY <1>4 DEF Request, Queues, RunIdle, history
<1>5. ASSUME StreamStarts
      PROVE  Queues'
  BY <1>5 DEF StreamStarts, Queues, RunIdle, history
<1>6. ASSUME NEW m \in Message, Speaks(m)
      PROVE  Queues'
  <2>1. m \in Whole /\ loop = "stream" /\ loop' \notin {"prompts", "turn"}
    BY <1>6 DEF Speaks, Spoken, Whole, Partial, Assistant, StopReasons
  <2> QED
    BY <1>6, <2>1, SeqFacts, Zenon DEF Speaks, Queues, Rest, Record
<1>7. ASSUME NEW m \in Message, Raised(m)
      PROVE  Queues'
  <2>1. messages' \in Seq(Whole)
    <3>1. CASE messages' = messages
      BY <3>1 DEF Queues
    <3>2. CASE loop \in {"prompts", "turn"} /\ pending # <<>> /\ m = Head(pending) /\ Record(m)
      BY <3>2, SeqFacts, Kinds DEF Queues, Record
    <3>3. CASE loop = "stream" /\ Spoken(m) /\ Record(m)
      <4>1. m \in Whole
        BY <3>3 DEF Spoken, Whole, Partial, Assistant, StopReasons
      <4> QED
        BY <3>3, <4>1, SeqFacts DEF Queues, Record
    <3>4. CASE m = ToolResult(results + 1) /\ Record(m)
      <4>1. m \in Whole
        BY <3>4 DEF ToolResult, Whole, Partial, Assistant
      <4> QED
        BY <3>4, <4>1, SeqFacts DEF Queues, Record
    <3> QED
      BY <1>7, <3>1, <3>2, <3>3, <3>4 DEF Raised
  <2> QED
    BY <1>7, <2>1, SeqFacts, Zenon DEF Raised, Queues, Rest
<1>8. ASSUME Answers
      PROVE  Queues'
  <2>1. ToolResult(results + 1) \in Whole
    <3>1. results < Calls /\ loop = "tools"
      BY <1>8 DEF Answers
    <3>2. Last(newMessages) \in Message
      BY <3>1 DEF Executing, TypeOK, Last
    <3>3. Calls \in 0..MaxCalls
      BY <3>1, <3>2, MessageForm DEF Executing, Calls
    <3>4. ToolResult(results + 1) \in Message
      BY <3>1, <3>3, RunAssumption, Created DEF TypeOK
    <3> QED
      BY <3>4 DEF Whole, Partial, Assistant, ToolResult
  <2> QED
    BY <1>8, <2>1, SeqFacts, Zenon DEF Answers, Queues, Rest, Record
<1>9. ASSUME BatchReturns
      PROVE  Queues'
  BY <1>9 DEF BatchReturns, Queues, RunIdle, history
<1>10. ASSUME Proceeds
       PROVE  Queues'
  BY <1>10 DEF Proceeds, Queues, Rest
<1>11. ASSUME PollSteering
       PROVE  Queues'
  <2>1. loop' # "turn" => steering = <<>> /\ Drained(steering) = <<>>
    BY <1>11 DEF PollSteering, Drained
  <2> QED
    BY <1>11, <2>1, DrainUsers DEF PollSteering, Queues, RunIdle, history
<1>12. ASSUME PollFollowUp
       PROVE  Queues'
  <2>1. loop' # "turn" => followUp = <<>> /\ Drained(followUp) = <<>>
    BY <1>12 DEF PollFollowUp, Drained
  <2> QED
    BY <1>12, <2>1, DrainUsers DEF PollFollowUp, Queues, RunIdle, history
<1>13. ASSUME Leaves
       PROVE  Queues'
  <2>1. \A kind \in {"error", "aborted"} : Assistant(kind, 0) \in Whole
    BY Created, RunAssumption DEF Whole, Partial, Assistant, StopReasons
  <2>2. messages' \in Seq(Whole)
    BY <1>13, <2>1, SeqFacts DEF Leaves, Queues, Record
  <2> QED
    BY <1>13, <2>2, SeqFacts DEF Leaves, Queues, LeavesLoop
<1>14. ASSUME NEW c \in Callers, Prompt(c)
       PROVE  Queues'
  <2>1. User("prompt", users + 1) \in Users
    BY <1>14, Created, RunAssumption DEF Prompt, TypeOK, Sources, Users, User
  <2> QED
    BY <1>14, <2>1, SeqFacts DEF Prompt, Queues, Launch, Begin
<1>15. ASSUME NEW c \in Callers, Continue(c)
       PROVE  Queues'
  <2>1. /\ pending' \in {<<>>, Drained(steering), Drained(followUp)} /\ loop' = "prompts"
               /\ messages' = messages
        /\ steering' \in {steering, Left(steering)} /\ followUp' \in {followUp, Left(followUp)}
    BY <1>15 DEF Continue, Launch
  <2> QED
    BY <2>1, DrainUsers, SeqFacts DEF Queues
<1>16. ASSUME NEW c \in Callers, ContinueRaises(c)
       PROVE  Queues'
  BY <1>16, SeqFacts, Zenon DEF ContinueRaises, Queues, history, loopVars, Begin
<1>17. ASSUME NEW c \in Callers, SetsIdle(c)
       PROVE  Queues'
  BY <1>17, SeqFacts, Zenon DEF SetsIdle, Queues, history, loopVars
<1>18. ASSUME NEW c \in Callers, ReleasesLease(c)
       PROVE  Queues'
  BY <1>18, SeqFacts, Zenon DEF ReleasesLease, Queues, history, loopVars
<1>19. ASSUME NEW c \in Callers, ResetChecks(c)
       PROVE  Queues'
  BY <1>19, SeqFacts, Zenon DEF ResetChecks, Queues, history, agentVars, loopVars
<1>20. ASSUME NEW c \in Callers, ResetRefused(c)
       PROVE  Queues'
  BY <1>20, SeqFacts, Zenon DEF ResetRefused, Queues, history, agentVars, loopVars
<1>21. ASSUME NEW c \in Callers, ResetClears(c)
       PROVE  Queues'
  BY <1>21, SeqFacts, Zenon DEF ResetClears, Queues, loopVars
<1>22. ASSUME Steer
       PROVE  Queues'
  <2>1. User("steer", users + 1) \in From("steer")
    BY <1>22, Created, RunAssumption DEF Steer, TypeOK, Sources, From, Users, User
  <2> QED
    BY <1>22, <2>1, SeqFacts DEF Steer, Queues, loopVars
<1>23. ASSUME FollowUp
       PROVE  Queues'
  <2>1. User("follow_up", users + 1) \in From("follow_up")
    BY <1>23, Created, RunAssumption DEF FollowUp, TypeOK, Sources, From, Users, User
  <2> QED
    BY <1>23, <2>1, SeqFacts DEF FollowUp, Queues, loopVars
<1>24. ASSUME ClearSteeringQueue
       PROVE  Queues'
  BY <1>24, SeqFacts, Zenon DEF ClearSteeringQueue, Queues, loopVars
<1>25. ASSUME ClearFollowUpQueue
       PROVE  Queues'
  BY <1>25, SeqFacts, Zenon DEF ClearFollowUpQueue, Queues, loopVars
<1>26. ASSUME Abort
       PROVE  Queues'
  BY <1>26, SeqFacts, Zenon DEF Abort, Queues, loopVars
<1>27. ASSUME ResetAbortSignal
       PROVE  Queues'
  BY <1>27, SeqFacts, Zenon DEF ResetAbortSignal, Queues, history, loopVars
<1>28. CASE UNCHANGED vars
  BY <1>28 DEF Queues, vars, agentVars, loopVars, history
<1> QED
  BY LoopBranches, <1>1, <1>2, <1>3, <1>4, <1>5, <1>6, <1>7, <1>8, <1>9, <1>10, <1>11, <1>12,
     <1>13, <1>14, <1>15, <1>16, <1>17, <1>18, <1>19, <1>20, <1>21, <1>22, <1>23, <1>24, <1>25,
     <1>26, <1>27, <1>28 DEF Next, LoopBranch, CallerStarts, CallerFinishes, CallerResets,
     AnyThread

\* Every step keeps the message whose calls are executed.
LEMMA ExecutingStep ==
    ASSUME TypeOK, Leasing, Queues, Executing, [Next]_vars
    PROVE  Executing'
<1>1. ASSUME DeliversPrompt
      PROVE  Executing'
  BY <1>1 DEF DeliversPrompt, Executing, Calls, Rest, Record
<1>2. ASSUME FirstPoll
      PROVE  Executing'
  BY <1>2 DEF FirstPoll, Executing, Calls, RunIdle, history
<1>3. ASSUME DeliversPending
      PROVE  Executing'
  BY <1>3 DEF DeliversPending, Executing, Calls, Rest, Record
<1>4. ASSUME Request
      PROVE  Executing'
  BY <1>4 DEF Request, Executing, Calls, RunIdle, history
<1>5. ASSUME StreamStarts
      PROVE  Executing'
  BY <1>5 DEF StreamStarts, Executing, Calls, RunIdle, history
<1>6. ASSUME NEW m \in Message, Speaks(m)
      PROVE  Executing'
  <2> SUFFICES ASSUME loop' = "tools" PROVE Executing'
    BY DEF Executing
  <2>0. m.role = "assistant" => m.n \in Nat
    BY MessageForm
  <2>1. newMessages' = Append(newMessages, m) /\ results' = 0 /\ m.kind \in {"stop", "length"}
            /\ m.role = "assistant"
        /\ m.n \in Nat
    BY <1>6, <2>0 DEF Speaks, Spoken, StopReasons
  <2>2. newMessages \in Seq(Message)
    BY DEF TypeOK
  <2>3. newMessages' # <<>> /\ Last(newMessages') = m
    BY <2>1, <2>2 DEF Last
  <2> QED
    BY <2>1, <2>3 DEF Executing, Calls
<1>7. ASSUME NEW m \in Message, Raised(m)
      PROVE  Executing'
  BY <1>7 DEF Raised, Executing, Calls, Rest, Record
<1>8. ASSUME Answers
      PROVE  Executing'
  <2>1. newMessages' = newMessages /\ results' = results + 1 /\ results < Calls
            /\ loop = "tools" /\ loop' = loop
    BY <1>8 DEF Answers
  <2>2. Last(newMessages) \in Message
    BY <2>1 DEF Executing, TypeOK, Last
  <2>3. Calls \in Nat
    BY <2>1, <2>2, MessageForm DEF Executing, Calls
  <2> QED
    BY <2>1, <2>3 DEF Executing, Calls, TypeOK
<1>9. ASSUME BatchReturns
      PROVE  Executing'
  BY <1>9 DEF BatchReturns, Executing, Calls, RunIdle, history
<1>10. ASSUME Proceeds
       PROVE  Executing'
  BY <1>10 DEF Proceeds, Executing, Calls, Rest
<1>11. ASSUME PollSteering
       PROVE  Executing'
  BY <1>11 DEF PollSteering, Executing, Calls, RunIdle, history
<1>12. ASSUME PollFollowUp
       PROVE  Executing'
  BY <1>12 DEF PollFollowUp, Executing, Calls, RunIdle, history
<1>13. ASSUME Leaves
       PROVE  Executing'
  BY <1>13 DEF Leaves, Executing, Calls, Record, LeavesLoop
<1>14. ASSUME NEW c \in Callers, Prompt(c)
       PROVE  Executing'
  BY <1>14 DEF Prompt, Executing, Calls, Launch, Begin
<1>15. ASSUME NEW c \in Callers, Continue(c)
       PROVE  Executing'
  BY <1>15 DEF Continue, Executing, Calls, Launch, Begin
<1>16. ASSUME NEW c \in Callers, ContinueRaises(c)
       PROVE  Executing'
  BY <1>16 DEF ContinueRaises, Executing, Calls, history, loopVars, Begin
<1>17. ASSUME NEW c \in Callers, SetsIdle(c)
       PROVE  Executing'
  BY <1>17 DEF SetsIdle, Executing, Calls, history, loopVars
<1>18. ASSUME NEW c \in Callers, ReleasesLease(c)
       PROVE  Executing'
  BY <1>18 DEF ReleasesLease, Executing, Calls, history, loopVars
<1>19. ASSUME NEW c \in Callers, ResetChecks(c)
       PROVE  Executing'
  BY <1>19 DEF ResetChecks, Executing, Calls, history, agentVars, loopVars
<1>20. ASSUME NEW c \in Callers, ResetRefused(c)
       PROVE  Executing'
  BY <1>20 DEF ResetRefused, Executing, Calls, history, agentVars, loopVars
<1>21. ASSUME NEW c \in Callers, ResetClears(c)
       PROVE  Executing'
  BY <1>21 DEF ResetClears, Executing, Calls, loopVars
<1>22. ASSUME Steer
       PROVE  Executing'
  BY <1>22 DEF Steer, Executing, Calls, loopVars
<1>23. ASSUME FollowUp
       PROVE  Executing'
  BY <1>23 DEF FollowUp, Executing, Calls, loopVars
<1>24. ASSUME ClearSteeringQueue
       PROVE  Executing'
  BY <1>24 DEF ClearSteeringQueue, Executing, Calls, loopVars
<1>25. ASSUME ClearFollowUpQueue
       PROVE  Executing'
  BY <1>25 DEF ClearFollowUpQueue, Executing, Calls, loopVars
<1>26. ASSUME Abort
       PROVE  Executing'
  BY <1>26 DEF Abort, Executing, Calls, loopVars
<1>27. ASSUME ResetAbortSignal
       PROVE  Executing'
  BY <1>27 DEF ResetAbortSignal, Executing, Calls, history, loopVars
<1>28. CASE UNCHANGED vars
  BY <1>28 DEF Executing, Calls, vars, agentVars, loopVars, history
<1> QED
  BY LoopBranches, <1>1, <1>2, <1>3, <1>4, <1>5, <1>6, <1>7, <1>8, <1>9, <1>10, <1>11, <1>12,
     <1>13, <1>14, <1>15, <1>16, <1>17, <1>18, <1>19, <1>20, <1>21, <1>22, <1>23, <1>24, <1>25,
     <1>26, <1>27, <1>28 DEF Next, LoopBranch, CallerStarts, CallerFinishes, CallerResets,
     AnyThread

-----------------------------------------------------------------------------
(* Record, context and report agree.                                       *)

\* Sequences one after the other.
LEMMA Joining ==
    ASSUME NEW S, NEW s \in Seq(S), NEW t \in Seq(S)
    PROVE  /\ s \o <<>> = s /\ <<>> \o s = s
           /\ \A m \in S : Append(s \o t, m) = s \o Append(t, m) /\ Append(s, m) = s \o <<m>>
           /\ t # <<>> => Append(s, Head(t)) \o Tail(t) = s \o t
           /\ t # <<>> => s \o Append(t, Head(t)) = Append(s \o t, Head(t))
<1>1. s \o <<>> = s /\ <<>> \o s = s
  BY ConcatEmptySeq
<1>2. ASSUME NEW m \in S
      PROVE  Append(s \o t, m) = s \o Append(t, m) /\ Append(s, m) = s \o <<m>>
  <2>1. Append(s, m) = s \o <<m>>
    OBVIOUS
  <2>2. /\ Append(s \o t, m) \in Seq(S) /\ s \o Append(t, m) \in Seq(S)
        /\ Len(Append(s \o t, m)) = Len(s \o Append(t, m))
    OBVIOUS
  <2>3. \A i \in 1..Len(Append(s \o t, m)) : Append(s \o t, m)[i] = (s \o Append(t, m))[i]
    OBVIOUS
  <2>4. Append(s \o t, m) = s \o Append(t, m)
    BY <2>2, <2>3, SeqEqual
  <2> QED
    BY <2>1, <2>4
<1>3. ASSUME t # <<>>
      PROVE  Append(s, Head(t)) \o Tail(t) = s \o t
  <2>1. /\ Append(s, Head(t)) \o Tail(t) \in Seq(S) /\ s \o t \in Seq(S)
        /\ Len(Append(s, Head(t)) \o Tail(t)) = Len(s \o t)
    BY <1>3
  <2>2. \A i \in 1..Len(s \o t) : (Append(s, Head(t)) \o Tail(t))[i] = (s \o t)[i]
    BY <1>3
  <2> QED
    BY <2>1, <2>2, SeqEqual
<1>4. ASSUME t # <<>>
      PROVE  s \o Append(t, Head(t)) = Append(s \o t, Head(t))
  BY <1>2, <1>4
<1> QED
  BY <1>1, <1>2, <1>3, <1>4

\* A message at the end.
LEMMA Ending ==
    ASSUME NEW s \in Seq(Message), NEW m \in Message
    PROVE  Append(s, m) # <<>> /\ Last(Append(s, m)) = m
<1>1. Append(s, m) \in Seq(Message) /\ Len(Append(s, m)) = Len(s) + 1
          /\ Append(s, m)[Len(s) + 1] = m
  OBVIOUS
<1> QED
  BY <1>1 DEF Last

\* A message at the end of two sequences.
LEMMA AppendJoined ==
    ASSUME NEW s \in Seq(Message), NEW t \in Seq(Message), NEW m \in Message
    PROVE  Append(s \o t, m) = s \o Append(t, m)
BY Joining

\* The batch grows by one result.
LEMMA BatchGrows ==
    ASSUME NEW s \in Seq(Message), NEW k \in 0..MaxCalls, k + 1 <= MaxCalls
    PROVE  /\ Batch(k) \in Seq(Message) /\ Batch(0) = <<>>
           /\ Append(s \o Batch(k), ToolResult(k + 1)) = s \o Batch(k + 1)
<1>0. MaxCalls \in Nat
  BY RunAssumption
<1>1. Batch(k) \in Seq(Message) /\ Batch(k + 1) \in Seq(Message) /\ ToolResult(k + 1) \in Message
      /\ Len(Batch(k)) = k /\ Len(Batch(k + 1)) = k + 1
  BY <1>0, Created DEF Batch
<1>2. Batch(0) = <<>>
  BY DEF Batch
<1>3. Append(Batch(k), ToolResult(k + 1)) = Batch(k + 1)
  <2>1. Append(Batch(k), ToolResult(k + 1)) \in Seq(Message)
            /\ Len(Append(Batch(k), ToolResult(k + 1))) = k + 1
    BY <1>0, <1>1
  <2>2. \A i \in 1..(k + 1) : Append(Batch(k), ToolResult(k + 1))[i] = Batch(k + 1)[i]
    BY <1>0, <1>1 DEF Batch
  <2> QED
    BY <1>1, <2>1, <2>2, SeqEqual
<1>4. Append(s \o Batch(k), ToolResult(k + 1)) = s \o Append(Batch(k), ToolResult(k + 1))
  BY <1>1, Joining
<1> QED
  BY <1>1, <1>2, <1>3, <1>4

\* The record holds no partial message: a context that is the record has no partial message,
\* and in one that has, the partial message is last.
LEMMA Unfinished ==
    ASSUME TypeOK, Queues, NEW m \in Message
    PROVE  /\ context = messages => ~PartialAdded
           /\ context = Append(messages, Partial) => PartialAdded
                  /\ ReplaceLast(context, m) = Append(messages, m)
<1>1. Partial \in Message /\ messages \in Seq(Message) /\ messages \in Seq(Whole)
          /\ Partial \notin Whole
  <2>1. Partial \in Message
    BY Created, RunAssumption DEF Partial
  <2> QED
    BY <2>1 DEF TypeOK, Queues, Whole
<1>2. ASSUME context = messages
      PROVE  ~PartialAdded
  BY <1>1, <1>2 DEF PartialAdded, Last
<1>3. ASSUME context = Append(messages, Partial)
      PROVE  PartialAdded /\ ReplaceLast(context, m) = Append(messages, m)
  <2>1. PartialAdded
    BY <1>1, <1>3 DEF PartialAdded, Last
  <2>2. context \in Seq(Message) /\ Len(context) = Len(messages) + 1
            /\ Len(context) \in 1..Len(context)
    BY <1>1, <1>3
  <2>3. /\ ReplaceLast(context, m) \in Seq(Message) /\ Len(ReplaceLast(context, m)) = Len(context)
        /\ \A i \in 1..Len(context) :
               ReplaceLast(context, m)[i] = IF i = Len(context) THEN m ELSE context[i]
    BY <2>2, ExceptSeq DEF ReplaceLast
  <2>4. /\ Append(messages, m) \in Seq(Message) /\ Len(Append(messages, m)) = Len(context)
        /\ \A i \in 1..Len(context) :
               Append(messages, m)[i] = IF i = Len(context) THEN m ELSE context[i]
    BY <1>1, <1>3, <2>2
  <2>5. \A i \in 1..Len(context) : ReplaceLast(context, m)[i] = Append(messages, m)[i]
    BY <2>3, <2>4
  <2> QED
    BY <2>1, <2>3, <2>4, <2>5, SeqEqual
<1> QED
  BY <1>2, <1>3

\* Every step keeps the agreement of record, context and report.
LEMMA AgreementStep ==
    ASSUME TypeOK, Leasing, Queues, Executing, Agreement, [Next]_vars
    PROVE  Agreement'
<1>0. /\ messages \in Seq(Message) /\ context \in Seq(Message) /\ newMessages \in Seq(Message)
      /\ pending \in Seq(Message) /\ base \in Seq(Message)
  BY DEF TypeOK
<1>1. ASSUME DeliversPrompt
      PROVE  Agreement'
  <2>1. /\ pending # <<>> /\ messages' = Append(messages, Head(pending))
               /\ pending' = Tail(pending)
        /\ loop = "prompts" /\ UNCHANGED <<trampled, loop, base, newMessages, context>>
    BY <1>1 DEF DeliversPrompt, Rest, Record
  <2>2. messages' \o pending' = messages \o pending
    BY <1>0, <2>1, Joining
  <2> QED
    BY <2>1, <2>2 DEF Agreement
<1>2. ASSUME FirstPoll
      PROVE  Agreement'
  BY <1>2 DEF FirstPoll, Agreement, RunIdle, history
<1>3. ASSUME DeliversPending
      PROVE  Agreement'
  <2>1. /\ pending # <<>> /\ messages' = Append(messages, Head(pending))
               /\ context' = Append(context, Head(pending))
        /\ newMessages' = Append(newMessages, Head(pending))
        /\ loop = "turn" /\ UNCHANGED <<trampled, loop, base>>
    BY <1>3 DEF DeliversPending, Rest, Record
  <2>2. Append(base \o newMessages, Head(pending)) = base \o Append(newMessages, Head(pending))
    <3>1. Head(pending) \in Message
      BY <1>0, <2>1
    <3> QED
      BY <1>0, <3>1, AppendJoined
  <2> QED
    BY <2>1, <2>2 DEF Agreement
<1>4. ASSUME Request
      PROVE  Agreement'
  BY <1>4 DEF Request, Agreement, RunIdle, history
<1>5. ASSUME StreamStarts
      PROVE  Agreement'
  <2>1. /\ context' = Append(context, Partial) /\ ~PartialAdded /\ loop = "stream"
        /\ UNCHANGED <<trampled, loop, base, messages, newMessages>>
    BY <1>5 DEF StreamStarts, RunIdle, history
  <2>2. Partial \in Message
    BY Created, RunAssumption DEF Partial
  <2>3. Append(messages, Partial) # <<>> /\ Last(Append(messages, Partial)) = Partial
    BY <1>0, <2>2, Ending
  <2>4. context # Append(messages, Partial)
    BY <2>1, <2>3 DEF PartialAdded
  <2> QED
    BY <2>1, <2>4 DEF Agreement
<1>6. ASSUME NEW m \in Message, Speaks(m)
      PROVE  Agreement'
  <2> SUFFICES ASSUME ~trampled PROVE Agreement'
    BY <1>6 DEF Speaks, Rest, Agreement
  <2>1. /\ context' = Finalized(m) /\ messages' = Append(messages, m)
               /\ newMessages' = Append(newMessages, m)
        /\ results' = 0 /\ loop = "stream" /\ loop' \in {"end", "tools", "turn_end"}
               /\ UNCHANGED <<trampled, base>>
    BY <1>6 DEF Speaks, Rest, Record
  <2>2. messages = base \o newMessages /\ context \in {messages, Append(messages, Partial)}
    BY <2>1 DEF Agreement
  <2>3. Finalized(m) = Append(messages, m)
    <3>1. CASE context = messages
      BY <3>1, Unfinished DEF Finalized
    <3>2. CASE context = Append(messages, Partial)
      BY <3>2, Unfinished DEF Finalized
    <3> QED
      BY <2>2, <3>1, <3>2
  <2>4. Append(messages, m) = base \o Append(newMessages, m)
            /\ base \o Append(newMessages, m) \in Seq(Message)
    <3>1. Append(base \o newMessages, m) = base \o Append(newMessages, m)
      BY <1>0, AppendJoined
    <3>2. Append(newMessages, m) \in Seq(Message)
      BY <1>0, SeqFacts
    <3> QED
      BY <1>0, <2>2, <3>1, <3>2, SeqFacts
  <2>5. (base \o Append(newMessages, m)) \o Batch(0) = base \o Append(newMessages, m)
    <3>1. Batch(0) = <<>>
      BY DEF Batch
    <3> QED
      BY <2>4, <3>1, Joining
  <2> QED
    BY <2>1, <2>3, <2>4, <2>5 DEF Agreement
<1>7. ASSUME NEW m \in Message, Raised(m)
      PROVE  Agreement'
  BY <1>7 DEF Raised, Agreement, Rest, Record
<1>8. ASSUME Answers
      PROVE  Agreement'
  <2>1. /\ messages' = Append(messages, ToolResult(results + 1)) /\ results' = results + 1
        /\ loop = "tools" /\ results < Calls
               /\ UNCHANGED <<trampled, loop, base, newMessages, context>>
    BY <1>8 DEF Answers, Rest, Record
  <2>2. Last(newMessages) \in Message
    BY <2>1 DEF Executing, TypeOK, Last
  <2>3. Calls \in 0..MaxCalls
    BY <2>1, <2>2, MessageForm DEF Executing, Calls
  <2>4. results \in 0..MaxCalls /\ results + 1 <= MaxCalls
    BY <2>1, <2>3, RunAssumption DEF TypeOK
  <2>5. base \o newMessages \in Seq(Message)
    BY <1>0, SeqFacts
  <2>6. Append((base \o newMessages) \o Batch(results), ToolResult(results + 1))
          = (base \o newMessages) \o Batch(results + 1)
    BY <2>4, <2>5, BatchGrows
  <2> QED
    BY <2>1, <2>6 DEF Agreement
<1>9. ASSUME BatchReturns
      PROVE  Agreement'
  <2>1. /\ context' = context \o Batch(results) /\ newMessages' = newMessages \o Batch(results)
        /\ loop = "tools" /\ loop' = "turn_end" /\ UNCHANGED <<trampled, base, messages, results>>
    BY <1>9 DEF BatchReturns, history, Batch
  <2>2. Batch(results) \in Seq(Message)
    <3>1. \A i \in 1..results : ToolResult(i) \in Message
      BY Created, RunAssumption DEF TypeOK
    <3> QED
      BY <3>1 DEF Batch, TypeOK
  <2>3. (base \o newMessages) \o Batch(results) = base \o (newMessages \o Batch(results))
    BY SMTT(60), <1>0, <2>2, ConcatAssociative
  <2> QED
    BY <2>1, <2>3 DEF Agreement
<1>10. ASSUME Proceeds
       PROVE  Agreement'
  BY <1>10 DEF Proceeds, Agreement, Rest
<1>11. ASSUME PollSteering
       PROVE  Agreement'
  BY <1>11 DEF PollSteering, Agreement, RunIdle, history
<1>12. ASSUME PollFollowUp
       PROVE  Agreement'
  BY <1>12 DEF PollFollowUp, Agreement, RunIdle, history
<1>13. ASSUME Leaves
       PROVE  Agreement'
  BY <1>13 DEF Leaves, Agreement, Record, LeavesLoop
<1>14. ASSUME NEW c \in Callers, Prompt(c)
       PROVE  Agreement'
  BY <1>14 DEF Prompt, Agreement, Launch, Begin
<1>15. ASSUME NEW c \in Callers, Continue(c)
       PROVE  Agreement'
  BY <1>15 DEF Continue, Agreement, Launch, Begin
<1>16. ASSUME NEW c \in Callers, ContinueRaises(c)
       PROVE  Agreement'
  BY <1>16 DEF ContinueRaises, Agreement, history, loopVars, Begin
<1>17. ASSUME NEW c \in Callers, SetsIdle(c)
       PROVE  Agreement'
  BY <1>17 DEF SetsIdle, Agreement, history, loopVars
<1>18. ASSUME NEW c \in Callers, ReleasesLease(c)
       PROVE  Agreement'
  BY <1>18 DEF ReleasesLease, Agreement, history, loopVars
<1>19. ASSUME NEW c \in Callers, ResetChecks(c)
       PROVE  Agreement'
  BY <1>19 DEF ResetChecks, Agreement, history, agentVars, loopVars
<1>20. ASSUME NEW c \in Callers, ResetRefused(c)
       PROVE  Agreement'
  BY <1>20 DEF ResetRefused, Agreement, history, agentVars, loopVars
<1>21. ASSUME NEW c \in Callers, ResetClears(c)
       PROVE  Agreement'
  <2>1. trampled' = (lease # None) /\ UNCHANGED loop
    BY <1>21 DEF ResetClears, loopVars
  <2>2. ~trampled' => loop' = "none"
    BY <2>1 DEF Leasing, LeaseExclusive
  <2> QED
    BY <2>2 DEF Agreement
<1>22. ASSUME Steer
       PROVE  Agreement'
  BY <1>22 DEF Steer, Agreement, loopVars
<1>23. ASSUME FollowUp
       PROVE  Agreement'
  BY <1>23 DEF FollowUp, Agreement, loopVars
<1>24. ASSUME ClearSteeringQueue
       PROVE  Agreement'
  BY <1>24 DEF ClearSteeringQueue, Agreement, loopVars
<1>25. ASSUME ClearFollowUpQueue
       PROVE  Agreement'
  BY <1>25 DEF ClearFollowUpQueue, Agreement, loopVars
<1>26. ASSUME Abort
       PROVE  Agreement'
  BY <1>26 DEF Abort, Agreement, loopVars
<1>27. ASSUME ResetAbortSignal
       PROVE  Agreement'
  BY <1>27 DEF ResetAbortSignal, Agreement, history, loopVars
<1>28. CASE UNCHANGED vars
  BY <1>28 DEF Agreement, vars, agentVars, loopVars, history
<1> QED
  BY LoopBranches, <1>1, <1>2, <1>3, <1>4, <1>5, <1>6, <1>7, <1>8, <1>9, <1>10, <1>11, <1>12,
     <1>13, <1>14, <1>15, <1>16, <1>17, <1>18, <1>19, <1>20, <1>21, <1>22, <1>23, <1>24, <1>25,
     <1>26, <1>27, <1>28 DEF Next, LoopBranch, CallerStarts, CallerFinishes, CallerResets,
     AnyThread

-----------------------------------------------------------------------------
(* Results follow their calls.                                             *)

\* A message more.
LEMMA Longer ==
    ASSUME NEW s \in Seq(Message), NEW m \in Message
    PROVE  /\ Append(s, m) \in Seq(Message) /\ Len(Append(s, m)) = Len(s) + 1 /\ Len(s) \in Nat
           /\ DOMAIN s = 1..Len(s) /\ DOMAIN Append(s, m) = 1..(Len(s) + 1)
           /\ \A i \in 1..Len(s) : Append(s, m)[i] = s[i]
           /\ Append(s, m)[Len(s) + 1] = m
OBVIOUS

\* Calls that are answered stay answered.
LEMMA AnsweredStays ==
    ASSUME NEW s \in Seq(Message), NEW m \in Message, NEW a \in Nat, a > 0, NEW k \in Nat,
                Answered(s, a, k)
    PROVE  Answered(Append(s, m), a, k)
<1> SUFFICES ASSUME NEW j \in 1..k
             PROVE  a + j <= Len(Append(s, m)) /\ Append(s, m)[a + j] = ToolResult(j)
  BY DEF Answered
<1>1. a + j <= Len(s) /\ s[a + j] = ToolResult(j)
  BY DEF Answered
<1> QED
  BY <1>1, Longer

\* A message that is not a result may follow any record.
LEMMA FollowOther ==
    ASSUME NEW s \in Seq(Message), NEW m \in Message, ResultsFollow(s), m.role # "toolResult"
    PROVE  ResultsFollow(Append(s, m))
<1> DEFINE t == Append(s, m)
<1> SUFFICES ASSUME NEW i \in DOMAIN t, t[i].role = "toolResult"
             PROVE  \E a \in 1..(i - 1) : /\ t[a].role = "assistant" /\ i - a = t[i].n
                                          /\ t[i].n <= t[a].n /\ Answered(t, a, t[i].n)
  BY DEF ResultsFollow
<1>1. i \in 1..Len(s) /\ t[i] = s[i]
  BY Longer
<1>2. PICK a \in 1..(i - 1) : /\ s[a].role = "assistant" /\ i - a = s[i].n
                              /\ s[i].n <= s[a].n /\ Answered(s, a, s[i].n)
  BY <1>1, Longer DEF ResultsFollow
<1>3. a \in 1..Len(s) /\ t[a] = s[a] /\ a \in Nat /\ a > 0 /\ s[i].n \in Nat
  BY <1>1, <1>2, Longer
<1>4. Answered(t, a, s[i].n)
  BY <1>2, <1>3, AnsweredStays
<1> QED
  BY <1>1, <1>2, <1>3, <1>4

\* The next result of the last message that called.
LEMMA FollowResult ==
    ASSUME NEW s \in Seq(Message), ResultsFollow(s), NEW a \in DOMAIN s, NEW k \in Nat,
           s[a].role = "assistant", Answered(s, a, k), Len(s) = a + k, k + 1 <= s[a].n,
                       s[a].n \in 0..MaxCalls
    PROVE  ResultsFollow(Append(s, ToolResult(k + 1)))
        /\ Answered(Append(s, ToolResult(k + 1)), a, k + 1)
<1> DEFINE m == ToolResult(k + 1)
           t == Append(s, m)
<1>0. m \in Message /\ a \in 1..Len(s) /\ Len(s) \in Nat /\ m.role = "toolResult" /\ m.n = k + 1
  <2>1. m \in Message
    BY Created, RunAssumption
  <2> QED
    BY <2>1, Longer DEF ToolResult
<1>1. Answered(t, a, k)
  BY <1>0, AnsweredStays
<1>2. Answered(t, a, k + 1)
  <2> SUFFICES ASSUME NEW j \in 1..(k + 1)
               PROVE  a + j <= Len(t) /\ t[a + j] = ToolResult(j)
    BY DEF Answered
  <2>1. CASE j \in 1..k
    BY <1>1, <2>1 DEF Answered
  <2>2. CASE j = k + 1
    BY <1>0, <2>2, Longer
  <2> QED
    BY <2>1, <2>2
<1>3. ASSUME NEW i \in DOMAIN t, t[i].role = "toolResult"
      PROVE  \E b \in 1..(i - 1) : /\ t[b].role = "assistant" /\ i - b = t[i].n
                                   /\ t[i].n <= t[b].n /\ Answered(t, b, t[i].n)
  <2>1. CASE i \in 1..Len(s)
    <3>1. t[i] = s[i] /\ i \in DOMAIN s
      BY <1>0, <2>1, Longer
    <3>2. PICK b \in 1..(i - 1) : /\ s[b].role = "assistant" /\ i - b = s[i].n
                                  /\ s[i].n <= s[b].n /\ Answered(s, b, s[i].n)
      BY <1>3, <3>1 DEF ResultsFollow
    <3>3. b \in 1..Len(s) /\ t[b] = s[b] /\ b \in Nat /\ b > 0 /\ s[i].n \in Nat
      BY <1>0, <2>1, <3>2, Longer
    <3>4. Answered(t, b, s[i].n)
      BY <1>0, <3>2, <3>3, AnsweredStays
    <3> QED
      BY <3>1, <3>2, <3>3, <3>4
  <2>2. CASE i = Len(s) + 1
    <3>1. t[i] = m /\ t[a] = s[a]
      BY <1>0, <2>2, Longer
    <3>2. a \in 1..(i - 1) /\ i - a = k + 1
      BY <1>0, <2>2
    <3>3. t[a].role = "assistant" /\ t[i].n = k + 1 /\ k + 1 <= t[a].n
      BY <1>0, <3>1
    <3> QED
      BY <1>2, <3>2, <3>3
  <2>3. DOMAIN t = 1..(Len(s) + 1)
    BY <1>0, Longer
  <2>4. i \in 1..Len(s) \/ i = Len(s) + 1
    BY <1>0, <2>3
  <2> QED
    BY <2>1, <2>2, <2>4
<1> QED
  BY <1>2, <1>3 DEF ResultsFollow

\* The record is extended by a message that needs no answer, or that is being answered.
LEMMA CompleteStays ==
    ASSUME NEW s \in Seq(Message), NEW m \in Message, NEW but, NEW next, Complete(s, but),
           but = next \/ but = 0,
           m.role = "assistant" /\ m.kind # "error" => m.n = 0 \/ next = Len(s) + 1
    PROVE  Complete(Append(s, m), next)
<1> DEFINE t == Append(s, m)
<1> SUFFICES ASSUME NEW i \in DOMAIN t, t[i].role = "assistant", t[i].kind # "error", i # next
             PROVE  Answered(t, i, t[i].n)
  BY DEF Complete
<1>1. CASE i \in 1..Len(s)
  <2>1. t[i] = s[i] /\ i \in DOMAIN s /\ i # but /\ i \in Nat /\ i > 0
    BY <1>1, Longer
  <2>2. Answered(s, i, s[i].n)
    BY <2>1 DEF Complete
  <2>3. s[i].n \in Nat
    <3>1. s[i] \in Message
      BY <2>1
    <3> QED
      BY <2>1, <3>1, MessageForm
  <2> QED
    BY <2>1, <2>2, <2>3, AnsweredStays
<1>2. CASE i = Len(s) + 1
  <2>1. t[i] = m /\ m.n = 0
    BY <1>2, Longer
  <2> QED
    BY <2>1 DEF Answered
<1> QED
  BY <1>1, <1>2, Longer

\* Nothing recorded: nothing changes, when the loop is not executing calls.
LEMMA StructureSame ==
    ASSUME Structure, UNCHANGED <<messages, trampled>>, loop # "tools", loop' # "tools",
           broken => broken', interrupted => interrupted'
    PROVE  Structure'
<1>1. Calling = 0 /\ Calling' = 0
  BY DEF Calling
<1> QED
  BY <1>1 DEF Structure

\* A message that needs no answer is recorded.
LEMMA StructureLonger ==
    ASSUME TypeOK, Structure, UNCHANGED trampled, loop # "tools", loop' # "tools",
           broken => broken', interrupted => interrupted',
           NEW m \in Message, messages' = Append(messages, m), m.role # "toolResult",
           m.role = "assistant" /\ m.kind # "error" => m.n = 0 \/ broken' \/ interrupted'
    PROVE  Structure'
<1> SUFFICES ASSUME ~trampled PROVE Structure'
  BY DEF Structure
<1>0. messages \in Seq(Message)
  BY DEF TypeOK
<1>1. Calling = 0 /\ Calling' = 0
  BY DEF Calling
<1>2. ResultsFollow(messages')
  BY <1>0, FollowOther DEF Structure
<1>3. ~broken' /\ ~interrupted' => Complete(messages', 0)
  BY <1>0, <1>1, CompleteStays DEF Structure
<1> QED
  BY <1>1, <1>2, <1>3 DEF Structure

\* Every step keeps the results in their places and the calls answered.
LEMMA StructureStep ==
    ASSUME TypeOK, Leasing, Queues, Executing, Structure, [Next]_vars
    PROVE  Structure'
<1>1. ASSUME DeliversPrompt
      PROVE  Structure'
  <2>1. /\ pending # <<>> /\ messages' = Append(messages, Head(pending))
               /\ loop \in {"prompts", "turn"}
        /\ UNCHANGED <<trampled, loop, broken, interrupted>>
    BY <1>1 DEF DeliversPrompt, Rest, Record
  <2>2. Head(pending) \in Message /\ Head(pending) \in Users
    BY <2>1, SeqFacts DEF TypeOK, Queues
  <2>3. Head(pending).role = "user"
    BY <2>2 DEF Users
  <2> QED
    BY <2>1, <2>2, <2>3, StructureLonger
<1>2. ASSUME FirstPoll
      PROVE  Structure'
  <2>1. /\ UNCHANGED <<messages, trampled, broken, interrupted>> /\ loop # "tools"
               /\ loop' # "tools"
    BY <1>2 DEF FirstPoll, RunIdle, history
  <2> QED
    BY <2>1, StructureSame
<1>3. ASSUME DeliversPending
      PROVE  Structure'
  <2>1. /\ pending # <<>> /\ messages' = Append(messages, Head(pending))
               /\ loop \in {"prompts", "turn"}
        /\ UNCHANGED <<trampled, loop, broken, interrupted>>
    BY <1>3 DEF DeliversPending, Rest, Record
  <2>2. Head(pending) \in Message /\ Head(pending) \in Users
    BY <2>1, SeqFacts DEF TypeOK, Queues
  <2>3. Head(pending).role = "user"
    BY <2>2 DEF Users
  <2> QED
    BY <2>1, <2>2, <2>3, StructureLonger
<1>4. ASSUME Request
      PROVE  Structure'
  <2>1. /\ UNCHANGED <<messages, trampled, broken, interrupted>> /\ loop # "tools"
               /\ loop' # "tools"
    BY <1>4 DEF Request, RunIdle, history
  <2> QED
    BY <2>1, StructureSame
<1>5. ASSUME StreamStarts
      PROVE  Structure'
  <2>1. /\ UNCHANGED <<messages, trampled, broken, interrupted>> /\ loop # "tools"
               /\ loop' # "tools"
    BY <1>5 DEF StreamStarts, RunIdle, history
  <2> QED
    BY <2>1, StructureSame
<1>6. ASSUME NEW m \in Message, Speaks(m)
      PROVE  Structure'
  <2> SUFFICES ASSUME ~trampled PROVE Structure'
    BY <1>6 DEF Speaks, Rest, Structure
  <2>1. /\ messages' = Append(messages, m) /\ newMessages' = Append(newMessages, m)
               /\ results' = 0
        /\ loop = "stream" /\ Spoken(m) /\ UNCHANGED <<trampled, broken, interrupted>>
        /\ m.kind \in {"error", "aborted"} => loop' = "end"
        /\ m.kind \notin {"error", "aborted"} => loop' = IF m.n > 0 THEN "tools" ELSE "turn_end"
    BY <1>6 DEF Speaks, Rest, Record
  <2>2. m.role = "assistant" /\ m.n \in Nat
    <3>1. m.role = "assistant"
      BY <2>1 DEF Spoken
    <3> QED
      BY <3>1, MessageForm
  <2>3. CASE loop' # "tools"
    <3>1. m.kind # "error" => m.n = 0 \/ interrupted
      <4>1. CASE m.kind = "aborted"
        BY <2>1, <4>1 DEF Spoken, Leasing
      <4>2. CASE m.kind \notin {"error", "aborted"}
        BY <2>1, <2>2, <2>3, <4>2
      <4> QED
        BY <4>1, <4>2
    <3> QED
      BY <2>1, <2>2, <2>3, <3>1, StructureLonger
  <2>4. CASE loop' = "tools"
    <3>1. messages \in Seq(Message) /\ newMessages \in Seq(Message)
      BY DEF TypeOK
    <3>2. Calling = 0 /\ Calling' = Len(messages) + 1 /\ Calling' \in DOMAIN messages'
          /\ messages'[Calling'] = m /\ Last(newMessages') = m
      <4>1. Calling' = Len(messages) + 1
        BY <2>1, <2>4, <3>1, Longer DEF Calling
      <4>2. Calling = 0
        BY <2>1 DEF Calling
      <4>3. newMessages'[Len(newMessages')] = m
        BY <2>1, <3>1, Longer
      <4> QED
        BY <2>1, <3>1, <4>1, <4>2, <4>3, Longer DEF Last
    <3>3. ResultsFollow(messages')
      BY <2>1, <2>2, <3>1, FollowOther DEF Structure
    <3>4. ~broken /\ ~interrupted => Complete(messages', Calling')
      BY <2>1, <3>1, <3>2, CompleteStays DEF Structure
    <3>5. Answered(messages', Calling', 0)
      BY DEF Answered
    <3> QED
      BY <2>1, <2>4, <3>2, <3>3, <3>4, <3>5 DEF Structure
  <2> QED
    BY <2>3, <2>4
<1>7. ASSUME NEW m \in Message, Raised(m)
      PROVE  Structure'
  <2> SUFFICES ASSUME ~trampled PROVE Structure'
    BY <1>7 DEF Raised, Rest, Structure
  <2>1. loop' = "failing" /\ broken' = TRUE /\ UNCHANGED <<trampled, interrupted>>
    BY <1>7 DEF Raised, Rest
  <2>2. messages \in Seq(Message) /\ ResultsFollow(messages)
    BY DEF TypeOK, Structure
  <2>3. ResultsFollow(messages')
    <3>1. CASE messages' = messages
      BY <2>2, <3>1
    <3>2. CASE Record(m) /\ m.role # "toolResult"
      BY <2>2, <3>2, FollowOther DEF Record
    <3>3. CASE Record(m) /\ loop = "tools" /\ results < Calls /\ m = ToolResult(results + 1)
      <4>1. Last(newMessages) \in Message
        BY <3>3 DEF Executing, TypeOK, Last
      <4>2. Calls \in 0..MaxCalls /\ Last(newMessages).role = "assistant"
                /\ Last(newMessages).n = Calls
        BY <3>3, <4>1, MessageForm DEF Executing, Calls
      <4>3. /\ results \in Nat /\ Calling \in DOMAIN messages
                   /\ messages[Calling] = Last(newMessages)
            /\ Calling = Len(messages) - results /\ Answered(messages, Calling, results)
        BY <3>3 DEF TypeOK, Structure, Calling
      <4>4. Len(messages) = Calling + results /\ Calling \in 1..Len(messages)
        BY <2>2, <4>3
      <4>5. messages[Calling].role = "assistant" /\ messages[Calling].n \in 0..MaxCalls
            /\ results + 1 <= messages[Calling].n
        BY <3>3, <4>2, <4>3
      <4> QED
        BY <2>2, <3>3, <4>3, <4>4, <4>5, FollowResult DEF Record
    <3>4. ASSUME Record(m), messages' # messages
          PROVE  \/ m.role # "toolResult"
                 \/ loop = "tools" /\ results < Calls /\ m = ToolResult(results + 1)
      <4>1. pending # <<>> => Head(pending).role = "user"
        BY SeqFacts DEF Queues, Users
      <4> QED
        BY <1>7, <3>4, <4>1 DEF Raised, Spoken
    <3> QED
      BY <1>7, <3>1, <3>2, <3>3, <3>4 DEF Raised
  <2> QED
    BY <2>1, <2>3 DEF Structure
<1>8. ASSUME Answers
      PROVE  Structure'
  <2> SUFFICES ASSUME ~trampled PROVE Structure'
    BY <1>8 DEF Answers, Rest, Structure
  <2>1. /\ messages' = Append(messages, ToolResult(results + 1)) /\ results' = results + 1
        /\ loop = "tools" /\ results < Calls
               /\ UNCHANGED <<trampled, loop, newMessages, broken, interrupted>>
    BY <1>8 DEF Answers, Rest, Record
  <2>2. Last(newMessages) \in Message
    BY <2>1 DEF Executing, TypeOK, Last
  <2>3. Calls \in 0..MaxCalls /\ Last(newMessages).role = "assistant"
            /\ Last(newMessages).n = Calls
    BY <2>1, <2>2, MessageForm DEF Executing, Calls
  <2>4. /\ messages \in Seq(Message) /\ results \in Nat /\ ToolResult(results + 1) \in Message
        /\ Calling \in DOMAIN messages /\ messages[Calling] = Last(newMessages)
               /\ Calling = Len(messages) - results
        /\ Answered(messages, Calling, results) /\ ResultsFollow(messages)
    <3>1. ToolResult(results + 1) \in Message
      BY <2>1, <2>3, RunAssumption, Created DEF TypeOK
    <3> QED
      BY <2>1, <3>1 DEF TypeOK, Structure, Calling
  <2>5. Len(messages) = Calling + results /\ Calling \in 1..Len(messages)
    BY <2>4
  <2>6. ResultsFollow(messages') /\ Answered(messages', Calling, results + 1)
    <3>1. messages[Calling].role = "assistant" /\ messages[Calling].n \in 0..MaxCalls
          /\ results + 1 <= messages[Calling].n
      BY <2>1, <2>3, <2>4
    <3> QED
      BY <2>1, <2>4, <2>5, <3>1, FollowResult
  <2>7. Calling' = Calling /\ Calling \in DOMAIN messages'
            /\ messages'[Calling] = messages[Calling]
    BY <2>1, <2>4, <2>5, Longer DEF Calling
  <2>8. ~broken /\ ~interrupted => Complete(messages', Calling)
    <3>1. ToolResult(results + 1).role # "assistant"
      BY DEF ToolResult
    <3> QED
      BY <2>1, <2>4, <3>1, CompleteStays DEF Structure
  <2> QED
    BY <2>1, <2>4, <2>6, <2>7, <2>8 DEF Structure
<1>9. ASSUME BatchReturns
      PROVE  Structure'
  <2> SUFFICES ASSUME ~trampled PROVE Structure'
    BY <1>9 DEF BatchReturns, history, Structure
  <2>1. /\ loop = "tools" /\ loop' = "turn_end"
               /\ UNCHANGED <<trampled, messages, results, broken, interrupted>>
        /\ results = Calls \/ aborted
    BY <1>9 DEF BatchReturns, history
  <2>2. Last(newMessages) \in Message
    BY <2>1 DEF Executing, TypeOK, Last
  <2>3. Calls \in 0..MaxCalls /\ Last(newMessages).role = "assistant"
            /\ Last(newMessages).n = Calls
    BY <2>1, <2>2, MessageForm DEF Executing, Calls
  <2>4. /\ messages \in Seq(Message) /\ Calling \in DOMAIN messages
               /\ messages[Calling] = Last(newMessages)
        /\ Answered(messages, Calling, results) /\ ResultsFollow(messages)
    BY <2>1 DEF TypeOK, Structure
  <2>5. Calling' = 0
    BY <2>1 DEF Calling
  <2>6. ~broken /\ ~interrupted => Complete(messages, 0)
    <3> SUFFICES ASSUME ~broken, ~interrupted PROVE Complete(messages, 0)
      OBVIOUS
    <3>1. results = Calls
      BY <2>1 DEF Leasing
    <3>2. Complete(messages, Calling)
      BY DEF Structure
    <3>3. Answered(messages, Calling, messages[Calling].n)
      BY <2>3, <2>4, <3>1
    <3> QED
      BY <3>2, <3>3 DEF Complete
  <2> QED
    BY <2>1, <2>4, <2>5, <2>6 DEF Structure
<1>10. ASSUME Proceeds
       PROVE  Structure'
  <2>1. /\ UNCHANGED <<messages, trampled, broken, interrupted>> /\ loop # "tools"
               /\ loop' # "tools"
    BY <1>10 DEF Proceeds, Rest
  <2> QED
    BY <2>1, StructureSame
<1>11. ASSUME PollSteering
       PROVE  Structure'
  <2>1. /\ UNCHANGED <<messages, trampled, broken, interrupted>> /\ loop # "tools"
               /\ loop' # "tools"
    BY <1>11 DEF PollSteering, RunIdle, history
  <2> QED
    BY <2>1, StructureSame
<1>12. ASSUME PollFollowUp
       PROVE  Structure'
  <2>1. /\ UNCHANGED <<messages, trampled, broken, interrupted>> /\ loop # "tools"
               /\ loop' # "tools"
    BY <1>12 DEF PollFollowUp, RunIdle, history
  <2> QED
    BY <2>1, StructureSame
<1>13. ASSUME Leaves
       PROVE  Structure'
  <2>1. loop' = "none" /\ loop \in {"end", "failing"}
            /\ UNCHANGED <<trampled, interrupted, broken>>
    BY <1>13 DEF Leaves, LeavesLoop
  <2>2. CASE messages' = messages
    BY <2>1, <2>2, StructureSame
  <2>3. CASE \E kind \in {"error", "aborted"} : Record(Assistant(kind, 0))
    <3>1. PICK kind \in {"error", "aborted"} : Record(Assistant(kind, 0))
      BY <2>3
    <3>2. Assistant(kind, 0) \in Message /\ Assistant(kind, 0).role = "assistant"
              /\ Assistant(kind, 0).n = 0
      <4>1. Assistant(kind, 0) \in Message
        BY Created, RunAssumption DEF StopReasons
      <4> QED
        BY <4>1 DEF Assistant
    <3> QED
      BY <2>1, <3>1, <3>2, StructureLonger DEF Record
  <2> QED
    BY <1>13, <2>2, <2>3 DEF Leaves
<1>14. ASSUME NEW c \in Callers, Prompt(c)
       PROVE  Structure'
  <2>1. /\ UNCHANGED <<messages, trampled, broken, interrupted>> /\ lease = None
               /\ loop' # "tools"
    BY <1>14 DEF Prompt, Launch, Begin
  <2>2. loop # "tools"
    BY <2>1 DEF Leasing, LeaseExclusive
  <2> QED
    BY <2>1, <2>2, StructureSame
<1>15. ASSUME NEW c \in Callers, Continue(c)
       PROVE  Structure'
  <2>1. /\ UNCHANGED <<messages, trampled, broken, interrupted>> /\ lease = None
               /\ loop' # "tools"
    BY <1>15 DEF Continue, Launch, Begin
  <2>2. loop # "tools"
    BY <2>1 DEF Leasing, LeaseExclusive
  <2> QED
    BY <2>1, <2>2, StructureSame
<1>16. ASSUME NEW c \in Callers, ContinueRaises(c)
       PROVE  Structure'
  <2>1. /\ UNCHANGED <<messages, trampled, loop, results, newMessages, broken>>
               /\ (interrupted => interrupted')
    BY <1>16 DEF ContinueRaises, history, loopVars, Begin
  <2>2. Calling' = Calling
    BY <2>1 DEF Calling
  <2> QED
    BY <2>1, <2>2 DEF Structure
<1>17. ASSUME NEW c \in Callers, SetsIdle(c)
       PROVE  Structure'
  <2>1. /\ UNCHANGED <<messages, trampled, loop, results, newMessages, broken>>
               /\ (interrupted => interrupted')
    BY <1>17 DEF SetsIdle, history, loopVars
  <2>2. Calling' = Calling
    BY <2>1 DEF Calling
  <2> QED
    BY <2>1, <2>2 DEF Structure
<1>18. ASSUME NEW c \in Callers, ReleasesLease(c)
       PROVE  Structure'
  <2>1. /\ UNCHANGED <<messages, trampled, loop, results, newMessages, broken>>
               /\ (interrupted => interrupted')
    BY <1>18 DEF ReleasesLease, history, loopVars
  <2>2. Calling' = Calling
    BY <2>1 DEF Calling
  <2> QED
    BY <2>1, <2>2 DEF Structure
<1>19. ASSUME NEW c \in Callers, ResetChecks(c)
       PROVE  Structure'
  <2>1. /\ UNCHANGED <<messages, trampled, loop, results, newMessages, broken>>
               /\ (interrupted => interrupted')
    BY <1>19 DEF ResetChecks, history, agentVars, loopVars
  <2>2. Calling' = Calling
    BY <2>1 DEF Calling
  <2> QED
    BY <2>1, <2>2 DEF Structure
<1>20. ASSUME NEW c \in Callers, ResetRefused(c)
       PROVE  Structure'
  <2>1. /\ UNCHANGED <<messages, trampled, loop, results, newMessages, broken>>
               /\ (interrupted => interrupted')
    BY <1>20 DEF ResetRefused, history, agentVars, loopVars
  <2>2. Calling' = Calling
    BY <2>1 DEF Calling
  <2> QED
    BY <2>1, <2>2 DEF Structure
<1>21. ASSUME NEW c \in Callers, ResetClears(c)
       PROVE  Structure'
  <2>1. messages' = <<>> /\ trampled' = (lease # None) /\ UNCHANGED loop
    BY <1>21 DEF ResetClears, loopVars
  <2>2. ~trampled' => loop' # "tools"
    BY <2>1 DEF Leasing, LeaseExclusive
  <2>3. ResultsFollow(<<>>) /\ Complete(<<>>, Calling')
    BY DEF ResultsFollow, Complete
  <2> QED
    BY <2>1, <2>2, <2>3 DEF Structure
<1>22. ASSUME Steer
       PROVE  Structure'
  <2>1. /\ UNCHANGED <<messages, trampled, loop, results, newMessages, broken>>
               /\ (interrupted => interrupted')
    BY <1>22 DEF Steer, loopVars
  <2>2. Calling' = Calling
    BY <2>1 DEF Calling
  <2> QED
    BY <2>1, <2>2 DEF Structure
<1>23. ASSUME FollowUp
       PROVE  Structure'
  <2>1. /\ UNCHANGED <<messages, trampled, loop, results, newMessages, broken>>
               /\ (interrupted => interrupted')
    BY <1>23 DEF FollowUp, loopVars
  <2>2. Calling' = Calling
    BY <2>1 DEF Calling
  <2> QED
    BY <2>1, <2>2 DEF Structure
<1>24. ASSUME ClearSteeringQueue
       PROVE  Structure'
  <2>1. /\ UNCHANGED <<messages, trampled, loop, results, newMessages, broken>>
               /\ (interrupted => interrupted')
    BY <1>24 DEF ClearSteeringQueue, loopVars
  <2>2. Calling' = Calling
    BY <2>1 DEF Calling
  <2> QED
    BY <2>1, <2>2 DEF Structure
<1>25. ASSUME ClearFollowUpQueue
       PROVE  Structure'
  <2>1. /\ UNCHANGED <<messages, trampled, loop, results, newMessages, broken>>
               /\ (interrupted => interrupted')
    BY <1>25 DEF ClearFollowUpQueue, loopVars
  <2>2. Calling' = Calling
    BY <2>1 DEF Calling
  <2> QED
    BY <2>1, <2>2 DEF Structure
<1>26. ASSUME Abort
       PROVE  Structure'
  <2>1. /\ UNCHANGED <<messages, trampled, loop, results, newMessages, broken>>
               /\ (interrupted => interrupted')
    BY <1>26 DEF Abort, loopVars
  <2>2. Calling' = Calling
    BY <2>1 DEF Calling
  <2> QED
    BY <2>1, <2>2 DEF Structure
<1>27. ASSUME ResetAbortSignal
       PROVE  Structure'
  <2>1. /\ UNCHANGED <<messages, trampled, loop, results, newMessages, broken>>
               /\ (interrupted => interrupted')
    BY <1>27 DEF ResetAbortSignal, history, loopVars
  <2>2. Calling' = Calling
    BY <2>1 DEF Calling
  <2> QED
    BY <2>1, <2>2 DEF Structure
<1>28. CASE UNCHANGED vars
  BY <1>28 DEF Structure, Calling, vars, agentVars, loopVars, history
<1> QED
  BY LoopBranches, <1>1, <1>2, <1>3, <1>4, <1>5, <1>6, <1>7, <1>8, <1>9, <1>10, <1>11, <1>12,
     <1>13, <1>14, <1>15, <1>16, <1>17, <1>18, <1>19, <1>20, <1>21, <1>22, <1>23, <1>24, <1>25,
     <1>26, <1>27, <1>28 DEF Next, LoopBranch, CallerStarts, CallerFinishes, CallerResets,
     AnyThread

-----------------------------------------------------------------------------
(* Where the user messages are.                                            *)

\* Two sequences one after the other.
LEMMA Joined ==
    ASSUME NEW s \in Seq(Message), NEW t \in Seq(Message)
    PROVE  /\ s \o t \in Seq(Message) /\ Len(s) \in Nat /\ Len(t) \in Nat
           /\ DOMAIN s = 1..Len(s) /\ DOMAIN t = 1..Len(t)
                  /\ DOMAIN (s \o t) = 1..(Len(s) + Len(t))
           /\ \A i \in 1..Len(s) : (s \o t)[i] = s[i]
           /\ \A i \in 1..Len(t) : i + Len(s) \in 1..(Len(s) + Len(t))
                  /\ (s \o t)[i + Len(s)] = t[i]
           /\ \A i \in 1..(Len(s) + Len(t)) :
                 \/ i \in 1..Len(s) /\ (s \o t)[i] = s[i]
                 \/ i - Len(s) \in 1..Len(t) /\ (s \o t)[i] = t[i - Len(s)]
OBVIOUS

\* A bound on two sequences, one after the other.
LEMMA JoinedUpTo ==
    ASSUME NEW s \in Seq(Message), NEW t \in Seq(Message), NEW k
    PROVE  UpTo(s \o t, k) <=> UpTo(s, k) /\ UpTo(t, k)
<1> DEFINE j == s \o t
<1>1. ASSUME UpTo(j, k) PROVE UpTo(s, k) /\ UpTo(t, k)
  <2>1. \A i \in DOMAIN s : i \in DOMAIN j /\ j[i] = s[i]
    BY Joined
  <2>2. \A i \in DOMAIN t : i + Len(s) \in DOMAIN j /\ j[i + Len(s)] = t[i]
    BY Joined
  <2> HIDE DEF j
  <2> QED
    BY <1>1, <2>1, <2>2 DEF UpTo
<1>2. ASSUME UpTo(s, k), UpTo(t, k) PROVE UpTo(j, k)
  <2>1. \A i \in DOMAIN j : \/ i \in DOMAIN s /\ j[i] = s[i]
                            \/ i - Len(s) \in DOMAIN t /\ j[i] = t[i - Len(s)]
    BY Joined
  <2> HIDE DEF j
  <2> QED
    BY <1>2, <2>1 DEF UpTo
<1> QED
  BY <1>1, <1>2

\* What comes before or after two sequences.
LEMMA JoinedBefore ==
    ASSUME NEW s \in Seq(Message), NEW t \in Seq(Message), NEW u
    PROVE  /\ Before(s \o t, u) <=> Before(s, u) /\ Before(t, u)
           /\ Before(u, s \o t) <=> Before(u, s) /\ Before(u, t)
<1> DEFINE j == s \o t
<1>1. \A i \in DOMAIN s : i \in DOMAIN j /\ j[i] = s[i]
  BY Joined
<1>2. \A i \in DOMAIN t : i + Len(s) \in DOMAIN j /\ j[i + Len(s)] = t[i]
  BY Joined
<1>3. \A i \in DOMAIN j : \/ i \in DOMAIN s /\ j[i] = s[i]
                          \/ i - Len(s) \in DOMAIN t /\ j[i] = t[i - Len(s)]
  BY Joined
<1> HIDE DEF j
<1>4. Before(j, u) <=> Before(s, u) /\ Before(t, u)
  BY <1>1, <1>2, <1>3 DEF Before
<1>5. Before(u, j) <=> Before(u, s) /\ Before(u, t)
  BY <1>1, <1>2, <1>3 DEF Before
<1> QED
  BY <1>4, <1>5 DEF j

\* The order of two sequences.
LEMMA JoinedSorted ==
    ASSUME NEW s \in Seq(Message), NEW t \in Seq(Message)
    PROVE  Sorted(s \o t) <=> Sorted(s) /\ Sorted(t) /\ Before(s, t)
<1> DEFINE j == s \o t
<1>0. Len(s) \in Nat /\ Len(t) \in Nat /\ DOMAIN s = 1..Len(s) /\ DOMAIN t = 1..Len(t)
      /\ DOMAIN j = 1..(Len(s) + Len(t))
  BY Joined
<1>1. \A i \in DOMAIN s : i \in DOMAIN j /\ j[i] = s[i]
  BY Joined
<1>2. \A i \in DOMAIN t : i + Len(s) \in DOMAIN j /\ j[i + Len(s)] = t[i]
  BY Joined
<1>3. \A i \in DOMAIN j : \/ i \in DOMAIN s /\ j[i] = s[i]
                          \/ i - Len(s) \in DOMAIN t /\ j[i] = t[i - Len(s)]
  BY Joined
<1> HIDE DEF j
<1>4. ASSUME Sorted(j) PROVE Sorted(s) /\ Sorted(t) /\ Before(s, t)
  <2>1. Sorted(s)
    BY <1>1, <1>4 DEF Sorted
  <2>2. Sorted(t)
    <3> SUFFICES ASSUME NEW i \in DOMAIN t, NEW l \in DOMAIN t, i < l PROVE Earlier(t[i], t[l])
      BY DEF Sorted
    <3>1. i + Len(s) < l + Len(s)
      BY <1>0
    <3> QED
      BY <1>2, <1>4, <3>1 DEF Sorted
  <2>3. Before(s, t)
    <3> SUFFICES ASSUME NEW i \in DOMAIN s, NEW l \in DOMAIN t PROVE Earlier(s[i], t[l])
      BY DEF Before
    <3>1. i < l + Len(s)
      BY <1>0
    <3> QED
      BY <1>1, <1>2, <1>4, <3>1 DEF Sorted
  <2> QED
    BY <2>1, <2>2, <2>3
<1>5. ASSUME Sorted(s), Sorted(t), Before(s, t) PROVE Sorted(j)
  <2> SUFFICES ASSUME NEW i \in DOMAIN j, NEW l \in DOMAIN j, i < l PROVE Earlier(j[i], j[l])
    BY DEF Sorted
  <2>1. CASE i \in DOMAIN s /\ j[i] = s[i] /\ l \in DOMAIN s /\ j[l] = s[l]
    BY <1>5, <2>1 DEF Sorted
  <2>2. CASE i \in DOMAIN s /\ j[i] = s[i] /\ l - Len(s) \in DOMAIN t /\ j[l] = t[l - Len(s)]
    BY <1>5, <2>2 DEF Before
  <2>3. CASE i - Len(s) \in DOMAIN t /\ j[i] = t[i - Len(s)] /\ l - Len(s) \in DOMAIN t
            /\ j[l] = t[l - Len(s)]
    <3>1. i - Len(s) < l - Len(s)
      BY <1>0
    <3> QED
      BY <1>5, <2>3, <3>1 DEF Sorted
  <2>4. CASE i - Len(s) \in DOMAIN t /\ l \in DOMAIN s
    BY <1>0, <2>4
  <2> QED
    BY <1>3, <2>1, <2>2, <2>3, <2>4
<1> QED
  BY <1>4, <1>5 DEF j

\* The user messages of two sequences.
LEMMA JoinedUsers ==
    ASSUME NEW s \in Seq(Message), NEW t \in Seq(Message)
    PROVE  UsersIn(s \o t) = UsersIn(s) \cup UsersIn(t)
<1> DEFINE j == s \o t
<1>1. \A i \in DOMAIN s : i \in DOMAIN j /\ j[i] = s[i]
  BY Joined
<1>2. \A i \in DOMAIN t : i + Len(s) \in DOMAIN j /\ j[i + Len(s)] = t[i]
  BY Joined
<1>3. \A i \in DOMAIN j : \/ i \in DOMAIN s /\ j[i] = s[i]
                          \/ i - Len(s) \in DOMAIN t /\ j[i] = t[i - Len(s)]
  BY Joined
<1> HIDE DEF j
<1>4. \A q, x : x \in UsersIn(q) <=> \E i \in DOMAIN q : q[i].role = "user" /\ x = q[i].n
  BY DEF UsersIn
<1>5. \A x : x \in UsersIn(j) <=> x \in UsersIn(s) \/ x \in UsersIn(t)
  BY <1>1, <1>2, <1>3, <1>4
<1> QED
  BY <1>5 DEF j

\* One message by itself.
LEMMA Alone ==
    ASSUME NEW m \in Message
    PROVE  /\ <<m>> \in Seq(Message) /\ Sorted(<<m>>)
           /\ \A k : UpTo(<<m>>, k) <=> (m.role = "user" => m.n <= k)
           /\ UsersIn(<<m>>) = IF m.role = "user" THEN {m.n} ELSE {}
<1>1. <<m>> \in Seq(Message) /\ DOMAIN <<m>> = {1} /\ <<m>>[1] = m
  OBVIOUS
<1>2. Sorted(<<m>>)
  BY <1>1 DEF Sorted
<1>3. \A k : UpTo(<<m>>, k) <=> (m.role = "user" => m.n <= k)
  BY <1>1 DEF UpTo
<1>4. UsersIn(<<m>>) = IF m.role = "user" THEN {m.n} ELSE {}
  BY <1>1 DEF UsersIn
<1> QED
  BY <1>1, <1>2, <1>3, <1>4

\* No message at all.
LEMMA Nothing ==
    /\ <<>> \in Seq(Message) /\ Sorted(<<>>) /\ UsersIn(<<>>) = {}
    /\ \A k : UpTo(<<>>, k)
    /\ \A s : Before(s, <<>>) /\ Before(<<>>, s)
BY DEF Sorted, UsersIn, UpTo, Before

\* The next message to be delivered joins the record.
LEMMA Deliver ==
    ASSUME NEW m \in Seq(Message), NEW p \in Seq(Message), NEW s \in Seq(Message),
                NEW f \in Seq(Message),
           p # <<>>, NEW k, Ordered(m, p, s, f), AllUpTo(m, p, s, f, k)
    PROVE  /\ Ordered(Append(m, Head(p)), Tail(p), s, f)
        /\ AllUpTo(Append(m, Head(p)), Tail(p), s, f, k)
           /\ Present(Append(m, Head(p)), Tail(p), s, f) = Present(m, p, s, f)
<1> DEFINE h == <<Head(p)>>
           t == Tail(p)
<1>1. p = h \o t /\ h \in Seq(Message) /\ t \in Seq(Message) /\ Append(m, Head(p)) = m \o h
  <2>1. p = h \o t /\ h \in Seq(Message) /\ t \in Seq(Message) /\ Head(p) \in Message
    OBVIOUS
  <2> QED
    BY <2>1, Joining
<1> HIDE DEF h, t
<1>2. Sorted(h) /\ Sorted(t) /\ Before(h, t) /\ Before(m, h) /\ Before(m, t)
      /\ Before(h, s) /\ Before(t, s) /\ Before(h, f) /\ Before(t, f)
  BY <1>1, JoinedSorted, JoinedBefore DEF Ordered
<1>3. Sorted(m \o h) /\ Before(m \o h, t) /\ Before(m \o h, s) /\ Before(m \o h, f)
  BY <1>1, <1>2, JoinedSorted, JoinedBefore DEF Ordered
<1>4. UpTo(m \o h, k) /\ UpTo(t, k)
  BY <1>1, JoinedUpTo DEF AllUpTo
<1>5. UsersIn(m \o h) = UsersIn(m) \cup UsersIn(h) /\ UsersIn(p) = UsersIn(h) \cup UsersIn(t)
  BY <1>1, JoinedUsers
<1>6. Ordered(m \o h, t, s, f)
  BY <1>2, <1>3 DEF Ordered
<1>7. AllUpTo(m \o h, t, s, f, k)
  BY <1>4 DEF AllUpTo
<1>8. Present(m \o h, t, s, f) = Present(m, p, s, f)
  BY <1>5 DEF Present
<1> QED
  BY <1>1, <1>6, <1>7, <1>8 DEF t

\* What is cleared leaves the rest in order.
LEMMA Shorter ==
    ASSUME NEW m \in Seq(Message), NEW p \in Seq(Message), NEW s \in Seq(Message),
                NEW f \in Seq(Message),
           NEW k, Ordered(m, p, s, f), AllUpTo(m, p, s, f, k)
    PROVE  /\ Ordered(<<>>, p, <<>>, <<>>) /\ AllUpTo(<<>>, p, <<>>, <<>>, k)
           /\ Ordered(m, <<>>, s, f) /\ AllUpTo(m, <<>>, s, f, k)
           /\ Ordered(m, p, <<>>, f) /\ AllUpTo(m, p, <<>>, f, k)
           /\ Ordered(m, p, s, <<>>) /\ AllUpTo(m, p, s, <<>>, k)
BY Nothing DEF Ordered, AllUpTo

\* Messages of the steering queue are taken to be delivered.
LEMMA TakeSteering ==
    ASSUME NEW m \in Seq(Message), NEW d \in Seq(Message), NEW l \in Seq(Message),
                NEW f \in Seq(Message),
           NEW k, Ordered(m, <<>>, d \o l, f), AllUpTo(m, <<>>, d \o l, f, k)
    PROVE  /\ Ordered(m, d, l, f) /\ AllUpTo(m, d, l, f, k)
           /\ Present(m, d, l, f) = Present(m, <<>>, d \o l, f)
<1>1. Sorted(d) /\ Sorted(l) /\ Before(d, l) /\ Before(m, d) /\ Before(m, l) /\ Before(d, f)
          /\ Before(l, f)
  BY JoinedSorted, JoinedBefore DEF Ordered
<1>2. UpTo(d, k) /\ UpTo(l, k)
  BY JoinedUpTo DEF AllUpTo
<1>3. UsersIn(d \o l) = UsersIn(d) \cup UsersIn(l) /\ UsersIn(<<>>) = {}
  BY JoinedUsers, Nothing
<1>4. Ordered(m, d, l, f)
  BY <1>1 DEF Ordered
<1>5. AllUpTo(m, d, l, f, k)
  BY <1>2 DEF AllUpTo
<1> QED
  BY <1>3, <1>4, <1>5 DEF Present

\* Messages of the two queues may be delivered in either order.
LEMMA Exchange ==
    ASSUME NEW s \in Seq(From("steer")), NEW f \in Seq(From("follow_up")), Before(s, f)
    PROVE  Before(f, s)
<1> SUFFICES ASSUME NEW i \in DOMAIN f, NEW j \in DOMAIN s PROVE Earlier(f[i], s[j])
  BY DEF Before
<1>1. Earlier(s[j], f[i])
  BY DEF Before
<1>2. s[j] \in From("steer") /\ f[i] \in From("follow_up")
  OBVIOUS
<1>3. s[j].role = "user" /\ s[j].kind = "steer" /\ f[i].role = "user" /\ f[i].kind = "follow_up"
  BY <1>2 DEF From, Users
<1> QED
  BY <1>1, <1>3 DEF Earlier

\* Follow-ups are taken to be delivered, before what steers.
LEMMA TakeFollowUp ==
    ASSUME NEW m \in Seq(Message), NEW s \in Seq(Message), NEW d \in Seq(Message),
                NEW l \in Seq(Message),
           s \in Seq(From("steer")), d \in Seq(From("follow_up")),
           NEW k, Ordered(m, <<>>, s, d \o l), AllUpTo(m, <<>>, s, d \o l, k)
    PROVE  /\ Ordered(m, d, s, l) /\ AllUpTo(m, d, s, l, k)
           /\ Present(m, d, s, l) = Present(m, <<>>, s, d \o l)
<1>1. Sorted(d) /\ Sorted(l) /\ Before(d, l) /\ Before(m, d) /\ Before(m, l) /\ Before(s, d)
          /\ Before(s, l)
  BY JoinedSorted, JoinedBefore DEF Ordered
<1>2. UpTo(d, k) /\ UpTo(l, k)
  BY JoinedUpTo DEF AllUpTo
<1>3. UsersIn(d \o l) = UsersIn(d) \cup UsersIn(l) /\ UsersIn(<<>>) = {}
  BY JoinedUsers, Nothing
<1>4. Before(d, s)
  BY <1>1, Exchange
<1>5. Ordered(m, d, s, l)
  BY <1>1, <1>4 DEF Ordered
<1>6. AllUpTo(m, d, s, l, k)
  BY <1>2 DEF AllUpTo
<1> QED
  BY <1>3, <1>5, <1>6 DEF Present

\* A message that is not a user's changes nothing.
LEMMA RecordOther ==
    ASSUME NEW m \in Seq(Message), NEW p \in Seq(Message), NEW s \in Seq(Message),
                NEW f \in Seq(Message),
           NEW k, Ordered(m, p, s, f), AllUpTo(m, p, s, f, k), NEW x \in Message, x.role # "user"
    PROVE  /\ Ordered(Append(m, x), p, s, f) /\ AllUpTo(Append(m, x), p, s, f, k)
           /\ Present(Append(m, x), p, s, f) = Present(m, p, s, f)
<1> DEFINE h == <<x>>
<1>1. h \in Seq(Message) /\ Append(m, x) = m \o h /\ Sorted(h) /\ UpTo(h, k) /\ UsersIn(h) = {}
  <2>1. Append(m, x) = m \o h
    BY Joining
  <2> QED
    BY <2>1, Alone
<1>2. \A u : Before(u, h) /\ Before(h, u)
  <2>1. \A i \in DOMAIN h : h[i].role # "user"
    OBVIOUS
  <2> QED
    BY <2>1 DEF Before, Earlier
<1> HIDE DEF h
<1>3. Sorted(m \o h) /\ Before(m \o h, p) /\ Before(m \o h, s) /\ Before(m \o h, f)
  BY <1>1, <1>2, JoinedSorted, JoinedBefore DEF Ordered
<1>4. UpTo(m \o h, k)
  BY <1>1, JoinedUpTo DEF AllUpTo
<1>5. UsersIn(m \o h) = UsersIn(m)
  <2>1. UsersIn(m \o h) = UsersIn(m) \cup UsersIn(h)
    BY <1>1, JoinedUsers
  <2> QED
    BY <1>1, <2>1
<1>6. Ordered(m \o h, p, s, f)
  BY <1>3 DEF Ordered
<1>7. AllUpTo(m \o h, p, s, f, k)
  BY <1>4 DEF AllUpTo
<1> QED
  BY <1>1, <1>5, <1>6, <1>7 DEF Present

\* The newest message comes after all others, and before the messages of another queue.
LEMMA Newest ==
    ASSUME NEW k \in Nat, NEW x \in Message, x.role = "user", x.n = k + 1
    PROVE  /\ \A u \in Seq(Message) : UpTo(u, k) => Before(u, <<x>>) /\ UpTo(u, k + 1)
           /\ \A source, u : u \in Seq(From(source)) /\ UpTo(u, k) /\ x.kind # source
                  => Before(<<x>>, u)
<1> DEFINE h == <<x>>
<1>0. \A i \in DOMAIN h : h[i] = x
  OBVIOUS
<1> HIDE DEF h
<1>1. ASSUME NEW u \in Seq(Message), UpTo(u, k)
      PROVE  Before(u, h) /\ UpTo(u, k + 1)
  <2>1. \A i \in DOMAIN u : u[i].role = "user" => u[i].n \in Nat /\ u[i].n <= k
    <3> SUFFICES ASSUME NEW i \in DOMAIN u, u[i].role = "user" PROVE u[i].n \in Nat /\ u[i].n <= k
      OBVIOUS
    <3>1. u[i] \in Message
      OBVIOUS
    <3> QED
      BY <1>1, <3>1, MessageForm DEF UpTo
  <2>2. UpTo(u, k + 1)
    BY <2>1 DEF UpTo
  <2>3. ASSUME NEW i \in DOMAIN u, NEW j \in DOMAIN h PROVE Earlier(u[i], h[j])
    BY <1>0, <2>1 DEF Earlier
  <2> QED
    BY <2>2, <2>3 DEF Before
<1>2. ASSUME NEW source, NEW u \in Seq(From(source)), UpTo(u, k), x.kind # source
      PROVE  Before(h, u)
  <2> SUFFICES ASSUME NEW i \in DOMAIN u, NEW j \in DOMAIN h PROVE Earlier(h[j], u[i])
    BY DEF Before
  <2>1. u[i] \in From(source)
    OBVIOUS
  <2>2. u[i] \in Message /\ u[i].role = "user" /\ u[i].kind = source
    BY <2>1 DEF From, Users
  <2>3. u[i].n \in Nat /\ u[i].n <= k
    BY <1>2, <2>2, MessageForm DEF UpTo
  <2> QED
    BY <1>0, <1>2, <2>2, <2>3 DEF Earlier
<1> QED
  BY <1>1, <1>2 DEF h

\* With nothing to be delivered, messages are taken from a queue.
LEMMA Takes ==
    ASSUME TypeOK, Queues, Places, pending = <<>>, UNCHANGED <<messages, users, dropped, broken>>,
           \/ pending' = Drained(steering) /\ steering' = Left(steering) /\ followUp' = followUp
           \/ pending' = Drained(followUp) /\ followUp' = Left(followUp) /\ steering' = steering
    PROVE  Places'
<1>0. messages \in Seq(Message) /\ steering \in Seq(Message) /\ followUp \in Seq(Message)
  BY DEF TypeOK
<1>1. CASE pending' = Drained(steering) /\ steering' = Left(steering) /\ followUp' = followUp
  <2>1. steering = Drained(steering) \o Left(steering) /\ Drained(steering) \in Seq(Message)
        /\ Left(steering) \in Seq(Message)
    BY <1>0, DrainForm
  <2>2. Ordered(messages, <<>>, Drained(steering) \o Left(steering), followUp)
        /\ AllUpTo(messages, <<>>, Drained(steering) \o Left(steering), followUp, users)
    BY <2>1 DEF Places
  <2>3. /\ Ordered(messages, Drained(steering), Left(steering), followUp)
        /\ AllUpTo(messages, Drained(steering), Left(steering), followUp, users)
        /\ Present(messages, Drained(steering), Left(steering), followUp)
             = Present(messages, <<>>, Drained(steering) \o Left(steering), followUp)
    BY <1>0, <2>1, <2>2, TakeSteering
  <2> QED
    BY <1>1, <2>1, <2>3 DEF Places
<1>2. CASE pending' = Drained(followUp) /\ followUp' = Left(followUp) /\ steering' = steering
  <2>1. followUp = Drained(followUp) \o Left(followUp) /\ Drained(followUp) \in Seq(Message)
        /\ Left(followUp) \in Seq(Message)
    BY <1>0, DrainForm
  <2>2. Ordered(messages, <<>>, steering, Drained(followUp) \o Left(followUp))
        /\ AllUpTo(messages, <<>>, steering, Drained(followUp) \o Left(followUp), users)
    BY <2>1 DEF Places
  <2>3. steering \in Seq(From("steer")) /\ Drained(followUp) \in Seq(From("follow_up"))
    BY DrainKeeps DEF Queues
  <2>4. /\ Ordered(messages, Drained(followUp), steering, Left(followUp))
        /\ AllUpTo(messages, Drained(followUp), steering, Left(followUp), users)
        /\ Present(messages, Drained(followUp), steering, Left(followUp))
             = Present(messages, <<>>, steering, Drained(followUp) \o Left(followUp))
    BY <1>0, <2>1, <2>2, <2>3, TakeFollowUp
  <2> QED
    BY <1>2, <2>1, <2>4 DEF Places
<1> QED
  BY <1>1, <1>2

\* Nothing moves.
LEMMA Stays ==
    ASSUME Places, UNCHANGED <<messages, pending, steering, followUp, users, dropped, broken>>
    PROVE  Places'
BY DEF Places

\* One more user message: it is the newest, so that it may be last in its queue, and before
\* the messages of other queues.
LEMMA Creates ==
    ASSUME TypeOK, Queues, Places, UNCHANGED <<messages, dropped, broken>>, users' = users + 1,
                users < MaxUsers,
           NEW x, x = User(x.kind, users + 1), x.kind \in Sources,
           \/ /\ x.kind = "prompt" /\ pending = <<>> /\ pending' = <<x>>
                     /\ UNCHANGED <<steering, followUp>>
           \/ x.kind = "steer" /\ steering' = Append(steering, x)
                  /\ UNCHANGED <<pending, followUp>>
           \/ x.kind = "follow_up" /\ followUp' = Append(followUp, x)
                  /\ UNCHANGED <<pending, steering>>
    PROVE  Places'
<1> DEFINE h == <<x>>
<1>0. /\ messages \in Seq(Message) /\ steering \in Seq(Message) /\ followUp \in Seq(Message)
      /\ pending \in Seq(Message) /\ users \in Nat
      /\ steering \in Seq(From("steer")) /\ followUp \in Seq(From("follow_up"))
  BY DEF TypeOK, Queues
<1>1. x \in Message /\ x.role = "user" /\ x.n = users + 1
  <2>1. User(x.kind, users + 1) \in Message
    BY <1>0, Created, RunAssumption
  <2>2. User(x.kind, users + 1).role = "user" /\ User(x.kind, users + 1).n = users + 1
    BY DEF User
  <2> QED
    BY <2>1, <2>2
<1>2. h \in Seq(Message) /\ Sorted(h) /\ UpTo(h, users + 1) /\ UsersIn(h) = {users + 1}
  <2>1. (UpTo(h, users + 1) <=> (x.role = "user" => x.n <= users + 1))
        /\ UsersIn(h) = IF x.role = "user" THEN {x.n} ELSE {}
    BY <1>1, Alone
  <2>2. x.n <= users + 1 /\ UsersIn(h) = {x.n}
    BY <1>0, <1>1, <2>1
  <2> QED
    BY <1>1, <2>1, <2>2, Alone
<1>3. \A u \in Seq(Message) : UpTo(u, users) => Before(u, h) /\ UpTo(u, users + 1)
  BY <1>0, <1>1, Newest
<1>4. /\ x.kind # "steer" => Before(h, steering)
      /\ x.kind # "follow_up" => Before(h, followUp)
  BY <1>0, <1>1, Newest DEF Places, AllUpTo
<1>5. Append(steering, x) = steering \o h /\ Append(followUp, x) = followUp \o h
  BY SMTT(60), <1>0, <1>1, Joining
<1>6. /\ UpTo(messages, users + 1) /\ UpTo(pending, users + 1) /\ UpTo(steering, users + 1)
             /\ UpTo(followUp, users + 1)
      /\ Before(messages, h) /\ Before(pending, h) /\ Before(steering, h) /\ Before(followUp, h)
  BY <1>0, <1>3 DEF Places, AllUpTo
<1>7. 1..(users + 1) = 1..users \cup {users + 1}
  BY <1>0
<1> HIDE DEF h
<1>8. CASE x.kind = "prompt" /\ pending = <<>> /\ pending' = h /\ UNCHANGED <<steering, followUp>>
  <2>1. Ordered(messages, h, steering, followUp)
    BY <1>2, <1>4, <1>6, <1>8 DEF Places, Ordered
  <2>2. AllUpTo(messages, h, steering, followUp, users + 1)
    BY <1>2, <1>6 DEF AllUpTo
  <2>3. Present(messages, h, steering, followUp) = Present(messages, pending, steering,
                    followUp) \cup {users + 1}
    BY <1>2, <1>8, Nothing DEF Present
  <2> QED
    BY <1>7, <1>8, <2>1, <2>2, <2>3 DEF Places
<1>9. CASE x.kind = "steer" /\ steering' = steering \o h /\ UNCHANGED <<pending, followUp>>
  <2>0. /\ Sorted(steering \o h) /\ Before(messages, steering \o h)
               /\ Before(pending, steering \o h)
        /\ Before(steering \o h, followUp)
    BY <1>0, <1>2, <1>4, <1>6, <1>9, JoinedSorted, JoinedBefore DEF Places, Ordered
  <2>1. Ordered(messages, pending, steering \o h, followUp)
    BY <2>0 DEF Places, Ordered
  <2>2. UpTo(steering \o h, users + 1)
            /\ UsersIn(steering \o h) = UsersIn(steering) \cup UsersIn(h)
    BY <1>0, <1>2, <1>6, JoinedUpTo, JoinedUsers
  <2>3. AllUpTo(messages, pending, steering \o h, followUp, users + 1)
    BY <1>6, <2>2 DEF AllUpTo
  <2>4. Present(messages, pending, steering \o h, followUp)
          = Present(messages, pending, steering, followUp) \cup {users + 1}
    BY <1>2, <2>2 DEF Present
  <2> QED
    BY <1>7, <1>9, <2>1, <2>3, <2>4 DEF Places
<1>10. CASE x.kind = "follow_up" /\ followUp' = followUp \o h /\ UNCHANGED <<pending, steering>>
  <2>0. /\ Sorted(followUp \o h) /\ Before(messages, followUp \o h)
               /\ Before(pending, followUp \o h)
        /\ Before(steering, followUp \o h)
    BY <1>0, <1>2, <1>4, <1>6, <1>10, JoinedSorted, JoinedBefore DEF Places, Ordered
  <2>1. Ordered(messages, pending, steering, followUp \o h)
    BY <2>0 DEF Places, Ordered
  <2>2. UpTo(followUp \o h, users + 1)
            /\ UsersIn(followUp \o h) = UsersIn(followUp) \cup UsersIn(h)
    BY <1>0, <1>2, <1>6, JoinedUpTo, JoinedUsers
  <2>3. AllUpTo(messages, pending, steering, followUp \o h, users + 1)
    BY <1>6, <2>2 DEF AllUpTo
  <2>4. Present(messages, pending, steering, followUp \o h)
          = Present(messages, pending, steering, followUp) \cup {users + 1}
    BY <1>2, <2>2 DEF Present
  <2> QED
    BY <1>7, <1>10, <2>1, <2>3, <2>4 DEF Places
<1> QED
  BY <1>5, <1>8, <1>9, <1>10 DEF h

\* Every step keeps where the user messages are, and their order.
LEMMA PlacesStep ==
    ASSUME TypeOK, Leasing, Queues, Executing, Places, [Next]_vars
    PROVE  Places'
<1>0. /\ messages \in Seq(Message) /\ pending \in Seq(Message) /\ steering \in Seq(Message)
      /\ followUp \in Seq(Message)
  BY DEF TypeOK
<1>1. ASSUME DeliversPrompt
      PROVE  Places'
  <2>1. /\ pending # <<>> /\ messages' = Append(messages, Head(pending))
               /\ pending' = Tail(pending)
        /\ UNCHANGED <<steering, followUp, users, dropped, broken>>
    BY <1>1 DEF DeliversPrompt, Rest, Record
  <2> QED
    BY <1>0, <2>1, Deliver DEF Places
<1>2. ASSUME FirstPoll
      PROVE  Places'
  <2>1. CASE skipPoll
    BY <1>2, <2>1, Stays DEF FirstPoll, RunIdle, history
  <2>2. CASE ~skipPoll
    <3>1. /\ pending = <<>> /\ UNCHANGED <<messages, users, dropped, broken>>
          /\ pending' = Drained(steering) /\ steering' = Left(steering) /\ followUp' = followUp
      BY <1>2, <2>2 DEF FirstPoll, history
    <3> QED
      BY <3>1, Takes
  <2> QED
    BY <2>1, <2>2
<1>3. ASSUME DeliversPending
      PROVE  Places'
  <2>1. /\ pending # <<>> /\ messages' = Append(messages, Head(pending))
               /\ pending' = Tail(pending)
        /\ UNCHANGED <<steering, followUp, users, dropped, broken>>
    BY <1>3 DEF DeliversPending, Rest, Record
  <2> QED
    BY <1>0, <2>1, Deliver DEF Places
<1>4. ASSUME Request
      PROVE  Places'
  <2>1. UNCHANGED <<messages, pending, steering, followUp, users, dropped, broken>>
    BY <1>4 DEF Request, RunIdle, history
  <2> QED
    BY <2>1, Stays
<1>5. ASSUME StreamStarts
      PROVE  Places'
  <2>1. UNCHANGED <<messages, pending, steering, followUp, users, dropped, broken>>
    BY <1>5 DEF StreamStarts, RunIdle, history
  <2> QED
    BY <2>1, Stays
<1>6. ASSUME NEW m \in Message, Speaks(m)
      PROVE  Places'
  <2>1. messages' = Append(messages, m)
            /\ UNCHANGED <<pending, steering, followUp, users, dropped, broken>>
    BY <1>6 DEF Speaks, Rest, Record
  <2>2. m.role # "user"
    BY <1>6 DEF Speaks, Spoken
  <2> QED
    BY <1>0, <2>1, <2>2, RecordOther DEF Places
<1>7. ASSUME NEW m \in Message, Raised(m)
      PROVE  Places'
  <2>1. broken' = TRUE /\ pending' = <<>> /\ UNCHANGED <<steering, followUp, users, dropped>>
    BY <1>7 DEF Raised, Rest
  <2>2. Ordered(messages', <<>>, steering, followUp)
            /\ AllUpTo(messages', <<>>, steering, followUp, users)
    <3>1. CASE messages' = messages
      BY <1>0, <3>1, Shorter DEF Places
    <3>2. CASE messages' = Append(messages, m) /\ pending # <<>> /\ m = Head(pending)
      <4>1. /\ Ordered(messages', Tail(pending), steering, followUp)
            /\ AllUpTo(messages', Tail(pending), steering, followUp, users)
        BY <1>0, <3>2, Deliver DEF Places
      <4>2. messages' \in Seq(Message) /\ Tail(pending) \in Seq(Message)
        BY <1>0, <3>2, SeqFacts
      <4> QED
        BY <1>0, <4>1, <4>2, Shorter
    <3>3. CASE messages' = Append(messages, m) /\ m.role # "user"
      <4>1. /\ Ordered(messages', pending, steering, followUp)
            /\ AllUpTo(messages', pending, steering, followUp, users)
        BY <1>0, <3>3, RecordOther DEF Places
      <4>2. messages' \in Seq(Message)
        BY <1>0, <3>3, SeqFacts
      <4> QED
        BY <1>0, <4>1, <4>2, Shorter
    <3> QED
      BY <1>7, <3>1, <3>2, <3>3 DEF Raised, Record, Spoken, ToolResult
  <2> QED
    BY <2>1, <2>2 DEF Places
<1>8. ASSUME Answers
      PROVE  Places'
  <2>1. messages' = Append(messages, ToolResult(results + 1))
            /\ UNCHANGED <<pending, steering, followUp, users, dropped, broken>>
    BY <1>8 DEF Answers, Rest, Record
  <2>2. ToolResult(results + 1) \in Message /\ ToolResult(results + 1).role # "user"
    <3>1. results < Calls /\ loop = "tools"
      BY <1>8 DEF Answers
    <3>2. Last(newMessages) \in Message
      BY <3>1 DEF Executing, TypeOK, Last
    <3>3. Calls \in 0..MaxCalls
      BY <3>1, <3>2, MessageForm DEF Executing, Calls
    <3>4. ToolResult(results + 1) \in Message
      BY <3>1, <3>3, RunAssumption, Created DEF TypeOK
    <3> QED
      BY <3>4 DEF ToolResult
  <2> QED
    BY <1>0, <2>1, <2>2, RecordOther DEF Places
<1>9. ASSUME BatchReturns
      PROVE  Places'
  <2>1. UNCHANGED <<messages, pending, steering, followUp, users, dropped, broken>>
    BY <1>9 DEF BatchReturns, RunIdle, history
  <2> QED
    BY <2>1, Stays
<1>10. ASSUME Proceeds
       PROVE  Places'
  <2>1. UNCHANGED <<messages, pending, steering, followUp, users, dropped, broken>>
    BY <1>10 DEF Proceeds, Rest
  <2> QED
    BY <2>1, Stays
<1>11. ASSUME PollSteering
       PROVE  Places'
  <2>1. /\ pending = <<>> /\ UNCHANGED <<messages, users, dropped, broken>>
        /\ pending' = Drained(steering) /\ steering' = Left(steering) /\ followUp' = followUp
    BY <1>11 DEF PollSteering, history, Queues
  <2> QED
    BY <2>1, Takes
<1>12. ASSUME PollFollowUp
       PROVE  Places'
  <2>1. /\ pending = <<>> /\ UNCHANGED <<messages, users, dropped, broken>>
        /\ pending' = Drained(followUp) /\ followUp' = Left(followUp) /\ steering' = steering
    BY <1>12 DEF PollFollowUp, history, Queues
  <2> QED
    BY <2>1, Takes
<1>13. ASSUME Leaves
       PROVE  Places'
  <2>1. /\ pending = <<>> /\ pending' = <<>>
               /\ UNCHANGED <<steering, followUp, users, dropped, broken>>
    BY <1>13 DEF Leaves, LeavesLoop, Queues
  <2>2. CASE messages' = messages
    BY <2>1, <2>2, Stays
  <2>3. CASE \E kind \in {"error", "aborted"} : Record(Assistant(kind, 0))
    <3>1. PICK kind \in {"error", "aborted"} : Record(Assistant(kind, 0))
      BY <2>3
    <3>2. Assistant(kind, 0) \in Message /\ Assistant(kind, 0).role # "user"
      <4>1. Assistant(kind, 0) \in Message
        BY Created, RunAssumption DEF StopReasons
      <4> QED
        BY <4>1 DEF Assistant
    <3>3. messages' = Append(messages, Assistant(kind, 0))
      BY <3>1 DEF Record
    <3>4. /\ Ordered(messages', pending, steering, followUp)
                 /\ AllUpTo(messages', pending, steering, followUp, users)
          /\ Present(messages', pending, steering, followUp) = Present(messages, pending,
                         steering, followUp)
      BY <1>0, <3>2, <3>3, RecordOther DEF Places
    <3> QED
      BY <2>1, <3>4 DEF Places
  <2> QED
    BY <1>13, <2>2, <2>3 DEF Leaves
<1>14. ASSUME NEW c \in Callers, Prompt(c)
       PROVE  Places'
  <2>1. /\ lease = None /\ users < MaxUsers /\ users' = users + 1
               /\ UNCHANGED <<messages, dropped, broken, steering, followUp>>
        /\ pending' = <<User("prompt", users + 1)>>
    BY <1>14 DEF Prompt, Begin, Launch
  <2>2. pending = <<>>
    BY <2>1 DEF Leasing, LeaseExclusive, Queues
  <2>3. User("prompt", users + 1).kind = "prompt" /\ "prompt" \in Sources
    BY DEF User, Sources
  <2> QED
    BY <2>1, <2>2, <2>3, Creates
<1>15. ASSUME NEW c \in Callers, Continue(c)
       PROVE  Places'
  <2>1. lease = None /\ UNCHANGED <<messages, users, dropped, broken>>
    BY <1>15 DEF Continue, Begin
  <2>2. pending = <<>>
    BY <2>1 DEF Leasing, LeaseExclusive, Queues
  <2>3. \/ pending' = pending /\ UNCHANGED <<steering, followUp>>
        \/ pending' = Drained(steering) /\ steering' = Left(steering) /\ followUp' = followUp
        \/ pending' = Drained(followUp) /\ followUp' = Left(followUp) /\ steering' = steering
    BY <1>15, <2>2 DEF Continue, Launch
  <2> QED
    BY <2>1, <2>2, <2>3, Takes, Stays
<1>16. ASSUME NEW c \in Callers, ContinueRaises(c)
       PROVE  Places'
  <2>1. UNCHANGED <<messages, pending, steering, followUp, users, dropped, broken>>
    BY <1>16 DEF ContinueRaises, history, loopVars, Begin
  <2> QED
    BY <2>1, Stays
<1>17. ASSUME NEW c \in Callers, SetsIdle(c)
       PROVE  Places'
  <2>1. UNCHANGED <<messages, pending, steering, followUp, users, dropped, broken>>
    BY <1>17 DEF SetsIdle, history, loopVars
  <2> QED
    BY <2>1, Stays
<1>18. ASSUME NEW c \in Callers, ReleasesLease(c)
       PROVE  Places'
  <2>1. UNCHANGED <<messages, pending, steering, followUp, users, dropped, broken>>
    BY <1>18 DEF ReleasesLease, history, loopVars
  <2> QED
    BY <2>1, Stays
<1>19. ASSUME NEW c \in Callers, ResetChecks(c)
       PROVE  Places'
  <2>1. UNCHANGED <<messages, pending, steering, followUp, users, dropped, broken>>
    BY <1>19 DEF ResetChecks, history, agentVars, loopVars
  <2> QED
    BY <2>1, Stays
<1>20. ASSUME NEW c \in Callers, ResetRefused(c)
       PROVE  Places'
  <2>1. UNCHANGED <<messages, pending, steering, followUp, users, dropped, broken>>
    BY <1>20 DEF ResetRefused, history, agentVars, loopVars
  <2> QED
    BY <2>1, Stays
<1>21. ASSUME NEW c \in Callers, ResetClears(c)
       PROVE  Places'
  <2>1. /\ messages' = <<>> /\ steering' = <<>> /\ followUp' = <<>>
               /\ UNCHANGED <<pending, users, broken>>
        /\ dropped' = dropped \cup UsersIn(messages \o steering \o followUp)
    BY <1>21 DEF ResetClears, loopVars
  <2>2. Ordered(<<>>, pending, <<>>, <<>>) /\ AllUpTo(<<>>, pending, <<>>, <<>>, users)
    BY <1>0, Shorter DEF Places
  <2>3. UsersIn(messages \o steering \o followUp)
          = UsersIn(messages) \cup UsersIn(steering) \cup UsersIn(followUp)
    <3>1. messages \o steering \in Seq(Message)
      BY <1>0, SeqFacts
    <3> QED
      BY <1>0, <3>1, JoinedUsers
  <2>4. Present(<<>>, pending, <<>>, <<>>) \cup UsersIn(messages \o steering \o followUp)
          = Present(messages, pending, steering, followUp)
    BY <2>3, Nothing DEF Present
  <2> QED
    BY <2>1, <2>2, <2>4 DEF Places
<1>22. ASSUME Steer
       PROVE  Places'
  <2>1. /\ users < MaxUsers /\ users' = users + 1
               /\ UNCHANGED <<messages, dropped, broken, pending, followUp>>
        /\ steering' = Append(steering, User("steer", users + 1))
    BY <1>22 DEF Steer, loopVars
  <2>2. User("steer", users + 1).kind = "steer" /\ "steer" \in Sources
    BY DEF User, Sources
  <2> QED
    BY <2>1, <2>2, Creates
<1>23. ASSUME FollowUp
       PROVE  Places'
  <2>1. /\ users < MaxUsers /\ users' = users + 1
               /\ UNCHANGED <<messages, dropped, broken, pending, steering>>
        /\ followUp' = Append(followUp, User("follow_up", users + 1))
    BY <1>23 DEF FollowUp, loopVars
  <2>2. User("follow_up", users + 1).kind = "follow_up" /\ "follow_up" \in Sources
    BY DEF User, Sources
  <2> QED
    BY <2>1, <2>2, Creates
<1>24. ASSUME ClearSteeringQueue
       PROVE  Places'
  <2>1. steering' = <<>> /\ dropped' = dropped \cup UsersIn(steering)
            /\ UNCHANGED <<messages, pending, followUp, users, broken>>
    BY <1>24 DEF ClearSteeringQueue, loopVars
  <2>2. Ordered(messages, pending, <<>>, followUp)
            /\ AllUpTo(messages, pending, <<>>, followUp, users)
    BY <1>0, Shorter DEF Places
  <2>3. Present(messages, pending, <<>>, followUp) \cup UsersIn(steering) = Present(messages,
                    pending, steering, followUp)
    BY Nothing DEF Present
  <2> QED
    BY <2>1, <2>2, <2>3 DEF Places
<1>25. ASSUME ClearFollowUpQueue
       PROVE  Places'
  <2>1. followUp' = <<>> /\ dropped' = dropped \cup UsersIn(followUp)
            /\ UNCHANGED <<messages, pending, steering, users, broken>>
    BY <1>25 DEF ClearFollowUpQueue, loopVars
  <2>2. Ordered(messages, pending, steering, <<>>)
            /\ AllUpTo(messages, pending, steering, <<>>, users)
    BY <1>0, Shorter DEF Places
  <2>3. Present(messages, pending, steering, <<>>) \cup UsersIn(followUp) = Present(messages,
                    pending, steering, followUp)
    BY Nothing DEF Present
  <2> QED
    BY <2>1, <2>2, <2>3 DEF Places
<1>26. ASSUME Abort
       PROVE  Places'
  <2>1. UNCHANGED <<messages, pending, steering, followUp, users, dropped, broken>>
    BY <1>26 DEF Abort, loopVars
  <2> QED
    BY <2>1, Stays
<1>27. ASSUME ResetAbortSignal
       PROVE  Places'
  <2>1. UNCHANGED <<messages, pending, steering, followUp, users, dropped, broken>>
    BY <1>27 DEF ResetAbortSignal, history, loopVars
  <2> QED
    BY <2>1, Stays
<1>28. CASE UNCHANGED vars
  BY <1>28, Stays DEF vars, agentVars, loopVars, history
<1> QED
  BY LoopBranches, <1>1, <1>2, <1>3, <1>4, <1>5, <1>6, <1>7, <1>8, <1>9, <1>10, <1>11, <1>12,
     <1>13, <1>14, <1>15, <1>16, <1>17, <1>18, <1>19, <1>20, <1>21, <1>22, <1>23, <1>24, <1>25,
     <1>26, <1>27, <1>28 DEF Next, LoopBranch, CallerStarts, CallerFinishes, CallerResets,
     AnyThread

-----------------------------------------------------------------------------
(* What is sent: the repaired record.                                      *)

\* What may be sent: the messages of the record, and results for the calls that have none.
Sent == Message \cup [role : {"toolResult"}, kind : {"missing"}, n : 1..MaxCalls]

\* All calls of the message at x are answered behind it.
Closed(r, x) ==
    /\ x + r[x].n <= Len(r)
    /\ \A j \in 1..r[x].n : r[x + j].role = "toolResult" /\ r[x + j].n = j

\* r may be sent, but for the calls of the message at but.
Sound(r, but) ==
    /\ r \in Seq(Sent)
    /\ \A x \in DOMAIN r : ~Failed(r[x])
    /\ \A x \in DOMAIN r : r[x].role = "assistant" /\ x # but => Closed(r, x)
    /\ \A x \in DOMAIN r : r[x].role = "toolResult" =>
          \E a \in 1..(x - 1) : r[a].role = "assistant" /\ x - a <= r[a].n

\* The last k messages of r answer the first k of the p calls of the message at a.
Open(r, a, k, p) ==
    /\ a \in DOMAIN r /\ a + k = Len(r) /\ k \in 0..p
    /\ r[a].role = "assistant" /\ r[a].n = p
    /\ \A j \in 1..k : r[a + j].role = "toolResult" /\ r[a + j].n = j

\* The calls that wait for a result behind the first i messages of s, and the results they have.
Got(s, i) == IF i > 0 /\ s[i].role = "toolResult" THEN s[i].n ELSE 0
Asked(s, i) ==
    IF i > 0 /\ s[i].role # "user" /\ ~Failed(s[i]) THEN s[i - Got(s, i)].n ELSE 0

\* The message whose calls wait, in what has been repaired so far.
Waits(r, k, p) == IF p > 0 THEN Len(r) - k ELSE 0

\* The user messages behind the first i messages of s are the last of r.
Says(r, s, i) ==
    \A j \in 0..i : (\A l \in (j + 1)..i : s[l].role = "user") =>
        /\ i - j <= Len(r)
        /\ \A l \in 1..(i - j) : r[Len(r) - (i - j) + l] = s[j + l]

\* What _repair_tool_result_history has after the first i messages of s.
Mended(state, s, i) ==
    /\ state.pending = Asked(s, i) /\ state.answered = 1..Got(s, i)
    /\ state = [result |-> state.result, pending |-> state.pending, answered |-> state.answered]
    /\ Sound(state.result, Waits(state.result, Got(s, i), Asked(s, i)))
    /\ Asked(s, i) \in 0..MaxCalls /\ Got(s, i) \in 0..Asked(s, i)
    /\ Asked(s, i) > 0 =>
          Open(state.result, Len(state.result) - Got(s, i), Got(s, i), Asked(s, i))
    /\ Says(state.result, s, i)

\* A nonempty set of natural numbers has a least element.
LEMMA Least ==
    ASSUME NEW T, T \subseteq Nat, T # {}
    PROVE  \E x \in T : \A y \in T : ~(y < x)
<1>1. IsWellFoundedOn(OpToRel(<,Nat), Nat)
  BY NatLessThanWellFounded
<1>2. \E x \in T : \A y \in T : ~(<<y, x>> \in OpToRel(<,Nat))
  BY <1>1, WFMin
<1>3. \A x, y \in Nat : y < x => <<y, x>> \in OpToRel(<,Nat)
  BY DEF OpToRel
<1> QED
  BY <1>2, <1>3

\* Sequences of any messages: one message more, and one after the other.
LEMMA LongerIn ==
    ASSUME NEW S, NEW s \in Seq(S), NEW m \in S
    PROVE  /\ Append(s, m) \in Seq(S) /\ Len(Append(s, m)) = Len(s) + 1 /\ Len(s) \in Nat
           /\ DOMAIN s = 1..Len(s) /\ DOMAIN Append(s, m) = 1..(Len(s) + 1)
           /\ \A i \in 1..Len(s) : Append(s, m)[i] = s[i]
           /\ Append(s, m)[Len(s) + 1] = m
OBVIOUS

LEMMA JoinedIn ==
    ASSUME NEW S, NEW s \in Seq(S), NEW t \in Seq(S)
    PROVE  /\ s \o t \in Seq(S) /\ Len(s) \in Nat /\ Len(t) \in Nat
           /\ DOMAIN s = 1..Len(s) /\ DOMAIN t = 1..Len(t)
           /\ DOMAIN (s \o t) = 1..(Len(s) + Len(t)) /\ Len(s \o t) = Len(s) + Len(t)
           /\ \A i \in 1..Len(s) : (s \o t)[i] = s[i]
           /\ \A i \in 1..Len(t) : (s \o t)[Len(s) + i] = t[i]
OBVIOUS

\* f goes through the calls as NoResults does, up to call n.
Lists(f, answered, n) ==
    f = [i \in 0..n |-> IF i = 0 THEN <<>>
                        ELSE IF i \in answered THEN f[i - 1] ELSE Append(f[i - 1], NoResult(i))]

\* What it goes through when the first k calls have been answered.
Listed(k, n) == [i \in 0..n |-> [j \in 1..(IF i <= k THEN 0 ELSE i - k) |-> NoResult(k + j)]]

LEMMA ListedLists ==
    ASSUME NEW k \in Nat, NEW n \in Nat
    PROVE  Lists(Listed(k, n), 1..k, n)
<1> DEFINE f == Listed(k, n)
<1>1. ASSUME NEW i \in 0..n
      PROVE  f[i] = IF i = 0 THEN <<>>
                    ELSE IF i \in 1..k THEN f[i - 1] ELSE Append(f[i - 1], NoResult(i))
  <2>1. f[i] = [j \in 1..(IF i <= k THEN 0 ELSE i - k) |-> NoResult(k + j)]
    BY DEF Listed
  <2>2. CASE i = 0
    BY <2>1, <2>2
  <2>3. CASE i # 0 /\ i <= k
    BY <2>1, <2>3 DEF Listed
  <2>4. CASE i # 0 /\ ~(i <= k)
    <3> DEFINE q == [j \in 1..(i - k - 1) |-> NoResult(k + j)]
               t == [j \in 1..(i - k) |-> NoResult(k + j)]
    <3>1. f[i - 1] = q
      <4>1. f[i - 1] = [j \in 1..(IF i - 1 <= k THEN 0 ELSE i - 1 - k) |-> NoResult(k + j)]
        BY <2>4 DEF Listed
      <4>2. (IF i - 1 <= k THEN 0 ELSE i - 1 - k) = i - k - 1
        BY <2>4
      <4> QED
        BY <4>1, <4>2
    <3>2. f[i] = t
      BY <2>1, <2>4
    <3>3. i - k - 1 \in Nat /\ i - k \in Nat
      BY <2>4
    <3>4. q \in Seq({NoResult(j) : j \in Nat}) /\ Len(q) = i - k - 1
      BY <3>3
    <3>5. Append(q, NoResult(i)) = t
      <4>1. Append(q, NoResult(i)) = [j \in 1..(i - k - 1 + 1) |->
                IF j <= i - k - 1 THEN q[j] ELSE NoResult(i)]
        BY <3>3, <3>4
      <4>2. \A j \in 1..(i - k) : (IF j <= i - k - 1 THEN q[j] ELSE NoResult(i)) = NoResult(k + j)
        <5> SUFFICES ASSUME NEW j \in 1..(i - k)
                     PROVE  (IF j <= i - k - 1 THEN q[j] ELSE NoResult(i)) = NoResult(k + j)
          OBVIOUS
        <5>1. CASE j <= i - k - 1
          BY <3>3, <5>1
        <5>2. CASE ~(j <= i - k - 1)
          <6>1. k + j = i
            BY <3>3, <5>2
          <6> QED
            BY <5>2, <6>1
        <5> QED
          BY <5>1, <5>2
      <4>3. i - k - 1 + 1 = i - k
        BY <3>3
      <4> QED
        BY <4>1, <4>2, <4>3
    <3> QED
      BY <2>4, <3>1, <3>2, <3>5
  <2> QED
    BY <2>2, <2>3, <2>4
<1>2. f = [i \in 0..n |-> f[i]]
  BY DEF Listed
<1> QED
  BY <1>1, <1>2 DEF Lists

\* Two functions that go through the calls alike are the same.
LEMMA ListsOnce ==
    ASSUME NEW k \in Nat, NEW n \in Nat, NEW f, NEW g, Lists(f, 1..k, n), Lists(g, 1..k, n)
    PROVE  f = g
<1> DEFINE T == {i \in 0..n : f[i] # g[i]}
<1>0. /\ f = [i \in 0..n |-> f[i]] /\ g = [i \in 0..n |-> g[i]]
      /\ \A i \in 0..n : f[i] = IF i = 0 THEN <<>>
             ELSE IF i \in 1..k THEN f[i - 1] ELSE Append(f[i - 1], NoResult(i))
      /\ \A i \in 0..n : g[i] = IF i = 0 THEN <<>>
             ELSE IF i \in 1..k THEN g[i - 1] ELSE Append(g[i - 1], NoResult(i))
  BY DEF Lists
<1>1. SUFFICES ASSUME T # {} PROVE FALSE
  BY <1>0
<1>2. PICK i \in T : \A y \in T : ~(y < i)
  <2>1. T \subseteq Nat
    OBVIOUS
  <2> QED
    BY <1>1, <2>1, Least
<1>3. i # 0
  BY <1>0, <1>2
<1>4. i - 1 \in 0..n /\ i - 1 < i
  BY <1>3
<1>5. f[i - 1] = g[i - 1]
  BY <1>2, <1>4
<1> QED
  BY <1>0, <1>2, <1>3, <1>5

\* What is added for calls of which the first k are answered.
LEMMA NoResultsForm ==
    ASSUME NEW p \in Nat, NEW k \in 0..p
    PROVE  NoResults(p, 1..k) = [j \in 1..(p - k) |-> NoResult(k + j)]
<1> DEFINE F == CHOOSE f : Lists(f, 1..k, p)
<1>1. Lists(F, 1..k, p)
  BY ListedLists
<1>2. F = Listed(k, p)
  BY <1>1, ListedLists, ListsOnce
<1>3. NoResults(p, 1..k) = F[p]
  BY DEF NoResults, Lists
<1>4. Listed(k, p)[p] = [j \in 1..(IF p <= k THEN 0 ELSE p - k) |-> NoResult(k + j)]
  BY DEF Listed
<1>5. (IF p <= k THEN 0 ELSE p - k) = p - k
  OBVIOUS
<1> QED
  BY <1>2, <1>3, <1>4, <1>5

\* What a message that may be sent is like.
LEMMA SentForm ==
    ASSUME NEW m \in Sent
    PROVE  /\ m.role \in {"user", "assistant", "toolResult"}
           /\ m.role \in {"assistant", "toolResult"} => m.n \in 0..MaxCalls /\ m.n \in Nat
BY RunAssumption DEF Sent, Message

\* A message is added that is no result and has not failed: only its own calls wait.
LEMMA SoundOther ==
    ASSUME NEW r, Sound(r, 0), NEW m \in Sent, m.role # "toolResult", ~Failed(m)
    PROVE  /\ Sound(Append(r, m), Len(r) + 1)
           /\ m.role = "assistant" => Open(Append(r, m), Len(r) + 1, 0, m.n)
           /\ m.role = "user" \/ m.n = 0 => Sound(Append(r, m), 0)
<1> DEFINE t == Append(r, m)
<1>1. r \in Seq(Sent)
  BY DEF Sound
<1>2. /\ t \in Seq(Sent) /\ Len(t) = Len(r) + 1 /\ Len(r) \in Nat
      /\ DOMAIN r = 1..Len(r) /\ DOMAIN t = 1..(Len(r) + 1)
      /\ \A i \in 1..Len(r) : t[i] = r[i]
      /\ t[Len(r) + 1] = m
  BY <1>1, LongerIn
<1> HIDE DEF t
<1>3. \A x \in DOMAIN t : ~Failed(t[x])
  BY <1>2 DEF Sound
<1>4. ASSUME NEW x \in 1..Len(r), r[x].role = "assistant"
      PROVE  Closed(t, x)
  <2>1. Closed(r, x)
    BY <1>2, <1>4 DEF Sound
  <2>2. r[x].n \in Nat
    BY <1>1, <1>2, <1>4, SentForm
  <2>3. x + r[x].n <= Len(t)
    BY <1>2, <2>1, <2>2 DEF Closed
  <2>4. ASSUME NEW j \in 1..r[x].n PROVE t[x + j].role = "toolResult" /\ t[x + j].n = j
    <3>1. x + j \in 1..Len(r)
      BY <1>2, <2>1, <2>2 DEF Closed
    <3> QED
      BY <1>2, <2>1, <3>1 DEF Closed
  <2> QED
    BY <1>2, <2>3, <2>4 DEF Closed
<1>5. ASSUME NEW x \in DOMAIN t, t[x].role = "toolResult"
      PROVE  \E a \in 1..(x - 1) : t[a].role = "assistant" /\ x - a <= t[a].n
  <2>1. x \in 1..Len(r) /\ t[x] = r[x]
    BY <1>2, <1>5
  <2>2. PICK a \in 1..(x - 1) : r[a].role = "assistant" /\ x - a <= r[a].n
    BY <1>2, <1>5, <2>1 DEF Sound
  <2>3. a \in 1..Len(r)
    BY <1>2, <2>1
  <2> QED
    BY <1>2, <2>2, <2>3
<1>6. Sound(t, Len(r) + 1)
  BY <1>2, <1>3, <1>4, <1>5 DEF Sound
<1>7. ASSUME m.role = "assistant"
      PROVE  Open(t, Len(r) + 1, 0, m.n)
  <2>1. m.n \in Nat
    BY <1>7, SentForm
  <2> QED
    BY <1>2, <1>7, <2>1 DEF Open
<1>8. ASSUME m.role = "user" \/ m.n = 0
      PROVE  Sound(t, 0)
  <2>1. ASSUME NEW x \in DOMAIN t, t[x].role = "assistant"
        PROVE  Closed(t, x)
    <3>1. CASE x \in 1..Len(r)
      BY <1>2, <1>4, <2>1, <3>1
    <3>2. CASE x = Len(r) + 1
      BY <1>2, <1>8, <2>1, <3>2 DEF Closed
    <3> QED
      BY <1>2, <3>1, <3>2
  <2> QED
    BY <1>2, <1>3, <1>5, <2>1 DEF Sound
<1> QED
  BY <1>6, <1>7, <1>8 DEF t

\* The next result of the message whose calls wait.
LEMMA SoundResult ==
    ASSUME NEW r, NEW a, NEW k \in Nat, NEW p \in Nat, Sound(r, a), Open(r, a, k, p), k < p,
           NEW m \in Sent, m.role = "toolResult", m.n = k + 1
    PROVE  Sound(Append(r, m), a) /\ Open(Append(r, m), a, k + 1, p)
<1> DEFINE t == Append(r, m)
<1>1. r \in Seq(Sent)
  BY DEF Sound
<1>2. /\ t \in Seq(Sent) /\ Len(t) = Len(r) + 1 /\ Len(r) \in Nat
      /\ DOMAIN r = 1..Len(r) /\ DOMAIN t = 1..(Len(r) + 1)
      /\ \A i \in 1..Len(r) : t[i] = r[i]
      /\ t[Len(r) + 1] = m
  BY <1>1, LongerIn
<1> HIDE DEF t
<1>0. a \in 1..Len(r) /\ a + k = Len(r) /\ r[a].role = "assistant" /\ r[a].n = p
  BY <1>2 DEF Open
<1>3. \A x \in DOMAIN t : ~Failed(t[x])
  <2>1. ~Failed(m)
    BY DEF Failed
  <2> QED
    BY <1>2, <2>1 DEF Sound
<1>4. ASSUME NEW x \in DOMAIN t, t[x].role = "assistant", x # a
      PROVE  Closed(t, x)
  <2>0. x \in 1..Len(r)
    BY <1>2, <1>4
  <2>1. Closed(r, x)
    BY <1>2, <1>4, <2>0 DEF Sound
  <2>2. r[x].n \in Nat
    BY <1>1, <1>2, <1>4, <2>0, SentForm
  <2>3. x + r[x].n <= Len(t)
    BY <1>2, <2>1, <2>2 DEF Closed
  <2>4. ASSUME NEW j \in 1..r[x].n PROVE t[x + j].role = "toolResult" /\ t[x + j].n = j
    <3>1. x + j \in 1..Len(r)
      BY <1>2, <2>0, <2>1, <2>2 DEF Closed
    <3> QED
      BY <1>2, <2>1, <3>1 DEF Closed
  <2> QED
    BY <1>2, <2>0, <2>3, <2>4 DEF Closed
<1>5. ASSUME NEW x \in DOMAIN t, t[x].role = "toolResult"
      PROVE  \E b \in 1..(x - 1) : t[b].role = "assistant" /\ x - b <= t[b].n
  <2>1. CASE x \in 1..Len(r)
    <3>1. PICK b \in 1..(x - 1) : r[b].role = "assistant" /\ x - b <= r[b].n
      BY <1>2, <1>5, <2>1 DEF Sound
    <3>2. b \in 1..Len(r)
      BY <1>2, <2>1
    <3> QED
      BY <1>2, <3>1, <3>2
  <2>2. CASE x = Len(r) + 1
    <3>1. a \in 1..(x - 1) /\ x - a <= p /\ t[a] = r[a]
      BY <1>0, <1>2, <2>2
    <3> QED
      BY <1>0, <3>1
  <2> QED
    BY <1>2, <2>1, <2>2
<1>6. Open(t, a, k + 1, p)
  <2>1. a \in DOMAIN t /\ a + (k + 1) = Len(t) /\ k + 1 \in 0..p /\ t[a] = r[a]
    BY <1>0, <1>2
  <2>2. ASSUME NEW j \in 1..(k + 1) PROVE t[a + j].role = "toolResult" /\ t[a + j].n = j
    <3>1. CASE j \in 1..k
      <4>1. a + j \in 1..Len(r) /\ t[a + j] = r[a + j]
        BY <1>0, <1>2, <3>1
      <4> QED
        BY <3>1, <4>1 DEF Open
    <3>2. CASE j = k + 1
      <4>1. a + j = Len(r) + 1
        BY <1>0, <3>2
      <4> QED
        BY <1>2, <3>2, <4>1
    <3> QED
      BY <3>1, <3>2
  <2> QED
    BY <1>0, <2>1, <2>2 DEF Open
<1> QED
  BY <1>2, <1>3, <1>4, <1>5, <1>6 DEF Sound, t

\* The calls that wait are answered with "No result provided".
LEMMA SoundClosed ==
    ASSUME NEW r, NEW p \in 0..MaxCalls, NEW k \in 0..p, Sound(r, Waits(r, k, p)),
           p > 0 => Open(r, Len(r) - k, k, p)
    PROVE  /\ Sound(r \o NoResults(p, 1..k), 0)
           /\ p = 0 => r \o NoResults(p, 1..k) = r
<1> DEFINE q == NoResults(p, 1..k)
           t == r \o q
           a == Len(r) - k
<1>1. r \in Seq(Sent) /\ p \in Nat /\ k \in Nat
  BY RunAssumption DEF Sound
<1>2. q = [j \in 1..(p - k) |-> NoResult(k + j)]
  BY <1>1, NoResultsForm
<1>3. q \in Seq(Sent) /\ Len(q) = p - k /\ \A j \in 1..(p - k) : q[j] = NoResult(k + j)
  <2>1. \A j \in 1..(p - k) : NoResult(k + j) \in Sent
    <3> SUFFICES ASSUME NEW j \in 1..(p - k) PROVE NoResult(k + j) \in Sent
      OBVIOUS
    <3>1. k + j \in 1..MaxCalls
      BY <1>1, RunAssumption
    <3> QED
      BY <3>1 DEF NoResult, Sent
  <2>2. p - k \in Nat
    BY <1>1
  <2> QED
    BY <1>2, <2>1, <2>2
<1> HIDE DEF q
<1>4. /\ t \in Seq(Sent) /\ Len(t) = Len(r) + (p - k) /\ Len(r) \in Nat
      /\ DOMAIN r = 1..Len(r) /\ DOMAIN t = 1..(Len(r) + (p - k))
      /\ \A i \in 1..Len(r) : t[i] = r[i]
      /\ \A j \in 1..(p - k) : t[Len(r) + j] = NoResult(k + j)
  <2>1. /\ r \o q \in Seq(Sent) /\ Len(r) \in Nat /\ DOMAIN r = 1..Len(r)
        /\ DOMAIN (r \o q) = 1..(Len(r) + Len(q)) /\ Len(r \o q) = Len(r) + Len(q)
        /\ \A i \in 1..Len(r) : (r \o q)[i] = r[i]
        /\ \A i \in 1..Len(q) : (r \o q)[Len(r) + i] = q[i]
    <3>1. q \in Seq(Sent)
      BY <1>3
    <3> QED
      BY <1>1, <3>1, JoinedIn
  <2> QED
    BY <1>3, <2>1
<1>5. CASE p = 0
  <2>1. k = 0 /\ Len(q) = 0
    <3>1. k = 0
      BY <1>1, <1>5
    <3> QED
      BY <1>3, <1>5, <3>1
  <2>2. q = <<>>
    BY <1>3, <2>1
  <2>3. t = r
    BY <1>1, <2>2
  <2>4. Waits(r, k, p) = 0
    BY <1>5 DEF Waits
  <2> QED
    BY <2>3, <2>4 DEF q
<1>6. CASE p > 0
  <2> HIDE DEF t
  <2>0. a \in 1..Len(r) /\ r[a].role = "assistant" /\ r[a].n = p /\ t[a] = r[a]
    BY <1>4, <1>6 DEF Open
  <2>1. \A j \in 1..k : r[a + j].role = "toolResult" /\ r[a + j].n = j
    BY <1>6 DEF Open
  <2>2. ASSUME NEW x \in (Len(r) + 1)..Len(t)
        PROVE  t[x].role = "toolResult" /\ t[x].n = x - a
    <3>1. x - Len(r) \in 1..(p - k) /\ Len(r) + (x - Len(r)) = x /\ k + (x - Len(r)) = x - a
      BY <1>1, <1>4
    <3>2. t[x] = NoResult(x - a)
      BY <1>4, <3>1
    <3> QED
      BY <3>2 DEF NoResult
  <2>3. \A x \in DOMAIN t : ~Failed(t[x])
    <3> SUFFICES ASSUME NEW x \in DOMAIN t PROVE ~Failed(t[x])
      OBVIOUS
    <3>1. CASE x \in 1..Len(r)
      BY <1>4, <3>1 DEF Sound
    <3>2. CASE x \in (Len(r) + 1)..Len(t)
      BY <2>2, <3>2 DEF Failed
    <3> QED
      BY <1>1, <1>4, <3>1, <3>2
  <2>4. Closed(t, a)
    <3>1. a + p = Len(t)
      BY <1>1, <1>4
    <3>2. ASSUME NEW j \in 1..p PROVE t[a + j].role = "toolResult" /\ t[a + j].n = j
      <4>1. CASE j \in 1..k
        <5>1. a + j \in 1..Len(r)
          BY <1>1, <1>4, <2>0, <4>1
        <5> QED
          BY <1>4, <2>1, <4>1, <5>1
      <4>2. CASE j \in (k + 1)..p
        <5>1. a + j \in (Len(r) + 1)..Len(t) /\ (a + j) - a = j
          BY <1>1, <1>4, <2>0, <4>2
        <5> QED
          BY <2>2, <5>1
      <4> QED
        BY <1>1, <4>1, <4>2
    <3> QED
      BY <2>0, <3>1, <3>2 DEF Closed
  <2>5. ASSUME NEW x \in DOMAIN t, t[x].role = "assistant", x # a
        PROVE  Closed(t, x)
    <3>0. x \in 1..Len(r)
      BY <1>1, <1>4, <2>2, <2>5
    <3>1. Closed(r, x)
      BY <1>4, <1>6, <2>5, <3>0 DEF Sound, Waits
    <3>2. r[x].n \in Nat
      BY <1>1, <1>4, <2>5, <3>0, SentForm
    <3>3. x + r[x].n <= Len(t)
      BY <1>1, <1>4, <3>1, <3>2 DEF Closed
    <3>4. ASSUME NEW j \in 1..r[x].n PROVE t[x + j].role = "toolResult" /\ t[x + j].n = j
      <4>0. x + r[x].n <= Len(r)
        BY <3>1 DEF Closed
      <4>1. x + j \in 1..Len(r)
        BY <1>4, <3>0, <3>2, <4>0
      <4> QED
        BY <1>4, <3>1, <4>1 DEF Closed
    <3> QED
      BY <1>4, <3>0, <3>3, <3>4 DEF Closed
  <2>6. ASSUME NEW x \in DOMAIN t, t[x].role = "toolResult"
        PROVE  \E b \in 1..(x - 1) : t[b].role = "assistant" /\ x - b <= t[b].n
    <3>1. CASE x \in 1..Len(r)
      <4>1. PICK b \in 1..(x - 1) : r[b].role = "assistant" /\ x - b <= r[b].n
        BY <1>4, <2>6, <3>1 DEF Sound
      <4>2. b \in 1..Len(r)
        BY <1>4, <3>1
      <4> QED
        BY <1>4, <4>1, <4>2
    <3>2. CASE x \in (Len(r) + 1)..Len(t)
      <4>1. a \in 1..(x - 1) /\ x - a <= p
        BY <1>1, <1>4, <2>0, <3>2
      <4> QED
        BY <2>0, <4>1
    <3> QED
      BY <1>1, <1>4, <3>1, <3>2
  <2>7. Sound(t, 0)
    BY <1>4, <2>3, <2>4, <2>5, <2>6 DEF Sound
  <2> QED
    BY <1>6, <2>7 DEF t, q
<1> QED
  BY <1>1, <1>5, <1>6

\* User messages at the end may go: nothing before them needs them.
LEMMA SoundCut ==
    ASSUME NEW r, Sound(r, 0)
    PROVE  Sound(WithoutUnanswered(r), 0)
<1> DEFINE cuts == {i \in 0..Len(r) : \A j \in (i + 1)..Len(r) : r[j].role = "user"}
           k == CHOOSE i \in cuts : \A j \in cuts : i <= j
           t == SubSeq(r, 1, k)
<1>1. r \in Seq(Sent) /\ Len(r) \in Nat /\ DOMAIN r = 1..Len(r)
  BY DEF Sound
<1>2. \E i \in cuts : \A j \in cuts : i <= j
  <2>1. cuts \subseteq Nat /\ Len(r) \in cuts
    BY <1>1
  <2>2. PICK i \in cuts : \A j \in cuts : ~(j < i)
    BY <2>1, Least
  <2>3. \A j \in cuts : i <= j
    BY <2>1, <2>2
  <2> QED
    BY <2>3
<1>3. k \in cuts
  BY <1>2
<1>4. WithoutUnanswered(r) = t
  BY DEF WithoutUnanswered
<1> HIDE DEF k
<1>5. k \in 0..Len(r) /\ \A j \in (k + 1)..Len(r) : r[j].role = "user"
  BY <1>3
<1>6. t \in Seq(Sent) /\ Len(t) = k /\ DOMAIN t = 1..k /\ \A i \in 1..k : t[i] = r[i]
  BY <1>1, <1>5
<1> HIDE DEF t
<1>7. \A x \in DOMAIN t : ~Failed(t[x])
  BY <1>1, <1>5, <1>6 DEF Sound
<1>8. ASSUME NEW x \in DOMAIN t, t[x].role = "assistant"
      PROVE  Closed(t, x)
  <2>0. x \in 1..k /\ x \in 1..Len(r) /\ t[x] = r[x]
    BY <1>1, <1>5, <1>6
  <2>1. Closed(r, x)
    BY <1>1, <1>8, <2>0 DEF Sound
  <2>2. r[x].n \in Nat
    BY <1>1, <1>8, <2>0, SentForm
  <2>3. ASSUME NEW j \in 1..r[x].n
        PROVE  x + j \in 1..k /\ t[x + j].role = "toolResult" /\ t[x + j].n = j
    <3>1. x + j \in 1..Len(r) /\ r[x + j].role = "toolResult" /\ r[x + j].n = j
      BY <1>1, <2>0, <2>1, <2>2 DEF Closed
    <3>2. x + j \in 1..k
      BY <1>1, <1>5, <3>1
    <3> QED
      BY <1>6, <3>1, <3>2
  <2>4. x + r[x].n <= k
    <3>1. CASE r[x].n = 0
      BY <1>1, <1>5, <2>0, <3>1
    <3>2. CASE r[x].n # 0
      <4>1. r[x].n \in 1..r[x].n
        BY <2>2, <3>2
      <4>2. x + r[x].n \in 1..k
        BY <2>3, <4>1
      <4> QED
        BY <1>5, <4>2
    <3> QED
      BY <3>1, <3>2
  <2> QED
    BY <1>6, <2>0, <2>3, <2>4 DEF Closed
<1>9. ASSUME NEW x \in DOMAIN t, t[x].role = "toolResult"
      PROVE  \E a \in 1..(x - 1) : t[a].role = "assistant" /\ x - a <= t[a].n
  <2>1. x \in 1..k /\ x \in 1..Len(r) /\ t[x] = r[x]
    BY <1>1, <1>5, <1>6
  <2>2. PICK a \in 1..(x - 1) : r[a].role = "assistant" /\ x - a <= r[a].n
    BY <1>1, <1>9, <2>1 DEF Sound
  <2>3. a \in 1..k
    BY <1>5, <2>1
  <2> QED
    BY <1>6, <2>2, <2>3
<1> QED
  BY <1>4, <1>6, <1>7, <1>8, <1>9 DEF Sound

\* Behind a message that is not the user's nothing is said.
LEMMA SaysNothing ==
    ASSUME NEW r, Len(r) \in Nat, NEW s \in Seq(Message), NEW i \in 1..Len(s), s[i].role # "user"
    PROVE  Says(r, s, i)
<1> SUFFICES ASSUME NEW j \in 0..i, \A l \in (j + 1)..i : s[l].role = "user"
             PROVE  /\ i - j <= Len(r)
                    /\ \A l \in 1..(i - j) : r[Len(r) - (i - j) + l] = s[j + l]
  BY DEF Says
<1>1. j = i
  <2>1. ASSUME j # i PROVE FALSE
    <3>1. i \in (j + 1)..i
      BY <2>1
    <3> QED
      BY <3>1
  <2> QED
    BY <2>1
<1> QED
  BY <1>1

\* What the state is like when the calls that wait have been answered.
LEMMA MendedClosed ==
    ASSUME NEW state, NEW s \in Seq(Message), NEW i \in 0..Len(s), Mended(state, s, i)
    PROVE  /\ WithMissing(state) = [result |-> WithMissing(state).result, pending |-> 0,
                                    answered |-> {}]
           /\ Sound(WithMissing(state).result, 0)
           /\ Asked(s, i) = 0 => WithMissing(state).result = state.result
           /\ Says(WithMissing(state).result, s, i)
<1> DEFINE p == Asked(s, i)
           k == Got(s, i)
           r == state.result
           t == r \o NoResults(p, 1..k)
<1>1. p \in 0..MaxCalls /\ k \in 0..p /\ Sound(r, Waits(r, k, p)) /\ Says(r, s, i)
      /\ (p > 0 => Open(r, Len(r) - k, k, p)) /\ state.pending = p /\ state.answered = 1..k
  BY DEF Mended
<1>2. WithMissing(state) = [result |-> t, pending |-> 0, answered |-> {}]
  BY <1>1 DEF WithMissing
<1> HIDE DEF p, k
<1>3. Sound(t, 0) /\ (p = 0 => t = r)
  BY <1>1, SoundClosed
<1> HIDE DEF t, r
<1>4. WithMissing(state).result = t
  BY <1>2
<1>5. Says(t, s, i)
  <2>1. CASE p = 0
    BY <1>1, <1>3, <2>1
  <2>2. CASE p # 0
    <3>1. i \in 1..Len(s) /\ s[i].role # "user"
      BY <2>2 DEF p, Asked
    <3>2. Len(t) \in Nat
      BY <1>3 DEF Sound
    <3> QED
      BY <3>1, <3>2, SaysNothing
  <2> QED
    BY <2>1, <2>2
<1> QED
  BY <1>2, <1>3, <1>4, <1>5 DEF p, r

\* The fields of the state that a step of the repair sets.
LEMMA Sets ==
    ASSUME NEW r, NEW p, NEW a, NEW x, NEW y
    PROVE  /\ [[result |-> r, pending |-> p, answered |-> a] EXCEPT !.result = x] =
                  [result |-> x, pending |-> p, answered |-> a]
           /\ [[result |-> r, pending |-> p, answered |-> a] EXCEPT !.result = x, !.pending = y] =
                  [result |-> x, pending |-> y, answered |-> a]
<1> DEFINE w == [result |-> r, pending |-> p, answered |-> a]
           v == [result |-> x, pending |-> p, answered |-> a]
<1>1. [w EXCEPT !.result = x] = v
  OBVIOUS
<1>2. [v EXCEPT !.pending = y] = [result |-> x, pending |-> y, answered |-> a]
  OBVIOUS
<1>3. [w EXCEPT !.result = x, !.pending = y] = [[w EXCEPT !.result = x] EXCEPT !.pending = y]
  OBVIOUS
<1> HIDE DEF w, v
<1>4. [w EXCEPT !.result = x, !.pending = y] = [result |-> x, pending |-> y, answered |-> a]
  BY <1>1, <1>2, <1>3
<1> QED
  BY <1>1, <1>4 DEF w, v

\* A result is kept behind the results before it.
LEMMA MendsResult ==
    ASSUME NEW s \in Seq(Message), ResultsFollow(s), Unreplied(s), NEW i \in 1..Len(s),
           NEW state, Mended(state, s, i - 1), s[i].role = "toolResult"
    PROVE  Mended(RepairStep(state, s[i]), s, i)
<1> DEFINE m == s[i]
           n == m.n
           r == state.result
           next == [result |-> Append(r, m), pending |-> state.pending, answered |-> 1..n]
<1>1. m \in Message /\ m \in Sent /\ n \in Nat /\ n > 0 /\ ~Failed(m) /\ i \in DOMAIN s
  BY DEF Message, Sent, Failed
<1>2. PICK a \in 1..(i - 1) : /\ s[a].role = "assistant" /\ i - a = n
                              /\ n <= s[a].n /\ Answered(s, a, n)
  BY <1>1 DEF ResultsFollow
<1> HIDE DEF n
<1>3. a \in 1..Len(s) /\ i = a + n /\ i - n = a /\ s[a] \in Message /\ s[a].n \in 0..MaxCalls
  <2>1. a \in 1..Len(s) /\ i = a + n /\ i - n = a
    BY <1>1, <1>2
  <2>2. s[a] \in Message
    BY <2>1
  <2> QED
    BY <1>2, <2>1, <2>2, MessageForm
<1>0. n \in Nat /\ n > 0 /\ a \in Nat /\ a > 0 /\ i \in Nat /\ i = a + n
  BY <1>1, <1>3
<1>4. ~Failed(s[a])
  <2>1. s[a + 1] = ToolResult(1) /\ a + 1 \in DOMAIN s
    <3>1. 1 \in 1..n
      BY <1>0
    <3>2. a + 1 <= Len(s) /\ s[a + 1] = ToolResult(1)
      BY <1>2, <3>1 DEF Answered
    <3> QED
      BY <1>0, <3>2
  <2> QED
    BY <1>3, <2>1 DEF Unreplied, ToolResult
<1>5. Got(s, i) = n /\ Asked(s, i) = s[a].n
  <2>1. Got(s, i) = n
    BY DEF Got, n
  <2> QED
    BY <1>1, <1>3, <2>1 DEF Asked
<1>6. Got(s, i - 1) = n - 1 /\ Asked(s, i - 1) = s[a].n
  <2>1. CASE n = 1
    <3>1. i - 1 = a /\ i - 1 > 0
      BY <1>3, <2>1
    <3>2. Got(s, i - 1) = 0
      BY <1>2, <3>1 DEF Got
    <3>3. i - 1 - 0 = a
      BY <3>1
    <3> QED
      BY <1>2, <1>4, <2>1, <3>1, <3>2, <3>3 DEF Asked
  <2>2. CASE n # 1
    <3>1. n - 1 \in 1..n /\ i - 1 = a + (n - 1) /\ i - 1 > 0 /\ i - 1 - (n - 1) = a
      BY <1>0, <2>2
    <3>2. s[i - 1] = ToolResult(n - 1)
      BY <1>2, <3>1 DEF Answered
    <3>3. s[i - 1].role = "toolResult" /\ s[i - 1].n = n - 1 /\ ~Failed(s[i - 1])
      BY <3>2 DEF ToolResult, Failed
    <3>4. Got(s, i - 1) = n - 1
      BY <3>1, <3>3 DEF Got
    <3> QED
      BY <3>1, <3>3, <3>4 DEF Asked
  <2> QED
    BY <2>1, <2>2
<1> DEFINE p == s[a].n
<1>7. RepairStep(state, m) = next
  <2>1. state = [result |-> r, pending |-> state.pending, answered |-> 1..(n - 1)]
    BY <1>6 DEF Mended
  <2>2. (1..(n - 1)) \cup {n} = 1..n
    BY <1>1
  <2>3. RepairStep(state, m) = [state EXCEPT !.result = Append(@, m), !.answered = @ \cup {m.n}]
    BY <1>1 DEF RepairStep
  <2>4. state.answered \cup {m.n} = 1..n
    BY <1>6, <2>2 DEF Mended, n
  <2> QED
    BY <2>1, <2>3, <2>4
<1>8. /\ Sound(r, Len(r) - (n - 1)) /\ Open(r, Len(r) - (n - 1), n - 1, p)
      /\ state.pending = p /\ p \in Nat /\ p > 0 /\ n - 1 \in Nat /\ n - 1 < p
      /\ Len(r) \in Nat
  <2>1. p \in Nat /\ p > 0 /\ n - 1 \in Nat /\ n - 1 < p
    <3>1. p \in 0..MaxCalls /\ n <= p
      BY <1>2, <1>3
    <3> HIDE DEF p
    <3> QED
      BY <1>0, <3>1, RunAssumption
  <2>2. Sound(r, Waits(r, n - 1, p)) /\ Open(r, Len(r) - (n - 1), n - 1, p) /\ state.pending = p
    BY <1>6, <2>1 DEF Mended
  <2>3. Waits(r, n - 1, p) = Len(r) - (n - 1)
    BY <2>1 DEF Waits
  <2>4. Len(r) \in Nat
    BY <2>2 DEF Sound
  <2> QED
    BY <2>1, <2>2, <2>3, <2>4
<1>9. Sound(Append(r, m), Len(r) - (n - 1)) /\ Open(Append(r, m), Len(r) - (n - 1), n, p)
  <2> DEFINE k == n - 1
             b == Len(r) - k
  <2>1. n = k + 1 /\ m.n = k + 1 /\ m \in Sent /\ m.role = "toolResult" /\ k \in Nat
    BY <1>0, <1>1 DEF n
  <2>2. Sound(r, b) /\ Open(r, b, k, p) /\ k < p /\ p \in Nat
    BY <1>8
  <2> HIDE DEF k, b, p, r, m
  <2>3. Sound(Append(r, m), b) /\ Open(Append(r, m), b, k + 1, p)
    BY <2>1, <2>2, SoundResult
  <2> QED
    BY <2>1, <2>3 DEF b, k
<1>10. Len(Append(r, m)) = Len(r) + 1
  <2>1. r \in Seq(Sent)
    BY <1>8 DEF Sound
  <2> QED
    BY <1>1, <2>1, LongerIn
<1>11. Len(Append(r, m)) - n = Len(r) - (n - 1) /\ Len(Append(r, m)) \in Nat
  BY <1>1, <1>8, <1>10
<1>12. Waits(Append(r, m), n, p) = Len(r) - (n - 1)
  BY <1>8, <1>11 DEF Waits
<1>13. Says(Append(r, m), s, i)
  BY <1>11, SaysNothing
<1>14. next.result = Append(r, m) /\ next.pending = p /\ next.answered = 1..n
  BY <1>8
<1>15. n \in 0..p /\ p \in 0..MaxCalls
  <2>1. p \in 0..MaxCalls /\ n <= p
    BY <1>2, <1>3
  <2> HIDE DEF p
  <2> QED
    BY <1>0, <2>1, RunAssumption
<1> HIDE DEF next, p, n, r, m
<1>16. next = [result |-> next.result, pending |-> next.pending, answered |-> next.answered]
  BY DEF next
<1>17. Mended(next, s, i)
  BY <1>5, <1>9, <1>11, <1>12, <1>13, <1>14, <1>15, <1>16 DEF Mended, p
<1> QED
  BY <1>7, <1>17 DEF m

\* A user message ends what was waiting.
LEMMA MendsUser ==
    ASSUME NEW s \in Seq(Message), NEW i \in 1..Len(s),
           NEW state, Mended(state, s, i - 1), s[i].role = "user"
    PROVE  Mended(RepairStep(state, s[i]), s, i)
<1> DEFINE m == s[i]
           r == WithMissing(state).result
           t == Append(r, m)
           next == [result |-> t, pending |-> 0, answered |-> {}]
<1>1. m \in Message /\ m \in Sent /\ i - 1 \in 0..Len(s) /\ ~Failed(m)
  BY DEF Sent, Failed
<1>2. /\ WithMissing(state) = [result |-> r, pending |-> 0, answered |-> {}]
      /\ Sound(r, 0) /\ Says(r, s, i - 1)
  BY <1>1, MendedClosed
<1> HIDE DEF r
<1>3. RepairStep(state, m) = next
  <2>1. RepairStep(state, m) = [WithMissing(state) EXCEPT !.result = Append(@, m)]
    BY <1>1 DEF RepairStep
  <2>2. WithMissing(state).result = r
    BY DEF r
  <2> HIDE DEF m
  <2>3. RepairStep(state, m) = [[result |-> r, pending |-> 0, answered |-> {}] EXCEPT !.result = t]
    BY <1>2, <2>1, <2>2, Zenon
  <2> QED
    BY <2>3, Sets, Zenon
<1>4. Got(s, i) = 0 /\ Asked(s, i) = 0
  BY DEF Got, Asked
<1>5. Sound(t, 0)
  BY <1>1, <1>2, SoundOther
<1>6. /\ r \in Seq(Sent) /\ Len(t) = Len(r) + 1 /\ Len(r) \in Nat
      /\ \A l \in 1..Len(r) : t[l] = r[l]
      /\ t[Len(r) + 1] = m
  <2>1. r \in Seq(Sent)
    BY <1>2 DEF Sound
  <2> QED
    BY <1>1, <2>1, LongerIn
<1> HIDE DEF t
<1>7. Says(t, s, i)
  <2> SUFFICES ASSUME NEW j \in 0..i, \A l \in (j + 1)..i : s[l].role = "user"
               PROVE  /\ i - j <= Len(t)
                      /\ \A l \in 1..(i - j) : t[Len(t) - (i - j) + l] = s[j + l]
    BY DEF Says
  <2>1. CASE j = i
    BY <1>6, <2>1
  <2>2. CASE j # i
    <3>1. j \in 0..(i - 1) /\ \A l \in (j + 1)..(i - 1) : s[l].role = "user"
      BY <2>2
    <3>2. /\ (i - 1) - j <= Len(r)
          /\ \A l \in 1..((i - 1) - j) : r[Len(r) - ((i - 1) - j) + l] = s[j + l]
      BY <1>2, <3>1 DEF Says
    <3>3. i - j <= Len(t)
      BY <1>6, <3>1, <3>2
    <3>4. ASSUME NEW l \in 1..(i - j) PROVE t[Len(t) - (i - j) + l] = s[j + l]
      <4>1. CASE l = i - j
        <5>1. Len(t) - (i - j) + l = Len(r) + 1 /\ j + l = i
          BY <1>6, <3>1, <4>1
        <5> QED
          BY <1>6, <5>1
      <4>2. CASE l # i - j
        <5>1. /\ l \in 1..((i - 1) - j) /\ Len(t) - (i - j) + l = Len(r) - ((i - 1) - j) + l
              /\ Len(r) - ((i - 1) - j) + l \in 1..Len(r)
          BY <1>6, <3>1, <3>2, <4>2
        <5> QED
          BY <1>6, <3>2, <5>1
      <4> QED
        BY <4>1, <4>2
    <3> QED
      BY <3>3, <3>4
  <2> QED
    BY <2>1, <2>2
<1>8. Waits(t, 0, 0) = 0 /\ 1..0 = {} /\ 0 \in 0..MaxCalls /\ 0 \in 0..0
  BY RunAssumption DEF Waits
<1>9. next.result = t /\ next.pending = 0 /\ next.answered = {}
  OBVIOUS
<1> HIDE DEF next
<1>10. next = [result |-> next.result, pending |-> next.pending, answered |-> next.answered]
  BY DEF next
<1>11. Mended(next, s, i)
  BY <1>4, <1>5, <1>7, <1>8, <1>9, <1>10 DEF Mended
<1> QED
  BY <1>3, <1>11

\* A failed message goes, and the user messages that it did not answer.
LEMMA MendsFailed ==
    ASSUME NEW s \in Seq(Message), NEW i \in 1..Len(s),
           NEW state, Mended(state, s, i - 1), Failed(s[i])
    PROVE  Mended(RepairStep(state, s[i]), s, i)
<1> DEFINE m == s[i]
           r == WithMissing(state).result
           t == WithoutUnanswered(r)
           next == [result |-> t, pending |-> 0, answered |-> {}]
<1>1. m.role = "assistant" /\ i - 1 \in 0..Len(s)
  BY DEF Failed
<1>2. /\ WithMissing(state) = [result |-> r, pending |-> 0, answered |-> {}]
      /\ Sound(r, 0)
  BY <1>1, MendedClosed
<1> HIDE DEF r
<1>3. RepairStep(state, m) = next
  <2>1. RepairStep(state, m) = [WithMissing(state) EXCEPT !.result = WithoutUnanswered(@)]
    BY <1>1 DEF RepairStep
  <2>2. WithMissing(state).result = r
    BY DEF r
  <2> HIDE DEF m
  <2>3. RepairStep(state, m) = [[result |-> r, pending |-> 0, answered |-> {}] EXCEPT !.result = t]
    BY <1>2, <2>1, <2>2, Zenon
  <2> QED
    BY <2>3, Sets, Zenon
<1>4. Got(s, i) = 0 /\ Asked(s, i) = 0
  BY <1>1 DEF Got, Asked
<1>5. Sound(t, 0)
  BY <1>2, SoundCut
<1> HIDE DEF t
<1>6. Says(t, s, i)
  <2>1. Len(t) \in Nat
    BY <1>5 DEF Sound
  <2> QED
    BY <1>1, <2>1, SaysNothing
<1>8. Waits(t, 0, 0) = 0 /\ 1..0 = {} /\ 0 \in 0..MaxCalls /\ 0 \in 0..0
  BY RunAssumption DEF Waits
<1>9. next.result = t /\ next.pending = 0 /\ next.answered = {}
  OBVIOUS
<1> HIDE DEF next
<1>10. next = [result |-> next.result, pending |-> next.pending, answered |-> next.answered]
  BY DEF next
<1>11. Mended(next, s, i)
  BY <1>4, <1>5, <1>6, <1>8, <1>9, <1>10 DEF Mended
<1> QED
  BY <1>3, <1>11

\* An assistant message is kept, and its calls wait.
LEMMA MendsAssistant ==
    ASSUME NEW s \in Seq(Message), NEW i \in 1..Len(s),
           NEW state, Mended(state, s, i - 1), s[i].role = "assistant", ~Failed(s[i])
    PROVE  Mended(RepairStep(state, s[i]), s, i)
<1> DEFINE m == s[i]
           p == m.n
           r == WithMissing(state).result
           t == Append(r, m)
           next == [result |-> t, pending |-> p, answered |-> {}]
<1>1. m \in Message /\ m \in Sent /\ i - 1 \in 0..Len(s) /\ p \in 0..MaxCalls /\ p \in Nat
  <2>1. m \in Message
    OBVIOUS
  <2> QED
    BY <2>1, MessageForm, RunAssumption DEF Sent
<1>2. /\ WithMissing(state) = [result |-> r, pending |-> 0, answered |-> {}]
      /\ Sound(r, 0)
  BY <1>1, MendedClosed
<1> HIDE DEF r
<1>3. RepairStep(state, m) = next
  <2>1. RepairStep(state, m) =
            [WithMissing(state) EXCEPT !.result = Append(@, m), !.pending = m.n]
    BY DEF RepairStep
  <2>2. WithMissing(state).result = r
    BY DEF r
  <2> HIDE DEF m
  <2>3. RepairStep(state, m) = [[result |-> r, pending |-> 0, answered |-> {}] EXCEPT !.result = t,
                                 !.pending = p]
    BY <1>2, <2>1, <2>2, Zenon
  <2> QED
    BY <2>3, Sets, Zenon
<1>4. Got(s, i) = 0 /\ Asked(s, i) = p
  <2>1. Got(s, i) = 0 /\ i - 0 = i
    BY DEF Got
  <2> QED
    BY <2>1 DEF Asked
<1>5. Sound(t, Len(r) + 1) /\ Open(t, Len(r) + 1, 0, p) /\ (p = 0 => Sound(t, 0))
  BY <1>1, <1>2, SoundOther
<1>6. Len(t) = Len(r) + 1 /\ Len(r) \in Nat /\ Len(t) \in Nat
  <2>1. r \in Seq(Sent)
    BY <1>2 DEF Sound
  <2> QED
    BY <1>1, <2>1, LongerIn
<1> HIDE DEF t
<1>7. Says(t, s, i)
  BY <1>6, SaysNothing
<1>8. Waits(t, 0, p) = (IF p > 0 THEN Len(r) + 1 ELSE 0) /\ 1..0 = {} /\ 0 \in 0..p
      /\ Len(t) - 0 = Len(r) + 1
  BY <1>1, <1>6 DEF Waits
<1>9. next.result = t /\ next.pending = p /\ next.answered = {}
  OBVIOUS
<1> HIDE DEF next, p
<1>10. next = [result |-> next.result, pending |-> next.pending, answered |-> next.answered]
  BY DEF next
<1>11. Sound(t, Waits(t, 0, p))
  <2>1. CASE p > 0
    BY <1>5, <1>8, <2>1
  <2>2. CASE ~(p > 0)
    BY <1>1, <1>5, <1>8, <2>2
  <2> QED
    BY <2>1, <2>2
<1>12. Mended(next, s, i)
  BY <1>1, <1>4, <1>5, <1>7, <1>8, <1>9, <1>10, <1>11 DEF Mended
<1> QED
  BY <1>3, <1>12

\* A step of the repair.
LEMMA Mends ==
    ASSUME NEW s \in Seq(Message), ResultsFollow(s), Unreplied(s), NEW i \in 1..Len(s),
           NEW state, Mended(state, s, i - 1)
    PROVE  Mended(RepairStep(state, s[i]), s, i)
<1>1. s[i].role \in {"user", "assistant", "toolResult"}
  <2>1. s[i] \in Message
    OBVIOUS
  <2> QED
    BY <2>1, MessageForm
<1> QED
  BY <1>1, MendsResult, MendsUser, MendsFailed, MendsAssistant

\* f goes through the first n messages of s as Repaired does.
Unmended == [result |-> <<>>, pending |-> 0, answered |-> {}]
Repairs(f, s, n) ==
    f = [i \in 0..n |-> IF i = 0 THEN Unmended ELSE RepairStep(f[i - 1], s[i])]

\* There is such a function: the recursion of Repaired is well defined.
LEMMA RepairsExists ==
    ASSUME NEW s \in Seq(Message)
    PROVE  \E f : Repairs(f, s, Len(s))
<1> DEFINE T == {n \in Nat : ~\E f : Repairs(f, s, n)}
<1>1. Len(s) \in Nat
  OBVIOUS
<1>2. SUFFICES ASSUME T # {} PROVE FALSE
  BY <1>1
<1>3. PICK n \in T : \A y \in T : ~(y < n)
  <2>1. T \subseteq Nat
    OBVIOUS
  <2> QED
    BY <1>2, <2>1, Least
<1>4. n # 0
  <2>1. Repairs([i \in 0..0 |-> Unmended], s, 0)
    BY DEF Repairs
  <2> QED
    BY <2>1
<1>5. n - 1 \in Nat /\ n - 1 < n
  BY <1>4
<1>6. PICK f : Repairs(f, s, n - 1)
  BY <1>3, <1>5
<1> DEFINE g == [i \in 0..n |-> IF i < n THEN f[i] ELSE RepairStep(f[n - 1], s[n])]
<1>7. \A i \in 0..(n - 1) : g[i] = f[i]
  BY <1>5
<1>8. g[n] = RepairStep(f[n - 1], s[n])
  BY <1>5
<1>9. \A i \in 0..(n - 1) : f[i] = IF i = 0 THEN Unmended ELSE RepairStep(f[i - 1], s[i])
  BY <1>6 DEF Repairs
<1>10. g[n - 1] = f[n - 1]
  BY <1>5, <1>7
<1>11. ASSUME NEW i \in 0..n
       PROVE  g[i] = IF i = 0 THEN Unmended ELSE RepairStep(g[i - 1], s[i])
  <2>1. CASE i = n
    BY <1>4, <1>8, <1>10, <2>1
  <2>2. CASE i # n /\ i = 0
    <3>1. i \in 0..(n - 1)
      BY <1>5, <2>2
    <3> QED
      BY <1>7, <1>9, <2>2, <3>1
  <2>3. CASE i # n /\ i # 0
    <3>1. i \in 0..(n - 1) /\ i - 1 \in 0..(n - 1)
      BY <1>5, <2>3
    <3>2. g[i] = f[i] /\ g[i - 1] = f[i - 1]
      BY <1>7, <3>1
    <3> QED
      BY <1>9, <2>3, <3>1, <3>2
  <2> QED
    BY <2>1, <2>2, <2>3
<1>12. g = [i \in 0..n |-> g[i]]
  OBVIOUS
<1> HIDE DEF g
<1>13. Repairs(g, s, n)
  BY <1>11, <1>12 DEF Repairs
<1> QED
  BY <1>3, <1>13

\* What is sent has no failed message, every call answered in order, no stray result, and the
\* last user messages at its end.
LEMMA RepairedSound ==
    ASSUME NEW s \in Seq(Message), ResultsFollow(s), Unreplied(s)
    PROVE  Sound(Repaired(s), 0) /\ Says(Repaired(s), s, Len(s))
<1> DEFINE F == CHOOSE f : Repairs(f, s, Len(s))
<1>0. Len(s) \in Nat
  OBVIOUS
<1>1. Repairs(F, s, Len(s))
  BY RepairsExists
<1>2. Repaired(s) = WithMissing(F[Len(s)]).result
  BY DEF Repaired, Repairs, Unmended
<1> HIDE DEF F
<1>3. \A i \in 0..Len(s) : F[i] = IF i = 0 THEN Unmended ELSE RepairStep(F[i - 1], s[i])
  BY <1>1 DEF Repairs
<1> DEFINE T == {i \in 0..Len(s) : ~Mended(F[i], s, i)}
<1>4. T = {}
  <2>1. SUFFICES ASSUME T # {} PROVE FALSE
    OBVIOUS
  <2>2. PICK i \in T : \A y \in T : ~(y < i)
    <3>1. T \subseteq Nat
      BY <1>0
    <3> QED
      BY <2>1, <3>1, Least
  <2>3. CASE i = 0
    <3>1. F[0] = Unmended
      BY <1>0, <1>3
    <3>2. Got(s, 0) = 0 /\ Asked(s, 0) = 0
      BY DEF Got, Asked
    <3>3. Sound(<<>>, 0)
      BY DEF Sound
    <3>4. Says(<<>>, s, 0)
      BY DEF Says
    <3>5. Waits(<<>>, 0, 0) = 0 /\ 1..0 = {} /\ 0 \in 0..MaxCalls /\ 0 \in 0..0
      BY RunAssumption DEF Waits
    <3>6. Unmended.result = <<>> /\ Unmended.pending = 0 /\ Unmended.answered = {}
          /\ Unmended = [result |-> Unmended.result, pending |-> Unmended.pending,
                         answered |-> Unmended.answered]
      BY DEF Unmended
    <3>7. Mended(Unmended, s, 0)
      BY <3>2, <3>3, <3>4, <3>5, <3>6 DEF Mended
    <3> QED
      BY <2>2, <2>3, <3>1, <3>7
  <2>4. CASE i # 0
    <3>1. i \in 1..Len(s) /\ i - 1 \in 0..Len(s) /\ i - 1 < i
      BY <1>0, <2>4
    <3>2. Mended(F[i - 1], s, i - 1)
      BY <2>2, <3>1
    <3>3. Mended(RepairStep(F[i - 1], s[i]), s, i)
      BY <3>1, <3>2, Mends
    <3> QED
      BY <1>3, <2>2, <2>4, <3>3
  <2> QED
    BY <2>3, <2>4
<1>5. Len(s) \in 0..Len(s) /\ Mended(F[Len(s)], s, Len(s))
  BY <1>0, <1>4
<1> QED
  BY <1>2, <1>5, MendedClosed

-----------------------------------------------------------------------------
(* Nothing answers a failed message.                                       *)

\* What a step may record.
MayRecord(m) ==
    /\ messages' = Append(messages, m) /\ UNCHANGED trampled
    /\ \/ m.role # "toolResult"
       \/ loop = "tools" /\ results < Calls /\ m = ToolResult(results + 1)
Recording == \/ UNCHANGED <<messages, trampled>>
             \/ messages' = <<>>
             \/ \E m \in Message : MayRecord(m)

LEMMA Recorded ==
    ASSUME TypeOK, Leasing, Queues, Executing, [Next]_vars
    PROVE  Recording
<1>0. pending # <<>> => Head(pending) \in Message /\ Head(pending).role = "user"
  <2>1. pending # <<>> => Head(pending) \in Message /\ Head(pending) \in Users
    BY SeqFacts DEF TypeOK, Queues
  <2> QED
    BY <2>1 DEF Users
<1>1. ASSUME DeliversPrompt \/ DeliversPending
      PROVE  Recording
  BY <1>0, <1>1 DEF DeliversPrompt, DeliversPending, Rest, Record, Recording, MayRecord
<1>2. ASSUME NEW m \in Message, Speaks(m)
      PROVE  Recording
  BY <1>2 DEF Speaks, Spoken, Rest, Record, Recording, MayRecord
<1>3. ASSUME NEW m \in Message, Raised(m)
      PROVE  Recording
  BY <1>0, <1>3 DEF Raised, Spoken, Rest, Record, Recording, MayRecord
<1>4. ASSUME Answers
      PROVE  Recording
  <2>1. loop = "tools" /\ results < Calls /\ messages' = Append(messages, ToolResult(results + 1))
        /\ UNCHANGED trampled
    BY <1>4 DEF Answers, Rest, Record
  <2>2. ToolResult(results + 1) \in Message
    <3>1. Last(newMessages) \in Message
      BY <2>1 DEF Executing, TypeOK, Last
    <3>2. Calls \in 0..MaxCalls
      BY <2>1, <3>1, MessageForm DEF Executing, Calls
    <3> QED
      BY <2>1, <3>2, RunAssumption, Created DEF TypeOK
  <2> QED
    BY <2>1, <2>2 DEF Recording, MayRecord
<1>5. ASSUME Leaves
      PROVE  Recording
  <2>1. UNCHANGED trampled
    BY <1>5 DEF Leaves
  <2>2. CASE messages' = messages
    BY <2>1, <2>2 DEF Recording
  <2>3. CASE \E kind \in {"error", "aborted"} : Record(Assistant(kind, 0))
    <3>1. PICK kind \in {"error", "aborted"} : Record(Assistant(kind, 0))
      BY <2>3
    <3>2. Assistant(kind, 0) \in Message
      BY Created, RunAssumption DEF StopReasons
    <3>3. Assistant(kind, 0).role # "toolResult"
      BY DEF Assistant
    <3> QED
      BY <2>1, <3>1, <3>2, <3>3 DEF Recording, MayRecord, Record
  <2> QED
    BY <1>5, <2>2, <2>3 DEF Leaves
<1>6. ASSUME FirstPoll \/ Request \/ StreamStarts \/ BatchReturns \/ Proceeds \/ PollSteering
             \/ PollFollowUp
      PROVE  Recording
  BY <1>6 DEF FirstPoll, Request, StreamStarts, BatchReturns, Proceeds, PollSteering,
     PollFollowUp, RunIdle, Rest, history, Recording
<1>7. ASSUME NEW c \in Callers, CallerStarts(c) \/ CallerFinishes(c) \/ CallerResets(c)
      PROVE  Recording
  BY <1>7 DEF CallerStarts, CallerFinishes, CallerResets, Prompt, Continue, ContinueRaises,
     SetsIdle, ReleasesLease, ResetChecks, ResetRefused, ResetClears, agentVars, history, Recording
<1>8. ASSUME AnyThread
      PROVE  Recording
  BY <1>8 DEF AnyThread, Steer, FollowUp, ClearSteeringQueue, ClearFollowUpQueue, Abort,
     ResetAbortSignal, history, Recording
<1>9. CASE UNCHANGED vars
  BY <1>9 DEF vars, agentVars, history, Recording
<1> QED
  BY LoopBranches, <1>1, <1>2, <1>3, <1>4, <1>5, <1>6, <1>7, <1>8, <1>9 DEF Next, LoopBranch

\* Every step keeps failed messages without results.
LEMMA FailuresStep ==
    ASSUME TypeOK, Leasing, Queues, Executing, Structure, Failures, [Next]_vars
    PROVE  Failures'
<1>1. CASE UNCHANGED <<messages, trampled>>
  BY <1>1 DEF Failures
<1>2. CASE messages' = <<>>
  BY <1>2 DEF Failures, Unreplied
<1>3. ASSUME NEW m \in Message, MayRecord(m)
      PROVE  Failures'
  <2> SUFFICES ASSUME ~trampled PROVE Unreplied(messages')
    BY <1>3 DEF Failures, MayRecord
  <2> DEFINE t == Append(messages, m)
  <2>1. messages \in Seq(Message) /\ messages' = t /\ Unreplied(messages)
    BY <1>3 DEF TypeOK, MayRecord, Failures
  <2>2. /\ Len(messages) \in Nat
        /\ DOMAIN messages = 1..Len(messages) /\ DOMAIN t = 1..(Len(messages) + 1)
        /\ \A i \in 1..Len(messages) : t[i] = messages[i]
        /\ t[Len(messages) + 1] = m
    BY <2>1, Longer
  <2> HIDE DEF t
  <2> SUFFICES ASSUME NEW i \in DOMAIN t, Failed(t[i]), i + 1 \in DOMAIN t
               PROVE  t[i + 1].role # "toolResult"
    BY <2>1 DEF Unreplied
  <2>3. i \in 1..Len(messages) /\ t[i] = messages[i]
    BY <2>2
  <2>4. CASE i + 1 \in 1..Len(messages)
    BY <2>1, <2>2, <2>3, <2>4 DEF Unreplied
  <2>5. CASE i = Len(messages)
    <3>1. t[i + 1] = m
      BY <2>2, <2>5
    <3>2. ASSUME loop = "tools" PROVE FALSE
      <4>1. /\ Calling \in DOMAIN messages /\ messages[Calling] = Last(newMessages)
            /\ Answered(messages, Calling, results) /\ Calling = Len(messages) - results
            /\ results \in Nat
        BY <3>2 DEF Structure, Calling, TypeOK
      <4>2. CASE results = 0
        <5>1. i = Calling
          BY <2>2, <2>5, <4>1, <4>2
        <5>2. ~Failed(Last(newMessages))
          BY <3>2 DEF Executing, Failed
        <5> QED
          BY <2>3, <4>1, <5>1, <5>2
      <4>3. CASE results # 0
        <5>1. results \in 1..results /\ Calling + results = i
          BY <2>2, <2>5, <4>1, <4>3
        <5>2. messages[i] = ToolResult(results)
          BY <4>1, <5>1 DEF Answered
        <5> QED
          BY <2>3, <5>2 DEF Failed, ToolResult
      <4> QED
        BY <4>2, <4>3
    <3> QED
      BY <1>3, <3>1, <3>2 DEF MayRecord
  <2> QED
    BY <2>2, <2>3, <2>4, <2>5
<1> QED
  BY Recorded, <1>1, <1>2, <1>3 DEF Recording

\* Whatever was aborted or raised before, the provider is sent every call followed by its
\* results, no stray result, no failed message, and last the user messages that wait.
LEMMA RepairedRequest ==
    ASSUME TypeOK, Agreement, Structure, Failures
    PROVE  RequestRepaired
<1> DEFINE sent == Repaired(context)
           last == {0} \cup {i \in DOMAIN context : context[i].role # "user"}
           from == CHOOSE i \in last : \A j \in last : j <= i
           said == SubSeq(context, 1 + from, Len(context))
<1> SUFFICES ASSUME loop = "stream", ~PartialAdded, ~trampled
             PROVE  /\ \A i \in DOMAIN sent :
                         /\ ~Failed(sent[i])
                         /\ sent[i].role = "assistant" =>
                               /\ i + sent[i].n <= Len(sent)
                               /\ \A j \in 1..sent[i].n : /\ sent[i + j].role = "toolResult"
                                                         /\ sent[i + j].n = j
                         /\ sent[i].role = "toolResult" =>
                               \E a \in 1..(i - 1) : /\ sent[a].role = "assistant"
                                                     /\ i - a <= sent[a].n
                    /\ \E k \in 0..Len(sent) : SubSeq(sent, k + 1, Len(sent)) = said
  BY DEF RequestRepaired
<1>1. context = messages /\ context \in Seq(Message)
  <2>1. context \in {messages, Append(messages, Partial)} /\ messages \in Seq(Message)
    BY DEF Agreement, TypeOK
  <2>2. Partial \in Message
    BY Created, RunAssumption DEF Partial
  <2>3. context # Append(messages, Partial)
    BY <2>1, <2>2, Ending DEF PartialAdded
  <2> QED
    BY <2>1, <2>3
<1>2. ResultsFollow(context) /\ Unreplied(context)
  BY <1>1 DEF Structure, Failures
<1>3. Sound(sent, 0) /\ Says(sent, context, Len(context))
  BY <1>1, <1>2, RepairedSound
<1> DEFINE n == Len(context)
<1>4. n \in Nat /\ DOMAIN context = 1..n /\ sent \in Seq(Sent) /\ Len(sent) \in Nat
      /\ DOMAIN sent = 1..Len(sent)
  BY <1>1, <1>3 DEF Sound
<1> HIDE DEF sent
<1>5. from \in 0..n /\ \A l \in (from + 1)..n : context[l].role = "user"
  <2>1. \E i \in last : \A j \in last : j <= i
    <3> DEFINE T == {n - i : i \in last}
    <3>1. T \subseteq Nat /\ T # {} /\ last \subseteq 0..n
      BY <1>4
    <3>2. PICK x \in T : \A y \in T : ~(y < x)
      BY <3>1, Least
    <3>3. PICK i \in last : x = n - i
      OBVIOUS
    <3>4. ASSUME NEW j \in last PROVE j <= i
      <4>1. n - j \in T
        OBVIOUS
      <4>2. ~(n - j < n - i)
        BY <3>2, <3>3, <4>1
      <4> QED
        BY <1>4, <3>1, <4>2
    <3> QED
      BY <3>4
  <2>2. from \in last /\ \A j \in last : j <= from
    BY <2>1
  <2> HIDE DEF from
  <2>3. from \in 0..n
    BY <1>4, <2>2
  <2>4. ASSUME NEW l \in (from + 1)..n PROVE context[l].role = "user"
    BY <1>4, <2>2, <2>3
  <2> QED
    BY <2>3, <2>4
<1> HIDE DEF from
<1>6. /\ n - from <= Len(sent)
      /\ \A l \in 1..(n - from) : sent[Len(sent) - (n - from) + l] = context[from + l]
  BY <1>3, <1>5 DEF Says
<1> DEFINE k == Len(sent) - (n - from)
<1>7. k \in 0..Len(sent)
  BY <1>4, <1>5, <1>6
<1>8. SubSeq(sent, k + 1, Len(sent)) = said
  <2>1. SubSeq(sent, k + 1, Len(sent)) = [l \in 1..(Len(sent) - k) |-> sent[k + l]]
    BY <1>4, <1>7
  <2>2. said = [l \in 1..(n - from) |-> context[from + l]]
    BY <1>1, <1>4, <1>5
  <2>3. Len(sent) - k = n - from
    BY <1>4, <1>5
  <2> QED
    BY <1>6, <2>1, <2>2, <2>3
<1> HIDE DEF k, said
<1>9. \E x \in 0..Len(sent) : SubSeq(sent, x + 1, Len(sent)) = said
  BY <1>7, <1>8
<1>10. \A i \in DOMAIN sent :
           /\ ~Failed(sent[i])
           /\ sent[i].role = "assistant" => Closed(sent, i)
           /\ sent[i].role = "toolResult" =>
                 \E a \in 1..(i - 1) : sent[a].role = "assistant" /\ i - a <= sent[a].n
  <2>1. \A i \in DOMAIN sent : i # 0
    BY <1>4
  <2> QED
    BY <1>3, <2>1 DEF Sound
<1> QED
  BY <1>9, <1>10 DEF Closed, said

-----------------------------------------------------------------------------
(* The theorems.                                                           *)

\* The agent starts with everything in its place.
LEMMA InitInv == Init => IInv
<1> SUFFICES ASSUME Init PROVE IInv
  OBVIOUS
<1>1. TypeOK
  <2>1. SeqTypes
    BY SeqFacts DEF Init, SeqTypes
  <2>2. caller \in [Callers -> {"out", "run", "ending", "locked", "reset"}]
    BY DEF Init
  <2>3. results \in 0..MaxCalls /\ users \in 0..MaxUsers /\ turns \in 0..MaxTurns
    BY RunAssumption DEF Init
  <2>4. PlainTypes
    BY <2>2, <2>3 DEF Init, PlainTypes
  <2> QED
    BY <2>1, <2>4, TypeParts
<1>2. Leasing
  <2>1. lease = None /\ idle = TRUE /\ loop = "none" /\ \A c \in Callers : caller[c] = "out"
            /\ c # None
    BY RunAssumption DEF Init
  <2> QED
    BY <2>1 DEF Leasing, LeaseExclusive
<1>3. Queues /\ Executing /\ Budget
  BY SeqFacts DEF Init, Queues, Executing, Budget
<1>4. Agreement
  BY DEF Init, Agreement
<1>5. Structure
  BY DEF Init, Structure, ResultsFollow, Complete
<1>6. Places
  <2>1. Ordered(<<>>, <<>>, <<>>, <<>>) /\ AllUpTo(<<>>, <<>>, <<>>, <<>>, 0)
        /\ Present(<<>>, <<>>, <<>>, <<>>) = {} /\ 1..0 = {}
    BY Nothing DEF Ordered, AllUpTo, Present
  <2> QED
    BY <2>1 DEF Init, Places
<1>7. Failures
  BY DEF Init, Failures, Unreplied
<1> QED
  BY <1>1, <1>2, <1>3, <1>4, <1>5, <1>6, <1>7 DEF IInv

\* The inductive invariant holds in every state that the agent reaches.
THEOREM Invariance == Spec => []IInv
<1>1. Init => IInv
  BY InitInv
<1>2. IInv /\ [Next]_vars => IInv'
  BY TypeStep, LeasingStep, QueuesStep, ExecutingStep, BudgetStep, AgreementStep, StructureStep,
     FailuresStep, PlacesStep
     DEF IInv
<1> QED
  BY <1>1, <1>2, PTL DEF Spec

\* Only one prompt or continuation holds the lease, however many threads call, and while nobody
\* does the agent is idle and no loop is left running.
THEOREM LeaseExclusiveCorrect == Spec => []LeaseExclusive
<1>1. IInv => LeaseExclusive
  BY DEF IInv, Leasing
<1> QED
  BY <1>1, Invariance, PTL

\* What the provider is sent is what is recorded, with every result behind its call, and
\* agent_end reports exactly what the run added, whatever was aborted, raised or steered before
\* (unless reset() cleared a run under way).
THEOREM ConversationSoundCorrect == Spec => []ConversationSound
<1>1. IInv => ConversationSound
  <2> SUFFICES ASSUME IInv PROVE ConversationSound
    OBVIOUS
  <2>1. TypeOK /\ Queues /\ Agreement /\ Structure
    BY DEF IInv
  <2>2. RequestWellFormed
    <3> SUFFICES ASSUME loop = "stream", ~PartialAdded, ~trampled
                 PROVE  /\ context = messages
                        /\ ResultsFollow(context)
                        /\ ~broken /\ ~interrupted =>
                              \A i \in DOMAIN context :
                                  context[i].role = "assistant" /\ context[i].kind # "error" =>
                                      Answered(context, i, context[i].n)
      BY DEF RequestWellFormed
    <3>1. context \in {messages, Append(messages, Partial)}
      BY <2>1 DEF Agreement
    <3>2. context # Append(messages, Partial)
      <4>1. Partial \in Message /\ messages \in Seq(Message)
        <5>1. Partial \in Message
          BY Created, RunAssumption DEF Partial
        <5> QED
          BY <2>1, <5>1 DEF TypeOK
      <4> QED
        BY <4>1, Ending DEF PartialAdded
    <3>3. Calling = 0
      BY DEF Calling
    <3>4. DOMAIN messages = 1..Len(messages) /\ Len(messages) \in Nat
      BY <2>1 DEF TypeOK
    <3>5. ResultsFollow(messages) /\ (~broken /\ ~interrupted => Complete(messages, 0))
      BY <2>1, <3>3 DEF Structure
    <3> QED
      BY <3>1, <3>2, <3>4, <3>5 DEF Complete
  <2>3. EndReportsRun
    BY <2>1 DEF Agreement, EndReportsRun
  <2> QED
    BY <2>1, <2>2, <2>3 DEF ConversationSound
<1> QED
  BY <1>1, Invariance, PTL

\* No user message is lost or delivered twice, and those of one queue are delivered in the order
\* in which they were queued, whoever queues, polls, continues or clears.
THEOREM MessagesDeliveredCorrect == Spec => []MessagesDelivered
<1>1. IInv => MessagesDelivered
  <2> SUFFICES ASSUME IInv PROVE MessagesDelivered
    OBVIOUS
  <2> DEFINE mp == messages \o pending
             mps == mp \o steering
  <2>1. /\ messages \in Seq(Message) /\ pending \in Seq(Message) /\ steering \in Seq(Message)
        /\ followUp \in Seq(Message) /\ Places
    BY DEF IInv, TypeOK
  <2>2. mp \in Seq(Message) /\ UsersIn(mp) = UsersIn(messages) \cup UsersIn(pending)
        /\ Sorted(mp) /\ Before(mp, steering) /\ Before(mp, followUp)
    BY <2>1, SeqFacts, JoinedUsers, JoinedSorted, JoinedBefore DEF Places, Ordered
  <2> HIDE DEF mp
  <2>3. mps \in Seq(Message) /\ UsersIn(mps) = UsersIn(mp) \cup UsersIn(steering)
        /\ Sorted(mps) /\ Before(mps, followUp)
    BY <2>1, <2>2, SeqFacts, JoinedUsers, JoinedSorted, JoinedBefore DEF Places, Ordered
  <2> HIDE DEF mps
  <2>4. UsersIn(mps \o followUp) = UsersIn(mps) \cup UsersIn(followUp) /\ Sorted(mps \o followUp)
    BY <2>1, <2>3, SeqFacts, JoinedUsers, JoinedSorted DEF Places, Ordered
  <2>5. Everywhere = mps \o followUp
    BY DEF Everywhere, mps, mp
  <2>6. ~broken => 1..users = UsersIn(Everywhere) \cup dropped
    BY <2>1, <2>2, <2>3, <2>4, <2>5 DEF Places, Present
  <2>7. Sorted(Everywhere)
    BY <2>4, <2>5
  <2> QED
    BY <2>6, <2>7 DEF MessagesDelivered, Sorted, Earlier
<1> QED
  BY <1>1, Invariance, PTL

\* Whatever was aborted or raised before, the provider is sent every call followed at once by its
\* results, one each and in order, no result of anything else and no failed message; and the user
\* messages that wait for an answer are at the end of the request.
THEOREM RequestRepairedCorrect == Spec => []RequestRepaired
<1>1. IInv => RequestRepaired
  BY RepairedRequest DEF IInv
<1> QED
  BY <1>1, Invariance, PTL
=============================================================================

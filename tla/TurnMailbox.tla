----------------------------- MODULE TurnMailbox -----------------------------
(***************************************************************************)
(* travis/coding_agent/mailbox.py (CodingTurnMailbox) between the threads  *)
(* that send messages to a session and the queues of its agent, as         *)
(* session_turns.py and session_events.py use it.                          *)
(*                                                                         *)
(* A sent message is queued in the mailbox.  It is moved to the agent's    *)
(* queue of its kind at the end of a turn, by the thread of the run, or at *)
(* once, by the sending thread, when no run is under way; from then on it  *)
(* is inflight.  The run acknowledges it when it delivers it; what is      *)
(* still inflight at agent_end goes back to the mailbox and is removed     *)
(* from the agent's queues.                                                *)
(*                                                                         *)
(* Processes: the thread of the run, of which there is one at a time       *)
(* (module AgentRun, LeaseExclusive), and the senders.  Each step is one   *)
(* critical section of the mailbox or of an agent queue.                   *)
(*                                                                         *)
(* Abstractions: a message is its kind and its number in order of sending; *)
(* of the order of _inflight only that within a kind is kept, no other is  *)
(* ever used;                                                              *)
(* a turn (the stream and the tools) is one step; messages that do not go  *)
(* through the mailbox (prompts, continuations) are left out.              *)
(***************************************************************************)
EXTENDS Naturals, Sequences

CONSTANTS
    Senders,       \* threads that call steer, follow_up or clear_queue
    MaxMessages,   \* bound: messages sent in one behaviour
    MaxTurns,      \* bound: turns in one behaviour
    MaxRuns,       \* bound: runs in one behaviour
    StoreMayFail   \* whether session_store.append_message may raise

ASSUME MailboxAssumption ==
    /\ MaxMessages \in Nat /\ MaxTurns \in Nat /\ MaxRuns \in Nat
    /\ StoreMayFail \in BOOLEAN

VARIABLES
    \* CodingTurnMailbox
    items,        \* _items
    inflight,     \* _inflight, by kind, in the order of insertion
    closed,       \* _closed
    \* Agent
    mode,         \* steering_mode and follow_up_mode
    queue,        \* _steering.messages and _follow_up.messages
    \* the thread of the run
    run,          \* where it is; "none" when not is_streaming
    at,           \* the kind that it flushes or removes
    hand,         \* messages it has drained and not yet sent to the agent
    pending,      \* messages the loop has polled and not yet delivered
    restored,     \* restored_ids
    \* the senders
    sender,       \* where each one is, the kind, and the messages in its hand
    \* AgentSession
    subscribed,   \* _handle_agent_event is subscribed: not disposed
    \* history
    sent, turns, runs,
    delivered,    \* messages delivered, in order
    cleared,      \* messages that clear_queue returned
    crossed,      \* two threads moved messages at the same time
    unsettled     \* a run ended without agent_end

boxVars == <<items, inflight>>
runVars == <<run, at, hand, pending, restored>>
counters == <<sent, turns, runs>>
vars == <<boxVars, closed, mode, queue, runVars, sender, subscribed, counters,
          delivered, cleared, crossed, unsettled>>

Kinds == {"steering", "follow_up"}
Message == [kind : Kinds, n : 1..MaxMessages]
Resting == [pc |-> "out", kind |-> "steering", hand |-> <<>>]

Numbers(s) == {s[i].n : i \in DOMAIN s}
Both(f) == f["steering"] \o f["follow_up"]

\* The messages of s whose number is not in S, in their order.
Without(s, S) ==
    LET kept[i \in 0..Len(s)] ==
            IF i = 0 THEN <<>>
            ELSE IF s[i].n \in S THEN kept[i - 1] ELSE Append(kept[i - 1], s[i])
    IN kept[Len(s)]

\* What a drain takes in either mode, and what it leaves.
Drained(s) == IF mode = "all" \/ s = <<>> THEN s ELSE <<Head(s)>>
Left(s) == IF mode = "all" \/ s = <<>> THEN <<>> ELSE Tail(s)

-----------------------------------------------------------------------------
(* CodingTurnMailbox.                                                      *)

Enqueue(m) == items' = [items EXCEPT ![m.kind] = Append(@, m)] /\ UNCHANGED inflight

\* Mutant: drained messages are not inflight.
DrainForgets(k) == items' = [items EXCEPT ![k] = Left(@)] /\ UNCHANGED inflight

Drain(k) ==
    /\ items' = [items EXCEPT ![k] = Left(@)]
    /\ inflight' = [inflight EXCEPT ![k] = @ \o Drained(items[k])]

\* Acknowledging a message that is not inflight has no effect.
Acknowledge(m) ==
    /\ inflight' = [inflight EXCEPT ![m.kind] = Without(@, {m.n})]
    /\ UNCHANGED items

\* Mutant: restored messages go to the end of the mailbox.
RestoreBehind ==
    /\ items' = [k \in Kinds |-> items[k] \o inflight[k]]
    /\ inflight' = [k \in Kinds |-> <<>>]

RestoreUnacknowledged ==
    /\ items' = [k \in Kinds |-> inflight[k] \o items[k]]
    /\ inflight' = [k \in Kinds |-> <<>>]

Clear(k) ==
    /\ cleared' = cleared \cup Numbers(inflight[k] \o items[k])
    /\ items' = [items EXCEPT ![k] = <<>>]
    /\ inflight' = [inflight EXCEPT ![k] = <<>>]

-----------------------------------------------------------------------------
(* A sender: steer and follow_up (_queue_turn_input).                      *)

IsStreaming == run # "none"
At(s, pc) == sender' = [sender EXCEPT ![s].pc = pc]

SenderEnqueues(s, k) ==
    /\ sender[s].pc = "out" /\ ~closed /\ sent < MaxMessages
    /\ Enqueue([kind |-> k, n |-> sent + 1])
    /\ sent' = sent + 1
    /\ sender' = [sender EXCEPT ![s] = [pc |-> "check", kind |-> k, hand |-> <<>>]]
    /\ UNCHANGED <<closed, mode, queue, runVars, subscribed, turns, runs, delivered, cleared,
                   unsettled>>

\* `if not is_streaming' the sender itself flushes the mailbox.
SenderChecks(s) ==
    /\ sender[s].pc = "check"
    /\ At(s, IF IsStreaming THEN "out" ELSE "drain")
    /\ UNCHANGED <<boxVars, closed, mode, queue, runVars, subscribed, counters, delivered,
                   cleared, unsettled>>

SenderDrains(s) ==
    LET k == sender[s].kind
    IN /\ sender[s].pc = "drain"
       /\ Drain(k)
       /\ sender' = [sender EXCEPT ![s].pc = "send", ![s].hand = Drained(items[k])]
       /\ UNCHANGED <<closed, mode, queue, runVars, subscribed, counters, delivered, cleared,
                      unsettled>>

SenderSends(s) ==
    LET k == sender[s].kind
    IN /\ sender[s].pc = "send"
       /\ IF sender[s].hand = <<>>
          THEN At(s, "out") /\ UNCHANGED queue
          ELSE /\ queue' = [queue EXCEPT ![k] = Append(@, Head(sender[s].hand))]
               /\ sender' = [sender EXCEPT ![s].hand = Tail(@)]
       /\ UNCHANGED <<boxVars, closed, mode, runVars, subscribed, counters, delivered, cleared,
                      unsettled>>

\* clear_queue: the mailbox, one kind after the other, then the agent's queues.
SenderClears(s) ==
    /\ sender[s].pc = "out"
    /\ Clear("steering")
    /\ sender' = [sender EXCEPT ![s] = [pc |-> "clear", kind |-> "follow_up", hand |-> <<>>]]
    /\ UNCHANGED <<closed, mode, queue, runVars, subscribed, counters, delivered, unsettled>>

SenderClearsFollowUp(s) ==
    /\ sender[s].pc = "clear"
    /\ Clear("follow_up")
    /\ sender' = [sender EXCEPT ![s].pc = "clear_agent", ![s].kind = "steering"]
    /\ UNCHANGED <<closed, mode, queue, runVars, subscribed, counters, delivered, unsettled>>

SenderClearsAgent(s) ==
    /\ sender[s].pc = "clear_agent"
    /\ queue' = [queue EXCEPT ![sender[s].kind] = <<>>]
    /\ sender' = [sender EXCEPT ![s] =
                     IF sender[s].kind = "steering" THEN [@ EXCEPT !.kind = "follow_up"] ELSE Resting]
    /\ UNCHANGED <<boxVars, closed, mode, runVars, subscribed, counters, delivered, cleared,
                   unsettled>>

-----------------------------------------------------------------------------
(* The thread of the run.                                                  *)

RunOnly == UNCHANGED <<closed, mode, sender, subscribed, sent>>

\* A prompt, or continue_ with what the agent's queues hold, steering first.  A
\* disposed session starts no run.
RunBegins ==
    /\ run = "none" /\ subscribed /\ runs < MaxRuns /\ turns < MaxTurns
    /\ runs' = runs + 1
    /\ \/ run' = "first" /\ UNCHANGED <<queue, pending>>
       \/ /\ queue["steering"] # <<>>
          /\ pending' = Drained(queue["steering"])
          /\ queue' = [queue EXCEPT !["steering"] = Left(@)]
          /\ run' = "turn"
       \/ /\ queue["steering"] = <<>> /\ queue["follow_up"] # <<>>
          /\ pending' = Drained(queue["follow_up"])
          /\ queue' = [queue EXCEPT !["follow_up"] = Left(@)]
          /\ run' = "prompts"
    /\ RunOnly /\ UNCHANGED <<boxVars, at, hand, restored, turns, delivered, cleared, unsettled>>

\* A message is delivered: message_start acknowledges it, message_end stores it,
\* and an exception of the store ends the loop.
RunDelivers ==
    LET m == Head(pending)
    IN /\ run \in {"prompts", "turn"} /\ pending # <<>>
       /\ IF subscribed THEN Acknowledge(m) ELSE UNCHANGED boxVars
       /\ delivered' = Append(delivered, m)
       /\ \/ pending' = Tail(pending) /\ UNCHANGED run
          \/ StoreMayFail /\ subscribed /\ pending' = <<>> /\ run' = "failing"
       /\ RunOnly /\ UNCHANGED <<queue, at, hand, restored, turns, runs, cleared, unsettled>>

\* The first poll of the steering queue.
RunPollsFirst ==
    /\ run = "first" \/ (run = "prompts" /\ pending = <<>>)
    /\ pending' = Drained(queue["steering"])
    /\ queue' = [queue EXCEPT !["steering"] = Left(@)]
    /\ run' = "turn"
    /\ RunOnly
    /\ UNCHANGED <<boxVars, at, hand, restored, turns, runs, delivered, cleared, unsettled>>

\* The assistant message and its tools: the turn ends, or the run does, because
\* of an error, an abort, or an exception of the store.
RunTurn ==
    /\ run = "turn" /\ pending = <<>>
    /\ turns' = turns + 1
    /\ run' \in {"drain", "agent_end"} \cup (IF StoreMayFail /\ subscribed THEN {"failing"} ELSE {})
    /\ at' = "steering"
    /\ RunOnly
    /\ UNCHANGED <<boxVars, queue, hand, pending, restored, runs, delivered, cleared, unsettled>>

\* _prepare_next_turn flushes the mailbox, steering before follow_up.
RunDrains ==
    /\ run = "drain"
    /\ Drain(at) /\ hand' = Drained(items[at]) /\ run' = "send"
    /\ RunOnly
    /\ UNCHANGED <<queue, at, pending, restored, turns, runs, delivered, cleared, unsettled>>

RunSends ==
    /\ run = "send" /\ hand # <<>>
    /\ queue' = [queue EXCEPT ![at] = Append(@, Head(hand))]
    /\ hand' = Tail(hand)
    /\ RunOnly
    /\ UNCHANGED <<boxVars, run, at, pending, restored, turns, runs, delivered, cleared, unsettled>>

\* Both kinds are flushed: should_stop_after_turn, then the polls.
RunFlushed ==
    /\ run = "send" /\ hand = <<>>
    /\ \/ at = "steering" /\ at' = "follow_up" /\ run' = "drain"
       \/ /\ at = "follow_up" /\ UNCHANGED at
          /\ run' \in (IF turns < MaxTurns THEN {"poll", "agent_end"} ELSE {"agent_end"})
    /\ RunOnly
    /\ UNCHANGED <<boxVars, queue, hand, pending, restored, turns, runs, delivered, cleared,
                   unsettled>>

RunPolls ==
    /\ run = "poll"
    /\ pending' = Drained(queue["steering"])
    /\ queue' = [queue EXCEPT !["steering"] = Left(@)]
    /\ run' \in (IF queue["steering"] # <<>> THEN {"turn"} ELSE {"turn", "follow_up"})
    /\ RunOnly
    /\ UNCHANGED <<boxVars, at, hand, restored, turns, runs, delivered, cleared, unsettled>>

RunPollsFollowUp ==
    /\ run = "follow_up"
    /\ pending' = Drained(queue["follow_up"])
    /\ queue' = [queue EXCEPT !["follow_up"] = Left(@)]
    /\ run' = IF queue["follow_up"] # <<>> THEN "turn" ELSE "agent_end"
    /\ RunOnly
    /\ UNCHANGED <<boxVars, at, hand, restored, turns, runs, delivered, cleared, unsettled>>

\* agent_end, if the session still listens: what is inflight is restored ...
RunRestores ==
    /\ run = "agent_end"
    /\ IF subscribed /\ Both(inflight) # <<>>
       THEN /\ RestoreUnacknowledged
            /\ restored' = Numbers(Both(inflight))
            /\ run' = "remove" /\ at' = "steering"
       ELSE run' = "finish" /\ UNCHANGED <<boxVars, restored, at>>
    /\ RunOnly
    /\ UNCHANGED <<queue, hand, pending, turns, runs, delivered, cleared, unsettled>>

\* Mutant: only the steering queue is cleaned.
RunRemovesSteering ==
    /\ run = "remove"
    /\ queue' = [queue EXCEPT !["steering"] = Without(@, restored)]
    /\ restored' = {} /\ run' = "finish" /\ UNCHANGED at
    /\ RunOnly
    /\ UNCHANGED <<boxVars, hand, pending, turns, runs, delivered, cleared, unsettled>>

\* ... and removed from the agent's queues, one after the other.
RunRemoves ==
    /\ run = "remove"
    /\ queue' = [queue EXCEPT ![at] = Without(@, restored)]
    /\ IF at = "steering" THEN at' = "follow_up" /\ UNCHANGED <<run, restored>>
                          ELSE run' = "finish" /\ restored' = {} /\ UNCHANGED at
    /\ RunOnly
    /\ UNCHANGED <<boxVars, hand, pending, turns, runs, delivered, cleared, unsettled>>

\* _handle_run_failure: the failure message may fail to be stored as well, and
\* then there is no agent_end.
RunFails ==
    /\ run = "failing"
    /\ \/ run' = "agent_end" /\ UNCHANGED unsettled
       \/ StoreMayFail /\ subscribed /\ run' = "finish" /\ unsettled' = TRUE
    /\ RunOnly
    /\ UNCHANGED <<boxVars, queue, at, hand, pending, restored, turns, runs, delivered, cleared>>

\* _finish_run: is_streaming is false.
RunFinishes ==
    /\ run = "finish"
    /\ run' = "none" /\ at' = "steering" /\ pending' = <<>>
    /\ RunOnly
    /\ UNCHANGED <<boxVars, queue, hand, restored, turns, runs, delivered, cleared, unsettled>>

-----------------------------------------------------------------------------
(* The end of the session.                                                 *)

\* shutdown() closes the mailbox.
Shutdown ==
    /\ ~closed
    /\ closed' = TRUE
    /\ UNCHANGED <<boxVars, mode, queue, runVars, sender, subscribed, counters, delivered, cleared,
                   unsettled>>

\* dispose() closes it, aborts the run and stops listening to the agent.
Dispose ==
    /\ subscribed
    /\ closed' = TRUE /\ subscribed' = FALSE
    /\ UNCHANGED <<boxVars, mode, queue, runVars, sender, counters, delivered, cleared, unsettled>>

-----------------------------------------------------------------------------
Init ==
    /\ items = [k \in Kinds |-> <<>>] /\ inflight = [k \in Kinds |-> <<>>] /\ closed = FALSE
    /\ mode \in {"all", "one-at-a-time"} /\ queue = [k \in Kinds |-> <<>>]
    /\ run = "none" /\ at = "steering" /\ hand = <<>> /\ pending = <<>> /\ restored = {}
    /\ sender = [s \in Senders |-> Resting]
    /\ subscribed = TRUE
    /\ sent = 0 /\ turns = 0 /\ runs = 0
    /\ delivered = <<>> /\ cleared = {} /\ crossed = FALSE /\ unsettled = FALSE

\* A sender holds messages, or is clearing, while another thread moves some.
Holds(s) == sender[s].hand # <<>>
Clears(s) == sender[s].pc \in {"clear", "clear_agent"}
Overlap ==
    \/ \E s \in Senders : (Holds(s) \/ Clears(s)) /\ IsStreaming
    \/ \E s, t \in Senders : s # t /\ Holds(s) /\ (Holds(t) \/ Clears(t))

SenderStep(s) ==
    \/ \E k \in Kinds : SenderEnqueues(s, k)
    \/ SenderChecks(s) \/ SenderDrains(s) \/ SenderSends(s)
    \/ SenderClears(s) \/ SenderClearsFollowUp(s) \/ SenderClearsAgent(s)

RunStep ==
    \/ RunBegins \/ RunDelivers \/ RunPollsFirst \/ RunTurn \/ RunDrains \/ RunSends
    \/ RunFlushed \/ RunPolls \/ RunPollsFollowUp \/ RunRestores \/ RunRemoves \/ RunFails
    \/ RunFinishes

Next ==
    /\ (\E s \in Senders : SenderStep(s)) \/ RunStep \/ Shutdown \/ Dispose
    /\ crossed' = (crossed \/ Overlap')

Spec == Init /\ [][Next]_vars

-----------------------------------------------------------------------------
TypeOK ==
    /\ items \in [Kinds -> Seq(Message)] /\ inflight \in [Kinds -> Seq(Message)]
    /\ closed \in BOOLEAN
    /\ mode \in {"all", "one-at-a-time"} /\ queue \in [Kinds -> Seq(Message)]
    /\ run \in {"none", "prompts", "first", "turn", "drain", "send", "poll", "follow_up",
                "agent_end", "remove", "failing", "finish"}
    /\ at \in Kinds /\ hand \in Seq(Message) /\ pending \in Seq(Message)
    /\ restored \in SUBSET (1..MaxMessages)
    /\ sender \in [Senders -> [pc : {"out", "check", "drain", "send", "clear", "clear_agent"},
                               kind : Kinds, hand : Seq(Message)]]
    /\ subscribed \in BOOLEAN
    /\ sent \in 0..MaxMessages /\ turns \in 0..MaxTurns /\ runs \in 0..MaxRuns
    /\ delivered \in Seq(Message) /\ cleared \in SUBSET (1..MaxMessages)
    /\ crossed \in BOOLEAN /\ unsettled \in BOOLEAN

InMailbox == Numbers(Both(items) \o Both(inflight))
OnTheWay == Numbers(Both(queue) \o pending \o hand)
            \cup UNION {Numbers(sender[s].hand) : s \in Senders}

\* A message that was sent is in the mailbox, where the user sees it, until it is
\* delivered or cleared: whatever the threads do, and whatever fails.
NothingLost == 1..sent = InMailbox \cup Numbers(delivered) \cup cleared

\* The mailbox knows what the agent has: a message is inflight exactly while it is
\* on its way through the agent's queues, as long as no two threads move messages
\* at once and every run reports its end (and is not just doing so).
InflightOnTheWay ==
    ~crossed /\ ~unsettled /\ subscribed /\ run \notin {"failing", "agent_end", "remove"} =>
        Numbers(Both(inflight)) = OnTheWay \ cleared

\* Then a message is delivered once, and messages of a kind in the order sent.
InOrder ==
    ~crossed /\ ~unsettled =>
        \A i, j \in DOMAIN delivered :
            i < j /\ delivered[i].kind = delivered[j].kind => delivered[i].n < delivered[j].n

\* The mailbox is sound: its variables have their types, and what it holds as inflight is what
\* is on its way to the conversation.
InflightSound ==
    /\ TypeOK
    /\ InflightOnTheWay
=============================================================================

------------------------ MODULE MessageTranslation ------------------------
(***************************************************************************)
(* What a provider is sent for a conversation                              *)
(* (ai/providers/message_translation.py): a pure function on sequences of  *)
(* messages, used by every transport.                                      *)
(*                                                                         *)
(* A message has a role, a kind (the stop reason of an assistant message)  *)
(* and a number: how many calls an assistant message makes, and which of   *)
(* them a tool result answers.  Images, thinking blocks, signatures and    *)
(* the spelling of call identifiers are left out; each transport maps an   *)
(* identifier in a call and in its result alike.                           *)
(***************************************************************************)
EXTENDS Naturals, Sequences

Failed(m) == m.role = "assistant" /\ m.kind \in {"error", "aborted"}

\* _append_missing_tool_results: "No result provided" for each of the pending
\* calls that has not been answered, in their order.
NoResult(call) == [role |-> "toolResult", kind |-> "missing", n |-> call]
NoResults(pending, answered) ==
    LET added[i \in 0..pending] ==
            IF i = 0 THEN <<>>
            ELSE IF i \in answered THEN added[i - 1] ELSE Append(added[i - 1], NoResult(i))
    IN  added[pending]
WithMissing(state) ==
    [result |-> state.result \o NoResults(state.pending, state.answered),
     pending |-> 0, answered |-> {}]

\* _drop_unanswered_user_messages: what is left when the user messages at the end are gone.
WithoutUnanswered(s) ==
    LET cuts == {k \in 0..Len(s) : \A i \in (k + 1)..Len(s) : s[i].role = "user"}
    IN  SubSeq(s, 1, CHOOSE k \in cuts : \A j \in cuts : k <= j)

\* Mutant: the failed message is skipped before the open calls are answered.
RepairSkipsFirst(state, m) ==
    IF Failed(m) THEN [state EXCEPT !.result = WithoutUnanswered(@), !.pending = 0]
    ELSE IF m.role = "toolResult"
    THEN [state EXCEPT !.result = Append(@, m), !.answered = @ \cup {m.n}]
    ELSE LET s == WithMissing(state)
         IN  [s EXCEPT !.result = Append(@, m), !.pending = IF m.role = "assistant" THEN m.n ELSE 0]

\* One message of _repair_tool_result_history.
RepairStep(state, m) ==
    LET closed == WithMissing(state)
    IN  CASE m.role = "toolResult" ->
               [state EXCEPT !.result = Append(@, m), !.answered = @ \cup {m.n}]
          [] m.role = "user" ->
               [closed EXCEPT !.result = Append(@, m)]
          [] Failed(m) ->
               [closed EXCEPT !.result = WithoutUnanswered(@)]
          [] OTHER ->
               [closed EXCEPT !.result = Append(@, m), !.pending = m.n]

\* _transform_messages, _repair_tool_result_history
Repaired(messages) ==
    LET state[i \in 0..Len(messages)] ==
            IF i = 0 THEN [result |-> <<>>, pending |-> 0, answered |-> {}]
            ELSE RepairStep(state[i - 1], messages[i])
    IN  WithMissing(state[Len(messages)]).result
=============================================================================

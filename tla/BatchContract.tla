---------------------------- MODULE BatchContract ----------------------------
(***************************************************************************)
(* What the execution of a message's tool calls promises to the turn loop  *)
(* (_execute_tool_calls and _fail_tool_calls_from_truncated_message in     *)
(* travis/agent/agent_loop.py): the calls are answered one after the other *)
(* in the order of the message; the batch returns when all are answered,   *)
(* or, aborted, after at least one; or it raises.                          *)
(***************************************************************************)
EXTENDS Naturals

CONSTANT N            \* number of tool calls in the message

VARIABLES answered,   \* how many calls have their result message
          status,     \* "open", "returned" or "raised"
          aborted     \* signal.aborted

vars == <<answered, status, aborted>>

Init == answered = 0 /\ status = "open" /\ aborted \in BOOLEAN

Answer ==
    /\ status = "open" /\ answered < N
    /\ answered' = answered + 1
    /\ UNCHANGED <<status, aborted>>

Return ==
    /\ status = "open"
    /\ answered = N \/ (aborted /\ answered > 0)
    /\ status' = "returned"
    /\ UNCHANGED <<answered, aborted>>

Raise ==
    /\ status = "open"
    /\ status' = "raised"
    /\ UNCHANGED <<answered, aborted>>

Abort ==
    /\ status = "open" /\ ~aborted
    /\ aborted' = TRUE
    /\ UNCHANGED <<answered, status>>

Next == Answer \/ Return \/ Raise \/ Abort

Spec == Init /\ [][Next]_vars
=============================================================================

-------------------------- MODULE OperationJournal --------------------------
(***************************************************************************)
(* travis/coding_agent/operations: the journal of what sessions did to the *)
(* world, in one SQLite database that several processes share, with        *)
(* session_operations.py and session_policy_controller.py, which write it. *)
(*                                                                         *)
(* A turn is an operation.  Each call of a provider or a tool in it is an  *)
(* effect: its intent is committed before the call and settled after it.   *)
(* A process that starts looks for intents of runtimes that are gone and   *)
(* marks them uncertain.  A journal that fails is switched off for its     *)
(* session and never holds up the turn.                                    *)
(*                                                                         *)
(* A step is one transaction of the store, or one decision between two.    *)
(* OperationCoordinator's lock makes each of its methods one step towards  *)
(* the threads of its own process, but complete() is several transactions. *)
(*                                                                         *)
(* Abstractions: one session per runtime; the state of an effect and its   *)
(* outcome code are one value ("ended" is failed/operation_ended);         *)
(* registers, the program counter and the usage ledger are left out, but   *)
(* the failure of their writes is not; a loaded lease is at most 60 s old  *)
(* or it is not, since a process that runs may be late with its heartbeat. *)
(***************************************************************************)
EXTENDS Naturals, FiniteSets

CONSTANTS
    Runtimes,       \* processes, each with its runtime_id; none comes back
    Active,         \* bound: the ones that do more than start and recover
    MaxOperations,  \* bound: operations in one behaviour
    MaxEffects,     \* bound: effects in one behaviour
    MaxRows,        \* bound: operations and effects together
    MaxFailures,    \* bound: runtimes that have a transaction raise of itself
    LookupMayFail   \* whether psutil may be unable to look at a process

ASSUME JournalAssumption ==
    /\ Active \subseteq Runtimes
    /\ MaxOperations \in Nat /\ MaxEffects \in Nat /\ MaxRows \in Nat /\ MaxFailures \in Nat
    /\ LookupMayFail \in BOOLEAN

VARIABLES
    \* the database
    lease,      \* runtime_leases: "none", "open", "closed"
    op,         \* operations: the runtime and the state of each
    eff,        \* effects: the state of each
    \* each process
    place,      \* where its main thread is; "gone" after a crash or an exit
    found,      \* recovery: the rows of the leases it loaded
    stale,      \* recovery: the runtimes it takes for lost
    report,     \* recovery: the effects counted in its RecoveryReport
    enabled,    \* its coordinator: _enabled and not _closed
    current,    \* its coordinator: _operation_id, 0 for None
    tracked,    \* its coordinator: _effects
    remaining,  \* complete(): the effects still to be settled
    outcome,    \* complete(): the outcome code
    closing,    \* close() has been called
    beating,    \* the heartbeat thread runs
    \* the world, and the calls still to be made
    world,      \* each effect: its runtime, operation and kind, and how far it really is
    owed,       \* effects whose thread has yet to call settle_effect
    following,  \* providers whose thread has yet to call advance after it
    \* history
    recovered,  \* runtimes found closed by a recovery that did its work
    writeFailed \* runtimes that had a transaction raise

dbVars == <<lease, op, eff>>
recoveryVars == <<found, stale, report, recovered>>
coordinatorVars == <<enabled, current, tracked, remaining, outcome>>
runtimeVars == <<closing, beating>>
worldVars == <<world, owed, following>>
vars == <<dbVars, place, recoveryVars, coordinatorVars, runtimeVars, worldVars, writeFailed>>

Operations == 1..MaxOperations
Effects == 1..MaxEffects
NoOperation == [runtime |-> "none", state |-> "none"]
NoEffect == [runtime |-> "none", op |-> 0, kind |-> "none", is |-> "none"]
Settled == {"settled", "failed", "cancelled"}        \* _TERMINAL_OPERATION_STATES
Outcomes == {"ok", "error", "cancelled"}

Alive(r) == place[r] \notin {"new", "gone"}
Owner(e) == world[e].runtime
\* Whether the bound leaves room for one more row.
Room == Cardinality({o \in Operations : op[o] # NoOperation})
            + Cardinality({e \in Effects : world[e] # NoEffect}) < MaxRows
\* The rows get their numbers in turn.
IsNextOperation(o) == op[o] = NoOperation /\ \A p \in 1..(o - 1) : op[p] # NoOperation
IsNextEffect(e) == world[e] = NoEffect /\ \A f \in 1..(e - 1) : world[f] # NoEffect
Intents == {e \in Effects : eff[e] = "intent"}

\* _settlement_state, as the state of an operation and that of an effect.
SettlementState(code) ==
    CASE code = "ok" -> "settled" [] code = "error" -> "failed" [] code = "cancelled" -> "cancelled"

\* A transaction commits and returns; or raises before it commits; or raises after
\* it, in secure_sqlite_files.
StoreMayFail(r) == Cardinality(writeFailed \cup {r}) <= MaxFailures
Transactions(r) == IF StoreMayFail(r) THEN {"done", "refused", "unsure"} ELSE {"done"}
Commits(t) == t \in {"done", "unsure"}
Raises(t) == t \in {"refused", "unsure"}
NoteFailure(r, t) == writeFailed' = IF Raises(t) THEN writeFailed \cup {r} ELSE writeFailed

-----------------------------------------------------------------------------
(* OperationRuntime: the lease, and recovery when it starts.               *)

\* (One that only recovers may as well wait until there is something to recover.)
RuntimeOpens(r) ==
    /\ place[r] = "new" /\ (r \in Active \/ Intents # {})
    /\ place' = [place EXCEPT ![r] = "loading"]
    /\ lease' = [lease EXCEPT ![r] = "open"]
    /\ beating' = [beating EXCEPT ![r] = TRUE]
    /\ UNCHANGED <<op, eff, recoveryVars, coordinatorVars, closing, worldVars, writeFailed>>

\* The rows of these runtimes' leases: closed, or with a heartbeat in the last 60 s, or
\* with none (a process that runs may be late with it).
Rows(S) ==
    {f \in [S -> {"closed", "fresh", "late"}] :
        \A q \in S : /\ f[q] = "closed" <=> lease[q] = "closed"
                     /\ f[q] = "late" => LookupMayFail}

\* load_recovery_leases: the leases of runtimes with an intent, but for its own.
RecoveryLoads(r) ==
    /\ place[r] = "loading"
    /\ \E rows \in Rows({Owner(e) : e \in Intents} \ {r}) : found' = [found EXCEPT ![r] = rows]
    /\ place' = [place EXCEPT ![r] = "judging"]
    /\ UNCHANGED <<dbVars, stale, report, coordinatorVars, runtimeVars, worldVars, recovered,
                   writeFailed>>

\* Mutant: a process that cannot be looked at is taken for lost.
LostUnlessSeen(r, q) ==
    IF found[r][q] = "closed" \/ ~Alive(q) THEN {FALSE}
    ELSE IF LookupMayFail THEN {TRUE, FALSE} ELSE {TRUE}

\* _runtime_is_live: by the row that was loaded and the process as it is now; by the
\* heartbeat if it cannot be looked at.
RuntimeIsLive(r, q) ==
    IF found[r][q] = "closed" THEN {FALSE}
    ELSE {Alive(q)} \cup (IF LookupMayFail THEN {found[r][q] = "fresh"} ELSE {})

\* The rows of the runtimes that live are not looked at again.
RecoveryJudges(r) ==
    /\ place[r] = "judging"
    /\ \E S \in SUBSET DOMAIN found[r] :
          /\ \A q \in DOMAIN found[r] : (q \notin S) \in RuntimeIsLive(r, q)
          /\ stale' = [stale EXCEPT ![r] = S]
          /\ found' = [found EXCEPT ![r] = [q \in S |-> @[q]]]
    /\ place' = [place EXCEPT ![r] = "claiming"]
    /\ UNCHANGED <<dbVars, report, coordinatorVars, runtimeVars, worldVars, recovered,
                   writeFailed>>

\* Mutant: what is no longer an intent is marked as well.
ClaimedWhateverState(r) ==
    {e \in Effects : eff[e] \notin {"none", "pruned"} /\ Owner(e) \in stale[r]}

\* claim_uncertain_runtimes: the intents of these runtimes ...
Claimed(r) == {e \in Intents : Owner(e) \in stale[r]}

\* ... become uncertain, and so do their running operations.
RecoveryClaims(r) ==
    /\ place[r] = "claiming"
    /\ \E t \in Transactions(r) :
          /\ IF Commits(t)
             THEN /\ eff' = [e \in Effects |-> IF e \in Claimed(r) THEN "uncertain" ELSE eff[e]]
                  /\ op' = [o \in Operations |->
                               IF /\ op[o].state = "running" /\ op[o].runtime \in stale[r]
                                  /\ \E e \in Effects : world[e].op = o /\ eff'[e] = "uncertain"
                               THEN [op[o] EXCEPT !.state = "uncertain"] ELSE op[o]]
             ELSE UNCHANGED <<eff, op>>
          /\ report' = [report EXCEPT ![r] = IF Raises(t) THEN {} ELSE Claimed(r)]
          /\ recovered' = IF Raises(t) THEN recovered
                          ELSE recovered \cup {q \in stale[r] : found[r][q] = "closed"}
          /\ NoteFailure(r, t)
    /\ place' = [place EXCEPT ![r] = "idle"]
    /\ found' = [found EXCEPT ![r] = <<>>] /\ stale' = [stale EXCEPT ![r] = {}]
    /\ enabled' = [enabled EXCEPT ![r] = beating[r]]
    /\ UNCHANGED <<lease, current, tracked, remaining, outcome, runtimeVars, worldVars>>

\* A heartbeat that fails ends the thread and switches the coordinator off.  (In a turn it
\* does what AdvanceFails does, and the thread is of no use then.)
HeartbeatFails(r) ==
    /\ StoreMayFail(r) /\ Alive(r) /\ r \in Active /\ beating[r]
    /\ place[r] \in {"loading", "judging", "claiming", "idle"}
    /\ beating' = [beating EXCEPT ![r] = FALSE]
    /\ enabled' = [enabled EXCEPT ![r] = FALSE]
    /\ NoteFailure(r, "refused")
    /\ UNCHANGED <<dbVars, place, recoveryVars, current, tracked, remaining, outcome, closing,
                   worldVars>>

-----------------------------------------------------------------------------
(* OperationCoordinator, as the session calls it.                          *)

Disable(r) == enabled' = [enabled EXCEPT ![r] = FALSE]

\* _operation_start_turn: start().  With the journal off a turn writes nothing.
TurnStarts(r) ==
    /\ place[r] = "idle" /\ r \in Active /\ enabled[r] /\ Room
    /\ place' = [place EXCEPT ![r] = "turn"]
    /\ \E o \in Operations, t \in Transactions(r) :
          /\ IsNextOperation(o)
          /\ op' = IF Commits(t)
                   THEN [op EXCEPT ![o] = [runtime |-> r, state |-> "running"]] ELSE op
          /\ IF Raises(t) THEN Disable(r) /\ UNCHANGED current
             ELSE current' = [current EXCEPT ![r] = o] /\ UNCHANGED enabled
          /\ NoteFailure(r, t)
    /\ UNCHANGED <<lease, eff, recoveryVars, tracked, remaining, outcome, runtimeVars, worldVars>>

\* _operation_invoke_provider and _journal_tool_intent: begin_effect(), then the call,
\* whether or not the intent was written.
EffectBegins(r, k) ==
    \E e \in Effects :
       /\ place[r] = "turn" /\ enabled[r] /\ Room /\ IsNextEffect(e)
       /\ world' = [world EXCEPT ![e] = [runtime |-> r, op |-> current[r], kind |-> k,
                                         is |-> "running"]]
       /\ \E t \in IF op[current[r]].state = "running" THEN Transactions(r) ELSE {"refused"} :
             /\ eff' = IF Commits(t) THEN [eff EXCEPT ![e] = "intent"] ELSE eff
             /\ IF Raises(t) THEN Disable(r) /\ UNCHANGED <<tracked, owed>>
                ELSE /\ tracked' = [tracked EXCEPT ![r] = @ \cup {e}]
                     /\ owed' = owed \cup {e} /\ UNCHANGED enabled
             /\ NoteFailure(r, t)
       /\ UNCHANGED <<lease, op, place, recoveryVars, current, remaining, outcome, runtimeVars,
                      following>>

\* The call returns, in a process that is still there, and settle_effect() follows: for
\* a tool in the turn (_after_tool_call), for a provider in the thread that forwards its
\* stream, whenever that is.  An unknown handle raises OperationCoordinatorOrderError,
\* and the caller switches the journal off.
EffectSettles(e, result) ==
    LET r == Owner(e)
        new == SettlementState(result)
    IN /\ e \in owed /\ Alive(r) /\ place[r] # "completing"
       /\ world[e].kind = "tool" => place[r] = "turn" /\ current[r] = world[e].op
       /\ world' = [world EXCEPT ![e].is = result]
       /\ owed' = owed \ {e}
       /\ following' = IF world[e].kind = "provider" THEN following \cup {e} ELSE following
       /\ IF ~enabled[r] THEN UNCHANGED <<eff, enabled, tracked, writeFailed>>
          ELSE IF current[r] # world[e].op \/ e \notin tracked[r]
          THEN Disable(r) /\ UNCHANGED <<eff, tracked, writeFailed>>
          ELSE \E t \in IF eff[e] \in {"intent", new} THEN Transactions(r) ELSE {"refused"} :
                  /\ eff' = IF Commits(t) THEN [eff EXCEPT ![e] = new] ELSE eff
                  /\ IF Raises(t) THEN Disable(r) /\ UNCHANGED tracked
                     ELSE tracked' = [tracked EXCEPT ![r] = @ \ {e}] /\ UNCHANGED enabled
                  /\ NoteFailure(r, t)
       /\ UNCHANGED <<lease, op, place, recoveryVars, current, remaining, outcome, runtimeVars>>

\* ... and then advance("provider_settled"), in a step of its own: the turn may be over.
ProviderAdvances(e) ==
    LET r == Owner(e)
    IN /\ e \in following /\ Alive(r) /\ place[r] # "completing"
       /\ following' = following \ {e}
       /\ enabled' = [enabled EXCEPT ![r] = @ /\ current[r] # 0]
       /\ UNCHANGED <<dbVars, place, recoveryVars, current, tracked, remaining, outcome,
                      runtimeVars, world, owed, writeFailed>>

\* advance() and record_usage(), when they fail: the store raises, or the operation is
\* no longer running.
AdvanceFails(r) ==
    /\ place[r] = "turn" /\ enabled[r]
    /\ StoreMayFail(r) \/ op[current[r]].state # "running"
    /\ Disable(r) /\ NoteFailure(r, "refused")
    /\ UNCHANGED <<dbVars, place, recoveryVars, current, tracked, remaining, outcome, runtimeVars,
                   worldVars>>

\* _operation_finish_turn: complete(), with the outcome of the last assistant message.
\* An abort leaves effects behind: a tool that was announced and not executed, a
\* provider whose stream nobody reads any more.
TurnFinishes(r, code) ==
    /\ place[r] = "turn"
    /\ IF enabled[r]
       THEN /\ place' = [place EXCEPT ![r] = "completing"]
            /\ remaining' = [remaining EXCEPT ![r] = tracked[r]]
            /\ outcome' = [outcome EXCEPT ![r] = code]
       ELSE place' = [place EXCEPT ![r] = "idle"] /\ UNCHANGED <<remaining, outcome>>
    /\ UNCHANGED <<dbVars, recoveryVars, enabled, current, tracked, runtimeVars, worldVars,
                   writeFailed>>

\* Where the thread goes when complete() returns.
After(r) == IF closing[r] THEN "closing" ELSE "idle"

\* Mutant: what is open is settled with the operation's own outcome.
LeftoverByOutcome(r) == SettlementState(outcome[r])

\* The state that complete() gives an effect that was not settled.
LeftoverState(r) == IF outcome[r] = "cancelled" THEN "cancelled" ELSE "ended"

CompleteSettlesEffect(r, e) ==
    LET new == LeftoverState(r)
    IN /\ place[r] = "completing" /\ enabled[r] /\ e \in remaining[r]
       /\ \E t \in IF eff[e] \in {"intent", new} THEN Transactions(r) ELSE {"refused"} :
             /\ eff' = IF Commits(t) THEN [eff EXCEPT ![e] = new] ELSE eff
             /\ IF Raises(t)
                THEN /\ Disable(r) /\ place' = [place EXCEPT ![r] = After(r)]
                     /\ remaining' = [remaining EXCEPT ![r] = {}]
                     /\ outcome' = [outcome EXCEPT ![r] = "ok"]
                ELSE /\ remaining' = [remaining EXCEPT ![r] = @ \ {e}]
                     /\ UNCHANGED <<enabled, place, outcome>>
             /\ NoteFailure(r, t)
       /\ UNCHANGED <<lease, op, recoveryVars, current, tracked, runtimeVars, worldVars>>

\* Mutant: the operation is settled first.
CompleteSettlesAtOnce(r) ==
    /\ place[r] = "completing" /\ enabled[r] /\ op[current[r]].state = "running"
    /\ op' = [op EXCEPT ![current[r]].state = SettlementState(outcome[r])]
    /\ UNCHANGED <<lease, eff, place, recoveryVars, coordinatorVars, runtimeVars, worldVars,
                   writeFailed>>

CompleteSettlesOperation(r) ==
    LET new == SettlementState(outcome[r])
    IN /\ place[r] = "completing" /\ enabled[r] /\ remaining[r] = {}
       /\ \E t \in IF op[current[r]].state = "running" THEN Transactions(r) ELSE {"refused"} :
             /\ op' = IF Commits(t) THEN [op EXCEPT ![current[r]].state = new] ELSE op
             /\ IF Raises(t) THEN Disable(r) /\ UNCHANGED <<tracked, current>>
                ELSE /\ tracked' = [tracked EXCEPT ![r] = {}]
                     /\ current' = [current EXCEPT ![r] = 0] /\ UNCHANGED enabled
             /\ NoteFailure(r, t)
       /\ place' = [place EXCEPT ![r] = After(r)]
       /\ outcome' = [outcome EXCEPT ![r] = "ok"]
       /\ UNCHANGED <<lease, eff, recoveryVars, remaining, runtimeVars, worldVars>>

-----------------------------------------------------------------------------
(* The end of a process, and pruning.                                      *)

\* OperationRuntime.close: the heartbeat ends, the coordinator cancels what it has ...
RuntimeCloses(r) ==
    /\ place[r] \in {"idle", "turn"} /\ r \in Active /\ ~closing[r]
    /\ closing' = [closing EXCEPT ![r] = TRUE]
    /\ beating' = [beating EXCEPT ![r] = FALSE]
    /\ IF enabled[r] /\ current[r] # 0
       THEN /\ place' = [place EXCEPT ![r] = "completing"]
            /\ remaining' = [remaining EXCEPT ![r] = tracked[r]]
            /\ outcome' = [outcome EXCEPT ![r] = "cancelled"]
       ELSE place' = [place EXCEPT ![r] = "closing"] /\ UNCHANGED <<remaining, outcome>>
    /\ UNCHANGED <<dbVars, recoveryVars, enabled, current, tracked, worldVars, writeFailed>>

\* Mutant: the lease is closed while turns are still taken.
LeaseClosesEarly(r) ==
    /\ place[r] \in {"idle", "closing"} /\ lease[r] = "open"
    /\ lease' = [lease EXCEPT ![r] = "closed"]
    /\ UNCHANGED <<op, eff, place, recoveryVars, coordinatorVars, runtimeVars, worldVars,
                   writeFailed>>

\* ... and is closed, and then the lease, whose failure is ignored.
LeaseCloses(r) ==
    /\ place[r] = "closing"
    /\ place' = [place EXCEPT ![r] = "closed"]
    /\ Disable(r)
    /\ \E t \in Transactions(r) :
          /\ lease' = IF Commits(t) THEN [lease EXCEPT ![r] = "closed"] ELSE lease
          /\ NoteFailure(r, t)
    /\ UNCHANGED <<op, eff, recoveryVars, current, tracked, remaining, outcome, runtimeVars,
                   worldVars>>

\* A process crashes or exits, at any moment; its threads and its memory go with it.
\* (One that only recovers and crashes is like one that goes no further.)
Gone(r) ==
    /\ Alive(r) /\ r \in Active
    /\ place' = [place EXCEPT ![r] = "gone"]
    /\ found' = [found EXCEPT ![r] = <<>>] /\ stale' = [stale EXCEPT ![r] = {}]
    /\ enabled' = [enabled EXCEPT ![r] = FALSE] /\ current' = [current EXCEPT ![r] = 0]
    /\ tracked' = [tracked EXCEPT ![r] = {}] /\ remaining' = [remaining EXCEPT ![r] = {}]
    /\ outcome' = [outcome EXCEPT ![r] = "ok"]
    /\ closing' = [closing EXCEPT ![r] = FALSE] /\ beating' = [beating EXCEPT ![r] = FALSE]
    /\ owed' = {e \in owed : Owner(e) # r} /\ following' = {e \in following : Owner(e) # r}
    /\ UNCHANGED <<dbVars, report, recovered, world, writeFailed>>

\* prune_settled_before: a settled operation goes, and its effects with it.
Prune(o) ==
    /\ op[o].state \in Settled
    /\ op' = [op EXCEPT ![o].state = "pruned"]
    /\ eff' = [e \in Effects |-> IF world[e].op = o /\ eff[e] # "none" THEN "pruned" ELSE eff[e]]
    /\ UNCHANGED <<lease, place, recoveryVars, coordinatorVars, runtimeVars, worldVars,
                   writeFailed>>

-----------------------------------------------------------------------------
Init ==
    /\ lease = [r \in Runtimes |-> "none"]
    /\ op = [o \in Operations |-> NoOperation] /\ eff = [e \in Effects |-> "none"]
    /\ place = [r \in Runtimes |-> "new"]
    /\ found = [r \in Runtimes |-> <<>>] /\ stale = [r \in Runtimes |-> {}]
    /\ report = [r \in Runtimes |-> {}]
    /\ enabled = [r \in Runtimes |-> FALSE] /\ current = [r \in Runtimes |-> 0]
    /\ tracked = [r \in Runtimes |-> {}] /\ remaining = [r \in Runtimes |-> {}]
    /\ outcome = [r \in Runtimes |-> "ok"]
    /\ closing = [r \in Runtimes |-> FALSE] /\ beating = [r \in Runtimes |-> FALSE]
    /\ world = [e \in Effects |-> NoEffect] /\ owed = {} /\ following = {}
    /\ recovered = {} /\ writeFailed = {}

RuntimeStep(r) ==
    \/ RuntimeOpens(r) \/ RecoveryLoads(r) \/ RecoveryJudges(r) \/ RecoveryClaims(r)
    \/ HeartbeatFails(r)
    \/ TurnStarts(r) \/ AdvanceFails(r)
    \/ \E k \in {"provider", "tool"} : EffectBegins(r, k)
    \/ \E code \in Outcomes : TurnFinishes(r, code)
    \/ \E e \in Effects : CompleteSettlesEffect(r, e)
    \/ CompleteSettlesOperation(r)
    \/ RuntimeCloses(r) \/ LeaseCloses(r) \/ Gone(r)

Next ==
    \/ \E r \in Runtimes : RuntimeStep(r)
    \/ \E e \in Effects : ProviderAdvances(e) \/ \E result \in Outcomes : EffectSettles(e, result)
    \/ \E o \in Operations : Prune(o)

Spec == Init /\ [][Next]_vars

-----------------------------------------------------------------------------
Places == {"new", "loading", "judging", "claiming", "idle", "turn", "completing", "closing",
           "closed", "gone"}
TypeOK ==
    /\ lease \in [Runtimes -> {"none", "open", "closed"}]
    /\ op \in [Operations -> [runtime : Runtimes \cup {"none"},
                              state : Settled \cup {"none", "running", "uncertain", "pruned"}]]
    /\ eff \in [Effects -> Settled \cup {"none", "intent", "ended", "uncertain", "pruned"}]
    /\ place \in [Runtimes -> Places]
    /\ \A r \in Runtimes : DOMAIN found[r] \subseteq Runtimes
    /\ stale \in [Runtimes -> SUBSET Runtimes] /\ report \in [Runtimes -> SUBSET Effects]
    /\ enabled \in [Runtimes -> BOOLEAN] /\ current \in [Runtimes -> Operations \cup {0}]
    /\ tracked \in [Runtimes -> SUBSET Effects] /\ remaining \in [Runtimes -> SUBSET Effects]
    /\ outcome \in [Runtimes -> Outcomes]
    /\ closing \in [Runtimes -> BOOLEAN] /\ beating \in [Runtimes -> BOOLEAN]
    /\ world \in [Effects -> [runtime : Runtimes \cup {"none"}, op : Operations \cup {0},
                              kind : {"none", "provider", "tool"},
                              is : {"none", "running"} \cup Outcomes]]
    /\ owed \in SUBSET Effects /\ following \in SUBSET Effects
    /\ recovered \in SUBSET Runtimes /\ writeFailed \in SUBSET Runtimes

\* The journal never says that a call succeeded which did not: settled means that the
\* provider or the tool returned, whatever crashed, raced or failed meanwhile.
SuccessHappened == \A e \in Effects : eff[e] = "settled" => world[e].is = "ok"

\* An operation that has its outcome has no effect without one: complete() settles the
\* effects first, in transactions of their own, and only a session that tracked all of
\* them gets to settle the operation.
SettledWithEffects ==
    \A o \in Operations : op[o].state \in Settled =>
        \A e \in Effects : world[e].op = o => eff[e] \notin {"intent", "uncertain"}

\* A call that a session makes with its journal on was announced: a crash at any moment
\* leaves an intent or an outcome behind.
IntentFirst ==
    \A e \in Effects : world[e].is # "none" /\ enabled[Owner(e)] /\ world[e].op # 0
                           => eff[e] # "none"

\* An outcome stands, and so does uncertainty: no late settlement, second recovery or
\* repeated complete() changes it (rows may be pruned).
OutcomesStand ==
    [][\A e \in Effects : eff[e] \notin {"none", "intent"} => eff'[e] \in {eff[e], "pruned"}]_eff

\* Recovery leaves alone what a live runtime is doing ("Recovery must not mark effects
\* owned by a live runtime uncertain"), unless the process could not be looked at and
\* had not beaten for a minute.
OnlyTheLost ==
    [][\A r \in Runtimes : \A e \in Claimed(r) :
          RecoveryClaims(r) /\ Alive(Owner(e)) =>
              found[r][Owner(e)] \in {"closed", "late"}]_vars

\* Of two processes that start at once, one reports an uncertain effect, not both.
ReportedOnce ==
    \A q, r \in Runtimes : q # r => report[q] \cap report[r] = {}

\* A recovery that succeeds is final: a runtime that it found closed has no intent then
\* or ever after, so that nothing of it stays an intent that nobody looks at.
RecoveryIsFinal == \A e \in Intents : Owner(e) \notin recovered

\* The journal is sound: its rows have their types, no outcome stands over an open effect, no
\* call goes unannounced, and no uncertain effect is reported twice.
JournalSound ==
    /\ TypeOK
    /\ SettledWithEffects
    /\ IntentFirst
    /\ ReportedOnce
=============================================================================

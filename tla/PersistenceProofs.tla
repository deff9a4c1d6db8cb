------------------------- MODULE PersistenceProofs --------------------------
(***************************************************************************)
(* Proofs about what is on disk: the operation journal (OperationJournal)  *)
(* and the session file (SessionStore).  The two share no state; the       *)
(* journal comes first.                                                    *)
(*                                                                         *)
(* The journal, for any number of processes, operations, effects and       *)
(* failures of the store.  None of its properties is inductive by itself.  *)
(* That an outcome never stands over an open effect depends on what the    *)
(* coordinator tracks (Tracking), and that on which operation a turn is at *)
(* (Turns) and on who made each call (Known); that a claim is final        *)
(* depends on what a process that is closed or gone can still do (Leases). *)
(* The steps that write the database are first restated without the        *)
(* transactions they consist of (the Moves); each part of the invariant is *)
(* then shown to be kept by each of the fourteen kinds of step.            *)
(*                                                                         *)
(* The session file, for any number of instances, records and faults.      *)
(* What a reader makes of an arbitrary file is hard to say, what it makes  *)
(* of a file of records is not (Laid): all of it, but half a record at the *)
(* end.  So the properties, which speak of Entries(file), are derived from *)
(* an invariant that speaks of the file itself.  Its first two parts hold  *)
(* always: what an append in progress knows of the file (Shape), and where *)
(* a caller's selection is (Wishes).  The third, that the file is one of   *)
(* records, of which each instance has read the first few (Readable),      *)
(* holds until a write is cut between a record and its newline; the last,  *)
(* that each record continues the one before it (Sequel), holds besides    *)
(* until somebody selects a parent or an instance is stranded.             *)
(***************************************************************************)
EXTENDS OperationJournal, SessionStore, TLAPS, WellFoundedInduction

-----------------------------------------------------------------------------
(* The operation journal: its types and its invariant.                     *)

\* The types of the rows and of the calls.
OpRows == [Operations -> [runtime : Runtimes \cup {"none"},
                          state : Settled \cup {"none", "running", "uncertain", "pruned"}]]
EffectRows == [Effects -> Settled \cup {"none", "intent", "ended", "uncertain", "pruned"}]
Calls == [Effects -> [runtime : Runtimes \cup {"none"}, op : Operations \cup {0},
                      kind : {"none", "provider", "tool"},
                      is : {"none", "running"} \cup Outcomes]]

\* A process that has not got to its first turn.
Starting == {"new", "loading", "judging", "claiming"}

\* A call that was made belongs to a process that got that far, and to an operation
\* that it started; settle_effect() is owed by calls that run.
Known ==
    \A e \in Effects :
        /\ world[e].is = "none" => eff[e] = "none" /\ e \notin owed
        /\ e \in owed => world[e].is = "running"
        /\ world[e].is # "none" =>
              /\ Owner(e) \in Runtimes /\ place[Owner(e)] \notin Starting
              /\ world[e].op \in Operations
              /\ op[world[e].op].state # "none" /\ op[world[e].op].runtime = Owner(e)

\* A session with its journal on is at an operation of its own just when it is in a turn.
Turns ==
    \A r \in Runtimes :
        /\ place[r] \in Starting => current[r] = 0
        /\ enabled[r] =>
              /\ place[r] \in {"idle", "turn", "completing", "closing"}
              /\ place[r] \in {"idle", "closing"} => current[r] = 0
              /\ place[r] \in {"turn", "completing"} =>
                    /\ current[r] \in Operations
                    /\ op[current[r]].runtime = r /\ op[current[r]].state # "none"

\* A coordinator that is on knows each intent of its operation, and complete() has it
\* on its list.
Tracking ==
    \A e \in Effects :
        eff[e] = "intent" /\ enabled[Owner(e)] /\ world[e].op = current[Owner(e)] =>
            /\ e \in tracked[Owner(e)]
            /\ place[Owner(e)] = "completing" => e \in remaining[Owner(e)]

\* What is open or uncertain has an operation without an outcome.
Settlement ==
    \A e \in Effects :
        /\ eff[e] = "uncertain" => op[world[e].op].state = "uncertain"
        /\ eff[e] = "intent" => op[world[e].op].state \in {"running", "uncertain"}

\* What was reported is over, and was reported once.
Reports ==
    /\ \A r \in Runtimes : \A e \in report[r] : eff[e] \notin {"none", "intent"}
    /\ ReportedOnce

\* A closed lease is that of a process that does nothing more; what a recovery takes
\* for lost was closed, late or gone when it looked, and none of these is undone.
Leases ==
    /\ DOMAIN found = Runtimes
    /\ \A r \in Runtimes : lease[r] = "closed" => place[r] \in {"closed", "gone"}
    /\ \A q \in recovered : lease[q] = "closed"
    /\ \A r \in Runtimes : \A q \in DOMAIN found[r] :
          /\ found[r][q] \in {"closed", "fresh", "late"}
          /\ place[q] # "new"
          /\ found[r][q] = "closed" => lease[q] = "closed"
    /\ \A r \in Runtimes : place[r] # "claiming" => stale[r] = {}
    /\ \A r \in Runtimes : \A q \in stale[r] :
          /\ q \in DOMAIN found[r]
          /\ found[r][q] \in {"closed", "late"} \/ place[q] = "gone"

\* The inductive invariant.
IInv ==
    /\ TypeOK /\ Known /\ Turns /\ Tracking /\ Settlement /\ Reports /\ Leases
    /\ SuccessHappened /\ IntentFirst /\ RecoveryIsFinal

-----------------------------------------------------------------------------
(* The steps that write the database, restated by what they come to: one    *)
(* transaction that is done, or raises before or after its commit.          *)

\* claim_uncertain_runtimes.
ClaimsMove(r) ==
    /\ place[r] = "claiming"
    /\ \/ /\ UNCHANGED <<eff, op, recovered>>
          /\ report' = [report EXCEPT ![r] = {}]
       \/ /\ eff' = [e \in Effects |-> IF e \in Claimed(r) THEN "uncertain" ELSE eff[e]]
          /\ op' = [o \in Operations |->
                       IF /\ op[o].state = "running" /\ op[o].runtime \in stale[r]
                          /\ \E e \in Effects : world[e].op = o /\ eff'[e] = "uncertain"
                       THEN [op[o] EXCEPT !.state = "uncertain"] ELSE op[o]]
          /\ \/ /\ report' = [report EXCEPT ![r] = {}]
                /\ UNCHANGED recovered
             \/ /\ report' = [report EXCEPT ![r] = Claimed(r)]
                /\ recovered' = recovered \cup {q \in stale[r] : found[r][q] = "closed"}
    /\ writeFailed' \in {writeFailed, writeFailed \cup {r}}
    /\ place' = [place EXCEPT ![r] = "idle"]
    /\ found' = [found EXCEPT ![r] = <<>>] /\ stale' = [stale EXCEPT ![r] = {}]
    /\ enabled' = [enabled EXCEPT ![r] = beating[r]]
    /\ UNCHANGED <<lease, current, tracked, remaining, outcome, closing, beating, world, owed,
                   following>>

\* start().
TurnStartsMove(r, o) ==
    /\ op[o] = NoOperation
    /\ place[r] = "idle" /\ enabled[r] /\ place' = [place EXCEPT ![r] = "turn"]
    /\ \/ /\ op' = [op EXCEPT ![o] = [runtime |-> r, state |-> "running"]]
          /\ current' = [current EXCEPT ![r] = o]
          /\ UNCHANGED <<enabled, writeFailed>>
       \/ /\ op' \in {op, [op EXCEPT ![o] = [runtime |-> r, state |-> "running"]]}
          /\ enabled' = [enabled EXCEPT ![r] = FALSE]
          /\ writeFailed' = writeFailed \cup {r}
          /\ UNCHANGED current
    /\ UNCHANGED <<lease, eff, found, stale, report, recovered, tracked, remaining, outcome,
                   closing, beating, world, owed, following>>

\* begin_effect().
EffectBeginsMove(r, k, e) ==
    /\ place[r] = "turn" /\ enabled[r] /\ world[e] = NoEffect
    /\ world' = [world EXCEPT ![e] = [runtime |-> r, op |-> current[r], kind |-> k,
                                      is |-> "running"]]
    /\ \/ /\ op[current[r]].state = "running"
          /\ eff' = [eff EXCEPT ![e] = "intent"]
          /\ tracked' = [tracked EXCEPT ![r] = @ \cup {e}]
          /\ owed' = owed \cup {e}
          /\ UNCHANGED <<enabled, writeFailed>>
       \/ /\ \/ UNCHANGED eff
             \/ op[current[r]].state = "running" /\ eff' = [eff EXCEPT ![e] = "intent"]
          /\ enabled' = [enabled EXCEPT ![r] = FALSE]
          /\ writeFailed' = writeFailed \cup {r}
          /\ UNCHANGED <<tracked, owed>>
    /\ UNCHANGED <<lease, op, place, found, stale, report, recovered, current, remaining,
                   outcome, closing, beating, following>>

\* settle_effect().
EffectSettlesMove(e, result) ==
    LET r == Owner(e)
        new == SettlementState(result)
    IN /\ e \in owed
       /\ world' = [world EXCEPT ![e].is = result]
       /\ owed' = owed \ {e}
       /\ following' \in {following, following \cup {e}}
       /\ \/ /\ enabled' \in {enabled, [enabled EXCEPT ![r] = FALSE]}
             /\ writeFailed' \in {writeFailed, writeFailed \cup {r}}
             /\ UNCHANGED <<eff, tracked>>
          \/ /\ enabled[r] /\ place[r] # "completing" /\ eff[e] \in {"intent", new}
             /\ eff' = [eff EXCEPT ![e] = new]
             /\ \/ /\ tracked' = [tracked EXCEPT ![r] = @ \ {e}]
                   /\ UNCHANGED <<enabled, writeFailed>>
                \/ /\ enabled' = [enabled EXCEPT ![r] = FALSE]
                   /\ writeFailed' = writeFailed \cup {r}
                   /\ UNCHANGED tracked
       /\ UNCHANGED <<lease, op, place, found, stale, report, recovered, current, remaining,
                      outcome, closing, beating>>

\* A turn or a process ends: complete() begins, or there is nothing to complete.
FinishMove(r) ==
    /\ place[r] \in {"idle", "turn"}
    /\ \/ /\ enabled[r] /\ current[r] # 0 /\ place' = [place EXCEPT ![r] = "completing"]
          /\ remaining' = [remaining EXCEPT ![r] = tracked[r]]
          /\ \E code \in Outcomes : outcome' = [outcome EXCEPT ![r] = code]
       \/ /\ ~enabled[r] /\ place' = [place EXCEPT ![r] = "idle"]
          /\ UNCHANGED <<remaining, outcome>>
       \/ /\ ~enabled[r] \/ current[r] = 0 
          /\ place' = [place EXCEPT ![r] = "closing"]
          /\ UNCHANGED <<remaining, outcome>>
    /\ closing' \in {closing, [closing EXCEPT ![r] = TRUE]}
    /\ beating' \in {beating, [beating EXCEPT ![r] = FALSE]}
    /\ UNCHANGED <<lease, op, eff, found, stale, report, recovered, enabled, current, tracked,
                   world, owed, following, writeFailed>>

\* complete(): an effect.
CompleteEffectMove(r, e) ==
    /\ place[r] = "completing" /\ enabled[r]
    /\ \/ UNCHANGED eff
       \/ /\ eff[e] \in {"intent", "cancelled", "ended"}
          /\ \E new \in {"cancelled", "ended"} :
                eff[e] \in {"intent", new} /\ eff' = [eff EXCEPT ![e] = new]
    /\ \/ /\ \E p \in {"idle", "closing"} : place' = [place EXCEPT ![r] = p]
          /\ enabled' = [enabled EXCEPT ![r] = FALSE]
          /\ remaining' = [remaining EXCEPT ![r] = {}]
          /\ outcome' = [outcome EXCEPT ![r] = "ok"]
          /\ writeFailed' = writeFailed \cup {r}
       \/ /\ eff'[e] # "intent"
          /\ remaining' = [remaining EXCEPT ![r] = @ \ {e}]
          /\ UNCHANGED <<enabled, place, outcome, writeFailed>>
    /\ UNCHANGED <<lease, op, found, stale, report, recovered, current, tracked, closing,
                   beating, world, owed, following>>

\* complete(): the operation.
CompleteOperationMove(r) ==
    /\ place[r] = "completing" /\ enabled[r] /\ remaining[r] = {}
    /\ \E p \in {"idle", "closing"} : place' = [place EXCEPT ![r] = p]
    /\ \/ UNCHANGED op
       \/ /\ op[current[r]].state = "running"
          /\ \E new \in Settled : op' = [op EXCEPT ![current[r]].state = new]
    /\ \/ /\ enabled' = [enabled EXCEPT ![r] = FALSE]
          /\ writeFailed' = writeFailed \cup {r}
          /\ UNCHANGED <<tracked, current>>
       \/ /\ tracked' = [tracked EXCEPT ![r] = {}]
          /\ current' = [current EXCEPT ![r] = 0]
          /\ UNCHANGED <<enabled, writeFailed>>
    /\ outcome' = [outcome EXCEPT ![r] = "ok"]
    /\ UNCHANGED <<lease, eff, found, stale, report, recovered, remaining, closing, beating,
                   world, owed, following>>

\* close_runtime().
LeaseMove(r) ==
    /\ place[r] = "closing" /\ place' = [place EXCEPT ![r] = "closed"]
    /\ enabled' = [enabled EXCEPT ![r] = FALSE]
    /\ lease' \in {lease, [lease EXCEPT ![r] = "closed"]}
    /\ writeFailed' \in {writeFailed, writeFailed \cup {r}}
    /\ UNCHANGED <<op, eff, found, stale, report, recovered, current, tracked, remaining,
                   outcome, closing, beating, world, owed, following>>

\* A journal is switched off, or nothing happens.
SwitchMove ==
    /\ enabled' \in {enabled} \cup {[enabled EXCEPT ![r] = FALSE] : r \in Runtimes}
    /\ beating' \in {beating} \cup {[beating EXCEPT ![r] = FALSE] : r \in Runtimes}
    /\ writeFailed' \in {writeFailed} \cup {writeFailed \cup {r} : r \in Runtimes}
    /\ following' \subseteq following
    /\ UNCHANGED <<lease, op, eff, place, found, stale, report, recovered, current, tracked,
                   remaining, outcome, closing, world, owed>>

\* A transaction is done, or raises before it commits, or raises after.
LEMMA TransactionCases ==
    ASSUME NEW r, NEW t \in Transactions(r)
    PROVE  t \in {"done", "refused", "unsure"}
BY DEF Transactions

\* An outcome settles.
LEMMA SettlementCases ==
    ASSUME NEW code \in Outcomes
    PROVE  SettlementState(code) \in Settled
BY DEF SettlementState, Settled, Outcomes

\* A claim, whatever its transaction does, is such a move.
LEMMA ClaimsMoves ==
    ASSUME NEW r \in Runtimes, RecoveryClaims(r)
    PROVE  ClaimsMove(r)
<1>1. PICK t \in Transactions(r) : RecoveryClaims(r)!2!(t)
  BY DEF RecoveryClaims
<1>2. CASE t = "done"
  BY <1>1, <1>2 DEF RecoveryClaims, ClaimsMove, Commits, Raises, NoteFailure, Disable, dbVars,
     recoveryVars, coordinatorVars, runtimeVars, worldVars
<1>3. CASE t = "refused"
  BY <1>1, <1>3 DEF RecoveryClaims, ClaimsMove, Commits, Raises, NoteFailure, Disable, dbVars,
     recoveryVars, coordinatorVars, runtimeVars, worldVars
<1>4. CASE t = "unsure"
  BY <1>1, <1>4 DEF RecoveryClaims, ClaimsMove, Commits, Raises, NoteFailure, Disable, dbVars,
     recoveryVars, coordinatorVars, runtimeVars, worldVars
<1> QED
  BY <1>1, <1>2, <1>3, <1>4, TransactionCases

\* So is the start of a turn,
LEMMA TurnStartsMoves ==
    ASSUME NEW r \in Runtimes, TurnStarts(r)
    PROVE  \E o \in Operations : TurnStartsMove(r, o)
<1>1. PICK o \in Operations, t \in Transactions(r) : TurnStarts(r)!3!(o, t)
  BY DEF TurnStarts
<1>2. CASE t = "done"
  BY <1>1, <1>2 DEF TurnStarts, TurnStartsMove, IsNextOperation, Commits, Raises, NoteFailure,
     Disable, dbVars, recoveryVars, coordinatorVars, runtimeVars, worldVars
<1>3. CASE t = "refused"
  BY <1>1, <1>3 DEF TurnStarts, TurnStartsMove, IsNextOperation, Commits, Raises, NoteFailure,
     Disable, dbVars, recoveryVars, coordinatorVars, runtimeVars, worldVars
<1>4. CASE t = "unsure"
  BY <1>1, <1>4 DEF TurnStarts, TurnStartsMove, IsNextOperation, Commits, Raises, NoteFailure,
     Disable, dbVars, recoveryVars, coordinatorVars, runtimeVars, worldVars
<1> QED
  BY <1>1, <1>2, <1>3, <1>4, TransactionCases

\* ... the announcement of a call,
LEMMA EffectBeginsMoves ==
    ASSUME NEW r \in Runtimes, NEW k, EffectBegins(r, k)
    PROVE  \E e \in Effects : EffectBeginsMove(r, k, e)
<1>0. PICK e \in Effects : EffectBegins(r, k)!(e)
  BY DEF EffectBegins
<1>1. PICK t \in IF op[current[r]].state = "running" THEN Transactions(r) ELSE {"refused"} :
          EffectBegins(r, k)!(e)!3!(t)
  BY <1>0
<1>2. CASE t = "done"
  BY <1>0, <1>1, <1>2 DEF EffectBeginsMove, IsNextEffect, Commits, Raises, NoteFailure, Disable,
     dbVars, recoveryVars, coordinatorVars, runtimeVars, worldVars
<1>3. CASE t = "refused"
  BY <1>0, <1>1, <1>3 DEF EffectBeginsMove, IsNextEffect, Commits, Raises, NoteFailure, Disable,
     dbVars, recoveryVars, coordinatorVars, runtimeVars, worldVars
<1>4. CASE t = "unsure"
  BY <1>0, <1>1, <1>4 DEF EffectBeginsMove, IsNextEffect, Commits, Raises, NoteFailure, Disable,
     dbVars, recoveryVars, coordinatorVars, runtimeVars, worldVars
<1> QED
  BY <1>0, <1>1, <1>2, <1>3, <1>4, TransactionCases

\* ... its settlement, with the journal on or off and the handle known or not,
LEMMA EffectSettlesMoves ==
    ASSUME NEW e \in Effects, NEW result \in Outcomes, EffectSettles(e, result)
    PROVE  EffectSettlesMove(e, result)
<1> DEFINE r == Owner(e)
           new == SettlementState(result)
<1>1. CASE ~enabled[r]
  BY <1>1 DEF EffectSettles, EffectSettlesMove, Disable, NoteFailure, recoveryVars, runtimeVars
<1>2. CASE enabled[r] /\ (current[r] # world[e].op \/ e \notin tracked[r])
  BY <1>2 DEF EffectSettles, EffectSettlesMove, Disable, NoteFailure, recoveryVars, runtimeVars
<1>3. CASE enabled[r] /\ ~(current[r] # world[e].op \/ e \notin tracked[r])
  <2>1. PICK t \in IF eff[e] \in {"intent", new} THEN Transactions(r) ELSE {"refused"} :
                  /\ eff' = IF Commits(t) THEN [eff EXCEPT ![e] = new] ELSE eff
                  /\ IF Raises(t) THEN Disable(r) /\ UNCHANGED tracked
                     ELSE tracked' = [tracked EXCEPT ![r] = @ \ {e}] /\ UNCHANGED enabled
                  /\ NoteFailure(r, t)
    BY <1>3 DEF EffectSettles
  <2>2. t \in {"done", "refused", "unsure"}
    BY <2>1, TransactionCases
  <2>3. t # "refused" => eff[e] \in {"intent", new}
    BY <2>1
  <2>4. CASE t = "done"
    BY <2>1, <2>3, <2>4, <1>3 DEF EffectSettles, EffectSettlesMove, Commits, Raises,
       NoteFailure, Disable, dbVars, recoveryVars, coordinatorVars, runtimeVars, worldVars
  <2>5. CASE t = "refused"
    BY <2>1, <2>3, <2>5, <1>3 DEF EffectSettles, EffectSettlesMove, Commits, Raises,
       NoteFailure, Disable, dbVars, recoveryVars, coordinatorVars, runtimeVars, worldVars
  <2>6. CASE t = "unsure"
    BY <2>1, <2>3, <2>6, <1>3 DEF EffectSettles, EffectSettlesMove, Commits, Raises,
       NoteFailure, Disable, dbVars, recoveryVars, coordinatorVars, runtimeVars, worldVars
  <2> QED
    BY <2>2, <2>4, <2>5, <2>6
<1> QED
  BY <1>1, <1>2, <1>3

\* ... the end of a turn or of the process,
LEMMA FinishMoves ==
    ASSUME Turns, NEW r \in Runtimes,
           RuntimeCloses(r) \/ \E code \in Outcomes : TurnFinishes(r, code)
    PROVE  FinishMove(r)
<1> USE DEF FinishMove, Outcomes, dbVars, recoveryVars, coordinatorVars, runtimeVars, worldVars
<1>1. CASE RuntimeCloses(r)
  <2>1. CASE enabled[r] /\ current[r] # 0
    BY <1>1, <2>1 DEF RuntimeCloses
  <2>2. CASE ~(enabled[r] /\ current[r] # 0)
    BY <1>1, <2>2 DEF RuntimeCloses
  <2> QED
    BY <2>1, <2>2
<1>2. ASSUME NEW code \in Outcomes, TurnFinishes(r, code) PROVE FinishMove(r)
  <2>1. CASE enabled[r]
    <3>1. current[r] # 0
      BY <1>2, <2>1 DEF TurnFinishes, Turns, Operations
    <3> QED
      BY <1>2, <2>1, <3>1 DEF TurnFinishes
  <2>2. CASE ~enabled[r]
    BY <1>2, <2>2 DEF TurnFinishes
  <2> QED
    BY <2>1, <2>2
<1> QED
  BY <1>1, <1>2

\* ... the settlement of a leftover effect,
LEMMA CompleteEffectMoves ==
    ASSUME TypeOK, NEW r \in Runtimes, NEW e \in Effects, CompleteSettlesEffect(r, e)
    PROVE  CompleteEffectMove(r, e)
<1> DEFINE new == LeftoverState(r)
<1>0. new \in {"cancelled", "ended"} /\ After(r) \in {"idle", "closing"}
  BY DEF LeftoverState, After
<1>1. PICK t \in IF eff[e] \in {"intent", new} THEN Transactions(r) ELSE {"refused"} :
             /\ eff' = IF Commits(t) THEN [eff EXCEPT ![e] = new] ELSE eff
             /\ IF Raises(t)
                THEN /\ Disable(r) /\ place' = [place EXCEPT ![r] = After(r)]
                     /\ remaining' = [remaining EXCEPT ![r] = {}]
                     /\ outcome' = [outcome EXCEPT ![r] = "ok"]
                ELSE /\ remaining' = [remaining EXCEPT ![r] = @ \ {e}]
                     /\ UNCHANGED <<enabled, place, outcome>>
             /\ NoteFailure(r, t)
  BY DEF CompleteSettlesEffect
<1>a. t # "refused" => eff[e] \in {"intent", new}
  BY <1>1
<1>b. eff \in [Effects -> Settled \cup {"none", "intent", "ended", "uncertain", "pruned"}]
  BY DEF TypeOK
<1> HIDE DEF new
<1>c. UNCHANGED <<lease, op, recoveryVars, current, tracked, runtimeVars, worldVars>>
      /\ place[r] = "completing" /\ enabled[r]
  BY DEF CompleteSettlesEffect
<1>2. CASE t = "done"
  BY <1>0, <1>1, <1>a, <1>b, <1>c, <1>2 DEF CompleteEffectMove, Commits, Raises, NoteFailure,
     Disable, dbVars, recoveryVars, coordinatorVars, runtimeVars, worldVars
<1>3. CASE t = "refused"
  BY <1>0, <1>1, <1>a, <1>b, <1>c, <1>3 DEF CompleteEffectMove, Commits, Raises, NoteFailure,
     Disable, dbVars, recoveryVars, coordinatorVars, runtimeVars, worldVars
<1>4. CASE t = "unsure"
  BY <1>0, <1>1, <1>a, <1>b, <1>c, <1>4 DEF CompleteEffectMove, Commits, Raises, NoteFailure,
     Disable, dbVars, recoveryVars, coordinatorVars, runtimeVars, worldVars
<1> QED
  BY <1>0, <1>1, <1>a, <1>b, <1>c, <1>2, <1>3, <1>4, TransactionCases

\* ... that of the operation,
LEMMA CompleteOperationMoves ==
    ASSUME TypeOK, NEW r \in Runtimes, CompleteSettlesOperation(r)
    PROVE  CompleteOperationMove(r)
<1> DEFINE new == SettlementState(outcome[r])
<1>0. new \in Settled /\ After(r) \in {"idle", "closing"}
  BY SettlementCases DEF TypeOK, After
<1>1. PICK t \in IF op[current[r]].state = "running" THEN Transactions(r) ELSE {"refused"} :
             /\ op' = IF Commits(t) THEN [op EXCEPT ![current[r]].state = new] ELSE op
             /\ IF Raises(t) THEN Disable(r) /\ UNCHANGED <<tracked, current>>
                ELSE /\ tracked' = [tracked EXCEPT ![r] = {}]
                     /\ current' = [current EXCEPT ![r] = 0] /\ UNCHANGED enabled
             /\ NoteFailure(r, t)
  BY DEF CompleteSettlesOperation
<1>a. t # "refused" => op[current[r]].state = "running"
  BY <1>1
<1>c. /\ UNCHANGED <<lease, eff, recoveryVars, remaining, runtimeVars, worldVars>>
      /\ place[r] = "completing" /\ enabled[r] /\ remaining[r] = {}
      /\ place' = [place EXCEPT ![r] = After(r)]
      /\ outcome' = [outcome EXCEPT ![r] = "ok"]
  BY DEF CompleteSettlesOperation
<1> HIDE DEF new
<1>2. CASE t = "done"
  BY <1>0, <1>1, <1>a, <1>c, <1>2 DEF CompleteOperationMove, Commits, Raises, NoteFailure,
     Disable, dbVars, recoveryVars, coordinatorVars, runtimeVars, worldVars
<1>3. CASE t = "refused"
  BY <1>0, <1>1, <1>a, <1>c, <1>3 DEF CompleteOperationMove, Commits, Raises, NoteFailure,
     Disable, dbVars, recoveryVars, coordinatorVars, runtimeVars, worldVars
<1>4. CASE t = "unsure"
  BY <1>0, <1>1, <1>a, <1>c, <1>4 DEF CompleteOperationMove, Commits, Raises, NoteFailure,
     Disable, dbVars, recoveryVars, coordinatorVars, runtimeVars, worldVars
<1> QED
  BY <1>0, <1>1, <1>a, <1>c, <1>2, <1>3, <1>4, TransactionCases

\* ... the end of a lease,
LEMMA LeaseMoves ==
    ASSUME NEW r \in Runtimes, LeaseCloses(r)
    PROVE  LeaseMove(r)
<1>1. PICK t \in Transactions(r) : LeaseCloses(r)!4!(t)
  BY DEF LeaseCloses
<1>2. CASE t = "done"
  BY <1>1, <1>2 DEF LeaseCloses, LeaseMove, Commits, Raises, NoteFailure, Disable, dbVars,
     recoveryVars, coordinatorVars, runtimeVars, worldVars
<1>3. CASE t = "refused"
  BY <1>1, <1>3 DEF LeaseCloses, LeaseMove, Commits, Raises, NoteFailure, Disable, dbVars,
     recoveryVars, coordinatorVars, runtimeVars, worldVars
<1>4. CASE t = "unsure"
  BY <1>1, <1>4 DEF LeaseCloses, LeaseMove, Commits, Raises, NoteFailure, Disable, dbVars,
     recoveryVars, coordinatorVars, runtimeVars, worldVars
<1> QED
  BY <1>1, <1>2, <1>3, <1>4, TransactionCases

\* ... and what only switches a journal off.
LEMMA SwitchMoves ==
    ASSUME TypeOK,
           \/ \E r \in Runtimes : HeartbeatFails(r) \/ AdvanceFails(r)
           \/ \E e \in Effects : ProviderAdvances(e)
           \/ UNCHANGED vars
    PROVE  SwitchMove
<1> USE DEF SwitchMove, Raises, NoteFailure, Disable, dbVars, recoveryVars, coordinatorVars,
            runtimeVars, worldVars
<1>1. ASSUME NEW r \in Runtimes, HeartbeatFails(r) PROVE SwitchMove
  BY <1>1 DEF HeartbeatFails
<1>2. ASSUME NEW r \in Runtimes, AdvanceFails(r) PROVE SwitchMove
  BY <1>2 DEF AdvanceFails
<1>3. ASSUME NEW e \in Effects, ProviderAdvances(e) PROVE SwitchMove
  <2>1. enabled' \in {enabled} \cup {[enabled EXCEPT ![r] = FALSE] : r \in Runtimes}
    <3>1. CASE Owner(e) \in Runtimes /\ current[Owner(e)] # 0
      BY <1>3, <3>1 DEF ProviderAdvances, TypeOK
    <3>2. CASE Owner(e) \in Runtimes /\ current[Owner(e)] = 0
      BY <1>3, <3>2 DEF ProviderAdvances, TypeOK
    <3>3. CASE Owner(e) \notin Runtimes
      BY <1>3, <3>3 DEF ProviderAdvances, TypeOK
    <3> QED
      BY <3>1, <3>2, <3>3
  <2> QED
    BY <1>3, <2>1 DEF ProviderAdvances
<1>4. CASE UNCHANGED vars
  BY <1>4 DEF vars
<1> QED
  BY <1>1, <1>2, <1>3, <1>4

\* Every step is one of these moves.
LEMMA StepCases ==
    ASSUME TypeOK, Turns, [Next]_vars
    PROVE  \/ \E r \in Runtimes :
                 \/ RuntimeOpens(r) \/ RecoveryLoads(r) \/ RecoveryJudges(r) \/ ClaimsMove(r)
                 \/ \E o \in Operations : TurnStartsMove(r, o)
                 \/ \E k \in {"provider", "tool"}, e \in Effects : EffectBeginsMove(r, k, e)
                 \/ FinishMove(r)
                 \/ \E e \in Effects : CompleteEffectMove(r, e)
                 \/ CompleteOperationMove(r) \/ LeaseMove(r) \/ Gone(r)
           \/ \E e \in Effects, result \in Outcomes : EffectSettlesMove(e, result)
           \/ \E o \in Operations : Prune(o)
           \/ SwitchMove
<1>1. CASE \E r \in Runtimes : HeartbeatFails(r) \/ AdvanceFails(r)
  BY <1>1, SwitchMoves
<1>2. CASE \E e \in Effects : ProviderAdvances(e)
  BY <1>2, SwitchMoves
<1>3. CASE UNCHANGED vars
  BY <1>3, SwitchMoves
<1>4. ASSUME NEW e \in Effects, NEW result \in Outcomes, EffectSettles(e, result)
      PROVE  EffectSettlesMove(e, result)
  BY <1>4, EffectSettlesMoves
<1>5. ASSUME NEW r \in Runtimes, NEW e \in Effects, CompleteSettlesEffect(r, e)
      PROVE  CompleteEffectMove(r, e)
  BY <1>5, CompleteEffectMoves
<1>6. ASSUME NEW r \in Runtimes, CompleteSettlesOperation(r) PROVE CompleteOperationMove(r)
  BY <1>6, CompleteOperationMoves
<1>7. ASSUME NEW r \in Runtimes, RecoveryClaims(r) PROVE ClaimsMove(r)
  BY <1>7, ClaimsMoves
<1>8. ASSUME NEW r \in Runtimes, TurnStarts(r) PROVE \E o \in Operations : TurnStartsMove(r, o)
  BY <1>8, TurnStartsMoves
<1>9. ASSUME NEW r \in Runtimes, NEW k \in {"provider", "tool"}, EffectBegins(r, k)
      PROVE  \E e \in Effects : EffectBeginsMove(r, k, e)
  BY <1>9, EffectBeginsMoves
<1>10. ASSUME NEW r \in Runtimes, RuntimeCloses(r) \/ \E code \in Outcomes : TurnFinishes(r, code)
       PROVE  FinishMove(r)
  BY <1>10, FinishMoves
<1>11. ASSUME NEW r \in Runtimes, LeaseCloses(r) PROVE LeaseMove(r)
  BY <1>11, LeaseMoves
<1> QED
  BY <1>1, <1>2, <1>3, <1>4, <1>5, <1>6, <1>7, <1>8, <1>9, <1>10, <1>11 DEF Next, RuntimeStep

\* A call that returns is still one.
LEMMA CallReturns ==
    ASSUME world \in Calls, NEW e \in Effects, NEW result \in Outcomes
    PROVE  [world EXCEPT ![e].is = result] \in Calls
BY DEF Calls

\* Each step keeps the types.
LEMMA TypeStep ==
    ASSUME TypeOK, Known, Turns, Leases, [Next]_vars
    PROVE  TypeOK'
<1> USE DEF TypeOK, Places, Settled, Outcomes, OpRows, EffectRows, Calls, dbVars, recoveryVars,
        coordinatorVars, runtimeVars, worldVars
<1>1. ASSUME NEW r \in Runtimes, RuntimeOpens(r)
     PROVE  TypeOK'
  BY <1>1 DEF RuntimeOpens
<1>2. ASSUME NEW r \in Runtimes, RecoveryLoads(r)
     PROVE  TypeOK'
  BY <1>2 DEF RecoveryLoads, Known, Rows, Intents, Leases
<1>3. ASSUME NEW r \in Runtimes, RecoveryJudges(r)
     PROVE  TypeOK'
  BY <1>3 DEF RecoveryJudges, Leases
<1>4. ASSUME NEW r \in Runtimes, ClaimsMove(r)
     PROVE  TypeOK'
  <2>1. op' \in OpRows
    BY SMTT(60), <1>4 DEF ClaimsMove
  <2>2. eff' \in EffectRows
    BY <1>4 DEF ClaimsMove
  <2>3. place' \in [Runtimes -> Places]
    BY <1>4 DEF ClaimsMove
  <2>4. \A q \in Runtimes : DOMAIN found'[q] \subseteq Runtimes
    BY <1>4 DEF ClaimsMove, Leases
  <2>5. stale' \in [Runtimes -> SUBSET Runtimes]
    BY <1>4 DEF ClaimsMove
  <2>6. report' \in [Runtimes -> SUBSET Effects]
    BY SMTT(60), <1>4 DEF ClaimsMove, Claimed, Intents
  <2>7. enabled' \in [Runtimes -> BOOLEAN]
    BY <1>4 DEF ClaimsMove
  <2>8. recovered' \in SUBSET Runtimes /\ writeFailed' \in SUBSET Runtimes
    BY <1>4 DEF ClaimsMove
  <2> QED
    BY <1>4, <2>1, <2>2, <2>3, <2>4, <2>5, <2>6, <2>7, <2>8 DEF ClaimsMove
<1>5. ASSUME NEW r \in Runtimes, NEW o \in Operations, TurnStartsMove(r, o)
     PROVE  TypeOK'
  <2>1. op' \in OpRows
    <3>1. op' = op \/ op' = [op EXCEPT ![o] = [runtime |-> r, state |-> "running"]]
      BY <1>5 DEF TurnStartsMove
    <3>2. [runtime |-> r, state |-> "running"] \in [runtime : Runtimes, state : {"running"}]
      OBVIOUS
    <3> QED
      BY SMTT(60), <3>1, <3>2
  <2>2. place' \in [Runtimes -> Places]
    BY <1>5 DEF TurnStartsMove
  <2>3. enabled' \in [Runtimes -> BOOLEAN]
    BY <1>5 DEF TurnStartsMove
  <2>4. current' \in [Runtimes -> Operations \cup {0}]
    BY <1>5 DEF TurnStartsMove
  <2>5. recovered' \in SUBSET Runtimes /\ writeFailed' \in SUBSET Runtimes
    BY <1>5 DEF TurnStartsMove
  <2> QED
    BY <1>5, <2>1, <2>2, <2>3, <2>4, <2>5 DEF TurnStartsMove
<1>6. ASSUME NEW r \in Runtimes, NEW k \in {"provider", "tool"}, NEW e \in Effects,
             EffectBeginsMove(r, k, e)
     PROVE  TypeOK'
  <2>1. eff' \in EffectRows
    BY <1>6 DEF EffectBeginsMove
  <2>2. enabled' \in [Runtimes -> BOOLEAN]
    BY <1>6 DEF EffectBeginsMove
  <2>3. tracked' \in [Runtimes -> SUBSET Effects]
    BY <1>6 DEF EffectBeginsMove
  <2>4. world' \in Calls
    BY <1>6 DEF EffectBeginsMove
  <2>5. owed' \in SUBSET Effects /\ following' \in SUBSET Effects
    BY <1>6 DEF EffectBeginsMove
  <2>6. recovered' \in SUBSET Runtimes /\ writeFailed' \in SUBSET Runtimes
    BY <1>6 DEF EffectBeginsMove
  <2> QED
    BY <1>6, <2>1, <2>2, <2>3, <2>4, <2>5, <2>6 DEF EffectBeginsMove
<1>7. ASSUME NEW r \in Runtimes, FinishMove(r)
     PROVE  TypeOK'
  <2>1. place' \in [Runtimes -> Places]
    <3>1. \E v \in {"completing", "idle", "closing"} : place' = place
              \/ place' = [place EXCEPT ![r] = v]
      BY <1>7 DEF FinishMove
    <3> QED
      BY <3>1
  <2>2. remaining' \in [Runtimes -> SUBSET Effects]
    BY SMTT(60), <1>7 DEF FinishMove
  <2>3. outcome' \in [Runtimes -> Outcomes]
    BY ZenonT(60), <1>7 DEF FinishMove
  <2>4. closing' \in [Runtimes -> BOOLEAN]
    BY ZenonT(60), <1>7 DEF FinishMove
  <2>5. beating' \in [Runtimes -> BOOLEAN]
    BY ZenonT(60), <1>7 DEF FinishMove
  <2> QED
    BY <1>7, <2>1, <2>2, <2>3, <2>4, <2>5 DEF FinishMove
<1>8. ASSUME NEW r \in Runtimes, NEW e \in Effects, CompleteEffectMove(r, e)
     PROVE  TypeOK'
  <2>1. eff' \in EffectRows
    <3>1. \E v \in {"cancelled", "ended"} : eff' = eff \/ eff' = [eff EXCEPT ![e] = v]
      BY <1>8 DEF CompleteEffectMove
    <3> QED
      BY <3>1
  <2>2. place' \in [Runtimes -> Places]
    BY <1>8 DEF CompleteEffectMove
  <2>3. enabled' \in [Runtimes -> BOOLEAN]
    BY ZenonT(60), <1>8 DEF CompleteEffectMove
  <2>4. remaining' \in [Runtimes -> SUBSET Effects]
    <3>1. \E v \in SUBSET Effects : remaining' = remaining
              \/ remaining' = [remaining EXCEPT ![r] = v]
      BY <1>8 DEF CompleteEffectMove
    <3> QED
      BY <3>1
  <2>5. outcome' \in [Runtimes -> Outcomes]
    BY <1>8 DEF CompleteEffectMove
  <2>6. recovered' \in SUBSET Runtimes /\ writeFailed' \in SUBSET Runtimes
    BY <1>8 DEF CompleteEffectMove
  <2> QED
    BY <1>8, <2>1, <2>2, <2>3, <2>4, <2>5, <2>6 DEF CompleteEffectMove
<1>9. ASSUME NEW r \in Runtimes, CompleteOperationMove(r)
     PROVE  TypeOK'
  <2>1. op' \in OpRows
    <3>1. \E new \in Settled : op' = op \/ op' = [op EXCEPT ![current[r]].state = new]
      BY <1>9 DEF CompleteOperationMove
    <3>2. current[r] \in Operations /\ op \in OpRows
      BY <1>9 DEF CompleteOperationMove, Turns
    <3>3. \A new \in Settled : [op[current[r]] EXCEPT !.state = new] \in [runtime :
              Runtimes \cup {"none"}, state : Settled]
      BY SMTT(60), <3>2
    <3> QED
      BY SMTT(60), <3>1, <3>2, <3>3
  <2>2. place' \in [Runtimes -> Places]
    BY <1>9 DEF CompleteOperationMove
  <2>3. enabled' \in [Runtimes -> BOOLEAN]
    BY <1>9 DEF CompleteOperationMove
  <2>4. current' \in [Runtimes -> Operations \cup {0}]
    BY <1>9 DEF CompleteOperationMove
  <2>5. tracked' \in [Runtimes -> SUBSET Effects]
    BY <1>9 DEF CompleteOperationMove
  <2>6. outcome' \in [Runtimes -> Outcomes]
    BY <1>9 DEF CompleteOperationMove
  <2>7. recovered' \in SUBSET Runtimes /\ writeFailed' \in SUBSET Runtimes
    BY <1>9 DEF CompleteOperationMove
  <2> QED
    BY <1>9, <2>1, <2>2, <2>3, <2>4, <2>5, <2>6, <2>7 DEF CompleteOperationMove
<1>10. ASSUME NEW r \in Runtimes, LeaseMove(r)
      PROVE  TypeOK'
  BY <1>10 DEF LeaseMove
<1>11. ASSUME NEW r \in Runtimes, Gone(r)
      PROVE  TypeOK'
  BY <1>11 DEF Gone
<1>12. ASSUME NEW e \in Effects, NEW result \in Outcomes,
             EffectSettlesMove(e, result)
      PROVE  TypeOK'
  <2>1. eff' \in EffectRows
    <3>1. \E v \in Settled : eff' = eff \/ eff' = [eff EXCEPT ![e] = v]
      BY <1>12, SettlementCases DEF EffectSettlesMove
    <3> QED
      BY <3>1
  <2>2. enabled' \in [Runtimes -> BOOLEAN]
    BY ZenonT(60), <1>12 DEF EffectSettlesMove, Known
  <2>3. tracked' \in [Runtimes -> SUBSET Effects]
    BY <1>12 DEF EffectSettlesMove
  <2>4. world' \in Calls
    <3>1. [world EXCEPT ![e].is = result] \in Calls
      BY CallReturns DEF Calls
    <3> QED
      BY <1>12, <3>1 DEF EffectSettlesMove
  <2>5. owed' \in SUBSET Effects /\ following' \in SUBSET Effects
    BY <1>12 DEF EffectSettlesMove
  <2>6. recovered' \in SUBSET Runtimes /\ writeFailed' \in SUBSET Runtimes
    BY <1>12 DEF EffectSettlesMove, Known
  <2> QED
    BY <1>12, <2>1, <2>2, <2>3, <2>4, <2>5, <2>6 DEF EffectSettlesMove
<1>13. ASSUME NEW o \in Operations, Prune(o)
      PROVE  TypeOK'
  BY <1>13 DEF Prune
<1>14. CASE SwitchMove
  <2>1. enabled' \in [Runtimes -> BOOLEAN]
    BY ZenonT(60), <1>14 DEF SwitchMove
  <2>2. beating' \in [Runtimes -> BOOLEAN]
    <3>1. beating' = beating \/ \E q \in Runtimes : beating' = [beating EXCEPT ![q] = FALSE]
      BY <1>14 DEF SwitchMove
    <3> QED
      BY <3>1
  <2>3. owed' \in SUBSET Effects /\ following' \in SUBSET Effects
    BY <1>14 DEF SwitchMove
  <2>4. recovered' \in SUBSET Runtimes /\ writeFailed' \in SUBSET Runtimes
    BY <1>14 DEF SwitchMove
  <2> QED
    BY <1>14, <2>1, <2>2, <2>3, <2>4 DEF SwitchMove
<1> QED
  BY SMTT(60), <1>1, <1>2, <1>3, <1>4, <1>5, <1>6, <1>7, <1>8, <1>9, <1>10, <1>11, <1>12, <1>13, <1>14,
     StepCases

\* A claim changes no owner, and only running operations.
LEMMA ClaimKeepsRows ==
    ASSUME TypeOK, NEW r \in Runtimes, ClaimsMove(r)
    PROVE  \A o \in Operations : /\ op'[o].runtime = op[o].runtime
                                 /\ op'[o].state \in {op[o].state, "uncertain"}
                                 /\ op[o].state # "running" => op'[o].state = op[o].state
BY DEF ClaimsMove, TypeOK

\* complete() changes no owner, and only the running operation of the turn.
LEMMA CompletionKeepsRows ==
    ASSUME TypeOK, Turns, NEW r \in Runtimes, CompleteOperationMove(r)
    PROVE  /\ \A o \in Operations : /\ op'[o].runtime = op[o].runtime
                                    /\ op'[o].state \in Settled \cup {op[o].state}
                                    /\ op'[o].state # op[o].state => o = current[r]
                                           /\ op[o].state = "running"
<1>1. CASE UNCHANGED op
  BY <1>1
<1>2. CASE op[current[r]].state = "running" /\ \E new \in Settled :
          op' = [op EXCEPT ![current[r]].state = new]
  <2>1. PICK new \in Settled : op' = [op EXCEPT ![current[r]].state = new]
    BY <1>2
  <2> QED
    BY <1>2, <2>1 DEF TypeOK
<1> QED
  BY <1>1, <1>2 DEF CompleteOperationMove

\* Each step keeps what is known of a call.
LEMMA KnownStep ==
    ASSUME TypeOK, Turns, Known, [Next]_vars
    PROVE  Known'
<1> USE DEF Known, Starting, Owner, TypeOK, OpRows, EffectRows, Calls, dbVars, recoveryVars,
        coordinatorVars, runtimeVars, worldVars
<1>1. ASSUME NEW r \in Runtimes, RuntimeOpens(r)
     PROVE  Known'
  BY <1>1 DEF RuntimeOpens
<1>2. ASSUME NEW r \in Runtimes, RecoveryLoads(r)
     PROVE  Known'
  BY <1>2 DEF RecoveryLoads
<1>3. ASSUME NEW r \in Runtimes, RecoveryJudges(r)
     PROVE  Known'
  BY <1>3 DEF RecoveryJudges
<1>4. ASSUME NEW r \in Runtimes, ClaimsMove(r)
     PROVE  Known'
  <2>1. \A f \in Effects : eff'[f] = "none" <=> eff[f] = "none"
    BY <1>4 DEF ClaimsMove, Claimed, Intents
  <2>2. \A o \in Operations : op'[o].runtime = op[o].runtime /\ (op[o].state # "none"
            => op'[o].state # "none")
    BY <1>4, ClaimKeepsRows
  <2>3. world' = world /\ owed' = owed /\ \A q \in Runtimes : place'[q] = place[q]
            \/ place'[q] = "idle"
    BY <1>4 DEF ClaimsMove
  <2> HIDE DEF TypeOK
  <2> QED
    BY <2>1, <2>2, <2>3
<1>5. ASSUME NEW r \in Runtimes, NEW o \in Operations, TurnStartsMove(r, o)
     PROVE  Known'
  <2>1. \A p \in Operations : op[p].state # "none" => op'[p] = op[p]
    BY <1>5 DEF TurnStartsMove, NoOperation
  <2>2. \A q \in Runtimes : place'[q] = place[q] \/ place'[q] = "turn"
    BY <1>5 DEF TurnStartsMove
  <2> HIDE DEF TypeOK
  <2> QED
    BY <1>5, <2>1, <2>2 DEF TurnStartsMove
<1>6. ASSUME NEW r \in Runtimes, NEW k \in {"provider", "tool"}, NEW e \in Effects,
             EffectBeginsMove(r, k, e)
     PROVE  Known'
  <2>1. \A f \in Effects \ {e} : eff'[f] = eff[f] /\ world'[f] = world[f]
            /\ (f \in owed' <=> f \in owed)
    BY <1>6 DEF EffectBeginsMove
  <2>2. /\ world'[e].is = "running" /\ world'[e].runtime = r /\ world'[e].op = current[r]
        /\ current[r] \in Operations /\ op[current[r]].state # "none"
               /\ op[current[r]].runtime = r
        /\ place[r] = "turn" /\ UNCHANGED <<op, place>>
    BY <1>6 DEF EffectBeginsMove, Turns
  <2> HIDE DEF TypeOK
  <2> QED
    BY <2>1, <2>2
<1>7. ASSUME NEW r \in Runtimes, FinishMove(r)
     PROVE  Known'
  BY <1>7 DEF FinishMove
<1>8. ASSUME NEW r \in Runtimes, NEW e \in Effects, CompleteEffectMove(r, e)
     PROVE  Known'
  BY <1>8 DEF CompleteEffectMove
<1>9. ASSUME NEW r \in Runtimes, CompleteOperationMove(r)
     PROVE  Known'
  <2>1. \A o \in Operations : op'[o].runtime = op[o].runtime /\ (op[o].state # "none"
            => op'[o].state # "none")
    BY <1>9, CompletionKeepsRows DEF Settled
  <2>2. UNCHANGED <<world, owed, eff>> /\ \A q \in Runtimes : place'[q] = place[q]
            \/ place'[q] \in {"idle", "closing"}
    BY <1>9 DEF CompleteOperationMove
  <2> HIDE DEF TypeOK
  <2> QED
    BY <2>1, <2>2
<1>10. ASSUME NEW r \in Runtimes, LeaseMove(r)
      PROVE  Known'
  BY <1>10 DEF LeaseMove
<1>11. ASSUME NEW r \in Runtimes, Gone(r)
      PROVE  Known'
  BY <1>11 DEF Gone, Turns
<1>12. ASSUME NEW e \in Effects, NEW result \in Outcomes,
             EffectSettlesMove(e, result)
      PROVE  Known'
  <2>1. \A f \in Effects : eff'[f] = "none" => eff[f] = "none"
    <3>1. SettlementState(result) # "none"
      BY SettlementCases DEF Settled
    <3> HIDE DEF Calls
    <3> QED
      BY <1>12, <3>1 DEF EffectSettlesMove
  <2>2. \A f \in Effects \ {e} : world'[f] = world[f]
    BY <1>12 DEF EffectSettlesMove
  <2>3. /\ world'[e].runtime = world[e].runtime /\ world'[e].op = world[e].op
               /\ world[e].is = "running"
        /\ world'[e].is # "none" /\ owed' = owed \ {e} /\ UNCHANGED <<op, place>>
    BY <1>12 DEF EffectSettlesMove, Outcomes
  <2>4. \A f \in Effects : eff[f] = "none" /\ f # e => eff'[f] = "none"
    BY <1>12 DEF EffectSettlesMove
  <2> HIDE DEF TypeOK
  <2> QED
    BY <2>1, <2>2, <2>3, <2>4
<1>13. ASSUME NEW o \in Operations, Prune(o)
      PROVE  Known'
  BY <1>13 DEF Prune
<1>14. CASE SwitchMove
  BY <1>14 DEF SwitchMove
<1> HIDE DEF Known, TypeOK
<1> QED
  BY <1>1, <1>2, <1>3, <1>4, <1>5, <1>6, <1>7, <1>8, <1>9, <1>10, <1>11, <1>12, <1>13, <1>14,
     StepCases

\* Each step keeps a session at its operation.
LEMMA TurnsStep ==
    ASSUME TypeOK, Turns, [Next]_vars
    PROVE  Turns'
<1> USE DEF Turns, Starting, TypeOK, OpRows, dbVars, recoveryVars, coordinatorVars, runtimeVars,
        worldVars
<1>1. ASSUME NEW r \in Runtimes, RuntimeOpens(r)
     PROVE  Turns'
  BY <1>1 DEF RuntimeOpens
<1>2. ASSUME NEW r \in Runtimes, RecoveryLoads(r)
     PROVE  Turns'
  BY <1>2 DEF RecoveryLoads
<1>3. ASSUME NEW r \in Runtimes, RecoveryJudges(r)
     PROVE  Turns'
  BY <1>3 DEF RecoveryJudges
<1>4. ASSUME NEW r \in Runtimes, ClaimsMove(r)
     PROVE  Turns'
  <2>1. \A o \in Operations : op'[o].runtime = op[o].runtime /\ (op[o].state # "none"
            => op'[o].state # "none")
    BY <1>4, ClaimKeepsRows
  <2>2. current[r] = 0
    BY <1>4 DEF ClaimsMove
  <2> QED
    BY <1>4, <2>1, <2>2 DEF ClaimsMove
<1>5. ASSUME NEW r \in Runtimes, NEW o \in Operations, TurnStartsMove(r, o)
     PROVE  Turns'
  <2>1. \A p \in Operations : op[p].state # "none" => op'[p] = op[p]
    BY <1>5 DEF TurnStartsMove, NoOperation
  <2> QED
    BY <1>5, <2>1 DEF TurnStartsMove
<1>6. ASSUME NEW r \in Runtimes, NEW k \in {"provider", "tool"}, NEW e \in Effects,
             EffectBeginsMove(r, k, e)
     PROVE  Turns'
  BY <1>6 DEF EffectBeginsMove
<1>7. ASSUME NEW r \in Runtimes, FinishMove(r)
     PROVE  Turns'
  BY <1>7 DEF FinishMove
<1>8. ASSUME NEW r \in Runtimes, NEW e \in Effects, CompleteEffectMove(r, e)
     PROVE  Turns'
  BY <1>8 DEF CompleteEffectMove
<1>9. ASSUME NEW r \in Runtimes, CompleteOperationMove(r)
     PROVE  Turns'
  BY <1>9 DEF CompleteOperationMove
<1>10. ASSUME NEW r \in Runtimes, LeaseMove(r)
      PROVE  Turns'
  BY <1>10 DEF LeaseMove
<1>11. ASSUME NEW r \in Runtimes, Gone(r)
      PROVE  Turns'
  BY <1>11 DEF Gone
<1>12. ASSUME NEW e \in Effects, NEW result \in Outcomes,
             EffectSettlesMove(e, result)
      PROVE  Turns'
  <2>1. \A q \in Runtimes : enabled'[q] => enabled[q]
    BY SMTT(60), <1>12 DEF EffectSettlesMove
  <2> QED
    BY <1>12, <2>1 DEF EffectSettlesMove
<1>13. ASSUME NEW o \in Operations, Prune(o)
      PROVE  Turns'
  BY <1>13 DEF Prune
<1>14. CASE SwitchMove
  BY SMTT(60), <1>14 DEF SwitchMove
<1> QED
  BY <1>1, <1>2, <1>3, <1>4, <1>5, <1>6, <1>7, <1>8, <1>9, <1>10, <1>11, <1>12, <1>13, <1>14,
     StepCases

\* Each step keeps the coordinator's list complete.
LEMMA TrackingStep ==
    ASSUME TypeOK, Known, Turns, Tracking, [Next]_vars
    PROVE  Tracking'
<1> USE DEF Tracking, Owner, dbVars, recoveryVars, coordinatorVars, runtimeVars, worldVars
<1>0. \A f \in Effects : eff[f] = "intent" =>
          /\ world[f].runtime \in Runtimes /\ world[f].op \in Operations /\ world[f].op # 0
          /\ op[world[f].op].state # "none" /\ op[world[f].op].runtime = world[f].runtime
          /\ place[world[f].runtime] \notin Starting /\ world[f].is # "none"
  BY DEF Known, Owner, Operations
<1>1. ASSUME NEW r \in Runtimes, RuntimeOpens(r)
     PROVE  Tracking'
  BY <1>1 DEF RuntimeOpens
<1>2. ASSUME NEW r \in Runtimes, RecoveryLoads(r)
     PROVE  Tracking'
  BY <1>2 DEF RecoveryLoads
<1>3. ASSUME NEW r \in Runtimes, RecoveryJudges(r)
     PROVE  Tracking'
  BY <1>3 DEF RecoveryJudges
<1>4. ASSUME NEW r \in Runtimes, ClaimsMove(r)
     PROVE  Tracking'
  <2> SUFFICES ASSUME NEW f \in Effects, eff'[f] = "intent", enabled'[world'[f].runtime],
                       world'[f].op = current'[world'[f].runtime]
                PROVE  /\ f \in tracked'[world'[f].runtime]
                       /\ place'[world'[f].runtime] = "completing"
                              => f \in remaining'[world'[f].runtime]
    OBVIOUS
  <2>1. eff[f] = "intent" /\ world'[f] = world[f]
    BY <1>4 DEF ClaimsMove, TypeOK
  <2>2. world[f].runtime # r
    BY <1>4, <1>0, <2>1 DEF ClaimsMove, Starting
  <2> QED
    BY <1>4, <2>1, <2>2 DEF ClaimsMove, TypeOK
<1>5. ASSUME NEW r \in Runtimes, NEW o \in Operations, TurnStartsMove(r, o)
     PROVE  Tracking'
  <2> SUFFICES ASSUME NEW f \in Effects, eff'[f] = "intent", enabled'[world'[f].runtime],
                       world'[f].op = current'[world'[f].runtime]
                PROVE  /\ f \in tracked'[world'[f].runtime]
                       /\ place'[world'[f].runtime] = "completing"
                              => f \in remaining'[world'[f].runtime]
    OBVIOUS
  <2>a. eff[f] = "intent" /\ world'[f] = world[f]
    BY <1>5 DEF TurnStartsMove
  <2>1. eff[f] = "intent" /\ world'[f] = world[f] /\ enabled[world[f].runtime]
    BY <1>5, <1>0, <2>a DEF TurnStartsMove, TypeOK
  <2>2. world[f].op # o
    BY <1>5, <1>0, <2>1 DEF TurnStartsMove, NoOperation
  <2> QED
    BY <1>5, <1>0, <2>1, <2>2 DEF TurnStartsMove, TypeOK
<1>6. ASSUME NEW r \in Runtimes, NEW k \in {"provider", "tool"}, NEW e \in Effects,
             EffectBeginsMove(r, k, e)
     PROVE  Tracking'
  <2> SUFFICES ASSUME NEW f \in Effects, eff'[f] = "intent", enabled'[world'[f].runtime],
                       world'[f].op = current'[world'[f].runtime]
                PROVE  /\ f \in tracked'[world'[f].runtime]
                       /\ place'[world'[f].runtime] = "completing"
                              => f \in remaining'[world'[f].runtime]
    OBVIOUS
  <2>1. CASE f = e
    BY <1>6, <2>1 DEF EffectBeginsMove, TypeOK
  <2>2. CASE f # e
    <3>1. eff[f] = "intent" /\ world'[f] = world[f] /\ enabled[world[f].runtime]
      BY <1>6, <1>0, <2>2 DEF EffectBeginsMove, TypeOK
    <3>2. f \in tracked[world[f].runtime] /\ world[f].runtime \in Runtimes
      BY <1>6, <1>0, <3>1 DEF EffectBeginsMove
    <3>3. f \in tracked'[world[f].runtime]
      BY <1>6, <3>2 DEF EffectBeginsMove, TypeOK
    <3> QED
      BY <1>6, <3>1, <3>3 DEF EffectBeginsMove
  <2> QED
    BY <2>1, <2>2
<1>7. ASSUME NEW r \in Runtimes, FinishMove(r)
     PROVE  Tracking'
  <2> SUFFICES ASSUME NEW f \in Effects, eff'[f] = "intent", enabled'[world'[f].runtime],
                       world'[f].op = current'[world'[f].runtime]
                PROVE  /\ f \in tracked'[world'[f].runtime]
                       /\ place'[world'[f].runtime] = "completing"
                              => f \in remaining'[world'[f].runtime]
    OBVIOUS
  <2>1. /\ eff[f] = "intent" /\ enabled[world[f].runtime] /\ world'[f] = world[f]
    BY <1>7 DEF FinishMove, TypeOK
  <2> QED
    BY <1>7, <1>0, <2>1 DEF FinishMove, TypeOK
<1>8. ASSUME NEW r \in Runtimes, NEW e \in Effects, CompleteEffectMove(r, e)
     PROVE  Tracking'
  <2> SUFFICES ASSUME NEW f \in Effects, eff'[f] = "intent", enabled'[world'[f].runtime],
                       world'[f].op = current'[world'[f].runtime]
                PROVE  /\ f \in tracked'[world'[f].runtime]
                       /\ place'[world'[f].runtime] = "completing"
                              => f \in remaining'[world'[f].runtime]
    OBVIOUS
  <2>1. eff[f] = "intent" /\ world'[f] = world[f] /\ enabled[world[f].runtime]
    BY <1>8, <1>0 DEF CompleteEffectMove, TypeOK
  <2>2. world[f].runtime \in Runtimes /\ f \in tracked[world[f].runtime]
    BY <1>8, <1>0, <2>1 DEF CompleteEffectMove
  <2>3. ASSUME place'[world[f].runtime] = "completing" PROVE f \in remaining'[world[f].runtime]
    <3>1. CASE world[f].runtime # r
      <4>1. place[world[f].runtime] = "completing"
        BY <1>8, <2>2, <2>3, <3>1 DEF CompleteEffectMove, TypeOK
      <4>2. f \in remaining[world[f].runtime]
        BY <1>8, <2>1, <4>1 DEF CompleteEffectMove
      <4> QED
        BY <1>8, <2>2, <3>1, <4>2 DEF CompleteEffectMove, TypeOK
    <3>2. CASE world[f].runtime = r
      <4>1. enabled'[r]
        BY <2>1, <3>2
      <4>a. enabled' # [enabled EXCEPT ![r] = FALSE]
        BY <4>1 DEF TypeOK
      <4>2. f # e /\ remaining' = [remaining EXCEPT ![r] = remaining[r] \ {e}]
        BY <1>8, <4>a DEF CompleteEffectMove
      <4>3. f \in remaining[r]
        BY <1>8, <2>1, <3>2 DEF CompleteEffectMove
      <4> QED
        BY <3>2, <4>2, <4>3 DEF TypeOK
    <3> QED
      BY <3>1, <3>2
  <2> QED
    BY <1>8, <2>1, <2>2, <2>3 DEF CompleteEffectMove
<1>9. ASSUME NEW r \in Runtimes, CompleteOperationMove(r)
     PROVE  Tracking'
  <2> SUFFICES ASSUME NEW f \in Effects, eff'[f] = "intent", enabled'[world'[f].runtime],
                       world'[f].op = current'[world'[f].runtime]
                PROVE  /\ f \in tracked'[world'[f].runtime]
                       /\ place'[world'[f].runtime] = "completing"
                              => f \in remaining'[world'[f].runtime]
    OBVIOUS
  <2>a. eff[f] = "intent" /\ world'[f] = world[f]
    BY <1>9 DEF CompleteOperationMove
  <2>1. eff[f] = "intent" /\ world'[f] = world[f] /\ enabled[world[f].runtime]
    BY SMTT(60), <1>9, <1>0, <2>a DEF CompleteOperationMove, TypeOK
  <2> QED
    BY <1>9, <1>0, <2>1 DEF CompleteOperationMove, TypeOK
<1>10. ASSUME NEW r \in Runtimes, LeaseMove(r)
      PROVE  Tracking'
  BY <1>10 DEF LeaseMove
<1>11. ASSUME NEW r \in Runtimes, Gone(r)
      PROVE  Tracking'
  <2> SUFFICES ASSUME NEW f \in Effects, eff'[f] = "intent", enabled'[world'[f].runtime],
                       world'[f].op = current'[world'[f].runtime]
                PROVE  /\ f \in tracked'[world'[f].runtime]
                       /\ place'[world'[f].runtime] = "completing"
                              => f \in remaining'[world'[f].runtime]
    OBVIOUS
  <2>1. /\ eff[f] = "intent" /\ enabled[world[f].runtime] /\ world'[f] = world[f]
    BY <1>11 DEF Gone, TypeOK
  <2> QED
    BY <1>11, <1>0, <2>1 DEF Gone, TypeOK
<1>12. ASSUME NEW e \in Effects, NEW result \in Outcomes,
             EffectSettlesMove(e, result)
      PROVE  Tracking'
  <2> SUFFICES ASSUME NEW f \in Effects, eff'[f] = "intent", enabled'[world'[f].runtime],
                       world'[f].op = current'[world'[f].runtime]
                PROVE  /\ f \in tracked'[world'[f].runtime]
                       /\ place'[world'[f].runtime] = "completing"
                              => f \in remaining'[world'[f].runtime]
    OBVIOUS
  <2>1. world'[f].runtime = world[f].runtime /\ world'[f].op = world[f].op
    BY <1>12 DEF EffectSettlesMove, TypeOK
  <2>2. SettlementState(result) # "intent"
    BY SettlementCases DEF Settled
  <2>3. eff[f] = "intent"
    BY <1>12, <2>2 DEF EffectSettlesMove, TypeOK
  <2>4. enabled[world[f].runtime]
    BY ZenonT(60), <1>12, <1>0, <2>1, <2>3 DEF EffectSettlesMove, TypeOK
  <2>5. f \in tracked[world[f].runtime] /\ (place[world[f].runtime] = "completing"
            => f \in remaining[world[f].runtime])
    BY <1>12, <2>1, <2>3, <2>4 DEF EffectSettlesMove
  <2>6. (eff'[e] = eff[e] /\ tracked' = tracked) \/ f # e
    BY <1>12, <2>2 DEF EffectSettlesMove, TypeOK
  <2> QED
    BY SMTT(60), <1>12, <1>0, <2>1, <2>3, <2>5, <2>6 DEF EffectSettlesMove, TypeOK
<1>13. ASSUME NEW o \in Operations, Prune(o)
      PROVE  Tracking'
  BY <1>13 DEF Prune
<1>14. CASE SwitchMove
  <2> SUFFICES ASSUME NEW f \in Effects, eff'[f] = "intent", enabled'[world'[f].runtime],
                       world'[f].op = current'[world'[f].runtime]
                PROVE  /\ f \in tracked'[world'[f].runtime]
                       /\ place'[world'[f].runtime] = "completing"
                              => f \in remaining'[world'[f].runtime]
    OBVIOUS
  <2>a. eff[f] = "intent" /\ world'[f] = world[f]
    BY <1>14 DEF SwitchMove
  <2>1. eff[f] = "intent" /\ world'[f] = world[f] /\ enabled[world[f].runtime]
    BY <1>14, <1>0, <2>a DEF SwitchMove, TypeOK
  <2> QED
    BY <1>14, <1>0, <2>1 DEF SwitchMove, TypeOK
<1> QED
  BY <1>1, <1>2, <1>3, <1>4, <1>5, <1>6, <1>7, <1>8, <1>9, <1>10, <1>11, <1>12, <1>13, <1>14,
     StepCases

\* Each step keeps an operation open while one of its effects is.
LEMMA SettlementStep ==
    ASSUME TypeOK, Known, Turns, Tracking, Settlement, [Next]_vars
    PROVE  Settlement'
<1> USE DEF Settlement, Owner, dbVars, recoveryVars, coordinatorVars, runtimeVars, worldVars
<1>0. \A f \in Effects : eff[f] = "intent" =>
          /\ world[f].runtime \in Runtimes /\ world[f].op \in Operations /\ world[f].op # 0
          /\ op[world[f].op].state # "none" /\ op[world[f].op].runtime = world[f].runtime
          /\ place[world[f].runtime] \notin Starting /\ world[f].is # "none"
  BY DEF Known, Owner, Operations
<1>1. ASSUME NEW r \in Runtimes, RuntimeOpens(r)
     PROVE  Settlement'
  BY <1>1 DEF RuntimeOpens
<1>2. ASSUME NEW r \in Runtimes, RecoveryLoads(r)
     PROVE  Settlement'
  BY <1>2 DEF RecoveryLoads
<1>3. ASSUME NEW r \in Runtimes, RecoveryJudges(r)
     PROVE  Settlement'
  BY <1>3 DEF RecoveryJudges
<1>4. ASSUME NEW r \in Runtimes, ClaimsMove(r)
     PROVE  Settlement'
  <2>1. CASE UNCHANGED <<eff, op>>
    BY <1>4, <2>1 DEF ClaimsMove
  <2>2. CASE ~UNCHANGED <<eff, op>>
    <3>1. \A f \in Effects : eff'[f] = IF f \in Claimed(r) THEN "uncertain" ELSE eff[f]
      BY <1>4, <2>2 DEF ClaimsMove
    <3>2. \A o \in Operations : (\E f \in Effects : world[f].op = o /\ eff'[f] = "uncertain")
              /\ op[o].state = "running" /\ op[o].runtime \in stale[r]
              => op'[o].state = "uncertain"
      BY <1>4, <2>2 DEF ClaimsMove, TypeOK
    <3>3. \A o \in Operations : op'[o].state \in {op[o].state, "uncertain"}
      BY <1>4, ClaimKeepsRows
    <3>4. ASSUME NEW f \in Effects, f \in Claimed(r) PROVE op'[world[f].op].state = "uncertain"
      <4>1. /\ eff[f] = "intent" /\ world[f].runtime \in stale[r] /\ eff'[f] = "uncertain"
        BY <3>4, <3>1 DEF Claimed, Intents
      <4>2. op[world[f].op].state \in {"running", "uncertain"} /\ world[f].op \in Operations
                /\ op[world[f].op].runtime \in stale[r]
        BY <4>1, <1>0
      <4> QED
        BY <4>1, <4>2, <3>2, <3>3
    <3>5. ASSUME NEW f \in Effects, f \notin Claimed(r)
          PROVE  /\ eff'[f] = "uncertain" => op'[world[f].op].state = "uncertain"
                 /\ eff'[f] = "intent" => op'[world[f].op].state \in {"running", "uncertain"}
      <4>1. eff'[f] = eff[f]
        BY <3>5, <3>1
      <4>2. eff[f] # "none" => world[f].op \in Operations
        BY DEF Known
      <4> QED
        BY <4>1, <4>2, <3>3
    <3> QED
      BY <1>4, <3>1, <3>4, <3>5 DEF ClaimsMove
  <2> QED
    BY <2>1, <2>2
<1>5. ASSUME NEW r \in Runtimes, NEW o \in Operations, TurnStartsMove(r, o)
     PROVE  Settlement'
  <2>1. \A f \in Effects : eff[f] \in {"intent", "uncertain"} => world[f].op \in Operations
            /\ world[f].op # o
    BY <1>5 DEF TurnStartsMove, Known, NoOperation
  <2> QED
    BY <1>5, <2>1 DEF TurnStartsMove, TypeOK
<1>6. ASSUME NEW r \in Runtimes, NEW k \in {"provider", "tool"}, NEW e \in Effects,
             EffectBeginsMove(r, k, e)
     PROVE  Settlement'
  <2>1. \A f \in Effects \ {e} : eff'[f] = eff[f] /\ world'[f] = world[f]
    BY <1>6 DEF EffectBeginsMove, TypeOK
  <2>2. world'[e].op = current[r] /\ op' = op /\ eff[e] = "none"
    BY <1>6 DEF EffectBeginsMove, TypeOK, Known, NoEffect
  <2>3. eff'[e] \in {"none", "intent"} /\ (eff'[e] = "intent" => op[current[r]].state = "running")
    BY <1>6, <2>2 DEF EffectBeginsMove, TypeOK
  <2> QED
    BY <2>1, <2>2, <2>3
<1>7. ASSUME NEW r \in Runtimes, FinishMove(r)
     PROVE  Settlement'
  BY <1>7 DEF FinishMove
<1>8. ASSUME NEW r \in Runtimes, NEW e \in Effects, CompleteEffectMove(r, e)
     PROVE  Settlement'
  <2>1. \A f \in Effects : eff'[f] \in {eff[f], "cancelled", "ended"}
    BY <1>8 DEF CompleteEffectMove, TypeOK
  <2> QED
    BY <1>8, <2>1 DEF CompleteEffectMove
<1>9. ASSUME NEW r \in Runtimes, CompleteOperationMove(r)
     PROVE  Settlement'
  <2>1. \A f \in Effects : eff[f] \in {"intent", "uncertain"} => world[f].op \in Operations
    BY DEF Known
  <2>2. ASSUME NEW f \in Effects, world[f].op = current[r] PROVE eff[f] # "intent"
    BY <1>9, <2>2, <1>0 DEF CompleteOperationMove, Turns, Tracking
  <2> QED
    BY ZenonT(60), <1>9, <2>1, <2>2, CompletionKeepsRows DEF CompleteOperationMove
<1>10. ASSUME NEW r \in Runtimes, LeaseMove(r)
      PROVE  Settlement'
  BY <1>10 DEF LeaseMove
<1>11. ASSUME NEW r \in Runtimes, Gone(r)
      PROVE  Settlement'
  BY <1>11 DEF Gone
<1>12. ASSUME NEW e \in Effects, NEW result \in Outcomes,
             EffectSettlesMove(e, result)
      PROVE  Settlement'
  <2>1. \A f \in Effects : world'[f].op = world[f].op
    BY <1>12 DEF EffectSettlesMove, TypeOK
  <2>2. SettlementState(result) \notin {"intent", "uncertain"}
    BY SettlementCases DEF Settled
  <2>3. \A f \in Effects : eff'[f] \in {eff[f], SettlementState(result)}
    BY <1>12 DEF EffectSettlesMove, TypeOK
  <2> QED
    BY <1>12, <2>1, <2>2, <2>3 DEF EffectSettlesMove
<1>13. ASSUME NEW o \in Operations, Prune(o)
      PROVE  Settlement'
  BY <1>13 DEF Prune
<1>14. CASE SwitchMove
  BY <1>14 DEF SwitchMove
<1> QED
  BY <1>1, <1>2, <1>3, <1>4, <1>5, <1>6, <1>7, <1>8, <1>9, <1>10, <1>11, <1>12, <1>13, <1>14,
     StepCases

\* Each step keeps the reports disjoint and over.
LEMMA ReportsStep ==
    ASSUME TypeOK, Known, Turns, Reports, [Next]_vars
    PROVE  Reports'
<1> USE DEF Reports, ReportedOnce, TypeOK, Owner, dbVars, recoveryVars, coordinatorVars,
        runtimeVars, worldVars
<1>1. ASSUME NEW r \in Runtimes, RuntimeOpens(r)
     PROVE  Reports'
  BY <1>1 DEF RuntimeOpens
<1>2. ASSUME NEW r \in Runtimes, RecoveryLoads(r)
     PROVE  Reports'
  BY <1>2 DEF RecoveryLoads
<1>3. ASSUME NEW r \in Runtimes, RecoveryJudges(r)
     PROVE  Reports'
  BY <1>3 DEF RecoveryJudges
<1>4. ASSUME NEW r \in Runtimes, ClaimsMove(r)
     PROVE  Reports'
  <2>1. \A f \in Effects : eff[f] \notin {"none", "intent"} => eff'[f] = eff[f]
    BY <1>4 DEF ClaimsMove, Claimed, Intents
  <2>2. \/ report' = [report EXCEPT ![r] = {}]
        \/ /\ report' = [report EXCEPT ![r] = Claimed(r)]
           /\ \A f \in Claimed(r) : f \in Effects /\ eff[f] = "intent" /\ eff'[f] = "uncertain"
    BY <1>4 DEF ClaimsMove, Claimed, Intents
  <2>3. \A q \in Runtimes : \A f \in report'[q] : eff'[f] \notin {"none", "intent"}
    BY <2>1, <2>2
  <2>4. \A q \in Runtimes \ {r} : report'[q] = report[q] /\ report[q] \cap report'[r] = {}
    BY <2>2
  <2>5. \A q, s \in Runtimes : q # s => report'[q] \cap report'[s] = {}
    BY SMTT(60), <2>4
  <2> QED
    BY <2>3, <2>5
<1>5. ASSUME NEW r \in Runtimes, NEW o \in Operations, TurnStartsMove(r, o)
     PROVE  Reports'
  BY <1>5 DEF TurnStartsMove
<1>6. ASSUME NEW r \in Runtimes, NEW k \in {"provider", "tool"}, NEW e \in Effects,
             EffectBeginsMove(r, k, e)
     PROVE  Reports'
  <2>1. eff[e] = "none"
    BY <1>6 DEF EffectBeginsMove, Known, NoEffect
  <2>2. \A f \in Effects : eff[f] # "none" => eff'[f] = eff[f]
    BY <1>6, <2>1 DEF EffectBeginsMove
  <2> QED
    BY <1>6, <2>2 DEF EffectBeginsMove
<1>7. ASSUME NEW r \in Runtimes, FinishMove(r)
     PROVE  Reports'
  BY <1>7 DEF FinishMove
<1>8. ASSUME NEW r \in Runtimes, NEW e \in Effects, CompleteEffectMove(r, e)
     PROVE  Reports'
  BY <1>8 DEF CompleteEffectMove
<1>9. ASSUME NEW r \in Runtimes, CompleteOperationMove(r)
     PROVE  Reports'
  BY <1>9 DEF CompleteOperationMove
<1>10. ASSUME NEW r \in Runtimes, LeaseMove(r)
      PROVE  Reports'
  BY <1>10 DEF LeaseMove
<1>11. ASSUME NEW r \in Runtimes, Gone(r)
      PROVE  Reports'
  BY <1>11 DEF Gone
<1>12. ASSUME NEW e \in Effects, NEW result \in Outcomes,
             EffectSettlesMove(e, result)
      PROVE  Reports'
  BY <1>12 DEF EffectSettlesMove
<1>13. ASSUME NEW o \in Operations, Prune(o)
      PROVE  Reports'
  BY <1>13 DEF Prune
<1>14. CASE SwitchMove
  BY <1>14 DEF SwitchMove
<1> QED
  BY <1>1, <1>2, <1>3, <1>4, <1>5, <1>6, <1>7, <1>8, <1>9, <1>10, <1>11, <1>12, <1>13, <1>14,
     StepCases

\* Each step keeps what a recovery found true enough.
LEMMA LeasesStep ==
    ASSUME TypeOK, Known, Turns, Leases, [Next]_vars
    PROVE  Leases'
<1> USE DEF Leases, TypeOK, Alive, Owner, dbVars, recoveryVars, coordinatorVars, runtimeVars,
        worldVars
<1>1. ASSUME NEW r \in Runtimes, RuntimeOpens(r)
     PROVE  Leases'
  BY <1>1 DEF RuntimeOpens
<1>2. ASSUME NEW r \in Runtimes, RecoveryLoads(r)
     PROVE  Leases'
  <2>1. PICK rows \in Rows({Owner(e) : e \in Intents} \ {r}) : found' = [found EXCEPT ![r] = rows]
    BY <1>2 DEF RecoveryLoads
  <2>2. /\ DOMAIN found' = Runtimes /\ DOMAIN found'[r] = DOMAIN rows /\ \A q \in DOMAIN rows :
               found'[r][q] = rows[q]
        /\ \A s \in Runtimes \ {r} : found'[s] = found[s]
    BY <2>1
  <2>3. \A q \in DOMAIN rows : /\ rows[q] \in {"closed", "fresh", "late"}
            /\ (rows[q] = "closed" => lease[q] = "closed")
                               /\ q \in Runtimes /\ place[q] # "new"
    BY <2>1 DEF Rows, Intents, Known, Starting
  <2>4. /\ UNCHANGED <<lease, stale, recovered>> /\ place'[r] = "judging" /\ place[r] = "loading"
        /\ \A q \in Runtimes \ {r} : place'[q] = place[q]
    BY <1>2 DEF RecoveryLoads
  <2>5. \A s \in Runtimes : stale'[s] = stale[s] /\ (s = r => stale[s] = {})
    BY <2>4
  <2>6. \A s \in Runtimes : \A q \in DOMAIN found'[s] :
          /\ found'[s][q] \in {"closed", "fresh", "late"}
          /\ place'[q] # "new"
          /\ found'[s][q] = "closed" => lease'[q] = "closed"
    BY <2>2, <2>3, <2>4
  <2>7. \A s \in Runtimes : \A q \in stale'[s] :
          /\ q \in DOMAIN found'[s]
          /\ found'[s][q] \in {"closed", "late"} \/ place'[q] = "gone"
    BY <2>2, <2>4, <2>5
  <2>8. /\ \A s \in Runtimes : lease'[s] = "closed" => place'[s] \in {"closed", "gone"}
        /\ \A q \in recovered' : lease'[q] = "closed"
    BY <2>4
  <2>9. \A s \in Runtimes : place'[s] # "claiming" => stale'[s] = {}
    BY <2>4, <2>5
  <2> QED
    BY <2>2, <2>6, <2>7, <2>8, <2>9
<1>3. ASSUME NEW r \in Runtimes, RecoveryJudges(r)
     PROVE  Leases'
  <2>1. PICK S \in SUBSET DOMAIN found[r] : RecoveryJudges(r)!2!(S)
    BY <1>3 DEF RecoveryJudges
  <2>2. /\ DOMAIN found' = Runtimes /\ DOMAIN found'[r] = S /\ \A q \in S :
               found'[r][q] = found[r][q]
        /\ \A s \in Runtimes \ {r} : found'[s] = found[s]
        /\ stale'[r] = S /\ \A s \in Runtimes \ {r} : stale'[s] = stale[s]
    BY <2>1
  <2>3. \A q \in S : q \in Runtimes /\ (found[r][q] \in {"closed", "late"} \/ place[q] = "gone")
    BY ZenonT(60), <2>1 DEF RuntimeIsLive
  <2>4. /\ UNCHANGED <<lease, recovered>> /\ place'[r] = "claiming" /\ place[r] = "judging"
        /\ \A q \in Runtimes \ {r} : place'[q] = place[q]
    BY <1>3 DEF RecoveryJudges
  <2>5. \A s \in Runtimes : \A q \in stale'[s] :
          /\ q \in DOMAIN found'[s]
          /\ found'[s][q] \in {"closed", "late"} \/ place'[q] = "gone"
    BY <2>2, <2>3, <2>4
  <2>6. \A s \in Runtimes : \A q \in DOMAIN found'[s] :
          /\ found'[s][q] \in {"closed", "fresh", "late"}
          /\ place'[q] # "new"
          /\ found'[s][q] = "closed" => lease'[q] = "closed"
    BY SMTT(60), <2>2, <2>3, <2>4
  <2>7. /\ \A s \in Runtimes : lease'[s] = "closed" => place'[s] \in {"closed", "gone"}
        /\ \A q \in recovered' : lease'[q] = "closed"
        /\ \A s \in Runtimes : place'[s] # "claiming" => stale'[s] = {}
    BY SMTT(60), <2>2, <2>4
  <2> QED
    BY <2>2, <2>5, <2>6, <2>7
<1>4. ASSUME NEW r \in Runtimes, ClaimsMove(r)
     PROVE  Leases'
  BY <1>4 DEF ClaimsMove
<1>5. ASSUME NEW r \in Runtimes, NEW o \in Operations, TurnStartsMove(r, o)
     PROVE  Leases'
  BY <1>5 DEF TurnStartsMove
<1>6. ASSUME NEW r \in Runtimes, NEW k \in {"provider", "tool"}, NEW e \in Effects,
             EffectBeginsMove(r, k, e)
     PROVE  Leases'
  BY <1>6 DEF EffectBeginsMove
<1>7. ASSUME NEW r \in Runtimes, FinishMove(r)
     PROVE  Leases'
  <2>1. \E p \in {"completing", "idle", "closing"} : place' \in {place, [place EXCEPT ![r] = p]}
    BY <1>7 DEF FinishMove
  <2>2. UNCHANGED <<lease, found, stale, recovered>>
            /\ place[r] \notin {"new", "claiming", "closed", "gone"}
    BY <1>7 DEF FinishMove
  <2>3. \A q \in Runtimes : \/ place'[q] = place[q]
                            \/ /\ place[q] \notin {"new", "claiming", "closed", "gone"}
                               /\ place'[q] \notin {"new", "claiming", "closed", "gone"}
    BY <2>1, <2>2
  <2> HIDE DEF TypeOK
  <2>4. \A s \in Runtimes : \A q \in DOMAIN found[s] : q \in Runtimes
    BY DEF TypeOK
  <2> QED
    BY <2>2, <2>3, <2>4
<1>8. ASSUME NEW r \in Runtimes, NEW e \in Effects, CompleteEffectMove(r, e)
     PROVE  Leases'
  <2>1. \E p \in {"idle", "closing"} : place' \in {place, [place EXCEPT ![r] = p]}
    BY <1>8 DEF CompleteEffectMove
  <2>2. UNCHANGED <<lease, found, stale, recovered>>
            /\ place[r] \notin {"new", "claiming", "closed", "gone"}
    BY <1>8 DEF CompleteEffectMove
  <2>3. \A q \in Runtimes : \/ place'[q] = place[q]
                            \/ /\ place[q] \notin {"new", "claiming", "closed", "gone"}
                               /\ place'[q] \notin {"new", "claiming", "closed", "gone"}
    BY <2>1, <2>2
  <2> HIDE DEF TypeOK
  <2>4. \A s \in Runtimes : \A q \in DOMAIN found[s] : q \in Runtimes
    BY DEF TypeOK
  <2> QED
    BY <2>2, <2>3, <2>4
<1>9. ASSUME NEW r \in Runtimes, CompleteOperationMove(r)
     PROVE  Leases'
  <2>1. \E p \in {"idle", "closing"} : place' \in {place, [place EXCEPT ![r] = p]}
    BY <1>9 DEF CompleteOperationMove
  <2>2. UNCHANGED <<lease, found, stale, recovered>>
            /\ place[r] \notin {"new", "claiming", "closed", "gone"}
    BY <1>9 DEF CompleteOperationMove
  <2>3. \A q \in Runtimes : \/ place'[q] = place[q]
                            \/ /\ place[q] \notin {"new", "claiming", "closed", "gone"}
                               /\ place'[q] \notin {"new", "claiming", "closed", "gone"}
    BY <2>1, <2>2
  <2> HIDE DEF TypeOK
  <2>4. \A s \in Runtimes : \A q \in DOMAIN found[s] : q \in Runtimes
    BY DEF TypeOK
  <2> QED
    BY <2>2, <2>3, <2>4
<1>10. ASSUME NEW r \in Runtimes, LeaseMove(r)
      PROVE  Leases'
  BY <1>10 DEF LeaseMove
<1>11. ASSUME NEW r \in Runtimes, Gone(r)
      PROVE  Leases'
  BY <1>11 DEF Gone
<1>12. ASSUME NEW e \in Effects, NEW result \in Outcomes,
             EffectSettlesMove(e, result)
      PROVE  Leases'
  BY <1>12 DEF EffectSettlesMove
<1>13. ASSUME NEW o \in Operations, Prune(o)
      PROVE  Leases'
  BY <1>13 DEF Prune
<1>14. CASE SwitchMove
  BY <1>14 DEF SwitchMove
<1> QED
  BY <1>1, <1>2, <1>3, <1>4, <1>5, <1>6, <1>7, <1>8, <1>9, <1>10, <1>11, <1>12, <1>13, <1>14,
     StepCases

\* Each step keeps success true.
LEMMA SuccessStep ==
    ASSUME TypeOK, Known, Turns, SuccessHappened, [Next]_vars
    PROVE  SuccessHappened'
<1> USE DEF SuccessHappened, TypeOK, Owner, dbVars, recoveryVars, coordinatorVars, runtimeVars,
        worldVars
<1>1. ASSUME NEW r \in Runtimes, RuntimeOpens(r)
     PROVE  SuccessHappened'
  BY <1>1 DEF RuntimeOpens
<1>2. ASSUME NEW r \in Runtimes, RecoveryLoads(r)
     PROVE  SuccessHappened'
  BY <1>2 DEF RecoveryLoads
<1>3. ASSUME NEW r \in Runtimes, RecoveryJudges(r)
     PROVE  SuccessHappened'
  BY <1>3 DEF RecoveryJudges
<1>4. ASSUME NEW r \in Runtimes, ClaimsMove(r)
     PROVE  SuccessHappened'
  BY <1>4 DEF ClaimsMove
<1>5. ASSUME NEW r \in Runtimes, NEW o \in Operations, TurnStartsMove(r, o)
     PROVE  SuccessHappened'
  BY <1>5 DEF TurnStartsMove
<1>6. ASSUME NEW r \in Runtimes, NEW k \in {"provider", "tool"}, NEW e \in Effects,
             EffectBeginsMove(r, k, e)
     PROVE  SuccessHappened'
  <2>1. eff[e] = "none"
    BY <1>6 DEF EffectBeginsMove, Known, NoEffect
  <2>2. eff'[e] # "settled" /\ \A f \in Effects \ {e} : eff'[f] = eff[f] /\ world'[f] = world[f]
    BY <1>6, <2>1 DEF EffectBeginsMove
  <2> QED
    BY <2>2
<1>7. ASSUME NEW r \in Runtimes, FinishMove(r)
     PROVE  SuccessHappened'
  BY <1>7 DEF FinishMove
<1>8. ASSUME NEW r \in Runtimes, NEW e \in Effects, CompleteEffectMove(r, e)
     PROVE  SuccessHappened'
  BY <1>8 DEF CompleteEffectMove
<1>9. ASSUME NEW r \in Runtimes, CompleteOperationMove(r)
     PROVE  SuccessHappened'
  BY <1>9 DEF CompleteOperationMove
<1>10. ASSUME NEW r \in Runtimes, LeaseMove(r)
      PROVE  SuccessHappened'
  BY <1>10 DEF LeaseMove
<1>11. ASSUME NEW r \in Runtimes, Gone(r)
      PROVE  SuccessHappened'
  BY <1>11 DEF Gone
<1>12. ASSUME NEW e \in Effects, NEW result \in Outcomes,
             EffectSettlesMove(e, result)
      PROVE  SuccessHappened'
  <2>1. world'[e].is = result /\ \A f \in Effects \ {e} : world'[f] = world[f] /\ eff'[f] = eff[f]
    BY <1>12 DEF EffectSettlesMove
  <2>2. eff[e] # "settled"
    BY <1>12 DEF EffectSettlesMove, Known
  <2>3. eff'[e] \in {eff[e], SettlementState(result)}
    BY <1>12 DEF EffectSettlesMove
  <2>4. SettlementState(result) = "settled" => result = "ok"
    BY DEF SettlementState, Outcomes
  <2> QED
    BY <2>1, <2>2, <2>3, <2>4
<1>13. ASSUME NEW o \in Operations, Prune(o)
      PROVE  SuccessHappened'
  BY <1>13 DEF Prune
<1>14. CASE SwitchMove
  BY <1>14 DEF SwitchMove
<1> QED
  BY <1>1, <1>2, <1>3, <1>4, <1>5, <1>6, <1>7, <1>8, <1>9, <1>10, <1>11, <1>12, <1>13, <1>14,
     StepCases

\* Each step keeps the calls announced.
LEMMA IntentStep ==
    ASSUME TypeOK, Known, Turns, IntentFirst, [Next]_vars
    PROVE  IntentFirst'
<1> USE DEF IntentFirst, TypeOK, Owner, dbVars, recoveryVars, coordinatorVars, runtimeVars,
        worldVars
<1>0. \A f \in Effects : world[f].is # "none" => world[f].runtime \in Runtimes
          /\ place[world[f].runtime] \notin Starting
  BY DEF Known
<1>1. ASSUME NEW r \in Runtimes, RuntimeOpens(r)
     PROVE  IntentFirst'
  BY <1>1 DEF RuntimeOpens
<1>2. ASSUME NEW r \in Runtimes, RecoveryLoads(r)
     PROVE  IntentFirst'
  BY <1>2 DEF RecoveryLoads
<1>3. ASSUME NEW r \in Runtimes, RecoveryJudges(r)
     PROVE  IntentFirst'
  BY <1>3 DEF RecoveryJudges
<1>4. ASSUME NEW r \in Runtimes, ClaimsMove(r)
     PROVE  IntentFirst'
  <2> SUFFICES ASSUME NEW f \in Effects, world'[f].is # "none", enabled'[world'[f].runtime],
                       world'[f].op # 0
                PROVE  eff'[f] # "none"
    OBVIOUS
  <2>1. world'[f] = world[f] /\ world[f].runtime # r
    BY <1>4, <1>0 DEF ClaimsMove, Starting
  <2>a. enabled[world[f].runtime]
    BY <1>4, <1>0, <2>1 DEF ClaimsMove
  <2>2. eff[f] # "none"
    BY <2>1, <2>a
  <2> QED
    BY <1>4, <2>2 DEF ClaimsMove
<1>5. ASSUME NEW r \in Runtimes, NEW o \in Operations, TurnStartsMove(r, o)
     PROVE  IntentFirst'
  <2> SUFFICES ASSUME NEW f \in Effects, world'[f].is # "none", enabled'[world'[f].runtime],
                       world'[f].op # 0
                PROVE  eff'[f] # "none"
    OBVIOUS
  <2>1. UNCHANGED world /\ \A q \in Runtimes : enabled'[q] => enabled[q]
    BY <1>5 DEF TurnStartsMove
  <2>2. enabled[world[f].runtime]
    BY <1>0, <2>1
  <2>3. eff[f] # "none" /\ world[f].is # "none"
    BY <2>1, <2>2
  <2> QED
    BY <1>5, <2>3 DEF TurnStartsMove
<1>6. ASSUME NEW r \in Runtimes, NEW k \in {"provider", "tool"}, NEW e \in Effects,
             EffectBeginsMove(r, k, e)
     PROVE  IntentFirst'
  <2> SUFFICES ASSUME NEW f \in Effects, world'[f].is # "none", enabled'[world'[f].runtime],
                       world'[f].op # 0
                PROVE  eff'[f] # "none"
    OBVIOUS
  <2>1. \A q \in Runtimes : enabled'[q] => enabled[q]
    BY <1>6 DEF EffectBeginsMove
  <2>2. CASE f = e
    <3>1. world'[e].runtime = r
      BY <1>6 DEF EffectBeginsMove
    <3>2. enabled' # [enabled EXCEPT ![r] = FALSE]
      BY <2>2, <3>1
    <3> QED
      BY <1>6, <2>2, <3>2 DEF EffectBeginsMove
  <2>3. CASE f # e
    <3>1. world'[f] = world[f] /\ eff'[f] = eff[f]
      BY <1>6, <2>3 DEF EffectBeginsMove
    <3> QED
      BY <1>0, <2>1, <3>1
  <2> QED
    BY <2>2, <2>3
<1>7. ASSUME NEW r \in Runtimes, FinishMove(r)
     PROVE  IntentFirst'
  BY <1>7 DEF FinishMove
<1>8. ASSUME NEW r \in Runtimes, NEW e \in Effects, CompleteEffectMove(r, e)
     PROVE  IntentFirst'
  <2> SUFFICES ASSUME NEW f \in Effects, world'[f].is # "none", enabled'[world'[f].runtime],
                       world'[f].op # 0
                PROVE  eff'[f] # "none"
    OBVIOUS
  <2>1. UNCHANGED world /\ \A q \in Runtimes : enabled'[q] => enabled[q]
    BY ZenonT(60), <1>8 DEF CompleteEffectMove
  <2>2. enabled[world[f].runtime]
    BY <1>0, <2>1
  <2>3. eff[f] # "none" /\ world[f].is # "none"
    BY <2>1, <2>2
  <2> QED
    BY <1>8, <2>3 DEF CompleteEffectMove
<1>9. ASSUME NEW r \in Runtimes, CompleteOperationMove(r)
     PROVE  IntentFirst'
  <2> SUFFICES ASSUME NEW f \in Effects, world'[f].is # "none", enabled'[world'[f].runtime],
                       world'[f].op # 0
                PROVE  eff'[f] # "none"
    OBVIOUS
  <2>1. UNCHANGED world /\ \A q \in Runtimes : enabled'[q] => enabled[q]
    BY <1>9 DEF CompleteOperationMove
  <2>2. enabled[world[f].runtime]
    BY <1>0, <2>1
  <2>3. eff[f] # "none" /\ world[f].is # "none"
    BY <2>1, <2>2
  <2> QED
    BY <1>9, <2>3 DEF CompleteOperationMove
<1>10. ASSUME NEW r \in Runtimes, LeaseMove(r)
      PROVE  IntentFirst'
  BY <1>10 DEF LeaseMove
<1>11. ASSUME NEW r \in Runtimes, Gone(r)
      PROVE  IntentFirst'
  BY <1>11 DEF Gone
<1>12. ASSUME NEW e \in Effects, NEW result \in Outcomes,
             EffectSettlesMove(e, result)
      PROVE  IntentFirst'
  <2> SUFFICES ASSUME NEW f \in Effects, world'[f].is # "none", enabled'[world'[f].runtime],
                       world'[f].op # 0
                PROVE  eff'[f] # "none"
    OBVIOUS
  <2>1. \A q \in Runtimes : enabled'[q] => enabled[q]
    BY <1>12 DEF EffectSettlesMove
  <2>2. world'[f].runtime = world[f].runtime /\ world'[f].op = world[f].op /\ world[f].is # "none"
    BY <1>12 DEF EffectSettlesMove, Known
  <2>3. eff[f] # "none"
    BY <1>0, <2>1, <2>2
  <2>4. SettlementState(result) # "none"
    BY SettlementCases DEF Settled
  <2> QED
    BY <1>12, <2>3, <2>4 DEF EffectSettlesMove
<1>13. ASSUME NEW o \in Operations, Prune(o)
      PROVE  IntentFirst'
  BY <1>13 DEF Prune
<1>14. CASE SwitchMove
  <2> SUFFICES ASSUME NEW f \in Effects, world'[f].is # "none", enabled'[world'[f].runtime],
                       world'[f].op # 0
                PROVE  eff'[f] # "none"
    OBVIOUS
  <2>1. UNCHANGED world /\ \A q \in Runtimes : enabled'[q] => enabled[q]
    BY <1>14 DEF SwitchMove
  <2>2. enabled[world[f].runtime]
    BY <1>0, <2>1
  <2>3. eff[f] # "none" /\ world[f].is # "none"
    BY <2>1, <2>2
  <2> QED
    BY <1>14, <2>3 DEF SwitchMove
<1> QED
  BY <1>1, <1>2, <1>3, <1>4, <1>5, <1>6, <1>7, <1>8, <1>9, <1>10, <1>11, <1>12, <1>13, <1>14,
     StepCases

\* Each step keeps a recovery final.
LEMMA FinalStep ==
    ASSUME TypeOK, Known, Turns, Leases, RecoveryIsFinal, [Next]_vars
    PROVE  RecoveryIsFinal'
<1> USE DEF RecoveryIsFinal, Intents, TypeOK, Owner, dbVars, recoveryVars, coordinatorVars,
        runtimeVars, worldVars
<1>1. ASSUME NEW r \in Runtimes, RuntimeOpens(r)
     PROVE  RecoveryIsFinal'
  BY <1>1 DEF RuntimeOpens
<1>2. ASSUME NEW r \in Runtimes, RecoveryLoads(r)
     PROVE  RecoveryIsFinal'
  BY <1>2 DEF RecoveryLoads
<1>3. ASSUME NEW r \in Runtimes, RecoveryJudges(r)
     PROVE  RecoveryIsFinal'
  BY <1>3 DEF RecoveryJudges
<1>4. ASSUME NEW r \in Runtimes, ClaimsMove(r)
     PROVE  RecoveryIsFinal'
  <2>1. \A f \in Effects : eff'[f] = "intent" => eff[f] = "intent"
    BY <1>4 DEF ClaimsMove
  <2>2. \/ recovered' = recovered
        \/ /\ recovered' \subseteq recovered \cup stale[r]
           /\ \A f \in Effects : eff'[f] = "intent" => world[f].runtime \notin stale[r]
    BY SMTT(60), <1>4 DEF ClaimsMove, Claimed
  <2> QED
    BY <1>4, <2>1, <2>2 DEF ClaimsMove
<1>5. ASSUME NEW r \in Runtimes, NEW o \in Operations, TurnStartsMove(r, o)
     PROVE  RecoveryIsFinal'
  BY <1>5 DEF TurnStartsMove
<1>6. ASSUME NEW r \in Runtimes, NEW k \in {"provider", "tool"}, NEW e \in Effects,
             EffectBeginsMove(r, k, e)
     PROVE  RecoveryIsFinal'
  <2>1. r \notin recovered
    BY <1>6 DEF EffectBeginsMove, Leases
  <2>2. world'[e].runtime = r /\ recovered' = recovered /\ \A f \in Effects \ {e} :
            eff'[f] = eff[f] /\ world'[f] = world[f]
    BY <1>6 DEF EffectBeginsMove
  <2> QED
    BY <2>1, <2>2
<1>7. ASSUME NEW r \in Runtimes, FinishMove(r)
     PROVE  RecoveryIsFinal'
  BY <1>7 DEF FinishMove
<1>8. ASSUME NEW r \in Runtimes, NEW e \in Effects, CompleteEffectMove(r, e)
     PROVE  RecoveryIsFinal'
  BY <1>8 DEF CompleteEffectMove
<1>9. ASSUME NEW r \in Runtimes, CompleteOperationMove(r)
     PROVE  RecoveryIsFinal'
  BY <1>9 DEF CompleteOperationMove
<1>10. ASSUME NEW r \in Runtimes, LeaseMove(r)
      PROVE  RecoveryIsFinal'
  BY <1>10 DEF LeaseMove
<1>11. ASSUME NEW r \in Runtimes, Gone(r)
      PROVE  RecoveryIsFinal'
  BY <1>11 DEF Gone
<1>12. ASSUME NEW e \in Effects, NEW result \in Outcomes,
             EffectSettlesMove(e, result)
      PROVE  RecoveryIsFinal'
  BY <1>12 DEF EffectSettlesMove
<1>13. ASSUME NEW o \in Operations, Prune(o)
      PROVE  RecoveryIsFinal'
  BY <1>13 DEF Prune
<1>14. CASE SwitchMove
  BY <1>14 DEF SwitchMove
<1> QED
  BY <1>1, <1>2, <1>3, <1>4, <1>5, <1>6, <1>7, <1>8, <1>9, <1>10, <1>11, <1>12, <1>13, <1>14,
     StepCases

-----------------------------------------------------------------------------
(* The invariant, and what follows from it.                                *)

\* At first there is nothing: no lease, no row, no process.
LEMMA InitInv ==
    ASSUME Init
    PROVE  IInv
<1> USE DEF Init, Operations, Effects
<1>1. TypeOK
  BY DEF TypeOK, Places, NoOperation, NoEffect, Outcomes, Settled
<1>2. Known /\ Turns /\ Tracking /\ Settlement /\ SuccessHappened /\ IntentFirst
          /\ RecoveryIsFinal
  BY DEF Known, Turns, Tracking, Settlement, SuccessHappened, IntentFirst, RecoveryIsFinal,
         Intents, NoEffect, Starting
<1>3. Reports /\ Leases
  BY DEF Reports, ReportedOnce, Leases
<1> QED
  BY <1>1, <1>2, <1>3 DEF IInv

\* The inductive invariant holds throughout: each part needs some of the others.
THEOREM Invariance == Spec => []IInv
<1>1. Init => IInv
  BY InitInv
<1>2. IInv /\ [Next]_vars => IInv'
  BY TypeStep, KnownStep, TurnsStep, TrackingStep, SettlementStep, ReportsStep, LeasesStep,
     SuccessStep, IntentStep, FinalStep DEF IInv
<1> QED
  BY <1>1, <1>2, PTL DEF Spec

\* The journal is sound, for any number of processes, operations and effects: types, no
\* outcome over an open effect, no unannounced call, no effect reported twice.
THEOREM JournalSoundCorrect == Spec => []JournalSound
<1>1. IInv => JournalSound
  <2> SUFFICES ASSUME IInv PROVE JournalSound
    OBVIOUS
  <2>1. SettledWithEffects
    BY DEF IInv, Settlement, SettledWithEffects, Settled
  <2> QED
    BY <2>1 DEF IInv, Reports, JournalSound
<1> QED
  BY <1>1, Invariance, PTL

\* The journal never says that a call succeeded which did not.
THEOREM SuccessHappenedCorrect == Spec => []SuccessHappened
<1>1. IInv => SuccessHappened
  BY DEF IInv
<1> QED
  BY <1>1, Invariance, PTL

\* A runtime that a recovery found closed has no intent then or ever after.
THEOREM RecoveryIsFinalCorrect == Spec => []RecoveryIsFinal
<1>1. IInv => RecoveryIsFinal
  BY DEF IInv
<1> QED
  BY <1>1, Invariance, PTL

\* No late settlement, second recovery or repeated complete() changes an outcome.
LEMMA OutcomesStandStep ==
    ASSUME TypeOK, Known, Turns, [Next]_vars
    PROVE  \A f \in Effects : eff[f] \notin {"none", "intent"} => eff'[f] \in {eff[f], "pruned"}
<1> USE DEF TypeOK, Owner, dbVars, recoveryVars, coordinatorVars, runtimeVars, worldVars
<1>1. ASSUME NEW r \in Runtimes, RuntimeOpens(r)
     PROVE  \A f \in Effects : eff[f] \notin {"none", "intent"} => eff'[f] \in {eff[f], "pruned"}
  BY <1>1 DEF RuntimeOpens
<1>2. ASSUME NEW r \in Runtimes, RecoveryLoads(r)
     PROVE  \A f \in Effects : eff[f] \notin {"none", "intent"} => eff'[f] \in {eff[f], "pruned"}
  BY <1>2 DEF RecoveryLoads
<1>3. ASSUME NEW r \in Runtimes, RecoveryJudges(r)
     PROVE  \A f \in Effects : eff[f] \notin {"none", "intent"} => eff'[f] \in {eff[f], "pruned"}
  BY <1>3 DEF RecoveryJudges
<1>4. ASSUME NEW r \in Runtimes, ClaimsMove(r)
     PROVE  \A f \in Effects : eff[f] \notin {"none", "intent"} => eff'[f] \in {eff[f], "pruned"}
  BY <1>4 DEF ClaimsMove, Claimed, Intents
<1>5. ASSUME NEW r \in Runtimes, NEW o \in Operations, TurnStartsMove(r, o)
     PROVE  \A f \in Effects : eff[f] \notin {"none", "intent"} => eff'[f] \in {eff[f], "pruned"}
  BY <1>5 DEF TurnStartsMove
<1>6. ASSUME NEW r \in Runtimes, NEW k \in {"provider", "tool"}, NEW e \in Effects,
             EffectBeginsMove(r, k, e)
     PROVE  \A f \in Effects : eff[f] \notin {"none", "intent"} => eff'[f] \in {eff[f], "pruned"}
  <2>1. eff[e] = "none"
    BY <1>6 DEF EffectBeginsMove, Known, NoEffect
  <2> QED
    BY <1>6, <2>1 DEF EffectBeginsMove
<1>7. ASSUME NEW r \in Runtimes, FinishMove(r)
     PROVE  \A f \in Effects : eff[f] \notin {"none", "intent"} => eff'[f] \in {eff[f], "pruned"}
  BY <1>7 DEF FinishMove
<1>8. ASSUME NEW r \in Runtimes, NEW e \in Effects, CompleteEffectMove(r, e)
     PROVE  \A f \in Effects : eff[f] \notin {"none", "intent"} => eff'[f] \in {eff[f], "pruned"}
  BY <1>8 DEF CompleteEffectMove
<1>9. ASSUME NEW r \in Runtimes, CompleteOperationMove(r)
     PROVE  \A f \in Effects : eff[f] \notin {"none", "intent"} => eff'[f] \in {eff[f], "pruned"}
  BY <1>9 DEF CompleteOperationMove
<1>10. ASSUME NEW r \in Runtimes, LeaseMove(r)
      PROVE  \A f \in Effects : eff[f] \notin {"none", "intent"} => eff'[f] \in {eff[f], "pruned"}
  BY <1>10 DEF LeaseMove
<1>11. ASSUME NEW r \in Runtimes, Gone(r)
      PROVE  \A f \in Effects : eff[f] \notin {"none", "intent"} => eff'[f] \in {eff[f], "pruned"}
  BY <1>11 DEF Gone
<1>12. ASSUME NEW e \in Effects, NEW result \in Outcomes,
             EffectSettlesMove(e, result)
      PROVE  \A f \in Effects : eff[f] \notin {"none", "intent"} => eff'[f] \in {eff[f], "pruned"}
  BY <1>12 DEF EffectSettlesMove
<1>13. ASSUME NEW o \in Operations, Prune(o)
      PROVE  \A f \in Effects : eff[f] \notin {"none", "intent"} => eff'[f] \in {eff[f], "pruned"}
  BY <1>13 DEF Prune
<1>14. CASE SwitchMove
  BY <1>14 DEF SwitchMove
<1> QED
  BY <1>1, <1>2, <1>3, <1>4, <1>5, <1>6, <1>7, <1>8, <1>9, <1>10, <1>11, <1>12, <1>13, <1>14,
     StepCases

\* An outcome stands, and so does uncertainty.
THEOREM OutcomesStandCorrect == Spec => OutcomesStand
<1>1. IInv /\ [Next]_vars => [\A e \in Effects : eff[e] \notin {"none", "intent"}
          => eff'[e] \in {eff[e], "pruned"}]_eff
  BY OutcomesStandStep DEF IInv
<1> QED
  BY <1>1, Invariance, PTL DEF Spec, OutcomesStand

\* Recovery claims an effect of a process that runs only if its lease was closed, or if the
\* process could not be looked at and was late.
THEOREM OnlyTheLostCorrect == Spec => OnlyTheLost
<1>1. IInv /\ [Next]_vars => [\A r \in Runtimes : \A e \in Claimed(r) :
          RecoveryClaims(r) /\ Alive(Owner(e)) =>
              found[r][Owner(e)] \in {"closed", "late"}]_vars
  BY DEF IInv, Leases, Claimed, Alive
<1> QED
  BY <1>1, Invariance, PTL DEF Spec, OnlyTheLost

-----------------------------------------------------------------------------
(* The session file: how a file of records is read.                        *)

\* The least of a set of numbers is one of them, and below the others.
LEMMA LeastNumber ==
  ASSUME NEW S \in SUBSET Nat, S # {}
  PROVE  /\ Min(S) \in S
         /\ \A y \in S : Min(S) <= y
<1>1. IsWellFoundedOn(OpToRel(<,Nat), Nat)
  BY NatLessThanWellFounded
<1>2. \E x \in S : \A y \in S : ~(<<y, x>> \in OpToRel(<,Nat))
  BY <1>1, WFMin
<1>3. \A x, y \in Nat : y < x => <<y, x>> \in OpToRel(<,Nat)
  BY DEF OpToRel
<1>4. \E x \in S : \A y \in S : ~(y < x)
  BY <1>2, <1>3
<1> \A x, y \in S : ~(y < x) => x <= y
  OBVIOUS
<1>5. QED
  BY <1>4 DEF Min

\* Division by three, for records of three chunks.
LEMMA Thirds ==
  /\ \A n \in Nat : \E k \in Nat : n = 3 * k \/ n = 3 * k + 1 \/ n = 3 * k + 2
  /\ \A k \in Nat : (3 * k + 2) \div 3 = k /\ (3 * k + 3) \div 3 = k + 1 /\ (3 * k + 4) \div 3 = k + 1
  /\ \A n \in Nat : (n + 2) \div 3 \in Nat /\ 3 * ((n + 2) \div 3) <= n + 2 /\ n <= 3 * ((n + 2) \div 3)
<1>1. \A n \in Nat : n \div 3 \in Nat /\ 3 * (n \div 3) <= n /\ n < 3 * (n \div 3) + 3
  BY SMT
<1>2. ASSUME NEW n \in Nat PROVE \E k \in Nat : n = 3 * k \/ n = 3 * k + 1 \/ n = 3 * k + 2
  <2>1. PICK k \in Nat : 3 * k <= n /\ n < 3 * k + 3
    BY <1>1
  <2>2. n = 3 * k \/ n = 3 * k + 1 \/ n = 3 * k + 2
    BY <2>1
  <2>3. QED
    BY <2>2
<1>3. \A k \in Nat : (3 * k + 2) \div 3 = k /\ (3 * k + 3) \div 3 = k + 1 /\ (3 * k + 4) \div 3 = k + 1
  BY SMT
<1>4. \A n \in Nat : (n + 2) \div 3 \in Nat /\ 3 * ((n + 2) \div 3) <= n + 2 /\ n <= 3 * ((n + 2) \div 3)
  BY SMT
<1>5. QED
  BY <1>2, <1>3, <1>4

\* What the file is made of.
Chunks == Ids \X (1..3)

\* The entry of the k-th record.
Id(f, k) == f[3 * k - 2][1]

\* The records lie one behind the other; only the last may be short.
Laid(f) ==
    \A k \in Nat \ {0}, p \in 1..3 : 3 * k - 3 + p <= Len(f) => f[3 * k - 3 + p] = <<Id(f, k), p>>

\* What a reader takes of any file at all: entries, up to a place where a line ends.
LEMMA ReadFacts ==
  ASSUME NEW f \in Seq(Chunks)
  PROVE  /\ GoodEnd(f) \in 0..Len(f)
         /\ GoodEnd(f) < Len(f) => GoodEnd(f) = 0 \/ EndsLine(f[GoodEnd(f)])
         /\ Entries(f) \in Seq(Ids)
         /\ \A k \in DOMAIN Entries(f) : /\ k \in Nat \ {0} /\ 3 * k - 2 <= GoodEnd(f)
                                         /\ Entries(f)[k] = Id(f, k)
         /\ \A k \in Nat \ {0} : 3 * k - 2 <= GoodEnd(f) => k \in DOMAIN Entries(f)
<1> DEFINE bad == {i \in Begins(f) : ~Parses(LineAt(f, i))}
           n == (GoodEnd(f) + 2) \div 3
<1>1. Len(f) \in Nat /\ bad \subseteq 0..(Len(f) - 1) /\ bad \subseteq Begins(f)
  BY DEF Begins
<1>2. GoodEnd(f) = Min(bad \union {Len(f)})
  BY DEF GoodEnd
<1> HIDE DEF bad
<1>3. bad \union {Len(f)} \in SUBSET Nat /\ bad \union {Len(f)} # {}
  <2>1. 0..(Len(f) - 1) \subseteq Nat
    BY <1>1
  <2>2. QED
    BY <1>1, <2>1
<1>4. GoodEnd(f) \in bad \union {Len(f)}
  BY <1>2, <1>3, LeastNumber
<1>5. GoodEnd(f) \in 0..Len(f) /\ (GoodEnd(f) < Len(f) => GoodEnd(f) \in Begins(f))
  <2>1. CASE GoodEnd(f) = Len(f)
    BY <1>1, <2>1
  <2>2. CASE GoodEnd(f) \in bad
    <3>1. GoodEnd(f) \in 0..(Len(f) - 1)
      BY <1>1, <2>2
    <3>2. QED
      BY <1>1, <2>2, <3>1
  <2>3. QED
    BY <1>4, <2>1, <2>2
<1>6. n \in Nat /\ 3 * n <= GoodEnd(f) + 2 /\ GoodEnd(f) <= 3 * n
  BY <1>5, Thirds
<1>7. Entries(f) = [k \in 1..n |-> Id(f, k)]
  BY DEF Entries, Id
<1> HIDE DEF n
<1>8. \A k \in 1..n : 3 * k - 2 \in 1..GoodEnd(f) /\ 3 * k - 2 \in 1..Len(f)
  BY <1>1, <1>5, <1>6
<1>9. \A k \in 1..n : Id(f, k) \in Ids
  BY <1>8 DEF Id, Chunks
<1>10. Entries(f) \in Seq(Ids) /\ DOMAIN Entries(f) = 1..n
  BY <1>6, <1>7, <1>9
<1>11. \A k \in Nat \ {0} : 3 * k - 2 <= GoodEnd(f) => k \in 1..n
  BY <1>5, <1>6
<1>12. QED
  BY <1>5, <1>7, <1>8, <1>10, <1>11 DEF Begins

\* In a file of records the line at a record parses when more than half of it is there.
LEMMA LineOfRecord ==
  ASSUME NEW f \in Seq(Chunks), Laid(f), NEW k \in Nat \ {0}, 3 * k - 2 <= Len(f)
  PROVE  Parses(LineAt(f, 3 * k - 3)) <=> 3 * k - 2 < Len(f)
<1> DEFINE b == 3 * k - 3
           ends == {j \in (b + 1)..Len(f) : EndsLine(f[j]) \/ j = Len(f)}
           e == Min(ends)
           line == LineAt(f, b)
<1>1. Len(f) \in Nat /\ b \in Nat /\ b + 1 <= Len(f) /\ b + 1 = 3 * k - 2
  OBVIOUS
<1>2. \A p \in 1..3 : b + p <= Len(f) => f[b + p] = <<Id(f, k), p>>
  BY DEF Laid
<1>3. line = SubSeq(f, b + 1, e)
  BY DEF LineAt
<1>b. b = 3 * k - 3
  OBVIOUS
<1>e. \A j : j \in ends <=> j \in (b + 1)..Len(f) /\ (EndsLine(f[j]) \/ j = Len(f))
  OBVIOUS
<1>f. e = Min(ends)
  OBVIOUS
<1> HIDE DEF b, ends, e, line
<1>4. ends \in SUBSET Nat /\ Len(f) \in ends
  BY <1>1, <1>e
<1>5. e \in ends /\ \A j \in ends : e <= j
  BY <1>4, <1>f, LeastNumber
<1>6. b + 3 <= Len(f) => b + 3 \in ends
  <2>1. f[b + 3][2] = 3 \/ Len(f) < b + 3
    BY <1>1, <1>2
  <2>2. QED
    BY <1>1, <1>e, <2>1 DEF EndsLine
<1>7. ~(e < Len(f) /\ e < b + 3)
  <2>1. SUFFICES ASSUME e < Len(f), e < b + 3 PROVE FALSE
    OBVIOUS
  <2>2. e \in (b + 1)..Len(f) /\ f[e][2] = 3
    BY <1>1, <1>5, <1>e, <2>1 DEF EndsLine
  <2>3. PICK p \in 1..2 : e = b + p
    <3>1. e = b + 1 \/ e = b + 2
      BY <1>1, <2>1, <2>2
    <3>2. QED
      BY <3>1
  <2>4. f[e] = <<Id(f, k), p>>
    BY <1>1, <1>2, <2>1, <2>3
  <2>5. QED
    BY <2>2, <2>3, <2>4
<1>8. /\ e \in (b + 1)..(b + 3) /\ e <= Len(f)
      /\ b + 1 < Len(f) => e > b + 1
      /\ b + 1 = Len(f) => e = b + 1
  BY <1>1, <1>5, <1>6, <1>7, <1>e
<1>9. Len(line) = e - b /\ \A p \in 1..(e - b) : line[p] = f[b + p]
  BY <1>1, <1>3, <1>8
<1>10. DOMAIN line = 1..(e - b)
  BY <1>1, <1>3, <1>8
<1>11. \A p \in 1..(e - b) : line[p] = <<Id(f, k), p>>
  <2>1. SUFFICES ASSUME NEW p \in 1..(e - b) PROVE line[p] = <<Id(f, k), p>>
    OBVIOUS
  <2>2. p \in 1..3 /\ b + p <= Len(f)
    BY <1>1, <1>8
  <2>3. QED
    BY <1>2, <1>9, <2>2
<1>12. line[1][1] = Id(f, k)
  BY <1>1, <1>8, <1>11
<1>13. \A p \in 1..3 : Record(Id(f, k))[p] = <<Id(f, k), p>>
  BY DEF Record
<1>14. \A p \in DOMAIN line : line[p] = Record(line[1][1])[p]
  <2>1. \A p \in DOMAIN line : p \in 1..3
    BY <1>1, <1>8, <1>10
  <2>2. QED
    BY <1>10, <1>11, <1>12, <1>13, <2>1
<1>15. Parses(line) <=> e - b \in 2..3
  BY <1>9, <1>14 DEF Parses
<1>16. line = LineAt(f, 3 * k - 3)
  BY <1>b DEF line
<1>17. QED
  BY <1>1, <1>8, <1>15, <1>16

\* A reader takes all of a file of records but a half record at its end, which is
\* an incomplete tail; such a file is never corrupt.
LEMMA LaidReads ==
  ASSUME NEW f \in Seq(Chunks), Laid(f), NEW k \in Nat, Len(f) \in (3 * k)..(3 * k + 2)
  PROVE  /\ GoodEnd(f) = IF Len(f) = 3 * k + 1 THEN 3 * k ELSE Len(f)
         /\ Len(f) = 3 * k + 1 => IncompleteTail(f)
         /\ Len(f) # 3 * k + 1 => ~IncompleteTail(f)
         /\ ~Corrupt(f)
<1> DEFINE bad == {i \in Begins(f) : ~Parses(LineAt(f, i))}
<1>1. Len(f) \in Nat
  OBVIOUS
<1>2. \A i \in Begins(f) : \E j \in Nat \ {0} : i = 3 * j - 3 /\ 3 * j - 2 <= Len(f)
  <2>1. SUFFICES ASSUME NEW i \in Begins(f), i # 0
                 PROVE  \E j \in Nat \ {0} : i = 3 * j - 3 /\ 3 * j - 2 <= Len(f)
    <3>1. ASSUME 0 \in Begins(f) PROVE 1 <= Len(f)
      BY <1>1, <3>1 DEF Begins
    <3>2. 1 \in Nat \ {0} /\ 0 = 3 * 1 - 3 /\ 3 * 1 - 2 = 1
      OBVIOUS
    <3>3. QED
      BY <3>1, <3>2
  <2>2. i \in 1..(Len(f) - 1) /\ f[i][2] = 3
    BY <1>1, <2>1 DEF Begins, EndsLine
  <2>3. PICK j \in Nat, p \in 1..3 : i = 3 * j + p
    <3>1. i - 1 \in Nat
      BY <2>2
    <3>2. PICK j \in Nat : i - 1 = 3 * j \/ i - 1 = 3 * j + 1 \/ i - 1 = 3 * j + 2
      BY <3>1, Thirds
    <3>3. i = 3 * j + 1 \/ i = 3 * j + 2 \/ i = 3 * j + 3
      BY <2>2, <3>2
    <3>4. QED
      BY <3>3
  <2>4. j + 1 \in Nat \ {0} /\ 3 * (j + 1) - 3 + p = i
    BY <2>3
  <2>5. f[i] = <<Id(f, j + 1), p>>
    <3>1. 3 * (j + 1) - 3 + p <= Len(f)
      BY <1>1, <2>2, <2>4
    <3>2. f[3 * (j + 1) - 3 + p] = <<Id(f, j + 1), p>>
      BY <2>4, <3>1 DEF Laid
    <3>3. QED
      BY <2>4, <3>2
  <2>6. p = 3
    BY <2>2, <2>5
  <2>7. j + 2 \in Nat \ {0} /\ i = 3 * (j + 2) - 3 /\ 3 * (j + 2) - 2 <= Len(f)
    BY <1>1, <2>2, <2>3, <2>6
  <2>8. QED
    BY <2>7
<1>3. \A i \in Begins(f) : i \in bad <=> i = Len(f) - 1
  <2>1. SUFFICES ASSUME NEW i \in Begins(f) PROVE Parses(LineAt(f, i)) <=> i # Len(f) - 1
    OBVIOUS
  <2>2. PICK j \in Nat \ {0} : i = 3 * j - 3 /\ 3 * j - 2 <= Len(f)
    BY <1>2
  <2>3. Parses(LineAt(f, i)) <=> 3 * j - 2 < Len(f)
    BY <2>2, LineOfRecord
  <2>4. QED
    BY <1>1, <2>2, <2>3
<1>4. GoodEnd(f) = Min(bad \union {Len(f)})
  BY DEF GoodEnd
<1>5. bad \subseteq Begins(f) /\ Begins(f) \subseteq 0..(Len(f) - 1)
  BY DEF Begins
<1> HIDE DEF bad
<1>6. /\ GoodEnd(f) \in bad \union {Len(f)}
      /\ \A i \in bad : GoodEnd(f) <= i
  <2>1. bad \union {Len(f)} \in SUBSET Nat /\ bad \union {Len(f)} # {}
    BY <1>1, <1>5
  <2>2. QED
    BY <1>4, <2>1, LeastNumber
<1>7. CASE Len(f) = 3 * k + 1
  <2>1. 3 * k \in Begins(f)
    <3>1. CASE k = 0
      BY <1>1, <1>7, <3>1 DEF Begins
    <3>2. CASE k # 0
      <4>1. k \in Nat \ {0} /\ 3 * k - 3 + 3 = 3 * k /\ 3 * k <= Len(f) /\ 3 \in 1..3
        BY <1>7, <3>2
      <4>2. f[3 * k] = <<Id(f, k), 3>>
        BY <4>1 DEF Laid
      <4>3. 3 * k \in 0..(Len(f) - 1)
        BY <1>7
      <4>4. QED
        BY <4>2, <4>3 DEF Begins, EndsLine
    <3>3. QED
      BY <3>1, <3>2
  <2>2. 3 * k \in bad
    BY <1>3, <1>7, <2>1
  <2>3. GoodEnd(f) = 3 * k
    BY <1>3, <1>5, <1>6, <1>7, <2>2
  <2>4. IncompleteTail(f)
    <3>1. k + 1 \in Nat \ {0} /\ 3 * (k + 1) - 3 + 1 = 3 * k + 1 /\ 3 * k + 1 <= Len(f) /\ 1 \in 1..3
      BY <1>7
    <3>2. f[3 * k + 1] = <<Id(f, k + 1), 1>>
      BY <3>1 DEF Laid
    <3>3. \A i \in (GoodEnd(f) + 1)..Len(f) : i = 3 * k + 1
      BY <1>7, <2>3
    <3>4. QED
      BY <1>7, <2>3, <3>2, <3>3 DEF IncompleteTail, EndsLine
  <2>5. QED
    BY <1>7, <2>3, <2>4 DEF Corrupt
<1>8. CASE Len(f) # 3 * k + 1
  <2>1. \A i \in bad : FALSE
    <3>1. SUFFICES ASSUME NEW i \in bad PROVE FALSE
      OBVIOUS
    <3>2. PICK j \in Nat \ {0} : i = 3 * j - 3
      BY <1>2, <1>5
    <3>3. i = Len(f) - 1
      BY <1>3, <1>5
    <3>4. QED
      BY <1>1, <1>8, <3>2, <3>3
  <2>2. GoodEnd(f) = Len(f)
    BY <1>6, <2>1
  <2>3. QED
    BY <1>1, <1>8, <2>2 DEF IncompleteTail, Corrupt
<1>9. QED
  BY <1>7, <1>8

-----------------------------------------------------------------------------
(* The invariant of the session file.                                      *)

\* No write is under way; the file ends in the middle of a line.
Nobody == \A s \in Stores : appending[s].step # "writing"
MidLine == file # <<>> /\ ~EndsLine(Last(file))

\* What an append in progress knows of the file.
Locals(s) ==
    /\ appending[s].step = "idle" => appending[s] = NoAppend
    /\ appending[s].step = "selected" => appending[s].written = 0 /\ ~appending[s].news
    /\ ~up[s] => appending[s].step = "idle"
    /\ appending[s].step = "syncing" => /\ Len(par) < MaxEntries /\ appending[s].written = 0
                                        /\ ~appending[s].news
    /\ appending[s].step = "writing" =>
          /\ appending[s].id = Len(par) /\ Len(par) > 0
          /\ Len(file) = offset[s] + appending[s].written
          /\ \A p \in 1..appending[s].written : file[offset[s] + p] = <<appending[s].id, p>>
          /\ offset[s] + 3 <= 3 * Len(par)

\* Each replacement of the file is paid for by a fault that cut a line.
Replacements ==
    /\ Len(file) <= 3 * Len(par)
    /\ inode <= faults /\ (Nobody /\ MidLine => inode < faults)

\* A caller's selection is the leaf, then the parent noted by the append, then the
\* parent of its record; it is still the leaf unless the append has found the file changed.
\* A compaction that is to put a selection back has noted it so.
Chosen(s) ==
    /\ chosen[s] \notin {NoChoice, Lost} =>
        /\ up[s]
        /\ ~appending[s].news => leaf[s] = chosen[s] /\ explicit[s]
        /\ appending[s].step = "syncing" => appending[s].selected = chosen[s] /\ ~appending[s].follows
        /\ appending[s].step = "writing" => par[appending[s].id] = chosen[s]
    /\ appending[s].back # <<>> /\ appending[s].back[3] \notin {NoChoice, Lost} =>
        appending[s].back[1] = appending[s].back[3] /\ appending[s].back[2] = TRUE

\* An instance must read the whole file again before it can write.
Reloads(s) == ident[s] # inode \/ (Nobody /\ MidLine)

\* An instance has read some whole records, the first ones, and nothing else.  Its offset is
\* behind them, or else, after a recovery that failed, it reloads before it writes.
Held(s) ==
    /\ 3 * Len(mem[s]) <= Len(file) /\ ident[s] <= inode
    /\ \A k \in 1..Len(mem[s]) : mem[s][k] = Id(file, k)
    /\ 3 * Len(mem[s]) # offset[s] =>
          offset[s] <= 3 * Len(mem[s]) /\ appending[s].step # "writing" /\ Reloads(s)

\* Where an instance may build on.
At(s) == {0} \cup Range(mem[s])
\* Everything an instance may yet build on is an entry it has read.
Placed(s) ==
    /\ leaf[s] \in At(s)
    /\ appending[s].selected \in At(s)
    /\ appending[s].back # <<>> => appending[s].back[1] \in At(s)
    /\ appending[s].step = "writing" => par[appending[s].id] \in At(s)

\* The parent of each record is one of the records before it.
Rooted ==
    \A k \in Nat \ {0} : 3 * k - 2 <= Len(file) =>
        /\ Id(file, k) \in DOMAIN par
        /\ par[Id(file, k)] = 0 \/ \E j \in 1..(k - 1) : par[Id(file, k)] = Id(file, j)

\* The record of an append that returned is whole.
Kept == \A e \in ack : \E k \in Nat \ {0} : 3 * k <= Len(file) /\ Id(file, k) = e

\* Between two writes the file ends with a record, or with half of one.
EndsWell == \E k \in Nat : Len(file) = 3 * k \/ Len(file) = 3 * k + 1

\* An instance whose user selects nothing is at the end of what it has read.
Following(s) ==
    /\ ~explicit[s] /\ leaf[s] = LastOf(mem[s], 0) /\ diskLeaf[s] = LastOf(mem[s], 0)
    /\ appending[s].back # <<>> =>
          /\ appending[s].back[2] = FALSE
          /\ ~appending[s].news => appending[s].back[1] = LastOf(mem[s], 0)
    /\ appending[s].step = "syncing" => appending[s].follows
    /\ appending[s].step = "writing" => par[appending[s].id] = LastOf(mem[s], 0)

\* Each record continues the one before it.
Chained ==
    \A k \in Nat \ {0} : 3 * k - 2 <= Len(file) =>
        par[Id(file, k)] = IF k = 1 THEN 0 ELSE Id(file, k - 1)

\* The parts of the invariant.  Shape and Wishes hold always;
Shape == StoreTypeOK /\ (\A s \in Stores : Locals(s)) /\ Replacements
Wishes == \A s \in Stores : Chosen(s)
\* a file without a record that lacks its newline is readable by all its instances;
Readable ==
    /\ Laid(file) /\ (Nobody => EndsWell)
    /\ \A s \in Stores : Held(s) /\ Placed(s)
    /\ Rooted /\ Kept
\* and if besides nobody selected a parent and no instance is stranded it is one conversation.
Sequel == Chained /\ \A s \in Stores : Following(s)

\* The inductive invariant.
StoreInv ==
    /\ Shape
    /\ Wishes
    /\ ~unended => Readable
    /\ ~unended /\ ~branched /\ ~stranded => Sequel

-----------------------------------------------------------------------------
(* What reading the file leaves behind.                                    *)

\* What reading the file leaves.
Fresh(s) ==
    /\ file' \in Seq(Chunks) /\ Len(file') <= Len(file)
    /\ inode' \in Nat /\ inode' <= faults /\ (MidLine' => inode' < faults)
    /\ mem' \in [Stores -> Seq(Ids)]
    /\ leaf' \in [Stores -> 0..MaxEntries]
    /\ diskLeaf' \in [Stores -> 0..MaxEntries]
    /\ offset' \in [Stores -> Nat] /\ offset'[s] = Len(file')
    /\ ident' \in [Stores -> Nat] /\ ident'[s] = inode'
    /\ explicit' \in [Stores -> BOOLEAN]
    /\ \A t \in Stores \ {s} : /\ mem'[t] = mem[t] /\ leaf'[t] = leaf[t]
                               /\ diskLeaf'[t] = diskLeaf[t] /\ offset'[t] = offset[t]
                               /\ ident'[t] = ident[t] /\ explicit'[t] = explicit[t]

\* The types, one by one.
LEMMA ShapeTypes ==
  ASSUME Shape
  PROVE  /\ file \in Seq(Chunks) /\ Len(file) \in Nat /\ inode \in Nat /\ faults \in Nat
         /\ mem \in [Stores -> Seq(Ids)]
         /\ leaf \in [Stores -> 0..MaxEntries]
         /\ diskLeaf \in [Stores -> 0..MaxEntries]
         /\ offset \in [Stores -> 0..(3 * MaxEntries)] /\ offset \in [Stores -> Nat]
         /\ ident \in [Stores -> 0..MaxFaults] /\ ident \in [Stores -> Nat]
         /\ explicit \in [Stores -> BOOLEAN]
         /\ up \in [Stores -> BOOLEAN]
         /\ appending \in [Stores -> AppendType]
         /\ par \in Seq(0..MaxEntries) /\ Len(par) \in Nat /\ Len(par) <= MaxEntries
         /\ chosen \in [Stores -> Lost..MaxEntries]
         /\ faults <= MaxFaults
         /\ lock \in Stores \union {NoStore} /\ ack \subseteq Ids
         /\ branched \in BOOLEAN /\ stranded \in BOOLEAN /\ unended \in BOOLEAN
         /\ \A s \in Stores : appending[s].step \in {"syncing", "writing"} <=> lock = s
         /\ inode <= faults /\ (Nobody /\ MidLine => inode < faults)
         /\ Len(file) <= 3 * Len(par)
         /\ \A s \in Stores : Locals(s)
<1>1. StoreTypeOK /\ Replacements /\ \A s \in Stores : Locals(s)
  BY DEF Shape
<1>2. file \in Seq(Chunks) /\ Len(file) \in Nat /\ par \in Seq(0..MaxEntries) /\ Len(par) \in Nat
  BY <1>1 DEF StoreTypeOK, Chunks
<1>3. inode \in 0..MaxFaults /\ faults \in 0..MaxFaults
  BY <1>1 DEF StoreTypeOK
<1>4. inode \in Nat /\ faults \in Nat /\ faults <= MaxFaults
  BY <1>3, StoreAssumption
<1>5. offset \in [Stores -> 0..(3 * MaxEntries)] /\ ident \in [Stores -> 0..MaxFaults]
  BY <1>1 DEF StoreTypeOK
<1>6. offset \in [Stores -> Nat] /\ ident \in [Stores -> Nat]
  BY <1>5, StoreAssumption
<1>7. /\ mem \in [Stores -> Seq(Ids)]
      /\ leaf \in [Stores -> 0..MaxEntries]
      /\ diskLeaf \in [Stores -> 0..MaxEntries]
      /\ explicit \in [Stores -> BOOLEAN]
      /\ up \in [Stores -> BOOLEAN]
      /\ appending \in [Stores -> AppendType]
      /\ Len(par) <= MaxEntries
      /\ chosen \in [Stores -> Lost..MaxEntries]
      /\ lock \in Stores \union {NoStore} /\ ack \subseteq Ids
      /\ branched \in BOOLEAN /\ stranded \in BOOLEAN /\ unended \in BOOLEAN
  BY <1>1 DEF StoreTypeOK
<1>8. \A s \in Stores : appending[s].step \in {"syncing", "writing"} <=> lock = s
  <2>1. \A s \in Stores : (appending[s].step \in {"syncing", "writing"}) = (lock = s)
    BY <1>1 DEF StoreTypeOK
  <2>2. QED
    BY <2>1
<1>9. inode <= faults /\ (Nobody /\ MidLine => inode < faults) /\ Len(file) <= 3 * Len(par)
  BY <1>1 DEF Replacements
<1>10. QED
  BY <1>1, <1>2, <1>4, <1>5, <1>6, <1>7, <1>8, <1>9

\* The last entry read, or where the instance was.
LEMMA LastOfType ==
  ASSUME NEW es \in Seq(Ids), NEW d \in 0..MaxEntries
  PROVE  LastOf(es, d) \in 0..MaxEntries
<1>1. CASE es = <<>>
  BY <1>1 DEF LastOf
<1>2. CASE es # <<>>
  <2>1. Len(es) \in 1..Len(es)
    BY <1>2
  <2>2. es[Len(es)] \in Ids
    BY <2>1
  <2>3. QED
    BY <1>2, <2>2, StoreAssumption DEF LastOf, Last, Ids
<1>3. QED
  BY <1>1, <1>2

\* _load replaces the file at most by a shorter one, and then pays with a fault.
LEMMA LoadFresh ==
  ASSUME Shape, Nobody, NEW s \in Stores, Load(s)
  PROVE  Fresh(s)
<1> DEFINE es == Entries(file)
<1>1. /\ file \in Seq(Chunks) /\ Len(file) \in Nat /\ inode \in Nat /\ faults \in Nat
      /\ mem \in [Stores -> Seq(Ids)]
      /\ leaf \in [Stores -> 0..MaxEntries]
      /\ diskLeaf \in [Stores -> 0..MaxEntries]
      /\ offset \in [Stores -> 0..(3 * MaxEntries)]
      /\ ident \in [Stores -> 0..MaxFaults]
      /\ explicit \in [Stores -> BOOLEAN]
      /\ inode <= faults
  BY ShapeTypes
<1>2. es \in Seq(Ids) /\ LastOf(es, 0) \in 0..MaxEntries
  <2>1. 0 \in 0..MaxEntries
    BY StoreAssumption
  <2>2. QED
    BY <1>1, <2>1, ReadFacts, LastOfType
<1>3. /\ file' \in Seq(Chunks) /\ Len(file') <= Len(file)
      /\ inode' \in Nat /\ inode' <= faults /\ (MidLine' => inode' < faults)
  <2>1. CASE ~IncompleteTail(file)
    <3>1. file' = file /\ inode' = inode
      BY <2>1 DEF Load
    <3>2. MidLine' = MidLine
      BY <3>1 DEF MidLine
    <3>3. MidLine => inode < faults
      BY DEF Shape, Replacements
    <3>4. QED
      BY <1>1, <3>1, <3>2, <3>3
  <2>2. CASE IncompleteTail(file)
    <3> DEFINE g == GoodEnd(file)
    <3>1. file' = SubSeq(file, 1, g) /\ inode' = inode + 1
      BY <2>2 DEF Load, ValidPrefix
    <3>2. g \in 0..Len(file) /\ g < Len(file) /\ (g = 0 \/ EndsLine(file[g]))
      BY <1>1, <2>2, ReadFacts DEF IncompleteTail
    <3>3. ~EndsLine(file[Len(file)])
      <4>1. Len(file) \in (g + 1)..Len(file)
        BY <1>1, <3>2
      <4>2. QED
        BY <2>2, <4>1 DEF IncompleteTail
    <3> HIDE DEF g
    <3>4. MidLine
      BY <1>1, <3>2, <3>3 DEF MidLine, Last
    <3>5. inode + 1 <= faults
      BY <1>1, <3>4 DEF Shape, Replacements
    <3>6. file' \in Seq(Chunks) /\ Len(file') = g /\ \A i \in 1..g : file'[i] = file[i]
      BY <1>1, <3>1, <3>2
    <3>7. ~MidLine'
      <4>1. CASE g = 0
        <5>1. file' = <<>>
          BY <3>6, <4>1
        <5>2. QED
          BY <5>1 DEF MidLine
      <4>2. CASE g # 0
        <5>1. file'[Len(file')] = file[g] /\ EndsLine(file[g])
          BY <3>2, <3>6, <4>2
        <5>2. QED
          BY <5>1 DEF MidLine, Last
      <4>3. QED
        BY <4>1, <4>2
    <3>8. QED
      BY <1>1, <3>1, <3>2, <3>5, <3>6, <3>7
  <2>3. QED
    BY <2>1, <2>2
<1>4. Len(file') \in Nat
  BY <1>3
<1>5. /\ mem' = [mem EXCEPT ![s] = es]
      /\ leaf' = [leaf EXCEPT ![s] = LastOf(es, 0)]
      /\ diskLeaf' = [diskLeaf EXCEPT ![s] = LastOf(es, 0)]
      /\ offset' = [offset EXCEPT ![s] = Len(file')]
      /\ ident' = [ident EXCEPT ![s] = inode']
      /\ explicit' = [explicit EXCEPT ![s] = FALSE]
  BY DEF Load
<1> HIDE DEF es
<1>6. offset \in [Stores -> Nat] /\ ident \in [Stores -> Nat]
  BY <1>1, StoreAssumption
<1>7. QED
  BY <1>1, <1>2, <1>3, <1>4, <1>5, <1>6 DEF Fresh

\* So does _sync_from_disk, which may do no more than read a suffix.
LEMMA SyncFresh ==
  ASSUME Shape, Nobody, NEW s \in Stores, Sync(s)
  PROVE  Fresh(s)
<1>1. CASE MustReload(s)
  <2>1. Load(s)
    BY <1>1 DEF Sync
  <2>2. QED
    BY <2>1, LoadFresh
<1>2. CASE ~MustReload(s)
  <2> DEFINE suffix == Suffix(s)
             es == Entries(suffix)
  <2>1. /\ file \in Seq(Chunks) /\ Len(file) \in Nat /\ inode \in Nat /\ faults \in Nat
        /\ mem \in [Stores -> Seq(Ids)]
        /\ leaf \in [Stores -> 0..MaxEntries]
        /\ diskLeaf \in [Stores -> 0..MaxEntries]
        /\ offset \in [Stores -> 0..(3 * MaxEntries)]
        /\ ident \in [Stores -> 0..MaxFaults]
        /\ explicit \in [Stores -> BOOLEAN]
        /\ inode <= faults
        /\ MidLine => inode < faults
    BY ShapeTypes
  <2>2. ident[s] = inode /\ offset[s] <= Len(file) /\ offset[s] \in Nat
    BY <1>2, <2>1, StoreAssumption DEF MustReload, Replaced
  <2>3. suffix \in Seq(Chunks)
    BY <2>1, <2>2 DEF Suffix
  <2>4. /\ mem' = [mem EXCEPT ![s] = mem[s] \o es]
        /\ leaf' = [leaf EXCEPT ![s] = LastOf(es, leaf[s])]
        /\ diskLeaf' = [diskLeaf EXCEPT ![s] = LastOf(es, diskLeaf[s])]
        /\ offset' = [offset EXCEPT ![s] = Len(file)]
        /\ file' = file /\ inode' = inode /\ ident' = ident /\ explicit' = explicit
    BY <1>2, <2>1 DEF Sync, ReadSuffix
  <2> HIDE DEF suffix
  <2>5. es \in Seq(Ids)
    BY <2>3, ReadFacts
  <2> HIDE DEF es
  <2>6. leaf[s] \in 0..MaxEntries /\ diskLeaf[s] \in 0..MaxEntries
    BY <2>1
  <2>7. /\ mem[s] \o es \in Seq(Ids)
        /\ LastOf(es, leaf[s]) \in 0..MaxEntries
        /\ LastOf(es, diskLeaf[s]) \in 0..MaxEntries
    BY <2>1, <2>5, <2>6, LastOfType
  <2>8. offset \in [Stores -> Nat] /\ ident \in [Stores -> Nat]
    BY <2>1, StoreAssumption
  <2>9. MidLine' = MidLine
    BY <2>4 DEF MidLine
  <2>10. mem' \in [Stores -> Seq(Ids)] /\ offset' \in [Stores -> Nat] /\ offset'[s] = Len(file')
    BY <2>1, <2>4, <2>7, <2>8
  <2>11. leaf' \in [Stores -> 0..MaxEntries] /\ diskLeaf' \in [Stores -> 0..MaxEntries]
    BY <2>1, <2>4, <2>7
  <2>12. \A t \in Stores \ {s} : mem'[t] = mem[t] /\ leaf'[t] = leaf[t]
                                 /\ diskLeaf'[t] = diskLeaf[t] /\ offset'[t] = offset[t]
    BY <2>1, <2>4
  <2>13. QED
    BY <2>1, <2>2, <2>4, <2>8, <2>9, <2>10, <2>11, <2>12 DEF Fresh
<1>3. QED
  BY <1>1, <1>2

\* The entries of a file of records that ends well are those of the whole records.
LEMMA EntriesLaid ==
  ASSUME NEW f \in Seq(Chunks), Laid(f), NEW k \in Nat, Len(f) = 3 * k \/ Len(f) = 3 * k + 1
  PROVE  /\ GoodEnd(f) = 3 * k
         /\ Len(Entries(f)) = k /\ \A j \in 1..k : Entries(f)[j] = Id(f, j)
<1>1. Len(f) \in (3 * k)..(3 * k + 2)
  OBVIOUS
<1>2. GoodEnd(f) = 3 * k
  BY <1>1, LaidReads
<1>3. (GoodEnd(f) + 2) \div 3 = k
  BY <1>2, Thirds
<1>4. Entries(f) = [j \in 1..k |-> Id(f, j)]
  BY <1>3 DEF Entries, Id
<1>5. QED
  BY <1>2, <1>4

\* What follows some whole records of a file of records is a file of records.
LEMMA SuffixLaid ==
  ASSUME NEW f \in Seq(Chunks), Laid(f), NEW m \in Nat, NEW k \in Nat, m <= k, Len(f) = 3 * k,
         NEW u \in {SubSeq(f, 3 * m + 1, Len(f))}
  PROVE  /\ u \in Seq(Chunks) /\ Len(u) = 3 * (k - m) /\ Laid(u)
         /\ \A j \in 1..(k - m) : Id(u, j) = Id(f, m + j)
<1>0. u = SubSeq(f, 3 * m + 1, Len(f))
  OBVIOUS
<1>1. /\ u \in Seq(Chunks) /\ Len(u) = 3 * (k - m)
      /\ \A i \in 1..(3 * (k - m)) : u[i] = f[3 * m + i]
  BY <1>0
<1>2. \A j \in Nat \ {0} : 3 * j - 2 <= Len(u) => Id(u, j) = Id(f, m + j)
  <2>1. SUFFICES ASSUME NEW j \in Nat \ {0}, 3 * j - 2 <= Len(u) PROVE Id(u, j) = Id(f, m + j)
    OBVIOUS
  <2>2. 3 * j - 2 \in 1..(3 * (k - m)) /\ 3 * m + (3 * j - 2) = 3 * (m + j) - 2
    BY <1>1, <2>1
  <2>3. u[3 * j - 2] = f[3 * (m + j) - 2]
    BY <1>1, <2>2
  <2>4. QED
    BY <2>3 DEF Id
<1>3. ASSUME NEW j \in Nat \ {0}, NEW p \in 1..3, 3 * j - 3 + p <= Len(u)
      PROVE  u[3 * j - 3 + p] = <<Id(u, j), p>>
  <2>1. 3 * j - 3 + p \in 1..(3 * (k - m)) /\ 3 * m + (3 * j - 3 + p) = 3 * (m + j) - 3 + p
    BY <1>1, <1>3
  <2>2. u[3 * j - 3 + p] = f[3 * (m + j) - 3 + p]
    BY <1>1, <2>1
  <2>3. m + j \in Nat \ {0} /\ 3 * (m + j) - 3 + p <= Len(f)
    BY <1>1, <2>1
  <2>4. f[3 * (m + j) - 3 + p] = <<Id(f, m + j), p>>
    BY <2>3 DEF Laid
  <2>5. 3 * j - 2 <= Len(u)
    BY <1>1, <1>3
  <2>6. QED
    BY <1>2, <2>2, <2>4, <2>5
<1>4. Laid(u)
  BY <1>3 DEF Laid
<1>5. \A j \in 1..(k - m) : j \in Nat \ {0} /\ 3 * j - 2 <= Len(u)
  BY <1>1
<1>6. QED
  BY <1>1, <1>2, <1>4, <1>5

\* What reading a readable file leaves: nothing but records that are whole, all of them held.
Caught(s) ==
    /\ \E k \in Nat :
          /\ Len(file') = 3 * k /\ (Len(file) = 3 * k \/ Len(file) = 3 * k + 1)
          /\ \A i \in 1..(3 * k) : file'[i] = file[i]
          /\ Len(mem'[s]) = k /\ \A j \in 1..k : mem'[s][j] = Id(file', j)
    /\ (inode' = inode /\ file' = file) \/ inode' = inode + 1
    /\ explicit'[s] => explicit[s]
    /\ leaf'[s] = leaf[s] \/ leaf'[s] = LastOf(mem'[s], 0)
    /\ leaf[s] = LastOf(mem[s], 0) /\ diskLeaf[s] = LastOf(mem[s], 0) =>
          leaf'[s] = LastOf(mem'[s], 0) /\ diskLeaf'[s] = LastOf(mem'[s], 0)

\* After _load the instance has caught up.
LEMMA LoadReads ==
  ASSUME Shape, Readable, Nobody, NEW s \in Stores, Load(s)
  PROVE  Caught(s) /\ leaf'[s] = LastOf(mem'[s], 0) /\ diskLeaf'[s] = LastOf(mem'[s], 0)
                   /\ ~explicit'[s]
<1> DEFINE es == Entries(file)
<1>1. file \in Seq(Chunks) /\ Laid(file) /\ Len(file) \in Nat
  BY ShapeTypes DEF Readable
<1>2. PICK k \in Nat : Len(file) = 3 * k \/ Len(file) = 3 * k + 1
  BY DEF Readable, EndsWell
<1>3. GoodEnd(file) = 3 * k /\ Len(es) = k /\ \A j \in 1..k : es[j] = Id(file, j)
  BY <1>1, <1>2, EntriesLaid
<1>4. Len(file') = 3 * k /\ \A i \in 1..(3 * k) : file'[i] = file[i]
  <2>1. CASE Len(file) = 3 * k
    <3>1. ~IncompleteTail(file)
      BY <1>3, <2>1 DEF IncompleteTail
    <3>2. file' = file
      BY <3>1 DEF Load
    <3>3. QED
      BY <2>1, <3>2
  <2>2. CASE Len(file) = 3 * k + 1
    <3>1. IncompleteTail(file)
      BY <1>1, <2>2, LaidReads
    <3>2. file' = SubSeq(file, 1, 3 * k)
      BY <1>3, <3>1 DEF Load, ValidPrefix
    <3>3. QED
      BY <1>1, <2>2, <3>2
  <2>3. QED
    BY <1>2, <2>1, <2>2
<1>5. mem'[s] = es /\ leaf'[s] = LastOf(es, 0) /\ diskLeaf'[s] = LastOf(es, 0) /\ explicit'[s] = FALSE
  BY ShapeTypes DEF Load
<1>a. (inode' = inode /\ file' = file) \/ inode' = inode + 1
  BY DEF Load
<1> HIDE DEF es
<1>6. \A j \in 1..k : Id(file, j) = Id(file', j)
  <2>1. \A j \in 1..k : 3 * j - 2 \in 1..(3 * k)
    OBVIOUS
  <2>2. QED
    BY <1>4, <2>1 DEF Id
<1>7. Len(mem'[s]) = k /\ \A j \in 1..k : mem'[s][j] = Id(file', j)
  BY <1>3, <1>5, <1>6
<1>8. QED
  BY <1>2, <1>4, <1>5, <1>7, <1>a DEF Caught

\* An instance that need not reload holds a prefix of a file of whole records.
LEMMA SuffixReads ==
  ASSUME Shape, Readable, Nobody, NEW s \in Stores, ~MustReload(s)
  PROVE  \E k \in Nat :
            /\ Len(file) = 3 * k /\ Len(mem[s]) <= k
            /\ Suffix(s) \in Seq(Chunks) /\ GoodEnd(Suffix(s)) = Len(Suffix(s))
            /\ Len(Entries(Suffix(s))) = k - Len(mem[s])
            /\ \A j \in 1..(k - Len(mem[s])) :
                  Entries(Suffix(s))[j] = Id(file, Len(mem[s]) + j)
<1> DEFINE m == Len(mem[s])
           u == Suffix(s)
<1>1. file \in Seq(Chunks) /\ Laid(file) /\ Len(file) \in Nat /\ mem[s] \in Seq(Ids) /\ m \in Nat
  BY ShapeTypes DEF Readable
<1>2. 3 * m = offset[s] /\ offset[s] <= Len(file)
  <2>1. Held(s) /\ ident[s] = inode /\ ~(Len(file) > offset[s] /\ MidLine)
    BY DEF Readable, MustReload, Replaced, MidLine
  <2>2. offset[s] \in Nat /\ offset[s] <= Len(file)
    BY <1>1, ShapeTypes DEF MustReload, Replaced
  <2>3. SUFFICES ASSUME 3 * m # offset[s] PROVE FALSE
    BY <2>2
  <2>4. offset[s] <= 3 * m /\ 3 * m <= Len(file) /\ MidLine
    BY <2>1, <2>3 DEF Held, Reloads
  <2>5. offset[s] < Len(file)
    BY <1>1, <2>2, <2>3, <2>4
  <2>6. QED
    BY <2>1, <2>4, <2>5
<1>3. PICK k \in Nat : Len(file) = 3 * k \/ Len(file) = 3 * k + 1
  BY DEF Readable, EndsWell
<1>4. u = SubSeq(file, 3 * m + 1, Len(file))
  BY <1>2 DEF Suffix
<1> HIDE DEF m, u
<1>5. Len(file) = 3 * k
  <2>1. SUFFICES ASSUME Len(file) = 3 * k + 1 PROVE FALSE
    BY <1>3
  <2>2. EndsLine(file[Len(file)])
    <3>1. Len(file) > offset[s]
      BY <1>1, <1>2, <2>1
    <3>2. QED
      BY <3>1 DEF MustReload, Last
  <2>3. k + 1 \in Nat \ {0} /\ 3 * (k + 1) - 3 + 1 = Len(file) /\ 1 \in 1..3
    BY <2>1
  <2>4. file[Len(file)] = <<Id(file, k + 1), 1>>
    <3>1. 3 * (k + 1) - 3 + 1 <= Len(file)
      BY <1>1, <2>3
    <3>2. file[3 * (k + 1) - 3 + 1] = <<Id(file, k + 1), 1>>
      BY <1>1, <2>3, <3>1 DEF Laid
    <3>3. QED
      BY <2>3, <3>2
  <2>5. QED
    BY <2>2, <2>4 DEF EndsLine
<1>6. m <= k
  BY <1>1, <1>2, <1>5
<1>7. u \in Seq(Chunks) /\ Len(u) = 3 * (k - m) /\ Laid(u) /\ \A j \in 1..(k - m) : Id(u, j) = Id(file, m + j)
  <2>1. u \in {SubSeq(file, 3 * m + 1, Len(file))}
    BY <1>4
  <2>2. QED
    BY <1>1, <1>5, <1>6, <2>1, SuffixLaid
<1>8. k - m \in Nat
  BY <1>1, <1>6
<1>9. GoodEnd(u) = 3 * (k - m) /\ Len(Entries(u)) = k - m /\ \A j \in 1..(k - m) : Entries(u)[j] = Id(u, j)
  BY <1>7, <1>8, EntriesLaid
<1>10. /\ Len(file) = 3 * k /\ m <= k
       /\ u \in Seq(Chunks) /\ GoodEnd(u) = Len(u)
       /\ Len(Entries(u)) = k - m
       /\ \A j \in 1..(k - m) : Entries(u)[j] = Id(file, m + j)
  BY <1>5, <1>6, <1>7, <1>9
<1>11. QED
  BY <1>10 DEF m, u

\* After _sync_from_disk it has, whether it reloaded or read a suffix.
LEMMA SyncReads ==
  ASSUME Shape, Readable, Nobody, NEW s \in Stores, Sync(s)
  PROVE  Caught(s)
<1>1. CASE MustReload(s)
  <2>1. Load(s)
    BY <1>1 DEF Sync
  <2>2. QED
    BY <2>1, LoadReads
<1>2. CASE ~MustReload(s)
  <2> DEFINE m == Len(mem[s])
             es == Entries(Suffix(s))
  <2>1. PICK k \in Nat :
            /\ Len(file) = 3 * k /\ m <= k
            /\ Suffix(s) \in Seq(Chunks)
            /\ Len(es) = k - m
            /\ \A j \in 1..(k - m) : es[j] = Id(file, m + j)
    BY <1>2, SuffixReads
  <2>2. /\ file \in Seq(Chunks) /\ mem[s] \in Seq(Ids) /\ m \in Nat
        /\ mem \in [Stores -> Seq(Ids)] /\ leaf \in [Stores -> 0..MaxEntries]
        /\ diskLeaf \in [Stores -> 0..MaxEntries]
    <3>1. /\ file \in Seq(Chunks) /\ mem \in [Stores -> Seq(Ids)]
          /\ leaf \in [Stores -> 0..MaxEntries] /\ diskLeaf \in [Stores -> 0..MaxEntries]
      BY ShapeTypes
    <3>2. mem[s] \in Seq(Ids)
      BY <3>1
    <3>3. QED
      BY <3>1, <3>2
  <2>3. es \in Seq(Ids)
    BY <2>1, ReadFacts
  <2>4. \A k1 \in 1..m : mem[s][k1] = Id(file, k1)
    BY DEF Readable, Held
  <2>5. /\ mem'[s] = mem[s] \o es
        /\ leaf'[s] = LastOf(es, leaf[s])
        /\ diskLeaf'[s] = LastOf(es, diskLeaf[s])
        /\ file' = file /\ inode' = inode /\ explicit' = explicit
    BY <1>2, <2>2 DEF Sync, ReadSuffix
  <2>d. m = Len(mem[s])
    OBVIOUS
  <2> HIDE DEF m, es
  <2>6. Len(mem'[s]) = k
    <3>1. Len(mem[s] \o es) = Len(mem[s]) + Len(es)
      BY <2>2, <2>3
    <3>2. m + (k - m) = k
      BY <2>1, <2>2
    <3>3. QED
      BY <2>1, <2>5, <2>d, <3>1, <3>2
  <2>7. ASSUME NEW j \in 1..k PROVE mem'[s][j] = Id(file', j)
    <3>1. CASE j <= m
      <4>1. mem'[s][j] = mem[s][j] /\ j \in 1..m
        BY <2>1, <2>2, <2>3, <2>5, <2>d, <3>1
      <4>2. QED
        BY <2>4, <2>5, <4>1
    <3>2. CASE j > m
      <4>1. j - m \in 1..(k - m) /\ m + (j - m) = j
        BY <2>1, <2>2, <3>2
      <4>2. mem'[s][j] = es[j - m]
        <5>1. j \in 1..(Len(mem[s]) + Len(es)) /\ j > Len(mem[s])
          BY <2>1, <2>2, <2>d, <3>2
        <5>2. QED
          BY <2>2, <2>3, <2>5, <2>d, <5>1
      <4>3. es[j - m] = Id(file, m + (j - m))
        BY <2>1, <4>1
      <4>4. QED
        BY <2>5, <4>1, <4>2, <4>3
    <3>3. QED
      BY <2>2, <3>1, <3>2
  <2>8. \A d : LastOf(es, d) = IF es = <<>> THEN d ELSE LastOf(mem'[s], d)
    <3>1. CASE es = <<>>
      BY <3>1 DEF LastOf
    <3>2. CASE es # <<>>
      <4>1. Len(es) \in Nat /\ Len(es) > 0 /\ Len(mem'[s]) = m + Len(es)
        BY <2>2, <2>3, <2>5, <2>d, <3>2
      <4>2. mem'[s][Len(mem'[s])] = es[Len(es)]
        BY <2>2, <2>3, <2>5, <2>d, <4>1
      <4>3. mem'[s] # <<>>
        BY <2>2, <4>1
      <4>4. QED
        BY <3>2, <4>2, <4>3 DEF LastOf, Last
    <3>3. QED
      BY <3>1, <3>2
  <2>9. es = <<>> => mem'[s] = mem[s]
    BY <2>2, <2>5
  <2>10. es # <<>> => \A d : LastOf(mem'[s], d) = LastOf(mem'[s], 0)
    <3>1. es # <<>> => mem'[s] # <<>>
      BY <2>2, <2>3, <2>5
    <3>2. QED
      BY <3>1 DEF LastOf
  <2>11. leaf'[s] = leaf[s] \/ leaf'[s] = LastOf(mem'[s], 0)
    BY <2>5, <2>8, <2>10
  <2>12. leaf[s] = LastOf(mem[s], 0) /\ diskLeaf[s] = LastOf(mem[s], 0) =>
          leaf'[s] = LastOf(mem'[s], 0) /\ diskLeaf'[s] = LastOf(mem'[s], 0)
    BY <2>5, <2>8, <2>9, <2>10
  <2>13. QED
    BY <2>1, <2>5, <2>6, <2>7, <2>11, <2>12 DEF Caught
<1>3. QED
  BY <1>1, <1>2

\* A readable file is never refused.
LEMMA NeverRefused ==
  ASSUME Shape, Readable, Nobody, NEW s \in Stores
  PROVE  ~SyncRaises(s)
<1>1. CASE MustReload(s)
  <2>1. file \in Seq(Chunks) /\ Laid(file) /\ Len(file) \in Nat
    BY ShapeTypes DEF Readable
  <2>2. PICK k \in Nat : Len(file) = 3 * k \/ Len(file) = 3 * k + 1
    BY DEF Readable, EndsWell
  <2>3. Len(file) \in (3 * k)..(3 * k + 2)
    BY <2>2
  <2>4. ~Corrupt(file)
    BY <2>1, <2>3, LaidReads
  <2>5. QED
    BY <1>1, <2>4 DEF SyncRaises
<1>2. CASE ~MustReload(s)
  <2>1. GoodEnd(Suffix(s)) = Len(Suffix(s)) /\ Suffix(s) \in Seq(Chunks)
    BY <1>2, SuffixReads
  <2>2. Len(Suffix(s)) \in Nat
    BY <2>1
  <2>3. ~(GoodEnd(Suffix(s)) < Len(Suffix(s)))
    BY <2>1, <2>2
  <2>4. QED
    BY <1>2, <2>3 DEF SyncRaises
<1>3. QED
  BY <1>1, <1>2

-----------------------------------------------------------------------------
(* Shape: every step.                                                      *)

\* The fields of an append in progress.
LEMMA AppendFields ==
  ASSUME NEW r \in AppendType
  PROVE  /\ r.step \in {"idle", "selected", "syncing", "writing"} /\ r.selected \in 0..MaxEntries
         /\ r.follows \in BOOLEAN /\ r.id \in 0..MaxEntries /\ r.written \in 0..3
         /\ r.news \in BOOLEAN /\ r.back \in Backs
  BY DEF AppendType

\* An append that begins has its type,
LEMMA NewAppend ==
  /\ NoAppend \in AppendType
  /\ NoAppend.step = "idle" /\ NoAppend.selected = 0 /\ NoAppend.written = 0 /\ NoAppend.back = <<>>
  /\ NoAppend.news = FALSE
  /\ \A back \in Backs :
        /\ Selected(back) \in AppendType
        /\ Selected(back).step = "selected" /\ Selected(back).selected = 0
        /\ Selected(back).written = 0 /\ Selected(back).news = FALSE /\ Selected(back).back = back
  /\ \A e \in 0..MaxEntries, b \in BOOLEAN,
        back \in Backs :
            /\ Syncing(e, b, back) \in AppendType
            /\ Syncing(e, b, back).step = "syncing" /\ Syncing(e, b, back).selected = e
            /\ Syncing(e, b, back).follows = b /\ Syncing(e, b, back).written = 0
            /\ Syncing(e, b, back).news = FALSE /\ Syncing(e, b, back).back = back
<1>1. 0 \in 0..MaxEntries /\ 0 \in 0..3
  BY StoreAssumption
<1>3. \A back \in Backs :
        /\ Selected(back) \in AppendType
        /\ Selected(back).step = "selected" /\ Selected(back).selected = 0
        /\ Selected(back).written = 0 /\ Selected(back).news = FALSE /\ Selected(back).back = back
  BY <1>1 DEF Selected, AppendType
<1>4. QED
  BY <1>1, <1>3 DEF NoAppend, Syncing, AppendType, Backs

\* and so has one that writes.
LEMMA WritingFields ==
  ASSUME NEW r \in AppendType, NEW n \in 0..MaxEntries, NEW k \in 0..3, NEW b \in BOOLEAN
  PROVE  /\ Writing(r, n, k, b) \in AppendType
         /\ Writing(r, n, k, b).step = "writing" /\ Writing(r, n, k, b).id = n
         /\ Writing(r, n, k, b).written = k /\ Writing(r, n, k, b).news = b
         /\ Writing(r, n, k, b).selected = r.selected /\ Writing(r, n, k, b).follows = r.follows
         /\ Writing(r, n, k, b).back = r.back
<1>1. /\ r.selected \in 0..MaxEntries /\ r.follows \in BOOLEAN /\ r.back \in Backs
  BY AppendFields
<1>2. QED
  BY <1>1 DEF Writing, AppendType

\* Whoever is in an append holds the lock, alone.
LEMMA Alone ==
  ASSUME Shape
  PROVE  /\ lock = NoStore => \A t \in Stores : appending[t].step \in {"idle", "selected"}
         /\ \A s \in Stores : appending[s].step \in {"syncing", "writing"} =>
               lock = s /\ \A t \in Stores \ {s} : appending[t].step \in {"idle", "selected"}
<1>1. \A t \in Stores : appending[t].step \in {"syncing", "writing"} <=> lock = t
  BY ShapeTypes
<1>2. \A t \in Stores : appending[t].step \in {"idle", "selected", "syncing", "writing"}
  BY ShapeTypes, AppendFields
<1>3. QED
  BY <1>1, <1>2, StoreAssumption

\* An instance that is not in an append knows nothing of the file.
LEMMA RestingLocals ==
  ASSUME NEW t \in Stores, Locals(t), appending[t].step \in {"idle", "selected"},
         appending'[t] = appending[t], up[t] => up'[t]
  PROVE  Locals(t)'
  BY DEF Locals

\* Nor has one that is about to read it.
LEMMA NoNews ==
  ASSUME Shape, NEW t \in Stores, appending[t].step \in {"idle", "selected", "syncing"}
  PROVE  ~appending[t].news
<1>1. Locals(t)
  BY ShapeTypes
<1>2. NoAppend.news = FALSE
  BY DEF NoAppend
<1>3. QED
  BY <1>1, <1>2 DEF Locals

\* What a reader leaves has its types.
LEMMA FreshTypes ==
  ASSUME Shape, NEW s \in Stores, Fresh(s)
  PROVE  /\ file' \in Seq(Ids \X (1..3)) /\ Len(file') <= 3 * MaxEntries
         /\ inode' \in 0..MaxFaults
         /\ mem' \in [Stores -> Seq(Ids)]
         /\ leaf' \in [Stores -> 0..MaxEntries] /\ diskLeaf' \in [Stores -> 0..MaxEntries]
         /\ offset' \in [Stores -> 0..(3 * MaxEntries)]
         /\ ident' \in [Stores -> 0..MaxFaults] /\ explicit' \in [Stores -> BOOLEAN]
         /\ Len(file') \in Nat /\ Len(file') <= 3 * Len(par)
<1>1. /\ file' \in Seq(Chunks) /\ Len(file') <= Len(file)
      /\ inode' \in Nat /\ inode' <= faults
      /\ offset' \in [Stores -> Nat] /\ offset'[s] = Len(file')
      /\ ident' \in [Stores -> Nat] /\ ident'[s] = inode'
      /\ \A t \in Stores \ {s} : offset'[t] = offset[t] /\ ident'[t] = ident[t]
      /\ mem' \in [Stores -> Seq(Ids)]
      /\ leaf' \in [Stores -> 0..MaxEntries] /\ diskLeaf' \in [Stores -> 0..MaxEntries]
      /\ explicit' \in [Stores -> BOOLEAN]
  BY DEF Fresh
<1>2. /\ Len(file) \in Nat /\ Len(par) \in Nat /\ Len(par) <= MaxEntries /\ Len(file) <= 3 * Len(par)
      /\ faults <= MaxFaults /\ faults \in Nat
      /\ offset \in [Stores -> 0..(3 * MaxEntries)] /\ ident \in [Stores -> 0..MaxFaults]
  BY ShapeTypes
<1>3. Len(file') \in Nat
  BY <1>1
<1>4. Len(file') <= 3 * Len(par) /\ Len(file') <= 3 * MaxEntries /\ inode' \in 0..MaxFaults
  BY <1>1, <1>2, <1>3, StoreAssumption
<1>5. \A t \in Stores : offset'[t] \in 0..(3 * MaxEntries) /\ ident'[t] \in 0..MaxFaults
  <2>1. offset'[s] \in 0..(3 * MaxEntries) /\ ident'[s] \in 0..MaxFaults
    BY <1>1, <1>3, <1>4, StoreAssumption
  <2>2. \A t \in Stores \ {s} : offset'[t] \in 0..(3 * MaxEntries) /\ ident'[t] \in 0..MaxFaults
    BY <1>1, <1>2
  <2>3. QED
    BY <2>1, <2>2
<1>6. offset' \in [Stores -> 0..(3 * MaxEntries)] /\ ident' \in [Stores -> 0..MaxFaults]
  BY <1>1, <1>5
<1>7. QED
  BY <1>1, <1>3, <1>4, <1>6 DEF Chunks

\* Open keeps the shape.
LEMMA OpenShape ==
  ASSUME Shape, NEW s \in Stores, Open(s)
  PROVE  Shape'
<1>1. \A t \in Stores : appending[t].step \in {"idle", "selected"}
  BY Alone DEF Open
<1>2. Nobody
  BY <1>1 DEF Nobody
<1>3. Fresh(s)
  BY <1>2, LoadFresh DEF Open
<1>4. /\ lock' = lock /\ par' = par /\ appending' = appending /\ faults' = faults
      /\ ack' = ack /\ chosen' = chosen /\ branched' = branched /\ stranded' = stranded /\ unended' = unended
      /\ up' = [up EXCEPT ![s] = TRUE]
  BY DEF Open, history
<1>5. up' \in [Stores -> BOOLEAN]
  BY <1>4, ShapeTypes
<1>6. StoreTypeOK'
  BY <1>3, <1>4, <1>5, FreshTypes DEF Shape, StoreTypeOK
<1>7. \A t \in Stores : Locals(t)'
  <2>1. \A t \in Stores : up[t] => up'[t]
    BY <1>4, ShapeTypes
  <2>2. \A t \in Stores : Locals(t) /\ appending'[t] = appending[t]
    BY <1>4, ShapeTypes
  <2>3. QED
    BY <1>1, <2>1, <2>2, RestingLocals
<1>8. Replacements'
  BY <1>3, <1>4, FreshTypes DEF Replacements, Fresh
<1>9. QED
  BY <1>6, <1>7, <1>8 DEF Shape

\* branch() and reset_leaf() keep the shape.
LEMMA BranchShape ==
  ASSUME Shape, NEW s \in Stores, NEW e \in 0..MaxEntries, Branch(s, e)
  PROVE  Shape'
<1>1. /\ leaf' = [leaf EXCEPT ![s] = e] /\ explicit' = [explicit EXCEPT ![s] = TRUE]
      /\ chosen' = [chosen EXCEPT ![s] = e] /\ branched' = TRUE
      /\ UNCHANGED <<file, inode, lock, par, up, mem, diskLeaf, offset, ident, appending, ack, stranded, unended,
                     faults>>
  BY DEF Branch
<1>2. e \in Lost..MaxEntries
  BY DEF NoChoice, Lost
<1>3. /\ leaf' \in [Stores -> 0..MaxEntries] /\ explicit' \in [Stores -> BOOLEAN]
      /\ chosen' \in [Stores -> Lost..MaxEntries]
  BY <1>1, <1>2, ShapeTypes
<1>4. StoreTypeOK'
  BY <1>1, <1>3 DEF Shape, StoreTypeOK
<1>5. (\A t \in Stores : Locals(t)') /\ Replacements'
  BY <1>1 DEF Shape, Locals, Replacements, Nobody, MidLine
<1>6. QED
  BY <1>4, <1>5 DEF Shape

\* An append that takes the lock keeps the shape;
LEMMA AppendBeginsShape ==
  ASSUME Shape, NEW s \in Stores, AppendBegins(s)
  PROVE  Shape'
<1> DEFINE b == ~explicit[s] /\ leaf[s] = diskLeaf[s]
           w == Syncing(leaf[s], b, appending[s].back)
<1>1. /\ lock = NoStore /\ up[s] /\ Len(par) < MaxEntries /\ lock' = s
      /\ appending' = [appending EXCEPT ![s] = w]
      /\ UNCHANGED <<file, inode, par, up, mem, leaf, diskLeaf, offset, ident, explicit, ack, chosen, branched, stranded, unended, faults>>
  BY ShapeTypes DEF AppendBegins, store, history
<1>2. leaf[s] \in 0..MaxEntries /\ b \in BOOLEAN /\ appending[s].back \in Backs
  BY ShapeTypes, AppendFields
<1> HIDE DEF b
<1>3. w \in AppendType /\ w.step = "syncing" /\ w.written = 0 /\ ~w.news
  BY <1>2, NewAppend
<1> HIDE DEF w
<1>4. /\ appending' \in [Stores -> AppendType] /\ appending'[s] = w
      /\ \A t \in Stores \ {s} : appending'[t] = appending[t]
  BY <1>1, <1>3, ShapeTypes
<1>5. \A t \in Stores : appending[t].step \in {"idle", "selected"}
  BY <1>1, Alone
<1>6. Nobody
  BY <1>5 DEF Nobody
<1>7. \A t \in Stores : (appending'[t].step \in {"syncing", "writing"}) = (lock' = t)
  BY <1>1, <1>3, <1>4, <1>5
<1>8. StoreTypeOK'
  BY <1>1, <1>4, <1>7 DEF Shape, StoreTypeOK
<1>9. Replacements'
  BY <1>1, <1>6 DEF Shape, Replacements, MidLine
<1>10. \A t \in Stores : Locals(t)'
  <2>1. Locals(s)'
    BY <1>1, <1>3, <1>4 DEF Locals
  <2>2. \A t \in Stores \ {s} : Locals(t)'
    BY <1>1, <1>4, <1>5, ShapeTypes, RestingLocals
  <2>3. QED
    BY <2>1, <2>2
<1>11. QED
  BY <1>8, <1>9, <1>10 DEF Shape

\* so does a compaction that notes the selection in force.
LEMMA CompactionBeginsShape ==
  ASSUME Shape, NEW s \in Stores, NEW e \in 0..MaxEntries, CompactionBegins(s, e)
  PROVE  Shape'
<1> DEFINE back == <<leaf[s], explicit[s], chosen[s]>>
<1>1. /\ up[s] /\ appending[s].step = "idle"
      /\ appending' = [appending EXCEPT ![s] = Selected(back)]
      /\ UNCHANGED <<file, inode, lock, par, up, mem, diskLeaf, offset, ident, ack, stranded, unended, faults>>
  BY DEF CompactionBegins
<1>2. /\ leaf' \in [Stores -> 0..MaxEntries] /\ explicit' \in [Stores -> BOOLEAN]
      /\ chosen' \in [Stores -> Lost..MaxEntries] /\ branched' \in BOOLEAN
  <2>1. CASE e = 0
    BY <2>1, ShapeTypes DEF CompactionBegins
  <2>2. CASE e # 0
    <3>1. /\ leaf' = [leaf EXCEPT ![s] = e] /\ explicit' = [explicit EXCEPT ![s] = TRUE]
          /\ chosen' = [chosen EXCEPT ![s] = e] /\ branched' = TRUE
      BY <2>2 DEF CompactionBegins
    <3>2. e \in Lost..MaxEntries
      BY DEF Lost
    <3>3. QED
      BY <3>1, <3>2, ShapeTypes
  <2>3. QED
    BY <2>1, <2>2
<1>3. back \in Backs
  BY ShapeTypes DEF Backs
<1> HIDE DEF back
<1>4. /\ Selected(back) \in AppendType /\ Selected(back).step = "selected"
      /\ Selected(back).written = 0 /\ ~Selected(back).news
  BY <1>3, NewAppend
<1>5. /\ appending' \in [Stores -> AppendType] /\ appending'[s] = Selected(back)
      /\ \A t \in Stores \ {s} : appending'[t] = appending[t]
  BY <1>1, <1>4, ShapeTypes
<1>6. \A t \in Stores : (appending'[t].step \in {"syncing", "writing"}) = (lock' = t)
  <2>1. \A t \in Stores : appending[t].step \in {"syncing", "writing"} <=> lock = t
    BY ShapeTypes
  <2>2. QED
    BY <1>1, <1>4, <1>5, <2>1
<1>7. StoreTypeOK'
  BY <1>1, <1>2, <1>5, <1>6 DEF Shape, StoreTypeOK
<1>8. Replacements'
  <2>1. Nobody' => Nobody
    BY <1>1, <1>5 DEF Nobody
  <2>2. QED
    BY <1>1, <2>1 DEF Shape, Replacements, MidLine
<1>9. \A t \in Stores : Locals(t)'
  <2>1. Locals(s)'
    BY <1>1, <1>4, <1>5 DEF Locals
  <2>2. ASSUME NEW t \in Stores \ {s} PROVE Locals(t)'
    <3>1. Locals(t) /\ appending'[t] = appending[t]
      BY <1>5, ShapeTypes
    <3>2. QED
      BY <1>1, <3>1 DEF Locals
  <2>3. QED
    BY <2>1, <2>2
<1>10. QED
  BY <1>7, <1>8, <1>9 DEF Shape

\* Reading the file and choosing the parent keep the shape: the write begins at the
\* end of the file.
LEMMA SyncsShape ==
  ASSUME Shape, NEW s \in Stores, AppendSyncs(s)
  PROVE  Shape'
<1> DEFINE r == appending[s]
           n == Len(par) + 1
           P == ParentOf(r, leaf'[s])
<1>1. r.step = "syncing" /\ r \in AppendType /\ r.written = 0 /\ Len(par) < MaxEntries
  BY ShapeTypes DEF AppendSyncs, Locals
<1>2. lock = s /\ \A t \in Stores \ {s} : appending[t].step \in {"idle", "selected"}
  BY <1>1, Alone
<1>3. Nobody
  BY <1>1, <1>2 DEF Nobody
<1>4. Fresh(s)
  BY <1>3, SyncFresh DEF AppendSyncs
<1>5. /\ lock' = lock /\ up' = up /\ faults' = faults
      /\ ack' = ack /\ chosen' = chosen /\ branched' = branched /\ stranded' = stranded /\ unended' = unended
      /\ par' = Append(par, P)
      /\ appending' = [appending EXCEPT ![s] = Writing(r, Len(par'), 0, Changed(s))]
  BY ShapeTypes DEF AppendSyncs, history
<1>6. P \in 0..MaxEntries
  <2>1. leaf'[s] \in 0..MaxEntries /\ r.selected \in 0..MaxEntries
    BY <1>1, <1>4, AppendFields DEF Fresh
  <2>2. QED
    BY <2>1 DEF ParentOf
<1>7. par' \in Seq(0..MaxEntries) /\ Len(par') = n /\ n \in 0..MaxEntries /\ n > 0 /\ n \in Nat
  <2>1. par \in Seq(0..MaxEntries) /\ Len(par) \in Nat
    BY ShapeTypes
  <2> HIDE DEF P
  <2>2. par' \in Seq(0..MaxEntries) /\ Len(par') = n
    BY <1>5, <1>6, <2>1
  <2>3. QED
    BY <1>1, <2>1, <2>2, StoreAssumption
<1> DEFINE w == Writing(r, n, 0, Changed(s))
<1>9. appending' = [appending EXCEPT ![s] = w]
  BY <1>5, <1>7
<1>m. n = Len(par) + 1 /\ n <= MaxEntries
  BY <1>7
<1> HIDE DEF r, P, n
<1>8. w \in AppendType /\ w.step = "writing" /\ w.id = n /\ w.written = 0
  <2>1. 0 \in 0..3 /\ Changed(s) \in BOOLEAN
    BY DEF Changed, Replaced
  <2>2. QED
    BY <1>1, <1>7, <2>1, WritingFields
<1> HIDE DEF w
<1>10. /\ appending' \in [Stores -> AppendType] /\ appending'[s] = w
       /\ \A t \in Stores \ {s} : appending'[t] = appending[t]
  BY <1>8, <1>9, ShapeTypes
<1>11. \A t \in Stores : (appending'[t].step \in {"syncing", "writing"}) = (lock' = t)
  BY <1>2, <1>5, <1>8, <1>10
<1>12. StoreTypeOK'
  <2>1. /\ file' \in Seq(Ids \X (1..3)) /\ Len(file') <= 3 * MaxEntries
        /\ inode' \in 0..MaxFaults
        /\ mem' \in [Stores -> Seq(Ids)]
        /\ leaf' \in [Stores -> 0..MaxEntries] /\ diskLeaf' \in [Stores -> 0..MaxEntries]
        /\ offset' \in [Stores -> 0..(3 * MaxEntries)]
        /\ ident' \in [Stores -> 0..MaxFaults] /\ explicit' \in [Stores -> BOOLEAN]
    BY <1>4, FreshTypes
  <2>2. par' \in Seq(0..MaxEntries) /\ Len(par') <= MaxEntries
    BY <1>7, <1>m
  <2>3. /\ lock' \in Stores \union {NoStore} /\ up' \in [Stores -> BOOLEAN] /\ ack' \subseteq Ids
        /\ chosen' \in [Stores -> Lost..MaxEntries] /\ branched' \in BOOLEAN /\ stranded' \in BOOLEAN /\ unended' \in BOOLEAN
        /\ faults' \in 0..MaxFaults
    BY <1>5 DEF Shape, StoreTypeOK
  <2>4. QED
    BY <1>10, <1>11, <2>1, <2>2, <2>3 DEF StoreTypeOK
<1>13. Locals(s)'
  <2>1. Len(file') = offset'[s] + 0 /\ offset'[s] + 3 <= 3 * n
    <3>1. offset'[s] = Len(file') /\ Len(file') \in Nat /\ Len(file') <= 3 * Len(par) /\ Len(par) \in Nat
      BY <1>4, FreshTypes, ShapeTypes DEF Fresh
    <3>2. QED
      BY <1>m, <3>1
  <2>2. up'[s]
    <3>1. up[s]
      BY <1>1, ShapeTypes DEF Locals, r
    <3>2. QED
      BY <1>5, <3>1
  <2>3. QED
    BY <1>7, <1>8, <1>10, <2>1, <2>2 DEF Locals
<1>14. \A t \in Stores \ {s} : Locals(t)'
  BY <1>2, <1>5, <1>10, ShapeTypes, RestingLocals
<1>15. Replacements'
  <2>1. ~Nobody'
    BY <1>8, <1>10 DEF Nobody
  <2>2. Len(file') \in Nat /\ Len(file') <= 3 * Len(par) /\ Len(par) \in Nat
    BY <1>4, FreshTypes, ShapeTypes
  <2>3. Len(file') <= 3 * Len(par')
    BY <1>7, <1>m, <2>2
  <2>4. inode' <= faults'
    BY <1>4, <1>5 DEF Fresh
  <2>5. QED
    BY <2>1, <2>3, <2>4 DEF Replacements
<1>16. QED
  BY <1>12, <1>13, <1>14, <1>15 DEF Shape

\* What one more chunk makes of the file.
LEMMA ChunkWritten ==
  ASSUME Shape, NEW s \in Stores, AppendWrites(s)
  PROVE  /\ lock = s /\ \A t \in Stores \ {s} : appending[t].step \in {"idle", "selected"}
         /\ appending[s].step = "writing" /\ appending[s].written \in 0..2
         /\ appending[s].id = Len(par) /\ Len(par) \in Ids
         /\ Len(file) = offset[s] + appending[s].written /\ offset[s] \in Nat
         /\ file' = Append(file, <<Len(par), appending[s].written + 1>>)
         /\ file' \in Seq(Chunks) /\ Len(file') = Len(file) + 1
         /\ \A i \in 1..Len(file) : file'[i] = file[i]
         /\ file'[Len(file) + 1] = <<Len(par), appending[s].written + 1>>
         /\ appending' \in [Stores -> AppendType]
         /\ appending'[s].step = "writing" /\ appending'[s].id = Len(par)
         /\ appending'[s].written = appending[s].written + 1
         /\ appending'[s].selected = appending[s].selected
         /\ appending'[s].back = appending[s].back /\ appending'[s].news = appending[s].news
         /\ \A t \in Stores \ {s} : appending'[t] = appending[t]
         /\ UNCHANGED <<inode, lock, par, up, mem, leaf, diskLeaf, offset, ident, explicit, ack, chosen,
                        branched, stranded, unended, faults>>
<1> DEFINE r == appending[s]
           n == r.written + 1
           w == Writing(r, r.id, n, r.news)
<1>1. r \in AppendType /\ r.step = "writing" /\ r.written < 3
  BY ShapeTypes DEF AppendWrites
<1>2. r.written \in 0..2 /\ n \in 1..3 /\ n \in 0..3
  <2>1. r.written \in 0..3
    BY <1>1, AppendFields
  <2>2. QED
    BY <1>1, <2>1
<1>3. lock = s /\ \A t \in Stores \ {s} : appending[t].step \in {"idle", "selected"}
  BY <1>1, Alone
<1>4. r.id = Len(par) /\ Len(par) > 0 /\ Len(file) = offset[s] + r.written
  BY <1>1, ShapeTypes DEF Locals
<1>5. Len(par) \in Ids /\ offset[s] \in Nat
  BY <1>4, ShapeTypes, StoreAssumption DEF Ids
<1>6. /\ appending' = [appending EXCEPT ![s] = w]
      /\ file' = Append(file, Record(r.id)[n])
      /\ UNCHANGED <<inode, lock, par, up, mem, leaf, diskLeaf, offset, ident, explicit, ack, chosen,
                        branched, stranded, unended, faults>>
  <2>1. appending \in [Stores -> AppendType]
    BY ShapeTypes
  <2>2. appending' = [appending EXCEPT ![s] = Writing(appending[s], appending[s].id, appending[s].written + 1,
                                                             appending[s].news)]
    BY <1>1, <2>1 DEF AppendWrites
  <2>3. QED
    BY <2>2 DEF AppendWrites, store, history
<1>7. Record(r.id)[n] = <<Len(par), n>>
  BY <1>2, <1>4 DEF Record
<1>8. /\ w \in AppendType /\ w.step = r.step /\ w.id = r.id /\ w.written = n
      /\ w.selected = r.selected /\ w.back = r.back /\ w.news = r.news
  <2>1. /\ r.selected \in 0..MaxEntries /\ r.follows \in BOOLEAN /\ r.id \in 0..MaxEntries
        /\ r.news \in BOOLEAN /\ r.back \in Backs
    BY <1>1, AppendFields
  <2> HIDE DEF r, n
  <2>2. /\ w.step = "writing" /\ w.id = r.id /\ w.written = n
        /\ w.selected = r.selected /\ w.back = r.back /\ w.news = r.news
    BY DEF Writing
  <2>3. w \in AppendType
    BY <1>2, <2>1 DEF Writing, AppendType
  <2> HIDE DEF w
  <2>4. QED
    BY <1>1, <2>2, <2>3
<1>9. n = r.written + 1
  OBVIOUS
<1>d. r = appending[s]
  OBVIOUS
<1> HIDE DEF r, w, n
<1>10. /\ appending' \in [Stores -> AppendType] /\ appending'[s] = w
       /\ \A t \in Stores \ {s} : appending'[t] = appending[t]
  BY <1>6, <1>8, ShapeTypes
<1>11. <<Len(par), n>> \in Chunks /\ file \in Seq(Chunks)
  BY <1>2, <1>5, ShapeTypes DEF Chunks
<1>12. /\ file' \in Seq(Chunks) /\ Len(file') = Len(file) + 1
       /\ \A i \in 1..Len(file) : file'[i] = file[i]
       /\ file'[Len(file) + 1] = <<Len(par), n>>
  BY <1>6, <1>7, <1>11
<1>13. QED
  BY <1>1, <1>2, <1>3, <1>4, <1>5, <1>6, <1>7, <1>8, <1>9, <1>10, <1>12, <1>d

\* Writing a chunk keeps the shape.
LEMMA WritesShape ==
  ASSUME Shape, NEW s \in Stores, AppendWrites(s)
  PROVE  Shape'
<1> DEFINE v == appending[s].written
<1>1. /\ lock = s /\ \A t \in Stores \ {s} : appending[t].step \in {"idle", "selected"}
      /\ appending[s].step = "writing" /\ v \in 0..2
      /\ Len(file) = offset[s] + v /\ offset[s] \in Nat
      /\ file' \in Seq(Chunks) /\ Len(file') = Len(file) + 1
      /\ \A i \in 1..Len(file) : file'[i] = file[i]
      /\ file'[Len(file) + 1] = <<Len(par), v + 1>>
      /\ appending' \in [Stores -> AppendType]
      /\ appending'[s].step = "writing" /\ appending'[s].id = Len(par)
      /\ appending'[s].written = v + 1
      /\ \A t \in Stores \ {s} : appending'[t] = appending[t]
      /\ UNCHANGED <<inode, lock, par, up, mem, leaf, diskLeaf, offset, ident, explicit, ack, chosen,
                        branched, stranded, unended, faults>>
  BY ChunkWritten
<1>2. /\ Len(par) > 0 /\ offset[s] + 3 <= 3 * Len(par) /\ appending[s].id = Len(par)
      /\ \A p \in 1..v : file[offset[s] + p] = <<Len(par), p>>
      /\ up[s]
  <2>1. Locals(s)
    BY ShapeTypes
  <2>2. QED
    BY <1>1, <2>1 DEF Locals
<1>3. Len(par) \in Nat /\ Len(par) <= MaxEntries
  BY ShapeTypes
<1> HIDE DEF v
<1>4. Len(file') <= 3 * MaxEntries /\ Len(file') <= 3 * Len(par')
  <2>1. v \in 0..2 /\ Len(file') = offset[s] + v + 1 /\ par' = par
    BY <1>1
  <2>2. MaxEntries \in Nat /\ offset[s] \in Nat /\ offset[s] + 3 <= 3 * Len(par)
    BY <1>1, <1>2, StoreAssumption
  <2>3. QED
    BY <1>3, <2>1, <2>2
<1>6. \A t \in Stores : (appending'[t].step \in {"syncing", "writing"}) = (lock' = t)
  <2>1. (appending'[s].step \in {"syncing", "writing"}) = (lock' = s)
    BY <1>1
  <2>2. \A t \in Stores \ {s} : (appending'[t].step \in {"syncing", "writing"}) = (lock' = t)
    <3>1. lock' = s /\ \A t \in Stores \ {s} : appending'[t].step \in {"idle", "selected"}
      BY <1>1
    <3>2. QED
      BY <3>1
  <2>3. QED
    BY <2>1, <2>2
<1>7. StoreTypeOK'
  BY <1>1, <1>4, <1>6 DEF Shape, StoreTypeOK, Chunks
<1>8. Locals(s)'
  <2>1. \A p \in 1..(v + 1) : file'[offset[s] + p] = <<Len(par), p>>
    <3>1. SUFFICES ASSUME NEW p \in 1..(v + 1) PROVE file'[offset[s] + p] = <<Len(par), p>>
      OBVIOUS
    <3>2. CASE p = v + 1
      <4>1. offset[s] + p = Len(file) + 1
        BY SMTT(60), <1>1, <3>2
      <4>2. QED
        BY <1>1, <3>2, <4>1
    <3>3. CASE p # v + 1
      <4>1. p \in 1..v /\ offset[s] + p \in 1..Len(file)
        <5>1. v \in 0..2 /\ Len(file) = offset[s] + v /\ offset[s] \in Nat
          BY <1>1
        <5>2. QED
          BY <3>3, <5>1
      <4>2. QED
        BY <1>1, <1>2, <4>1
    <3>4. QED
      BY <3>2, <3>3
  <2>2. Len(file') = offset'[s] + (v + 1)
    BY <1>1
  <2>3. QED
    BY <1>1, <1>2, <2>1, <2>2 DEF Locals
<1>9. \A t \in Stores \ {s} : Locals(t)'
  BY <1>1, ShapeTypes, RestingLocals
<1>10. Replacements'
  <2>1. ~Nobody'
    BY <1>1 DEF Nobody
  <2>2. QED
    BY <1>1, <1>4, <2>1 DEF Shape, Replacements
<1>11. QED
  BY <1>7, <1>8, <1>9, <1>10 DEF Shape

\* An append is over.
LEMMA EndShape ==
  ASSUME Shape, NEW s \in Stores,
         appending' = [appending EXCEPT ![s] = NoAppend],
         lock' = (IF lock = s THEN NoStore ELSE lock),
         up' \in [Stores -> BOOLEAN], \A t \in Stores \ {s} : up'[t] = up[t],
         mem' \in [Stores -> Seq(Ids)],
         leaf' \in [Stores -> 0..MaxEntries], diskLeaf' \in [Stores -> 0..MaxEntries],
         offset' \in [Stores -> 0..(3 * MaxEntries)], \A t \in Stores \ {s} : offset'[t] = offset[t],
         ident' \in [Stores -> 0..MaxFaults], explicit' \in [Stores -> BOOLEAN],
         chosen' \in [Stores -> Lost..MaxEntries],
         ack' \subseteq Ids, branched' \in BOOLEAN, stranded' \in BOOLEAN, unended' \in BOOLEAN,
         faults' \in 0..MaxFaults,
         Replacements',
         UNCHANGED <<file, inode, par>>
  PROVE  Shape'
<1>1. NoAppend \in AppendType /\ NoAppend.step = "idle" /\ NoAppend.written = 0
  BY NewAppend
<1>2. /\ appending' \in [Stores -> AppendType] /\ appending'[s] = NoAppend
      /\ \A t \in Stores \ {s} : appending'[t] = appending[t]
  BY <1>1, ShapeTypes
<1>3. \A t \in Stores : (appending'[t].step \in {"syncing", "writing"}) = (lock' = t)
  <2>1. \A t \in Stores : appending[t].step \in {"syncing", "writing"} <=> lock = t
    BY ShapeTypes
  <2>2. (appending'[s].step \in {"syncing", "writing"}) = (lock' = s)
    BY <1>1, <1>2, StoreAssumption
  <2>3. \A t \in Stores \ {s} : (appending'[t].step \in {"syncing", "writing"}) = (lock' = t)
    BY SMTT(60), <1>2, <2>1, StoreAssumption
  <2>4. QED
    BY <2>2, <2>3
<1>4. lock' \in Stores \union {NoStore}
  BY ShapeTypes
<1>5. StoreTypeOK'
  BY <1>2, <1>3, <1>4 DEF Shape, StoreTypeOK
<1>6. Locals(s)'
  BY <1>1, <1>2 DEF Locals
<1>7. \A t \in Stores \ {s} : Locals(t)'
  <2>1. \A t \in Stores : Locals(t)
    BY DEF Shape
  <2>2. \A t \in Stores \ {s} : /\ appending'[t] = appending[t] /\ up'[t] = up[t]
                                /\ offset'[t] = offset[t]
    BY <1>2
  <2>3. file' = file /\ par' = par
    OBVIOUS
  <2>4. ASSUME NEW t \in Stores \ {s} PROVE Locals(t)'
    <3>1. Locals(t) /\ appending'[t] = appending[t] /\ up'[t] = up[t] /\ offset'[t] = offset[t]
      BY <2>1, <2>2
    <3>2. QED
      BY <2>3, <3>1 DEF Locals
  <2>5. QED
    BY <2>4
<1>8. QED
  BY <1>5, <1>6, <1>7 DEF Shape

\* An append that returns keeps the shape.
LEMMA ReturnsShape ==
  ASSUME Shape, NEW s \in Stores, AppendReturns(s)
  PROVE  Shape'
<1> DEFINE e == appending[s].id
<1>1. /\ appending[s].step = "writing" /\ appending[s].written = 3
      /\ mem' = [mem EXCEPT ![s] = Append(mem[s], e)]
      /\ leaf' = [leaf EXCEPT ![s] = e]
      /\ diskLeaf' = [diskLeaf EXCEPT ![s] = e]
      /\ offset' = [offset EXCEPT ![s] = offset[s] + 3]
      /\ ident' = [ident EXCEPT ![s] = inode]
      /\ explicit' = [explicit EXCEPT ![s] = FALSE]
      /\ appending' = [appending EXCEPT ![s] = NoAppend]
      /\ lock' = NoStore
      /\ ack' = ack \union {e}
      /\ chosen' = [chosen EXCEPT ![s] = NoChoice]
      /\ UNCHANGED <<file, inode, par, up, branched, stranded, unended, faults>>
  BY ShapeTypes DEF AppendReturns, OffsetAfter
<1>2. /\ e = Len(par) /\ Len(par) > 0 /\ Len(file) = offset[s] + 3 /\ offset[s] + 3 <= 3 * Len(par)
      /\ file[offset[s] + 3] = <<e, 3>>
  <2>1. Locals(s)
    BY ShapeTypes
  <2>2. 3 \in 1..appending[s].written
    BY <1>1
  <2>3. QED
    BY <1>1, <2>1, <2>2 DEF Locals
<1>3. lock = s
  BY <1>1, Alone
<1>4. e \in Ids /\ e \in 0..MaxEntries /\ offset[s] \in Nat
  BY <1>2, ShapeTypes, StoreAssumption DEF Ids
<1> HIDE DEF e
<1>5. offset[s] + 3 \in 0..(3 * MaxEntries) /\ inode \in 0..MaxFaults /\ NoChoice \in Lost..MaxEntries
  <2>1. Len(par) \in Nat /\ Len(par) <= MaxEntries /\ inode \in Nat /\ faults \in Nat
        /\ inode <= faults /\ faults <= MaxFaults
    BY ShapeTypes
  <2>2. QED
    BY <1>2, <1>4, <2>1, StoreAssumption DEF NoChoice, Lost
<1>6. Append(mem[s], e) \in Seq(Ids)
  BY <1>4, ShapeTypes
<1>7. /\ mem' \in [Stores -> Seq(Ids)]
      /\ leaf' \in [Stores -> 0..MaxEntries] /\ diskLeaf' \in [Stores -> 0..MaxEntries]
      /\ offset' \in [Stores -> 0..(3 * MaxEntries)] /\ \A t \in Stores \ {s} : offset'[t] = offset[t]
      /\ ident' \in [Stores -> 0..MaxFaults] /\ explicit' \in [Stores -> BOOLEAN]
      /\ chosen' \in [Stores -> Lost..MaxEntries]
      /\ ack' \subseteq Ids
  BY <1>1, <1>4, <1>5, <1>6, ShapeTypes
<1>8. Replacements'
  <2>1. ~MidLine'
    BY <1>1, <1>2 DEF MidLine, EndsLine, Last
  <2>2. QED
    BY <1>1, <2>1 DEF Shape, Replacements
<1>9. faults' \in 0..MaxFaults /\ up' \in [Stores -> BOOLEAN] /\ branched' \in BOOLEAN /\ stranded' \in BOOLEAN /\ unended' \in BOOLEAN
  BY <1>1, ShapeTypes, StoreAssumption
<1>10. QED
  BY <1>1, <1>3, <1>7, <1>8, <1>9, EndShape

\* An append that raises keeps the shape, whatever it had read.
LEMMA RaiseShape ==
  ASSUME Shape, NEW s \in Stores, appending[s].step \in {"syncing", "writing"},
         NEW m \in Seq(Ids), NEW l \in 0..MaxEntries, NEW b \in BOOLEAN, Raise(s, m, l, b),
         faults < MaxFaults, faults' = faults + 1, unended' \in BOOLEAN
  PROVE  Shape'
<1> DEFINE back == appending[s].back
           at == IF back = <<>> THEN l ELSE back[1]
           own == IF back = <<>> THEN explicit[s] ELSE back[2]
           wished == IF back # <<>> THEN back[3]
                     ELSE IF b /\ chosen[s] # NoChoice THEN Lost ELSE chosen[s]
<1>1. /\ mem' = [mem EXCEPT ![s] = m]
      /\ leaf' = [leaf EXCEPT ![s] = at]
      /\ explicit' = [explicit EXCEPT ![s] = own]
      /\ chosen' = [chosen EXCEPT ![s] = wished]
      /\ stranded' \in BOOLEAN
      /\ appending' = [appending EXCEPT ![s] = NoAppend]
      /\ lock' = NoStore
      /\ UNCHANGED <<file, inode, par, up, diskLeaf, offset, ident, ack, branched>>
  <2>1. stranded' \in BOOLEAN
    BY DEF Raise
  <2>2. QED
    BY <2>1, ShapeTypes DEF Raise
<1>2. back \in Backs
  BY ShapeTypes, AppendFields
<1>a. back # <<>> => back[1] \in 0..MaxEntries /\ back[2] \in BOOLEAN /\ back[3] \in Lost..MaxEntries
  BY <1>2 DEF Backs
<1>b. explicit[s] \in BOOLEAN /\ chosen[s] \in Lost..MaxEntries /\ Lost \in Lost..MaxEntries
  BY ShapeTypes, StoreAssumption DEF Lost
<1>3. at \in 0..MaxEntries /\ own \in BOOLEAN
  BY <1>a, <1>b
<1>4. wished \in Lost..MaxEntries
  BY <1>a, <1>b
<1> HIDE DEF at, own, wished
<1>5. lock = s
  BY Alone
<1>6. /\ mem' \in [Stores -> Seq(Ids)] /\ leaf' \in [Stores -> 0..MaxEntries]
      /\ explicit' \in [Stores -> BOOLEAN] /\ chosen' \in [Stores -> Lost..MaxEntries]
  BY <1>1, <1>3, <1>4, ShapeTypes
<1>7. faults' \in 0..MaxFaults /\ inode < faults'
  <2>1. inode \in Nat /\ faults \in Nat /\ inode <= faults /\ MaxFaults \in Nat
    BY ShapeTypes, StoreAssumption
  <2>2. faults < MaxFaults /\ faults' = faults + 1
    OBVIOUS
  <2>3. QED
    BY <2>1, <2>2
<1>8. Replacements'
  <2>1. inode' <= faults' /\ inode' < faults' /\ Len(file') <= 3 * Len(par')
    BY SMTT(60), <1>1, <1>7, ShapeTypes
  <2>2. QED
    BY <2>1 DEF Replacements
<1>9. QED
  BY <1>1, <1>5, <1>6, <1>7, <1>8, ShapeTypes, EndShape

\* The end of a process keeps the shape.
LEMMA DiesShape ==
  ASSUME Shape, NEW s \in Stores, Dies(s)
  PROVE  Shape'
<1>1. /\ faults < MaxFaults /\ faults' = faults + 1
      /\ unended' = (unended \/ appending[s].written = 2)
      /\ up' = [up EXCEPT ![s] = FALSE]
      /\ lock' = IF lock = s THEN NoStore ELSE lock
      /\ appending' = [appending EXCEPT ![s] = NoAppend]
      /\ mem' = [mem EXCEPT ![s] = <<>>]
      /\ leaf' = [leaf EXCEPT ![s] = 0]
      /\ diskLeaf' = [diskLeaf EXCEPT ![s] = 0]
      /\ offset' = [offset EXCEPT ![s] = 0]
      /\ ident' = [ident EXCEPT ![s] = 0]
      /\ explicit' = [explicit EXCEPT ![s] = FALSE]
      /\ chosen' = [chosen EXCEPT ![s] = NoChoice]
      /\ UNCHANGED <<file, inode, par, ack, branched, stranded>>
  BY DEF Dies
<1>2. /\ 0 \in 0..MaxEntries /\ 0 \in 0..(3 * MaxEntries) /\ 0 \in 0..MaxFaults /\ <<>> \in Seq(Ids)
      /\ NoChoice \in Lost..MaxEntries
  BY StoreAssumption DEF NoChoice, Lost
<1>3. /\ mem' \in [Stores -> Seq(Ids)] /\ leaf' \in [Stores -> 0..MaxEntries]
      /\ diskLeaf' \in [Stores -> 0..MaxEntries]
      /\ offset' \in [Stores -> 0..(3 * MaxEntries)] /\ \A t \in Stores \ {s} : offset'[t] = offset[t]
      /\ ident' \in [Stores -> 0..MaxFaults] /\ explicit' \in [Stores -> BOOLEAN]
      /\ chosen' \in [Stores -> Lost..MaxEntries]
      /\ up' \in [Stores -> BOOLEAN] /\ \A t \in Stores \ {s} : up'[t] = up[t]
  BY <1>1, <1>2, ShapeTypes
<1>4. faults' \in 0..MaxFaults /\ inode < faults'
  <2>1. inode \in Nat /\ faults \in Nat /\ inode <= faults /\ MaxFaults \in Nat
    BY ShapeTypes, StoreAssumption
  <2>2. faults < MaxFaults /\ faults' = faults + 1
    BY <1>1
  <2>3. QED
    BY <2>1, <2>2
<1>5. Replacements'
  <2>1. inode' <= faults' /\ inode' < faults' /\ Len(file') <= 3 * Len(par')
    BY <1>1, <1>4, ShapeTypes
  <2>2. QED
    BY <2>1 DEF Replacements
<1>6. unended' \in BOOLEAN /\ ack' \subseteq Ids /\ branched' \in BOOLEAN /\ stranded' \in BOOLEAN
  BY <1>1, ShapeTypes
<1>7. QED
  BY <1>1, <1>3, <1>4, <1>5, <1>6, EndShape

\* What a refused append has read.
LEMMA RefusedRead ==
  ASSUME Shape, NEW s \in Stores
  PROVE  /\ MustReload(s) => Entries(file) \in Seq(Ids)
         /\ ~MustReload(s) => Entries(Suffix(s)) \in Seq(Ids)
<1>1. file \in Seq(Chunks) /\ offset[s] \in Nat /\ Len(file) \in Nat
  BY ShapeTypes
<1>2. ~MustReload(s) => Suffix(s) \in Seq(Chunks)
  <2>1. ~MustReload(s) => offset[s] <= Len(file)
    BY <1>1 DEF MustReload, Replaced
  <2>2. QED
    BY <1>1, <2>1 DEF Suffix
<1>3. QED
  BY <1>1, <1>2, ReadFacts

\* Every step keeps the shape.
LEMMA ShapeStep ==
  ASSUME Shape, [StoreNext]_storeVars
  PROVE  Shape'
<1>1. CASE UNCHANGED storeVars
  <2>1. UNCHANGED <<file, inode, lock, par, up, mem, leaf, diskLeaf, offset, ident, explicit, appending, ack, chosen,
                        branched, stranded, unended, faults>>
    BY <1>1 DEF storeVars, store, history
  <2>2. StoreTypeOK'
    BY <2>1 DEF Shape, StoreTypeOK
  <2>3. (\A s \in Stores : Locals(s)') /\ Replacements'
    BY <2>1 DEF Shape, Locals, Replacements, Nobody, MidLine
  <2>4. QED
    BY <2>2, <2>3 DEF Shape
<1>2. ASSUME NEW s \in Stores, AppendFails(s) PROVE Shape'
  <2>1. mem[s] \in Seq(Ids) /\ leaf[s] \in 0..MaxEntries
    BY ShapeTypes
  <2>2. /\ appending[s].step \in {"syncing", "writing"}
        /\ faults < MaxFaults /\ faults' = faults + 1 /\ unended' \in BOOLEAN
        /\ Raise(s, mem[s], leaf[s], appending[s].news)
    BY <1>2, ShapeTypes DEF AppendFails
  <2>3. appending[s].news \in BOOLEAN
    BY ShapeTypes, AppendFields
  <2>4. QED
    BY <2>1, <2>2, <2>3, RaiseShape
<1>3. ASSUME NEW s \in Stores, AppendRefused(s) PROVE Shape'
  <2> DEFINE again == MustReload(s)
             read == Entries(IF again THEN file ELSE Suffix(s))
             m == IF again THEN read ELSE mem[s] \o read
             l == LastOf(read, IF again THEN 0 ELSE leaf[s])
  <2>1. mem[s] \in Seq(Ids) /\ leaf[s] \in 0..MaxEntries /\ 0 \in 0..MaxEntries
    BY ShapeTypes, StoreAssumption
  <2>2. read \in Seq(Ids)
    BY RefusedRead
  <2>3. /\ appending[s].step \in {"syncing", "writing"} /\ faults < MaxFaults /\ faults' = faults + 1 /\ unended' = unended
        /\ Raise(s, m, l, TRUE)
    BY <1>3 DEF AppendRefused
  <2> HIDE DEF again, read
  <2>4. m \in Seq(Ids) /\ l \in 0..MaxEntries
    <3>1. mem[s] \o read \in Seq(Ids)
      BY <2>1, <2>2
    <3>2. (IF again THEN 0 ELSE leaf[s]) \in 0..MaxEntries
      BY <2>1
    <3>3. l \in 0..MaxEntries
      BY <2>2, <3>2, LastOfType
    <3>4. QED
      BY <2>2, <3>1, <3>3
  <2>5. unended' \in BOOLEAN
    BY <2>3, ShapeTypes
  <2> HIDE DEF m, l
  <2>6. QED
    BY <2>3, <2>4, <2>5, RaiseShape
<1>4. ASSUME NEW s \in Stores, RecoveryFails(s) PROVE Shape'
  <2> DEFINE m == Entries(file)
             l == LastOf(m, 0)
  <2>1. /\ appending[s].step \in {"syncing", "writing"} /\ faults < MaxFaults /\ faults' = faults + 1
        /\ unended' = unended /\ Raise(s, m, l, TRUE)
    BY <1>4 DEF RecoveryFails
  <2>2. m \in Seq(Ids) /\ 0 \in 0..MaxEntries
    BY <1>4, RefusedRead, StoreAssumption DEF RecoveryFails
  <2> HIDE DEF m
  <2>3. l \in 0..MaxEntries /\ unended' \in BOOLEAN
    BY <2>1, <2>2, LastOfType, ShapeTypes
  <2> HIDE DEF l
  <2>4. QED
    BY <2>1, <2>2, <2>3, RaiseShape
<1>5. QED
  BY <1>1, <1>2, <1>3, <1>4, OpenShape, BranchShape, AppendBeginsShape, CompactionBeginsShape, SyncsShape,
     WritesShape, ReturnsShape, DiesShape DEF StoreNext

\* The shape of an empty file that nobody has opened.
LEMMA ShapeInit ==
  StoreInit => Shape
<1> SUFFICES ASSUME StoreInit PROVE Shape
  OBVIOUS
<1>1. NoAppend \in AppendType /\ NoAppend.step = "idle" /\ NoAppend.written = 0
  BY NewAppend
<1>2. /\ 0 \in 0..MaxEntries /\ 0 \in 0..(3 * MaxEntries) /\ 0 \in 0..MaxFaults
      /\ <<>> \in Seq(Ids) /\ <<>> \in Seq(0..MaxEntries) /\ <<>> \in Seq(Ids \X (1..3))
      /\ NoChoice \in Lost..MaxEntries /\ Len(<<>>) = 0
  BY StoreAssumption DEF NoChoice, Lost
<1>3. \A s \in Stores : (appending[s].step \in {"syncing", "writing"}) = (lock = s)
  BY <1>1, StoreAssumption DEF StoreInit
<1>4. StoreTypeOK
  <2>1. /\ up \in [Stores -> BOOLEAN] /\ mem \in [Stores -> Seq(Ids)]
        /\ leaf \in [Stores -> 0..MaxEntries] /\ diskLeaf \in [Stores -> 0..MaxEntries]
        /\ offset \in [Stores -> 0..(3 * MaxEntries)] /\ ident \in [Stores -> 0..MaxFaults]
        /\ explicit \in [Stores -> BOOLEAN] /\ appending \in [Stores -> AppendType]
        /\ chosen \in [Stores -> Lost..MaxEntries]
    BY <1>1, <1>2 DEF StoreInit
  <2>2. /\ file \in Seq(Ids \X (1..3)) /\ Len(file) <= 3 * MaxEntries
        /\ inode \in 0..MaxFaults /\ lock \in Stores \union {NoStore}
        /\ par \in Seq(0..MaxEntries) /\ Len(par) <= MaxEntries /\ ack \subseteq Ids
        /\ branched \in BOOLEAN /\ stranded \in BOOLEAN /\ unended \in BOOLEAN /\ faults \in 0..MaxFaults
    <3>1. file = <<>> /\ par = <<>> /\ Len(file) = 0 /\ Len(par) = 0
      BY DEF StoreInit
    <3>2. 0 <= 3 * MaxEntries /\ 0 <= MaxEntries
      BY StoreAssumption
    <3>3. ack = {} /\ branched = FALSE /\ stranded = FALSE /\ unended = FALSE /\ faults = 0 /\ inode = 0 /\ lock = NoStore
      BY DEF StoreInit
    <3>4. QED
      BY <1>2, <3>1, <3>2, <3>3
  <2>3. QED
    BY <1>3, <2>1, <2>2 DEF StoreTypeOK
<1>5. \A s \in Stores : Locals(s)
  BY <1>1 DEF StoreInit, Locals
<1>6. Replacements
  BY <1>2 DEF StoreInit, Replacements, MidLine
<1>7. QED
  BY <1>4, <1>5, <1>6 DEF Shape

-----------------------------------------------------------------------------
(* Wishes: every step.                                                     *)

\* A step that leaves an instance alone leaves its choice alone.
LEMMA ChosenKept ==
  ASSUME NEW t \in Stores, Chosen(t),
         up'[t] = up[t], chosen'[t] = chosen[t], appending'[t] = appending[t], leaf'[t] = leaf[t],
         explicit'[t] = explicit[t], appending[t].step # "writing" \/ par' = par
  PROVE  Chosen(t)'
  BY DEF Chosen

\* Reading a file that is as the instance has left it changes nothing in the instance.
LEMMA NothingNew ==
  ASSUME Shape, NEW s \in Stores, Sync(s), ~Changed(s)
  PROVE  /\ mem'[s] = mem[s] /\ leaf'[s] = leaf[s] /\ diskLeaf'[s] = diskLeaf[s]
         /\ explicit'[s] = explicit[s]
<1>1. /\ file \in Seq(Chunks) /\ Len(file) \in Nat /\ offset[s] \in Nat /\ mem[s] \in Seq(Ids)
      /\ mem \in [Stores -> Seq(Ids)] /\ leaf \in [Stores -> 0..MaxEntries]
      /\ diskLeaf \in [Stores -> 0..MaxEntries]
  BY ShapeTypes
<1>2. ~MustReload(s) /\ offset[s] = Len(file)
  BY <1>1 DEF Changed, MustReload, Replaced
<1>3. Suffix(s) = <<>>
  BY <1>1, <1>2 DEF Suffix
<1>4. Entries(Suffix(s)) = <<>>
  <2>1. <<>> \in Seq(Chunks) /\ Laid(<<>>) /\ 0 \in Nat /\ Len(<<>>) = 3 * 0
    BY DEF Laid
  <2>2. Entries(<<>>) \in Seq(Ids) /\ Len(Entries(<<>>)) = 0
    BY <2>1, ReadFacts, EntriesLaid
  <2>3. QED
    BY <1>3, <2>2
<1>5. /\ mem'[s] = mem[s] \o <<>> /\ explicit' = explicit
      /\ leaf'[s] = LastOf(<<>>, leaf[s]) /\ diskLeaf'[s] = LastOf(<<>>, diskLeaf[s])
  BY <1>1, <1>2, <1>4 DEF Sync, ReadSuffix
<1>6. QED
  BY <1>1, <1>5 DEF LastOf

\* Every step keeps the selections: an append carries its own through the reading of
\* the file, and one that fails puts back the one before it, or keeps it, or it is lost.
LEMMA WishesStep ==
  ASSUME Shape, Wishes, [StoreNext]_storeVars
  PROVE  Wishes'
<1>w. \A t \in Stores : Chosen(t)
  BY DEF Wishes
<1>1. CASE UNCHANGED storeVars
  <2>1. UNCHANGED <<par, up, leaf, explicit, appending, chosen>>
    BY <1>1 DEF storeVars, store, history
  <2>2. QED
    BY <1>w, <2>1, ChosenKept DEF Wishes
<1>2. ASSUME NEW s \in Stores, Open(s) PROVE Wishes'
  <2>1. \A t \in Stores : appending[t].step \in {"idle", "selected"}
    BY <1>2, Alone DEF Open
  <2>2. Fresh(s)
    BY <1>2, <2>1, LoadFresh DEF Open, Nobody
  <2>3. appending' = appending /\ chosen' = chosen /\ up' = [up EXCEPT ![s] = TRUE] /\ ~up[s]
    BY <1>2 DEF Open, history
  <2>a. appending[s] = NoAppend /\ NoAppend.back = <<>>
    BY <2>3, ShapeTypes DEF Locals, NoAppend
  <2>4. Chosen(s)'
    BY <1>w, <2>3, <2>a DEF Chosen
  <2>5. ASSUME NEW t \in Stores \ {s} PROVE Chosen(t)'
    <3>1. /\ up'[t] = up[t] /\ chosen'[t] = chosen[t] /\ appending'[t] = appending[t]
          /\ leaf'[t] = leaf[t] /\ explicit'[t] = explicit[t]
      BY <2>2, <2>3, ShapeTypes DEF Fresh
    <3>2. QED
      BY <1>w, <2>1, <3>1, ChosenKept
  <2>6. QED
    BY <2>4, <2>5 DEF Wishes
<1>3. ASSUME NEW s \in Stores, NEW e \in 0..MaxEntries, Branch(s, e) PROVE Wishes'
  <2>1. /\ leaf' = [leaf EXCEPT ![s] = e] /\ explicit' = [explicit EXCEPT ![s] = TRUE]
        /\ chosen' = [chosen EXCEPT ![s] = e] /\ up[s] /\ appending[s].step = "idle"
        /\ UNCHANGED <<par, up, appending>>
    BY <1>3 DEF Branch
  <2>2. leaf'[s] = e /\ explicit'[s] /\ chosen'[s] = e
    BY <2>1, ShapeTypes
  <2>a. appending[s] = NoAppend /\ NoAppend.back = <<>> /\ NoAppend.step = "idle"
    BY <2>1, ShapeTypes DEF Locals, NoAppend
  <2>3. Chosen(s)'
    BY <2>1, <2>2, <2>a DEF Chosen
  <2>4. ASSUME NEW t \in Stores \ {s} PROVE Chosen(t)'
    <3>1. leaf'[t] = leaf[t] /\ explicit'[t] = explicit[t] /\ chosen'[t] = chosen[t]
      BY <2>1, ShapeTypes
    <3>2. QED
      BY <1>w, <2>1, <3>1, ChosenKept
  <2>5. QED
    BY <2>3, <2>4 DEF Wishes
<1>4. ASSUME NEW s \in Stores, AppendBegins(s) PROVE Wishes'
  <2> DEFINE b == ~explicit[s] /\ leaf[s] = diskLeaf[s]
             r == appending[s]
  <2>1. /\ appending' = [appending EXCEPT ![s] = Syncing(leaf[s], b, r.back)]
        /\ up[s] /\ r.step \in {"idle", "selected"}
        /\ UNCHANGED <<par, up, leaf, explicit, chosen>>
    BY <1>4, ShapeTypes DEF AppendBegins, store, history
  <2>2. /\ appending'[s] = Syncing(leaf[s], b, r.back)
        /\ \A t \in Stores \ {s} : appending'[t] = appending[t]
    BY <2>1, ShapeTypes
  <2>3. /\ appending'[s].step = "syncing" /\ appending'[s].selected = leaf[s]
        /\ appending'[s].follows = b /\ appending'[s].back = r.back
    BY <2>2 DEF Syncing
  <2>4. ~r.news
    BY <2>1, NoNews
  <2>5. chosen[s] \notin {NoChoice, Lost} => leaf[s] = chosen[s] /\ explicit[s] /\ ~b
    BY <1>w, <2>4 DEF Chosen
  <2>6. Chosen(s)'
    BY <1>w, <2>1, <2>3, <2>5 DEF Chosen
  <2>7. QED
    BY <1>w, <2>1, <2>2, <2>6, ChosenKept DEF Wishes
<1>5. ASSUME NEW s \in Stores, NEW e \in 0..MaxEntries, CompactionBegins(s, e) PROVE Wishes'
  <2> DEFINE back == <<leaf[s], explicit[s], chosen[s]>>
  <2>1. /\ appending' = [appending EXCEPT ![s] = Selected(back)]
        /\ up[s] /\ appending[s].step = "idle"
        /\ UNCHANGED <<par, up>>
    BY <1>5 DEF CompactionBegins
  <2>2. chosen[s] \notin {NoChoice, Lost} => leaf[s] = chosen[s] /\ explicit[s] = TRUE
    <3>1. ~appending[s].news
      BY <2>1, NoNews
    <3>2. QED
      BY <1>w, <3>1, ShapeTypes DEF Chosen
  <2>3. /\ chosen'[s] \notin {NoChoice, Lost} => leaf'[s] = chosen'[s] /\ explicit'[s]
        /\ \A t \in Stores \ {s} : /\ leaf'[t] = leaf[t]
                                   /\ explicit'[t] = explicit[t] /\ chosen'[t] = chosen[t]
    <3>1. CASE e = 0
      BY <1>5, <2>2, <3>1 DEF CompactionBegins
    <3>2. CASE e # 0
      <4>1. /\ leaf' = [leaf EXCEPT ![s] = e] /\ explicit' = [explicit EXCEPT ![s] = TRUE]
            /\ chosen' = [chosen EXCEPT ![s] = e]
        BY <1>5, <3>2 DEF CompactionBegins
      <4>2. QED
        BY <4>1, ShapeTypes
    <3>3. QED
      BY <3>1, <3>2
  <2>4. /\ appending'[s] = Selected(back)
        /\ \A t \in Stores \ {s} : appending'[t] = appending[t]
    BY <2>1, ShapeTypes
  <2>5. appending'[s].step = "selected" /\ appending'[s].back = back
    BY <2>4 DEF Selected
  <2>6. Chosen(s)'
    BY <2>1, <2>2, <2>3, <2>5 DEF Chosen
  <2>7. QED
    BY <1>w, <2>1, <2>3, <2>4, <2>6, ChosenKept DEF Wishes
<1>6. ASSUME NEW s \in Stores, AppendSyncs(s) PROVE Wishes'
  <2>1. appending[s].step = "syncing" /\ \A t \in Stores \ {s} : appending[t].step \in {"idle", "selected"}
    BY <1>6, Alone DEF AppendSyncs
  <2>2. Fresh(s)
    BY <1>6, <2>1, SyncFresh DEF AppendSyncs, Nobody
  <2>3. /\ chosen' = chosen /\ up' = up /\ par' = Append(par, ParentOf(appending[s], leaf'[s]))
        /\ appending' = [appending EXCEPT ![s] = Writing(appending[s], Len(par'), 0, Changed(s))]
    BY <1>6, ShapeTypes DEF AppendSyncs, history
  <2>4. /\ appending'[s] = Writing(appending[s], Len(par'), 0, Changed(s))
        /\ \A t \in Stores \ {s} : appending'[t] = appending[t]
    BY <2>3, ShapeTypes
  <2>5. /\ appending'[s].step = "writing" /\ appending'[s].id = Len(par')
        /\ appending'[s].news = Changed(s) /\ appending'[s].back = appending[s].back
    BY <2>4 DEF Writing
  <2>a. ~Changed(s) => leaf'[s] = leaf[s] /\ explicit'[s] = explicit[s]
    BY <1>6, NothingNew DEF AppendSyncs
  <2>b. ~appending[s].news
    BY <2>1, NoNews
  <2>6. par'[Len(par')] = ParentOf(appending[s], leaf'[s])
    <3>1. par \in Seq(0..MaxEntries) /\ Len(par) \in Nat
      BY ShapeTypes
    <3>2. QED
      BY <2>3, <3>1
  <2>7. Chosen(s)'
    BY <1>w, <2>1, <2>3, <2>5, <2>6, <2>a, <2>b DEF Chosen, ParentOf
  <2>8. ASSUME NEW t \in Stores \ {s} PROVE Chosen(t)'
    <3>1. leaf'[t] = leaf[t] /\ explicit'[t] = explicit[t]
      BY <2>2 DEF Fresh
    <3>2. QED
      BY <1>w, <2>1, <2>3, <2>4, <3>1, ChosenKept
  <2>9. QED
    BY <2>7, <2>8 DEF Wishes
<1>7. ASSUME NEW s \in Stores, AppendWrites(s) PROVE Wishes'
  <2>1. /\ appending[s].step = "writing" /\ appending[s].id = Len(par)
        /\ appending'[s].step = "writing" /\ appending'[s].id = Len(par)
        /\ appending'[s].back = appending[s].back /\ appending'[s].news = appending[s].news
        /\ \A t \in Stores \ {s} : appending'[t] = appending[t]
        /\ UNCHANGED <<par, up, leaf, explicit, chosen>>
    BY <1>7, ChunkWritten
  <2>2. Chosen(s)'
    BY <1>w, <2>1 DEF Chosen
  <2>3. QED
    BY <1>w, <2>1, <2>2, ChosenKept DEF Wishes
<1>8. ASSUME NEW s \in Stores, AppendReturns(s) PROVE Wishes'
  <2>1. /\ leaf' = [leaf EXCEPT ![s] = appending[s].id]
        /\ explicit' = [explicit EXCEPT ![s] = FALSE]
        /\ appending' = [appending EXCEPT ![s] = NoAppend]
        /\ chosen' = [chosen EXCEPT ![s] = NoChoice]
        /\ UNCHANGED <<par, up>>
    BY <1>8 DEF AppendReturns
  <2>2. /\ chosen'[s] = NoChoice /\ appending'[s] = NoAppend
        /\ \A t \in Stores \ {s} : /\ appending'[t] = appending[t] /\ leaf'[t] = leaf[t]
                                   /\ explicit'[t] = explicit[t] /\ chosen'[t] = chosen[t]
    BY <2>1, ShapeTypes
  <2>3. Chosen(s)'
    BY <2>2 DEF Chosen, NoAppend
  <2>4. QED
    BY <1>w, <2>1, <2>2, <2>3, ChosenKept DEF Wishes
<1>9. ASSUME NEW s \in Stores, NEW m, NEW l, NEW b \in BOOLEAN, Raise(s, m, l, b), up[s],
             ~b => l = leaf[s] /\ ~appending[s].news
      PROVE  Wishes'
  <2> DEFINE back == appending[s].back
             at == IF back = <<>> THEN l ELSE back[1]
             own == IF back = <<>> THEN explicit[s] ELSE back[2]
             wished == IF back # <<>> THEN back[3]
                       ELSE IF b /\ chosen[s] # NoChoice THEN Lost ELSE chosen[s]
  <2>1. /\ leaf' = [leaf EXCEPT ![s] = at]
        /\ explicit' = [explicit EXCEPT ![s] = own]
        /\ chosen' = [chosen EXCEPT ![s] = wished]
        /\ appending' = [appending EXCEPT ![s] = NoAppend]
        /\ UNCHANGED <<par, up>>
    BY <1>9, ShapeTypes DEF Raise
  <2>2. wished \notin {NoChoice, Lost} => at = wished /\ own
    BY <1>9, <1>w DEF Chosen
  <2> HIDE DEF at, own, wished
  <2>3. /\ chosen'[s] = wished /\ leaf'[s] = at /\ (own => explicit'[s]) /\ appending'[s] = NoAppend
        /\ \A t \in Stores \ {s} : /\ appending'[t] = appending[t] /\ leaf'[t] = leaf[t]
                                   /\ explicit'[t] = explicit[t] /\ chosen'[t] = chosen[t]
    BY <2>1, ShapeTypes
  <2>4. NoAppend.step = "idle" /\ NoAppend.back = <<>>
    BY DEF NoAppend
  <2>5. Chosen(s)'
    BY <1>9, <2>1, <2>2, <2>3, <2>4 DEF Chosen
  <2>6. QED
    BY <1>w, <2>1, <2>3, <2>5, ChosenKept DEF Wishes
<1>10. ASSUME NEW s \in Stores, AppendFails(s) PROVE Wishes'
  <2>1. Raise(s, mem[s], leaf[s], appending[s].news) /\ up[s]
    BY <1>10, ShapeTypes DEF AppendFails, Locals
  <2>2. appending[s].news \in BOOLEAN
    BY ShapeTypes, AppendFields
  <2>3. QED
    BY <1>9, <2>1, <2>2
<1>11. ASSUME NEW s \in Stores, AppendRefused(s) \/ RecoveryFails(s) PROVE Wishes'
  <2>1. \E m, l : Raise(s, m, l, TRUE)
    BY <1>11 DEF AppendRefused, RecoveryFails
  <2>2. up[s]
    BY <1>11, ShapeTypes DEF AppendRefused, RecoveryFails, Locals
  <2>3. QED
    BY <1>9, <2>1, <2>2
<1>12. ASSUME NEW s \in Stores, Dies(s) PROVE Wishes'
  <2>1. /\ up' = [up EXCEPT ![s] = FALSE]
        /\ appending' = [appending EXCEPT ![s] = NoAppend]
        /\ leaf' = [leaf EXCEPT ![s] = 0]
        /\ explicit' = [explicit EXCEPT ![s] = FALSE]
        /\ chosen' = [chosen EXCEPT ![s] = NoChoice]
        /\ par' = par
    BY <1>12 DEF Dies
  <2>2. /\ chosen'[s] = NoChoice /\ appending'[s] = NoAppend
        /\ \A t \in Stores \ {s} : /\ appending'[t] = appending[t] /\ leaf'[t] = leaf[t] /\ up'[t] = up[t]
                                   /\ explicit'[t] = explicit[t] /\ chosen'[t] = chosen[t]
    BY <2>1, ShapeTypes
  <2>3. Chosen(s)'
    BY <2>2 DEF Chosen, NoAppend
  <2>4. QED
    BY <1>w, <2>1, <2>2, <2>3, ChosenKept DEF Wishes
<1>13. QED
  BY <1>1, <1>2, <1>3, <1>4, <1>5, <1>6, <1>7, <1>8, <1>10, <1>11, <1>12 DEF StoreNext

-----------------------------------------------------------------------------
(* Readable: every step.                                                   *)

\* The last entry read is one that was read.
LEMMA LastOfAt ==
  ASSUME NEW es \in Seq(Ids)
  PROVE  LastOf(es, 0) \in {0} \cup Range(es)
<1>1. CASE es = <<>>
  BY <1>1 DEF LastOf
<1>2. CASE es # <<>>
  <2>1. Len(es) \in DOMAIN es
    BY <1>2
  <2>2. QED
    BY <1>2, <2>1 DEF LastOf, Last, Range
<1>3. QED
  BY <1>1, <1>2

\* Reading a readable file keeps it readable.
LEMMA CaughtKeeps ==
  ASSUME Shape, Readable, NEW s \in Stores, Caught(s), Fresh(s),
         \A t \in Stores \ {s} : appending'[t] = appending[t]
  PROVE  /\ Laid(file')
         /\ \E k \in Nat : Len(file') = 3 * k
         /\ \A k \in Nat \ {0} : 3 * k - 2 <= Len(file') =>
                3 * k - 2 <= Len(file) /\ Id(file', k) = Id(file, k)
         /\ \A e \in ack : \E k \in Nat \ {0} : 3 * k <= Len(file') /\ Id(file', k) = e
         /\ \A t \in Stores : Held(t)'
         /\ Range(mem[s]) \subseteq Range(mem'[s])
         /\ leaf'[s] \in {0} \cup Range(mem'[s])
<1>1. PICK k \in Nat :
          /\ Len(file') = 3 * k /\ (Len(file) = 3 * k \/ Len(file) = 3 * k + 1)
          /\ \A i \in 1..(3 * k) : file'[i] = file[i]
          /\ Len(mem'[s]) = k /\ \A j \in 1..k : mem'[s][j] = Id(file', j)
  BY DEF Caught
<1>2. \A j \in Nat \ {0} : 3 * j - 2 <= Len(file') =>
          j \in 1..k /\ 3 * j - 2 <= Len(file) /\ Id(file', j) = Id(file, j)
  <2>1. SUFFICES ASSUME NEW j \in Nat \ {0}, 3 * j - 2 <= Len(file')
                 PROVE  j \in 1..k /\ 3 * j - 2 <= Len(file) /\ Id(file', j) = Id(file, j)
    OBVIOUS
  <2>2. j \in 1..k /\ 3 * j - 2 \in 1..(3 * k) /\ 3 * j - 2 <= Len(file)
    BY <1>1, <2>1
  <2>3. file'[3 * j - 2] = file[3 * j - 2]
    BY <1>1, <2>2
  <2>4. QED
    BY <2>2, <2>3 DEF Id
<1>3. Laid(file')
  <2>1. SUFFICES ASSUME NEW j \in Nat \ {0}, NEW p \in 1..3, 3 * j - 3 + p <= Len(file')
                 PROVE  file'[3 * j - 3 + p] = <<Id(file', j), p>>
    BY DEF Laid
  <2>2. 3 * j - 3 + p \in 1..(3 * k) /\ 3 * j - 3 + p <= Len(file) /\ 3 * j - 2 <= Len(file')
    BY <1>1, <2>1
  <2>3. file[3 * j - 3 + p] = <<Id(file, j), p>>
    BY <2>2 DEF Readable, Laid
  <2>4. file'[3 * j - 3 + p] = file[3 * j - 3 + p]
    BY <1>1, <2>2
  <2>5. QED
    BY <1>2, <2>2, <2>3, <2>4
<1>4. ASSUME NEW e \in ack PROVE \E j \in Nat \ {0} : 3 * j <= Len(file') /\ Id(file', j) = e
  <2>1. PICK j \in Nat \ {0} : 3 * j <= Len(file) /\ Id(file, j) = e
    BY DEF Readable, Kept
  <2>2. 3 * j <= Len(file') /\ 3 * j - 2 <= Len(file')
    BY <1>1, <2>1
  <2>3. QED
    BY <1>2, <2>1, <2>2
<1>a. MidLine => Len(file) # 3 * k
  <2>1. SUFFICES ASSUME MidLine, Len(file) = 3 * k PROVE FALSE
    OBVIOUS
  <2>2. k \in Nat \ {0} /\ 3 * k - 3 + 3 = 3 * k /\ 3 * k <= Len(file) /\ 3 \in 1..3
    <3>1. file \in Seq(Chunks) /\ file # <<>>
      BY <2>1, ShapeTypes DEF MidLine
    <3>2. Len(file) # 0
      BY <3>1
    <3>3. QED
      BY <2>1, <3>2
  <2>3. file[3 * k] = <<Id(file, k), 3>>
    BY <2>2 DEF Readable, Laid
  <2>4. QED
    BY <2>1, <2>3 DEF MidLine, Last, EndsLine
<1>b. /\ inode \in Nat /\ (inode' = inode \/ inode' = inode + 1)
      /\ inode' = inode => file' = file
  <2>1. inode \in Nat
    BY ShapeTypes
  <2>2. (inode' = inode /\ file' = file) \/ inode' = inode + 1
    BY DEF Caught
  <2>3. inode # inode + 1
    BY <2>1
  <2>4. QED
    BY <2>1, <2>2, <2>3
<1>5. ASSUME NEW t \in Stores \ {s} PROVE Held(t)'
  <2>1. mem'[t] = mem[t] /\ offset'[t] = offset[t] /\ ident'[t] = ident[t] /\ appending'[t] = appending[t]
    BY DEF Fresh
  <2>2. /\ Len(mem[t]) \in Nat /\ 3 * Len(mem[t]) <= Len(file) /\ ident[t] <= inode
        /\ offset[t] \in Nat /\ ident[t] \in Nat
    BY ShapeTypes DEF Readable, Held
  <2>3. 3 * Len(mem[t]) <= Len(file') /\ ident[t] <= inode'
    BY <1>1, <1>b, <2>2
  <2>4. ASSUME NEW j \in 1..Len(mem[t]) PROVE mem[t][j] = Id(file', j)
    <3>1. mem[t][j] = Id(file, j)
      BY DEF Readable, Held
    <3>2. j \in Nat \ {0} /\ 3 * j - 2 <= Len(file')
      BY <1>1, <2>2, <2>3
    <3>3. QED
      BY <1>2, <3>1, <3>2
  <2>5. ASSUME 3 * Len(mem[t]) # offset[t]
        PROVE  offset[t] <= 3 * Len(mem[t]) /\ appending[t].step # "writing" /\ ident[t] # inode'
    <3>1. offset[t] <= 3 * Len(mem[t]) /\ appending[t].step # "writing" /\ Reloads(t)
      BY <2>5 DEF Readable, Held
    <3>2. CASE ident[t] # inode
      BY <1>b, <2>2, <3>1, <3>2
    <3>3. CASE MidLine
      <4>1. file' # file
        BY <1>1, <1>a, <3>3
      <4>2. QED
        BY <1>b, <2>2, <3>1, <4>1
    <3>4. QED
      BY <3>1, <3>2, <3>3 DEF Reloads
  <2>6. QED
    BY <2>1, <2>3, <2>4, <2>5 DEF Held, Reloads
<1>6. Held(s)'
  <2>1. offset'[s] = 3 * k /\ ident'[s] = inode' /\ inode' \in Nat
    BY <1>1 DEF Fresh
  <2>2. /\ 3 * Len(mem'[s]) <= Len(file') /\ ident'[s] <= inode'
        /\ 3 * Len(mem'[s]) = offset'[s]
    BY <1>1, <2>1
  <2>3. \A j \in 1..Len(mem'[s]) : mem'[s][j] = Id(file', j)
    BY <1>1
  <2>4. QED
    BY <2>2, <2>3 DEF Held
<1>7. Range(mem[s]) \subseteq Range(mem'[s])
  <2>1. mem[s] \in Seq(Ids) /\ mem'[s] \in Seq(Ids)
    BY ShapeTypes DEF Fresh
  <2>2. 3 * Len(mem[s]) <= Len(file) /\ Len(mem[s]) \in Nat
    BY <2>1 DEF Readable, Held
  <2>3. \A j \in 1..Len(mem[s]) : j \in 1..k /\ mem[s][j] = mem'[s][j]
    <3>1. SUFFICES ASSUME NEW j \in 1..Len(mem[s]) PROVE j \in 1..k /\ mem[s][j] = mem'[s][j]
      OBVIOUS
    <3>2. j \in 1..k /\ j \in Nat \ {0} /\ 3 * j - 2 <= Len(file')
      BY <1>1, <2>2
    <3>3. mem[s][j] = Id(file, j)
      BY DEF Readable, Held
    <3>4. QED
      BY <1>1, <1>2, <3>2, <3>3
  <2>4. DOMAIN mem[s] = 1..Len(mem[s]) /\ DOMAIN mem'[s] = 1..k
    BY <1>1, <2>1
  <2>5. QED
    BY <2>3, <2>4 DEF Range
<1>8. leaf'[s] \in {0} \cup Range(mem'[s])
  <2>1. mem'[s] \in Seq(Ids)
    BY DEF Fresh
  <2>2. leaf[s] \in {0} \cup Range(mem[s])
    BY DEF Readable, Placed, At
  <2>3. leaf'[s] = leaf[s] \/ leaf'[s] = LastOf(mem'[s], 0)
    BY DEF Caught
  <2>4. QED
    BY <1>7, <2>1, <2>2, <2>3, LastOfAt
<1>9. \A t \in Stores : Held(t)'
  BY <1>5, <1>6
<1>10. QED
  BY <1>1, <1>2, <1>3, <1>4, <1>7, <1>8, <1>9

\* A step that leaves an instance alone leaves what it may build on alone.
LEMMA PlacedKept ==
  ASSUME NEW t \in Stores, Placed(t), mem'[t] = mem[t], leaf'[t] = leaf[t],
         appending'[t] = appending[t], appending[t].step # "writing" \/ par' = par
  PROVE  Placed(t)'
  BY DEF Placed, At

\* Opening a session, which may move a half record aside, leaves it readable.
LEMMA OpenReadable ==
  ASSUME Shape, Readable, NEW s \in Stores, Open(s)
  PROVE  Readable'
<1>1. \A t \in Stores : appending[t].step \in {"idle", "selected"}
  BY Alone DEF Open
<1>2. Nobody
  BY <1>1 DEF Nobody
<1>3. Fresh(s) /\ Caught(s)
  BY <1>2, LoadFresh, LoadReads DEF Open
<1>4. par' = par /\ appending' = appending /\ ack' = ack
  BY DEF Open, history
<1>5. Laid(file') /\ EndsWell' /\ (\A t \in Stores : Held(t)') /\ Kept'
  BY <1>3, <1>4, CaughtKeeps DEF EndsWell, Kept
<1>6. Rooted'
  <2>1. \A k \in Nat \ {0} : 3 * k - 2 <= Len(file') => 3 * k - 2 <= Len(file) /\ Id(file', k) = Id(file, k)
    BY <1>3, <1>4, CaughtKeeps
  <2>2. SUFFICES ASSUME NEW k \in Nat \ {0}, 3 * k - 2 <= Len(file')
                 PROVE  /\ Id(file', k) \in DOMAIN par'
                        /\ par'[Id(file', k)] = 0 \/ \E j \in 1..(k - 1) : par'[Id(file', k)] = Id(file', j)
    BY DEF Rooted
  <2>3. 3 * k - 2 <= Len(file) /\ Id(file', k) = Id(file, k)
    BY <2>1, <2>2
  <2>4. /\ Id(file, k) \in DOMAIN par
        /\ par[Id(file, k)] = 0 \/ \E j \in 1..(k - 1) : par[Id(file, k)] = Id(file, j)
    BY <2>3 DEF Readable, Rooted
  <2>5. Len(file') \in Nat
    BY <1>3 DEF Fresh
  <2>6. \A j \in 1..(k - 1) : j \in Nat \ {0} /\ 3 * j - 2 <= Len(file')
    BY <2>2, <2>5
  <2>7. QED
    BY <1>4, <2>1, <2>3, <2>4, <2>6
<1>7. Placed(s)'
  <2>1. appending'[s] = NoAppend /\ leaf'[s] \in At(s)'
    <3>1. appending[s] = NoAppend
      BY ShapeTypes DEF Open, Locals
    <3>2. QED
      BY <1>3, <1>4, <3>1, CaughtKeeps DEF At
  <2>2. QED
    BY <2>1 DEF Placed, At, NoAppend
<1>8. ASSUME NEW t \in Stores \ {s} PROVE Placed(t)'
  <2>1. mem'[t] = mem[t] /\ leaf'[t] = leaf[t] /\ Placed(t)
    BY <1>3 DEF Fresh, Readable
  <2>2. QED
    BY <1>1, <1>4, <2>1, PlacedKept
<1>9. QED
  BY <1>5, <1>6, <1>7, <1>8 DEF Readable

\* The file, the memories and the parents as they were: what the instances may build on is left.
LEMMA StillReadable ==
  ASSUME Readable, UNCHANGED <<file, inode, par, mem, offset, ident, ack>>,
         \A t \in Stores : appending'[t].step = "writing" <=> appending[t].step = "writing",
         \A t \in Stores : Placed(t)'
  PROVE  Readable'
<1>0. (Nobody' <=> Nobody) /\ (MidLine' <=> MidLine)
  BY DEF Nobody, MidLine
<1>1. Laid(file') /\ (Nobody' => EndsWell') /\ Rooted' /\ Kept'
  BY <1>0 DEF Readable, EndsWell, Rooted, Kept
<1>2. ASSUME NEW t \in Stores PROVE Held(t)'
  <2>1. Held(t) /\ (Reloads(t) => Reloads(t)')
    BY <1>0 DEF Readable, Reloads
  <2>2. QED
    BY <2>1 DEF Held
<1>3. QED
  BY <1>1, <1>2 DEF Readable

\* A selection leaves the file readable.
LEMMA BranchReadable ==
  ASSUME Shape, Readable, NEW s \in Stores, NEW e \in 0..MaxEntries, Branch(s, e)
  PROVE  Readable'
<1>1. /\ leaf' = [leaf EXCEPT ![s] = e] /\ e \in At(s)
      /\ UNCHANGED <<file, inode, par, mem, offset, ident, ack, appending>>
  BY DEF Branch, At
<1>2. leaf'[s] = e /\ \A t \in Stores \ {s} : leaf'[t] = leaf[t]
  BY <1>1, ShapeTypes
<1>3. Placed(s)'
  BY <1>1, <1>2 DEF Readable, Placed, At
<1>4. \A t \in Stores \ {s} : Placed(t)'
  BY <1>1, <1>2, PlacedKept DEF Readable
<1>5. QED
  BY <1>1, <1>3, <1>4, StillReadable

\* An append that begins leaves it readable;
LEMMA AppendBeginsReadable ==
  ASSUME Shape, Readable, NEW s \in Stores, AppendBegins(s)
  PROVE  Readable'
<1> DEFINE b == ~explicit[s] /\ leaf[s] = diskLeaf[s]
           w == Syncing(leaf[s], b, appending[s].back)
<1>1. /\ appending' = [appending EXCEPT ![s] = w] /\ lock = NoStore
      /\ UNCHANGED <<file, inode, par, mem, offset, ident, ack, leaf>>
  BY ShapeTypes DEF AppendBegins, store, history
<1>2. appending'[s] = w /\ \A t \in Stores \ {s} : appending'[t] = appending[t]
  BY <1>1, ShapeTypes
<1>3. /\ appending'[s].step = "syncing" /\ appending'[s].selected = leaf[s]
      /\ appending'[s].back = appending[s].back
  BY <1>2 DEF Syncing
<1>4. Placed(s)'
  BY <1>1, <1>3 DEF Readable, Placed, At
<1>5. \A t \in Stores \ {s} : Placed(t)'
  BY <1>1, <1>2, PlacedKept DEF Readable
<1>6. \A t \in Stores : appending'[t].step = "writing" <=> appending[t].step = "writing"
  BY <1>1, <1>2, <1>3, Alone
<1>7. QED
  BY <1>1, <1>4, <1>5, <1>6, StillReadable

\* so does a compaction's selection.
LEMMA CompactionBeginsReadable ==
  ASSUME Shape, Readable, NEW s \in Stores, NEW e \in 0..MaxEntries, CompactionBegins(s, e)
  PROVE  Readable'
<1> DEFINE back == <<leaf[s], explicit[s], chosen[s]>>
<1>1. /\ appending' = [appending EXCEPT ![s] = Selected(back)] /\ appending[s].step = "idle"
      /\ e \in At(s)
      /\ UNCHANGED <<file, inode, par, mem, offset, ident, ack>>
  BY DEF CompactionBegins, At
<1>2. /\ appending'[s] = Selected(back)
      /\ \A t \in Stores \ {s} : appending'[t] = appending[t]
  BY <1>1, ShapeTypes
<1>3. leaf'[s] \in {leaf[s], e} /\ \A t \in Stores \ {s} : leaf'[t] = leaf[t]
  <2>1. leaf' = leaf \/ leaf' = [leaf EXCEPT ![s] = e]
    BY DEF CompactionBegins
  <2>2. QED
    BY <2>1, ShapeTypes
<1>4. /\ appending'[s].step = "selected" /\ appending'[s].selected = 0
      /\ appending'[s].back = back /\ back[1] = leaf[s]
  BY <1>2 DEF Selected
<1>5. Placed(s)'
  <2>1. leaf[s] \in At(s) /\ At(s)' = At(s) /\ 0 \in At(s)
    BY <1>1 DEF Readable, Placed, At
  <2>2. QED
    BY <1>1, <1>3, <1>4, <2>1 DEF Placed
<1>6. \A t \in Stores \ {s} : Placed(t)'
  BY <1>1, <1>2, <1>3, PlacedKept DEF Readable
<1>7. \A t \in Stores : appending'[t].step = "writing" <=> appending[t].step = "writing"
  BY <1>1, <1>2, <1>4
<1>8. QED
  BY <1>1, <1>5, <1>6, <1>7, StillReadable

\* Reading the file and choosing the parent leave it readable.
LEMMA SyncsReadable ==
  ASSUME Shape, Readable, NEW s \in Stores, AppendSyncs(s)
  PROVE  Readable'
<1> DEFINE P == ParentOf(appending[s], leaf'[s])
<1>1. appending[s].step = "syncing" /\ \A t \in Stores \ {s} : appending[t].step \in {"idle", "selected"}
  BY Alone DEF AppendSyncs
<1>2. Nobody
  BY <1>1 DEF Nobody
<1>3. Fresh(s) /\ Caught(s)
  BY <1>2, SyncFresh, SyncReads DEF AppendSyncs
<1>4. /\ ack' = ack /\ par' = Append(par, P)
      /\ appending' = [appending EXCEPT ![s] = Writing(appending[s], Len(par'), 0, Changed(s))]
  BY ShapeTypes DEF AppendSyncs, history
<1>5. /\ appending'[s] = Writing(appending[s], Len(par'), 0, Changed(s))
      /\ \A t \in Stores \ {s} : appending'[t] = appending[t]
  BY <1>4, ShapeTypes
<1>6. /\ appending'[s].step = "writing" /\ appending'[s].id = Len(par')
      /\ appending'[s].selected = appending[s].selected /\ appending'[s].back = appending[s].back
  BY <1>5 DEF Writing
<1>7. /\ par'[Len(par')] = P
      /\ \A i \in DOMAIN par : i \in DOMAIN par' /\ par'[i] = par[i]
  <2>1. par \in Seq(0..MaxEntries) /\ Len(par) \in Nat
    BY ShapeTypes
  <2> HIDE DEF P
  <2>2. QED
    BY <1>4, <2>1
<1>8. At(s) \subseteq At(s)' /\ leaf'[s] \in At(s)'
  BY <1>3, <1>5, CaughtKeeps DEF At
<1>9. P \in At(s)'
  <2>1. appending[s].selected \in At(s)
    BY DEF Readable, Placed
  <2>2. QED
    BY <1>8, <2>1 DEF ParentOf
<1> HIDE DEF P
<1>10. Placed(s)'
  <2>1. appending[s].back # <<>> => appending[s].back[1] \in At(s)
    BY DEF Readable, Placed
  <2>2. appending[s].selected \in At(s)
    BY DEF Readable, Placed
  <2>3. QED
    BY <1>6, <1>7, <1>8, <1>9, <2>1, <2>2 DEF Placed
<1>11. ASSUME NEW t \in Stores \ {s} PROVE Placed(t)'
  <2>1. mem'[t] = mem[t] /\ leaf'[t] = leaf[t] /\ Placed(t)
    BY <1>3 DEF Fresh, Readable
  <2>2. QED
    BY <1>1, <1>5, <2>1, PlacedKept
<1>12. Laid(file') /\ EndsWell' /\ (\A t \in Stores : Held(t)') /\ Kept'
  BY <1>3, <1>4, <1>5, CaughtKeeps DEF EndsWell, Kept
<1>13. Rooted'
  <2>1. \A k \in Nat \ {0} : 3 * k - 2 <= Len(file') => 3 * k - 2 <= Len(file) /\ Id(file', k) = Id(file, k)
    BY <1>3, <1>5, CaughtKeeps
  <2>2. SUFFICES ASSUME NEW k \in Nat \ {0}, 3 * k - 2 <= Len(file')
                 PROVE  /\ Id(file', k) \in DOMAIN par'
                        /\ par'[Id(file', k)] = 0 \/ \E j \in 1..(k - 1) : par'[Id(file', k)] = Id(file', j)
    BY DEF Rooted
  <2>3. 3 * k - 2 <= Len(file) /\ Id(file', k) = Id(file, k)
    BY <2>1, <2>2
  <2>4. /\ Id(file, k) \in DOMAIN par
        /\ par[Id(file, k)] = 0 \/ \E j \in 1..(k - 1) : par[Id(file, k)] = Id(file, j)
    BY <2>3 DEF Readable, Rooted
  <2>5. Len(file') \in Nat
    BY <1>3 DEF Fresh
  <2>6. \A j \in 1..(k - 1) : j \in Nat \ {0} /\ 3 * j - 2 <= Len(file')
    BY <2>2, <2>5
  <2>7. Id(file', k) \in DOMAIN par' /\ par'[Id(file', k)] = par[Id(file, k)]
    BY <1>7, <2>3, <2>4
  <2>8. QED
    BY <2>1, <2>4, <2>6, <2>7
<1>14. QED
  BY <1>10, <1>11, <1>12, <1>13 DEF Readable

\* A chunk continues the record at the end of the file: the file stays readable.
LEMMA WritesReadable ==
  ASSUME Shape, Readable, NEW s \in Stores, AppendWrites(s)
  PROVE  Readable'
<1> DEFINE v == appending[s].written
           m == Len(mem[s])
           n == Len(par)
<1>1. /\ \A t \in Stores \ {s} : appending[t].step \in {"idle", "selected"}
      /\ appending[s].step = "writing" /\ v \in 0..2 /\ appending[s].id = n
      /\ Len(file) = offset[s] + v /\ offset[s] \in Nat
      /\ file' \in Seq(Chunks) /\ Len(file') = Len(file) + 1
      /\ \A i \in 1..Len(file) : file'[i] = file[i]
      /\ file'[Len(file) + 1] = <<n, v + 1>>
      /\ appending'[s].step = "writing" /\ appending'[s].id = n
      /\ appending'[s].selected = appending[s].selected
      /\ appending'[s].back = appending[s].back
      /\ \A t \in Stores \ {s} : appending'[t] = appending[t]
      /\ UNCHANGED <<inode, par, mem, leaf, offset, ident, ack>>
  BY ChunkWritten
<1>2. /\ m \in Nat /\ 3 * m = offset[s] /\ \A k \in 1..m : mem[s][k] = Id(file, k)
      /\ mem[s] \in Seq(Ids)
  <2>1. mem[s] \in Seq(Ids)
    BY ShapeTypes
  <2>2. Held(s) /\ appending[s].step = "writing"
    BY <1>1 DEF Readable
  <2>3. 3 * Len(mem[s]) = offset[s] /\ \A k \in 1..Len(mem[s]) : mem[s][k] = Id(file, k)
    BY <2>2 DEF Held
  <2>4. QED
    BY <2>1, <2>3
<1>3. n > 0 /\ n \in DOMAIN par /\ \A p \in 1..v : file[offset[s] + p] = <<n, p>>
  <2>1. Locals(s) /\ par \in Seq(0..MaxEntries)
    BY ShapeTypes
  <2>2. n > 0 /\ n = Len(par) /\ \A p \in 1..v : file[offset[s] + p] = <<n, p>>
    BY <1>1, <2>1 DEF Locals
  <2>4. Len(par) \in Nat /\ DOMAIN par = 1..Len(par)
    BY <2>1
  <2>5. n \in DOMAIN par
    BY <2>2, <2>4
  <2>3. QED
    BY <2>2, <2>5
<1>4. Len(file) \in Nat /\ Len(file) = 3 * m + v
  BY <1>1, <1>2
<1>l. /\ v \in 0..2 /\ Len(file') = Len(file) + 1
      /\ \A i \in 1..Len(file) : file'[i] = file[i]
      /\ file'[Len(file) + 1] = <<n, v + 1>>
  BY <1>1
<1>d. m = Len(mem[s]) /\ n = Len(par)
  OBVIOUS
<1> HIDE DEF v, m, n
<1>5. \A k \in Nat \ {0} : 3 * k - 2 <= Len(file) => Id(file', k) = Id(file, k)
  <2>1. \A k \in Nat \ {0} : 3 * k - 2 <= Len(file) => 3 * k - 2 \in 1..Len(file)
    BY <1>4
  <2>2. QED
    BY <1>l, <2>1 DEF Id
<1>6. Id(file', m + 1) = n
  <2>0. 3 * (m + 1) - 2 = 3 * m + 1
    BY <1>2
  <2>1. CASE v = 0
    <3>1. file'[3 * (m + 1) - 2] = <<n, 1>>
      <4>1. Len(file) + 1 = 3 * (m + 1) - 2 /\ v + 1 = 1
        BY <1>2, <1>4, <2>1
      <4>2. QED
        BY <1>l, <4>1
    <3>2. QED
      BY <3>1 DEF Id
  <2>2. CASE v # 0
    <3>1. 1 \in 1..v /\ 3 * m + 1 \in 1..Len(file) /\ offset[s] + 1 = 3 * m + 1
      BY <1>l, <1>2, <1>4, <2>2
    <3>2. file'[3 * (m + 1) - 2] = <<n, 1>>
      BY <1>3, <1>l, <2>0, <3>1
    <3>3. QED
      BY <3>2 DEF Id
  <2>3. QED
    BY <2>1, <2>2
<1>7. Laid(file')
  <2>1. SUFFICES ASSUME NEW j \in Nat \ {0}, NEW p \in 1..3, 3 * j - 3 + p <= Len(file')
                 PROVE  file'[3 * j - 3 + p] = <<Id(file', j), p>>
    BY DEF Laid
  <2>2. CASE 3 * j - 3 + p <= Len(file)
    <3>1. file[3 * j - 3 + p] = <<Id(file, j), p>>
      BY <2>2 DEF Readable, Laid
    <3>2. 3 * j - 3 + p \in 1..Len(file) /\ 3 * j - 2 <= Len(file)
      BY <1>4, <2>2
    <3>3. QED
      BY <1>l, <1>5, <3>1, <3>2
  <2>3. CASE ~(3 * j - 3 + p <= Len(file))
    <3>1. 3 * j - 3 + p = 3 * m + (v + 1) /\ 3 * j - 3 + p = Len(file) + 1
      <4>1. Len(file') = Len(file) + 1 /\ v \in 0..2
        BY <1>l
      <4>2. QED
        BY <1>2, <1>4, <2>1, <2>3, <4>1
    <3>2. j = m + 1 /\ p = v + 1
      <4>1. v \in 0..2
        BY <1>l
      <4>2. QED
        BY <1>2, <3>1, <4>1
    <3>3. file'[3 * j - 3 + p] = <<n, v + 1>>
      BY <1>l, <3>1
    <3>4. QED
      BY <1>6, <3>2, <3>3
  <2>4. QED
    BY <2>2, <2>3
<1>8. Rooted'
  <2>1. SUFFICES ASSUME NEW k \in Nat \ {0}, 3 * k - 2 <= Len(file')
                 PROVE  /\ Id(file', k) \in DOMAIN par
                        /\ par[Id(file', k)] = 0 \/ \E j \in 1..(k - 1) : par[Id(file', k)] = Id(file', j)
    BY <1>1 DEF Rooted
  <2>2. \A j \in 1..(k - 1) : j \in Nat \ {0} /\ 3 * j - 2 <= Len(file)
    BY <1>4, <1>l, <2>1
  <2>3. CASE 3 * k - 2 <= Len(file)
    <3>1. /\ Id(file, k) \in DOMAIN par
          /\ par[Id(file, k)] = 0 \/ \E j \in 1..(k - 1) : par[Id(file, k)] = Id(file, j)
      BY <2>3 DEF Readable, Rooted
    <3>2. QED
      BY <1>5, <2>2, <2>3, <3>1
  <2>4. CASE ~(3 * k - 2 <= Len(file))
    <3>1. k = m + 1
      BY SMTT(60), <1>2, <1>4, <1>l, <2>1, <2>4
    <3>2. par[n] = 0 \/ \E j \in 1..m : par[n] = mem[s][j]
      <4>1. par[n] \in {0} \cup Range(mem[s])
        BY <1>1 DEF Readable, Placed, At
      <4>2. DOMAIN mem[s] = 1..m
        BY <1>2, <1>d
      <4>3. QED
        BY <4>1, <4>2 DEF Range
    <3>3. \A j \in 1..m : j \in 1..(k - 1) /\ mem[s][j] = Id(file', j)
      <4>1. \A j \in 1..m : j \in 1..(k - 1)
        BY <1>2, <3>1
      <4>2. QED
        BY <1>2, <1>5, <2>2, <4>1
    <3>4. QED
      BY <1>3, <1>6, <3>1, <3>2, <3>3
  <2>5. QED
    BY <2>3, <2>4
<1>9. Kept'
  <2>1. ASSUME NEW e \in ack PROVE \E k \in Nat \ {0} : 3 * k <= Len(file') /\ Id(file', k) = e
    <3>1. PICK k \in Nat \ {0} : 3 * k <= Len(file) /\ Id(file, k) = e
      BY DEF Readable, Kept
    <3>2. 3 * k <= Len(file') /\ 3 * k - 2 <= Len(file)
      BY <1>4, <1>l, <3>1
    <3>3. QED
      BY <1>5, <3>1, <3>2
  <2>2. QED
    BY <1>1, <2>1 DEF Kept
<1>10. ASSUME NEW t \in Stores PROVE Held(t)'
  <2>1. Len(mem[t]) \in Nat /\ 3 * Len(mem[t]) <= Len(file) /\ ident[t] <= inode
    BY ShapeTypes DEF Readable, Held
  <2>2. 3 * Len(mem[t]) <= Len(file')
    BY <1>4, <1>l, <2>1
  <2>3. ASSUME NEW k \in 1..Len(mem[t]) PROVE mem[t][k] = Id(file', k)
    <3>1. mem[t][k] = Id(file, k)
      BY DEF Readable, Held
    <3>2. k \in Nat \ {0} /\ 3 * k - 2 <= Len(file)
      BY <1>4, <2>1
    <3>3. QED
      BY <1>5, <3>1, <3>2
  <2>4. ASSUME 3 * Len(mem[t]) # offset[t]
        PROVE  offset[t] <= 3 * Len(mem[t]) /\ t # s /\ appending[t].step # "writing" /\ ident[t] # inode
    BY <1>1, <2>4 DEF Readable, Held, Reloads, Nobody
  <2>5. QED
    BY <1>1, <2>1, <2>2, <2>3, <2>4 DEF Held, Reloads
<1>11. ~Nobody'
  BY <1>1 DEF Nobody
<1>12. Placed(s)'
  BY <1>1 DEF Readable, Placed, At
<1>13. \A t \in Stores \ {s} : Placed(t)'
  BY <1>1, PlacedKept DEF Readable
<1>14. QED
  BY <1>7, <1>8, <1>9, <1>10, <1>11, <1>12, <1>13 DEF Readable

\* Where the record being written lies.
LEMMA RecordPlace ==
  ASSUME Shape, Readable, NEW s \in Stores, appending[s].step = "writing"
  PROVE  /\ Len(mem[s]) \in Nat /\ appending[s].written \in 0..3
         /\ Len(file) = 3 * Len(mem[s]) + appending[s].written
         /\ 3 * Len(mem[s]) = offset[s]
         /\ appending[s].written = 3 => Id(file, Len(mem[s]) + 1) = appending[s].id
<1>1. Len(mem[s]) \in Nat /\ 3 * Len(mem[s]) = offset[s]
  <2>1. mem[s] \in Seq(Ids) /\ Held(s)
    BY ShapeTypes DEF Readable
  <2>2. 3 * Len(mem[s]) = offset[s]
    BY <2>1 DEF Held
  <2>3. QED
    BY <2>1, <2>2
<1>2. appending[s].written \in 0..3
  BY ShapeTypes, AppendFields
<1>3. /\ Len(file) = offset[s] + appending[s].written
      /\ \A p \in 1..appending[s].written : file[offset[s] + p] = <<appending[s].id, p>>
  BY ShapeTypes DEF Locals
<1>4. ASSUME appending[s].written = 3 PROVE Id(file, Len(mem[s]) + 1) = appending[s].id
  <2>1. 1 \in 1..appending[s].written /\ 3 * (Len(mem[s]) + 1) - 2 = offset[s] + 1
    BY <1>1, <1>4
  <2>2. file[3 * (Len(mem[s]) + 1) - 2] = <<appending[s].id, 1>>
    BY <1>3, <2>1
  <2>3. QED
    BY <2>2 DEF Id
<1>5. QED
  BY <1>1, <1>2, <1>3, <1>4

\* An append is over: nothing of the file has changed.
LEMMA EndReadable ==
  ASSUME Shape, Readable, NEW s \in Stores,
         appending' = [appending EXCEPT ![s] = NoAppend],
         UNCHANGED <<file, inode, par>>,
         \A t \in Stores \ {s} : /\ mem'[t] = mem[t] /\ leaf'[t] = leaf[t] /\ offset'[t] = offset[t]
                                /\ ident'[t] = ident[t],
         leaf'[s] \in At(s)', Held(s)', Kept',
         appending[s].step = "writing" => appending[s].written # 2
  PROVE  Readable'
<1>1. appending'[s] = NoAppend /\ \A t \in Stores \ {s} : appending'[t] = appending[t]
  BY ShapeTypes
<1>2. Placed(s)'
  BY <1>1 DEF Placed, At, NoAppend
<1>a. (Nobody => Nobody') /\ MidLine' = MidLine
  BY <1>1 DEF Nobody, MidLine, NoAppend
<1>3. \A t \in Stores \ {s} : Placed(t)' /\ Held(t)'
  <2>1. SUFFICES ASSUME NEW t \in Stores \ {s} PROVE Placed(t)' /\ Held(t)'
    OBVIOUS
  <2>2. Placed(t) /\ Held(t) /\ appending'[t] = appending[t]
    BY <1>1 DEF Readable
  <2>3. Placed(t)'
    BY <2>2, PlacedKept
  <2>4. Held(t)'
    <3>1. Reloads(t) => Reloads(t)'
      BY <1>a DEF Reloads
    <3>2. QED
      BY <2>2, <3>1 DEF Held
  <2>5. QED
    BY <2>3, <2>4
<1>4. Nobody' => EndsWell'
  <2>1. CASE appending[s].step = "writing"
    <3>1. Len(mem[s]) \in Nat /\ Len(file) = 3 * Len(mem[s]) + appending[s].written
          /\ appending[s].written \in {0, 1, 3}
      BY <2>1, RecordPlace
    <3>2. \/ Len(file) = 3 * Len(mem[s]) \/ Len(file) = 3 * Len(mem[s]) + 1
          \/ Len(file) = 3 * (Len(mem[s]) + 1)
      BY <3>1
    <3>3. EndsWell
      <4>1. Len(mem[s]) + 1 \in Nat
        BY <3>1
      <4>2. QED
        BY <3>1, <3>2, <4>1 DEF EndsWell
    <3>4. QED
      BY <3>3 DEF EndsWell
  <2>2. CASE appending[s].step # "writing"
    <3>1. Nobody' => Nobody
      BY <1>1, <2>2 DEF Nobody
    <3>2. QED
      BY <3>1 DEF Readable, EndsWell
  <2>3. QED
    BY <2>1, <2>2
<1>5. Laid(file') /\ Rooted'
  BY DEF Readable, Rooted
<1>6. QED
  BY <1>2, <1>3, <1>4, <1>5 DEF Readable

\* An append that returns has a whole record in the file, next to those its
\* instance had read.
LEMMA ReturnsReadable ==
  ASSUME Shape, Readable, NEW s \in Stores, AppendReturns(s)
  PROVE  Readable'
<1> DEFINE e == appending[s].id
           m == Len(mem[s])
<1>1. /\ appending[s].step = "writing" /\ appending[s].written = 3
      /\ mem' = [mem EXCEPT ![s] = Append(mem[s], e)]
      /\ leaf' = [leaf EXCEPT ![s] = e]
      /\ offset' = [offset EXCEPT ![s] = offset[s] + 3]
      /\ appending' = [appending EXCEPT ![s] = NoAppend]
      /\ ack' = ack \union {e}
      /\ ident' = [ident EXCEPT ![s] = inode]
      /\ UNCHANGED <<file, inode, par>>
  BY ShapeTypes DEF AppendReturns, OffsetAfter
<1>2. /\ m \in Nat /\ Len(file) = 3 * m + 3 /\ 3 * m = offset[s] /\ Id(file, m + 1) = e
      /\ \A k \in 1..m : mem[s][k] = Id(file, k)
  BY <1>1, RecordPlace DEF Readable, Held
<1>3. e \in Ids
  <2>1. e = Len(par) /\ Len(par) > 0 /\ Len(par) \in Nat /\ Len(par) <= MaxEntries
    BY <1>1, ShapeTypes DEF Locals
  <2>2. QED
    BY <2>1, StoreAssumption DEF Ids
<1>4. /\ mem'[s] = Append(mem[s], e) /\ leaf'[s] = e /\ offset'[s] = offset[s] + 3
      /\ ident'[s] = inode /\ inode \in Nat
      /\ \A t \in Stores \ {s} : /\ mem'[t] = mem[t] /\ leaf'[t] = leaf[t] /\ offset'[t] = offset[t]
                                 /\ ident'[t] = ident[t]
  BY <1>1, ShapeTypes
<1>5. mem[s] \in Seq(Ids) /\ m = Len(mem[s])
  BY ShapeTypes
<1> HIDE DEF e, m
<1>6. /\ Len(mem'[s]) = m + 1 /\ mem'[s][m + 1] = e
      /\ \A k \in 1..m : mem'[s][k] = mem[s][k]
      /\ DOMAIN mem'[s] = 1..(m + 1) /\ m + 1 \in 1..(m + 1)
  BY <1>2, <1>3, <1>4, <1>5
<1>7. Held(s)'
  <2>1. 3 * (m + 1) = offset'[s] /\ offset'[s] <= Len(file)
    <3>1. offset'[s] = 3 * m + 3 /\ Len(file) = 3 * m + 3
      BY <1>2, <1>4
    <3>2. QED
      BY <1>2, <3>1
  <2>2. ASSUME NEW k \in 1..(m + 1) PROVE mem'[s][k] = Id(file, k)
    <3>1. k \in 1..m \/ k = m + 1
      BY <1>2
    <3>2. QED
      BY <1>2, <1>6, <3>1
  <2>3. QED
    BY <1>1, <1>4, <1>6, <2>1, <2>2 DEF Held
<1>8. leaf'[s] \in At(s)'
  BY <1>4, <1>6 DEF At, Range
<1>9. Kept'
  <2>1. m + 1 \in Nat \ {0} /\ 3 * (m + 1) <= Len(file)
    BY <1>2
  <2>2. QED
    BY <1>1, <1>2, <2>1 DEF Readable, Kept
<1>10. appending[s].written # 2
  BY <1>1
<1>11. QED
  BY <1>1, <1>4, <1>7, <1>8, <1>9, <1>10, EndReadable

\* A write that fails elsewhere than before the newline leaves the file readable;
LEMMA FailsReadable ==
  ASSUME Shape, Readable, NEW s \in Stores, AppendFails(s), ~unended'
  PROVE  Readable'
<1> DEFINE back == appending[s].back
           at == IF back = <<>> THEN leaf[s] ELSE back[1]
<1>1. /\ appending[s].step = "writing" /\ appending[s].written # 2
      /\ mem' = [mem EXCEPT ![s] = mem[s]]
      /\ leaf' = [leaf EXCEPT ![s] = at]
      /\ appending' = [appending EXCEPT ![s] = NoAppend]
      /\ UNCHANGED <<file, inode, par, offset, ident, ack>>
  BY DEF AppendFails, Raise
<1>2. at \in At(s)
  BY DEF Readable, Placed
<1> HIDE DEF at
<1>3. mem' = mem /\ leaf'[s] = at /\ \A t \in Stores \ {s} : leaf'[t] = leaf[t]
  BY <1>1, ShapeTypes
<1>4. leaf'[s] \in At(s)' /\ Held(s)' /\ Kept'
  BY <1>1, <1>2, <1>3 DEF Readable, At, Held, Kept
<1>5. QED
  BY <1>1, <1>3, <1>4, EndReadable

\* A recovery that fails leaves the half record, and an instance that must read the whole file
\* again before it can write.
LEMMA RecoveryFailsReadable ==
  ASSUME Shape, Readable, NEW s \in Stores, RecoveryFails(s)
  PROVE  Readable'
<1> DEFINE back == appending[s].back
           es == Entries(file)
           at == IF back = <<>> THEN LastOf(es, 0) ELSE back[1]
<1>1. /\ appending[s].step = "syncing" /\ IncompleteTail(file)
      /\ mem' = [mem EXCEPT ![s] = es]
      /\ leaf' = [leaf EXCEPT ![s] = at]
      /\ appending' = [appending EXCEPT ![s] = NoAppend]
      /\ UNCHANGED <<file, inode, par, offset, ident, ack>>
  BY DEF RecoveryFails, Raise
<1>2. \A t \in Stores \ {s} : appending[t].step \in {"idle", "selected"}
  BY <1>1, Alone
<1>3. Nobody
  BY <1>1, <1>2 DEF Nobody
<1>4. /\ file \in Seq(Chunks) /\ Laid(file) /\ Len(file) \in Nat /\ mem[s] \in Seq(Ids)
      /\ offset[s] \in Nat /\ Held(s)
  BY ShapeTypes DEF Readable
<1>5. PICK k \in Nat : Len(file) = 3 * k \/ Len(file) = 3 * k + 1
  BY <1>3 DEF Readable, EndsWell
<1>6. /\ GoodEnd(file) = 3 * k /\ es \in Seq(Ids) /\ Len(es) = k
      /\ \A j \in 1..k : es[j] = Id(file, j)
  BY <1>4, <1>5, EntriesLaid, ReadFacts
<1> HIDE DEF es
<1>7. Len(file) = 3 * k + 1
  BY <1>1, <1>5, <1>6 DEF IncompleteTail
<1>8. MidLine
  <2>1. k + 1 \in Nat \ {0} /\ 3 * (k + 1) - 3 + 1 = 3 * k + 1 /\ 3 * k + 1 <= Len(file) /\ 1 \in 1..3
    BY <1>7
  <2>2. file[3 * k + 1] = <<Id(file, k + 1), 1>>
    BY <1>4, <2>1 DEF Laid
  <2>3. QED
    BY <1>4, <1>7, <2>2 DEF MidLine, Last, EndsLine
<1>9. Len(mem[s]) \in Nat /\ Len(mem[s]) <= k /\ offset[s] <= 3 * k /\ ident[s] <= inode
  <2>1. Len(mem[s]) \in Nat /\ 3 * Len(mem[s]) <= 3 * k + 1 /\ offset[s] <= 3 * Len(mem[s]) /\ ident[s] <= inode
    BY <1>4, <1>7 DEF Held
  <2>2. QED
    BY <1>4, <2>1
<1>a. \A j \in 1..Len(mem[s]) : j \in 1..k /\ mem[s][j] = es[j]
  <2>1. \A j \in 1..Len(mem[s]) : j \in 1..k
    BY <1>9
  <2>2. QED
    BY <1>4, <1>6, <2>1 DEF Held
<1>b. {0} \cup Range(mem[s]) \subseteq {0} \cup Range(es)
  <2>1. DOMAIN mem[s] = 1..Len(mem[s]) /\ DOMAIN es = 1..k
    BY <1>4, <1>6
  <2>2. QED
    BY <1>a, <2>1 DEF Range
<1>c. at \in {0} \cup Range(es)
  <2>1. back # <<>> => back[1] \in {0} \cup Range(mem[s])
    BY DEF Readable, Placed, At
  <2>2. LastOf(es, 0) \in {0} \cup Range(es)
    BY <1>6, LastOfAt
  <2>3. QED
    BY <1>b, <2>1, <2>2
<1> HIDE DEF at
<1>d. /\ mem'[s] = es /\ leaf'[s] = at /\ appending'[s] = NoAppend
      /\ \A t \in Stores \ {s} : /\ mem'[t] = mem[t] /\ leaf'[t] = leaf[t]
                                 /\ appending'[t] = appending[t]
  BY <1>1, ShapeTypes
<1>e. NoAppend.step = "idle"
  BY DEF NoAppend
<1>f. Nobody' /\ MidLine'
  BY <1>1, <1>3, <1>8, <1>d, <1>e DEF Nobody, MidLine
<1>g. Held(s)'
  <2>1. 3 * k <= Len(file)
    BY <1>7
  <2>2. QED
    BY <1>1, <1>6, <1>9, <1>d, <1>e, <1>f, <2>1 DEF Held, Reloads
<1>h. leaf'[s] \in At(s)' /\ Kept'
  BY <1>1, <1>c, <1>d DEF Readable, At, Kept
<1>i. QED
  BY <1>1, <1>d, <1>g, <1>h, EndReadable

\* so does a process that ends elsewhere than there.
LEMMA DiesReadable ==
  ASSUME Shape, Readable, NEW s \in Stores, Dies(s), ~unended'
  PROVE  Readable'
<1>1. /\ appending[s].written # 2
      /\ mem' = [mem EXCEPT ![s] = <<>>]
      /\ leaf' = [leaf EXCEPT ![s] = 0]
      /\ offset' = [offset EXCEPT ![s] = 0]
      /\ appending' = [appending EXCEPT ![s] = NoAppend]
      /\ ident' = [ident EXCEPT ![s] = 0]
      /\ UNCHANGED <<file, inode, par, ack>>
  BY DEF Dies
<1>2. /\ mem'[s] = <<>> /\ leaf'[s] = 0 /\ offset'[s] = 0 /\ ident'[s] = 0
      /\ \A t \in Stores \ {s} : /\ mem'[t] = mem[t] /\ leaf'[t] = leaf[t] /\ offset'[t] = offset[t]
                                 /\ ident'[t] = ident[t]
  BY <1>1, ShapeTypes
<1>3. Held(s)'
  <2>1. Len(file') \in Nat /\ inode' \in Nat
    BY <1>1, ShapeTypes
  <2>2. Len(mem'[s]) = 0
    BY <1>2
  <2>3. QED
    BY <1>2, <2>1, <2>2 DEF Held
<1>4. leaf'[s] \in At(s)' /\ Kept'
  BY <1>1, <1>2 DEF Readable, At, Kept
<1>5. QED
  BY <1>1, <1>2, <1>3, <1>4, EndReadable

\* As long as no record lacks its newline every step leaves the file readable.
LEMMA ReadableStep ==
  ASSUME Shape, ~unended => Readable, [StoreNext]_storeVars
  PROVE  ~unended' => Readable'
<1>0. SUFFICES ASSUME ~unended' PROVE Readable'
  OBVIOUS
<1>1. CASE UNCHANGED storeVars
  <2>1. UNCHANGED <<file, inode, par, mem, leaf, offset, ident, appending, ack, unended>>
    BY <1>1 DEF storeVars, store, history
  <2>2. Readable
    BY <1>0, <2>1
  <2>3. \A t \in Stores : Placed(t)'
    BY <2>1, <2>2, PlacedKept DEF Readable
  <2>4. QED
    BY <2>1, <2>2, <2>3, StillReadable
<1>2. ASSUME NEW s \in Stores, AppendRefused(s) PROVE Readable'
  <2>1. appending[s].step = "syncing" /\ SyncRaises(s) /\ unended' = unended
    BY <1>2 DEF AppendRefused
  <2>2. Nobody
    <3>1. \A t \in Stores \ {s} : appending[t].step \in {"idle", "selected"}
      BY <2>1, Alone
    <3>2. QED
      BY <2>1, <3>1 DEF Nobody
  <2>3. QED
    BY <1>0, <2>1, <2>2, NeverRefused
<1>3. ASSUME NEW s \in Stores, Open(s) PROVE Readable'
  <2>1. Readable
    BY <1>0, <1>3 DEF Open, history
  <2>2. QED
    BY <1>3, <2>1, OpenReadable
<1>4. ASSUME NEW s \in Stores, NEW e \in 0..MaxEntries, Branch(s, e) PROVE Readable'
  <2>1. Readable
    BY <1>0, <1>4 DEF Branch
  <2>2. QED
    BY <1>4, <2>1, BranchReadable
<1>5. ASSUME NEW s \in Stores, AppendBegins(s) PROVE Readable'
  <2>1. Readable
    BY <1>0, <1>5 DEF AppendBegins, history
  <2>2. QED
    BY <1>5, <2>1, AppendBeginsReadable
<1>6. ASSUME NEW s \in Stores, NEW e \in 0..MaxEntries, CompactionBegins(s, e) PROVE Readable'
  <2>1. Readable
    BY <1>0, <1>6 DEF CompactionBegins
  <2>2. QED
    BY <1>6, <2>1, CompactionBeginsReadable
<1>7. ASSUME NEW s \in Stores, AppendSyncs(s) PROVE Readable'
  <2>1. Readable
    BY <1>0, <1>7 DEF AppendSyncs, history
  <2>2. QED
    BY <1>7, <2>1, SyncsReadable
<1>8. ASSUME NEW s \in Stores, AppendWrites(s) PROVE Readable'
  <2>1. Readable
    BY <1>0, <1>8 DEF AppendWrites, history
  <2>2. QED
    BY <1>8, <2>1, WritesReadable
<1>9. ASSUME NEW s \in Stores, AppendReturns(s) PROVE Readable'
  <2>1. Readable
    BY <1>0, <1>9 DEF AppendReturns
  <2>2. QED
    BY <1>9, <2>1, ReturnsReadable
<1>10. ASSUME NEW s \in Stores, AppendFails(s) PROVE Readable'
  <2>1. Readable
    BY <1>0, <1>10 DEF AppendFails
  <2>2. QED
    BY <1>0, <1>10, <2>1, FailsReadable
<1>11. ASSUME NEW s \in Stores, Dies(s) PROVE Readable'
  <2>1. Readable
    BY <1>0, <1>11 DEF Dies
  <2>2. QED
    BY <1>0, <1>11, <2>1, DiesReadable
<1>12. ASSUME NEW s \in Stores, RecoveryFails(s) PROVE Readable'
  <2>1. Readable
    BY <1>0, <1>12 DEF RecoveryFails
  <2>2. QED
    BY <1>12, <2>1, RecoveryFailsReadable
<1>13. QED
  BY <1>1, <1>2, <1>3, <1>4, <1>5, <1>6, <1>7, <1>8, <1>9, <1>10, <1>11, <1>12 DEF StoreNext

\* An empty file is readable.
LEMMA ReadableInit ==
  StoreInit => Readable
<1> SUFFICES ASSUME StoreInit PROVE Readable
  OBVIOUS
<1>1. file = <<>> /\ Len(file) = 0
  BY DEF StoreInit
<1>2. Laid(file)
  <2>1. \A k \in Nat \ {0}, p \in 1..3 : ~(3 * k - 3 + p <= 0)
    OBVIOUS
  <2>2. QED
    BY <1>1, <2>1 DEF Laid
<1>3. EndsWell
  <2>1. 0 \in Nat /\ Len(file) = 3 * 0
    BY <1>1
  <2>2. QED
    BY <2>1 DEF EndsWell
<1>4. Rooted /\ Kept
  <2>1. \A k \in Nat \ {0} : ~(3 * k - 2 <= 0)
    OBVIOUS
  <2>2. QED
    BY <1>1, <2>1 DEF StoreInit, Rooted, Kept
<1>5. ASSUME NEW s \in Stores PROVE Held(s) /\ Placed(s)
  <2>1. /\ mem[s] = <<>> /\ Len(mem[s]) = 0 /\ offset[s] = 0 /\ leaf[s] = 0 /\ appending[s] = NoAppend
        /\ ident[s] = 0 /\ inode = 0
    BY DEF StoreInit
  <2>2. NoAppend.step = "idle" /\ NoAppend.selected = 0 /\ NoAppend.back = <<>>
    BY DEF NoAppend
  <2>3. Held(s)
    BY <1>1, <2>1 DEF Held
  <2>4. QED
    BY <2>1, <2>2, <2>3 DEF Placed, At
<1>6. QED
  BY <1>2, <1>3, <1>4, <1>5 DEF Readable

-----------------------------------------------------------------------------
(* Sequel: every step.                                                     *)

\* An instance that does nothing stays where it is.
LEMMA FollowingKept ==
  ASSUME NEW t \in Stores, Following(t), mem'[t] = mem[t], leaf'[t] = leaf[t], diskLeaf'[t] = diskLeaf[t],
         explicit'[t] = explicit[t], appending'[t] = appending[t],
         appending[t].step # "writing" \/ par' = par
  PROVE  Following(t)'
  BY DEF Following

\* The chain of a file that was read again, whatever was begun meanwhile.
LEMMA CaughtChained ==
  ASSUME Shape, Readable, Sequel, NEW s \in Stores, Caught(s), Fresh(s),
         \A t \in Stores \ {s} : appending'[t] = appending[t],
         \A i \in DOMAIN par : par'[i] = par[i]
  PROVE  Chained'
<1>1. \A k \in Nat \ {0} : 3 * k - 2 <= Len(file') => 3 * k - 2 <= Len(file) /\ Id(file', k) = Id(file, k)
  BY CaughtKeeps
<1>2. SUFFICES ASSUME NEW k \in Nat \ {0}, 3 * k - 2 <= Len(file')
               PROVE  par'[Id(file', k)] = IF k = 1 THEN 0 ELSE Id(file', k - 1)
  BY DEF Chained
<1>3. 3 * k - 2 <= Len(file) /\ Id(file', k) = Id(file, k)
  BY <1>1, <1>2
<1>4. Id(file, k) \in DOMAIN par /\ par[Id(file, k)] = IF k = 1 THEN 0 ELSE Id(file, k - 1)
  BY <1>3 DEF Readable, Rooted, Sequel, Chained
<1>5. Len(file') \in Nat
  BY DEF Fresh
<1>6. k # 1 => k - 1 \in Nat \ {0} /\ 3 * (k - 1) - 2 <= Len(file')
  BY <1>2, <1>5
<1>7. k # 1 => Id(file', k - 1) = Id(file, k - 1)
  BY <1>1, <1>6
<1>8. QED
  BY <1>3, <1>4, <1>7

\* As long as nobody selects a parent, and no instance is stranded, every step continues the
\* conversation.
LEMMA SequelStep ==
  ASSUME Shape, Readable, Sequel, StoreNext, ~unended', ~branched', ~stranded'
  PROVE  Sequel'
<1>f. \A t \in Stores : Following(t)
  BY DEF Sequel
<1>1. ASSUME NEW s \in Stores, Open(s) PROVE Sequel'
  <2>1. (\A t \in Stores : appending[t].step \in {"idle", "selected"}) /\ appending[s] = NoAppend
    BY <1>1, Alone, ShapeTypes DEF Open, Locals
  <2>2. Load(s) /\ Nobody
    BY <1>1, <2>1 DEF Open, Nobody
  <2>3. /\ Fresh(s) /\ Caught(s) /\ leaf'[s] = LastOf(mem'[s], 0)
        /\ diskLeaf'[s] = LastOf(mem'[s], 0) /\ ~explicit'[s]
    BY <2>2, LoadFresh, LoadReads
  <2>4. par' = par /\ appending' = appending
    BY <1>1 DEF Open
  <2>5. Chained'
    BY <2>3, <2>4, CaughtChained
  <2>6. Following(s)'
    BY <2>1, <2>3, <2>4 DEF Following, NoAppend
  <2>7. ASSUME NEW t \in Stores \ {s} PROVE Following(t)'
    <3>1. mem'[t] = mem[t] /\ leaf'[t] = leaf[t] /\ diskLeaf'[t] = diskLeaf[t] /\ explicit'[t] = explicit[t]
      BY <2>3 DEF Fresh
    <3>2. QED
      BY <1>f, <2>4, <3>1, FollowingKept
  <2>8. QED
    BY <2>5, <2>6, <2>7 DEF Sequel
<1>2. ASSUME NEW s \in Stores, NEW e \in 0..MaxEntries, Branch(s, e) PROVE Sequel'
  BY <1>2 DEF Branch
<1>3. ASSUME NEW s \in Stores, NEW e \in 0..MaxEntries, CompactionBegins(s, e) PROVE Sequel'
  <2> DEFINE back == <<leaf[s], explicit[s], chosen[s]>>
  <2>1. /\ appending' = [appending EXCEPT ![s] = Selected(back)]
        /\ UNCHANGED <<file, par, mem, leaf, diskLeaf, explicit>>
    BY <1>3 DEF CompactionBegins
  <2>2. appending'[s] = Selected(back) /\ \A t \in Stores \ {s} : appending'[t] = appending[t]
    BY <2>1, ShapeTypes
  <2>3. leaf[s] = LastOf(mem[s], 0) /\ explicit[s] = FALSE
    BY <1>f, ShapeTypes DEF Following
  <2>4. /\ appending'[s].step = "selected" /\ appending'[s].back = back
        /\ back[1] = leaf[s] /\ back[2] = explicit[s]
    BY <2>2 DEF Selected
  <2> HIDE DEF back
  <2>5. Following(s)'
    BY <1>f, <2>1, <2>3, <2>4 DEF Following
  <2>6. \A t \in Stores \ {s} : Following(t)'
    BY <1>f, <2>1, <2>2, FollowingKept
  <2>7. Chained'
    BY <2>1 DEF Sequel, Chained
  <2>8. QED
    BY <2>5, <2>6, <2>7 DEF Sequel
<1>4. ASSUME NEW s \in Stores, AppendBegins(s) PROVE Sequel'
  <2> DEFINE b == ~explicit[s] /\ leaf[s] = diskLeaf[s]
             back == appending[s].back
  <2>1. /\ appending' = [appending EXCEPT ![s] = Syncing(leaf[s], b, back)]
        /\ appending[s].step \in {"idle", "selected"}
        /\ UNCHANGED <<file, par, mem, leaf, diskLeaf, explicit>>
    BY <1>4, ShapeTypes DEF AppendBegins, store
  <2>2. appending'[s] = Syncing(leaf[s], b, back) /\ \A t \in Stores \ {s} : appending'[t] = appending[t]
    BY <2>1, ShapeTypes
  <2>3. b
    BY <1>f DEF Following
  <2>a. back # <<>> => back[2] = FALSE /\ back[1] = LastOf(mem[s], 0)
    <3>1. ~appending[s].news
      BY <2>1, NoNews
    <3>2. QED
      BY <1>f, <3>1 DEF Following
  <2>9. appending'[s].step = "syncing" /\ appending'[s].back = back /\ appending'[s].follows = b
    BY <2>2 DEF Syncing
  <2>4. appending'[s].step = "syncing" /\ appending'[s].back = back /\ appending'[s].follows
    BY <2>3, <2>9
  <2> HIDE DEF b, back
  <2>5. Following(s)'
    BY <1>f, <2>1, <2>4, <2>a DEF Following
  <2>6. \A t \in Stores \ {s} : Following(t)'
    BY <1>f, <2>1, <2>2, FollowingKept
  <2>7. Chained'
    BY <2>1 DEF Sequel, Chained
  <2>8. QED
    BY <2>5, <2>6, <2>7 DEF Sequel
<1>5. ASSUME NEW s \in Stores, AppendSyncs(s) PROVE Sequel'
  <2> DEFINE P == ParentOf(appending[s], leaf'[s])
  <2>1. appending[s].step = "syncing" /\ \A t \in Stores \ {s} : appending[t].step \in {"idle", "selected"}
    BY <1>5, Alone DEF AppendSyncs
  <2>2. Nobody /\ Sync(s)
    BY <1>5, <2>1 DEF Nobody, AppendSyncs
  <2>3. Fresh(s) /\ Caught(s)
    BY <2>2, SyncFresh, SyncReads
  <2>4. /\ par' = Append(par, P)
        /\ appending' = [appending EXCEPT ![s] = Writing(appending[s], Len(par'), 0, Changed(s))]
    BY <1>5, ShapeTypes DEF AppendSyncs
  <2>5. /\ appending'[s] = Writing(appending[s], Len(par'), 0, Changed(s))
        /\ \A t \in Stores \ {s} : appending'[t] = appending[t]
    BY <2>4, ShapeTypes
  <2>6. /\ appending'[s].step = "writing" /\ appending'[s].id = Len(par')
        /\ appending'[s].back = appending[s].back /\ appending'[s].news = Changed(s)
    BY <2>5 DEF Writing
  <2>7. /\ leaf'[s] = LastOf(mem'[s], 0) /\ diskLeaf'[s] = LastOf(mem'[s], 0) /\ ~explicit'[s]
        /\ appending[s].follows
    BY <1>f, <2>1, <2>3 DEF Following, Caught
  <2>a. appending[s].back # <<>> =>
            /\ appending[s].back[2] = FALSE
            /\ ~Changed(s) => appending[s].back[1] = LastOf(mem'[s], 0)
    <3>1. ~appending[s].news
      BY <2>1, NoNews
    <3>2. ~Changed(s) => mem'[s] = mem[s]
      BY <2>2, NothingNew
    <3>3. QED
      BY <1>f, <3>1, <3>2 DEF Following
  <2>8. P = LastOf(mem'[s], 0)
    BY <2>7 DEF ParentOf
  <2> HIDE DEF P
  <2>9. par'[Len(par')] = P /\ \A i \in DOMAIN par : par'[i] = par[i]
    <3>1. par \in Seq(0..MaxEntries) /\ Len(par) \in Nat
      BY ShapeTypes
    <3>2. QED
      BY <2>4, <3>1
  <2>10. Following(s)'
    BY <2>6, <2>7, <2>8, <2>9, <2>a DEF Following
  <2>11. ASSUME NEW t \in Stores \ {s} PROVE Following(t)'
    <3>1. mem'[t] = mem[t] /\ leaf'[t] = leaf[t] /\ diskLeaf'[t] = diskLeaf[t] /\ explicit'[t] = explicit[t]
      BY <2>3 DEF Fresh
    <3>2. QED
      BY <1>f, <2>1, <2>5, <3>1, FollowingKept
  <2>12. Chained'
    BY <2>3, <2>5, <2>9, CaughtChained
  <2>13. QED
    BY <2>10, <2>11, <2>12 DEF Sequel
<1>6. ASSUME NEW s \in Stores, AppendWrites(s) PROVE Sequel'
  <2> DEFINE m == Len(mem[s])
             v == appending[s].written
             n == Len(par)
  <2>1. /\ appending[s].step = "writing" /\ v \in 0..2 /\ appending[s].id = n
        /\ Len(file') = Len(file) + 1
        /\ \A i \in 1..Len(file) : file'[i] = file[i]
        /\ file'[Len(file) + 1] = <<n, v + 1>>
        /\ appending'[s].step = "writing" /\ appending'[s].id = n
        /\ appending'[s].back = appending[s].back /\ appending'[s].news = appending[s].news
        /\ \A t \in Stores \ {s} : appending'[t] = appending[t]
        /\ UNCHANGED <<par, mem, leaf, diskLeaf, explicit>>
    BY <1>6, ChunkWritten
  <2>2. m \in Nat /\ Len(file) = 3 * m + v
    BY <2>1, RecordPlace
  <2>3. Following(s)'
    BY <1>f, <2>1 DEF Following
  <2>4. \A t \in Stores \ {s} : Following(t)'
    BY <1>f, <2>1, FollowingKept
  <2>5. mem[s] \in Seq(Ids) /\ \A k \in 1..m : mem[s][k] = Id(file, k)
    <3>1. mem[s] \in Seq(Ids)
      BY ShapeTypes
    <3>2. QED
      BY <3>1 DEF Readable, Held
  <2>6. par[n] = IF m = 0 THEN 0 ELSE Id(file, m)
    <3>1. par[n] = LastOf(mem[s], 0)
      BY <1>f, <2>1 DEF Following
    <3>2. CASE m = 0
      <4>1. mem[s] = <<>>
        BY <2>5, <3>2
      <4>2. QED
        BY <3>1, <3>2, <4>1 DEF LastOf
    <3>3. CASE m # 0
      <4>1. mem[s] # <<>> /\ m \in 1..m
        BY <2>2, <2>5, <3>3
      <4>2. QED
        BY <2>5, <3>1, <3>3, <4>1 DEF LastOf, Last
    <3>4. QED
      BY <3>2, <3>3
  <2>l. /\ v \in 0..2 /\ Len(file') = Len(file) + 1
        /\ \A i \in 1..Len(file) : file'[i] = file[i]
        /\ file'[Len(file) + 1] = <<n, v + 1>> /\ par' = par
    BY <2>1
  <2> HIDE DEF m, v, n
  <2>7. \A k \in Nat \ {0} : 3 * k - 2 <= Len(file) => Id(file', k) = Id(file, k)
    <3>1. \A k \in Nat \ {0} : 3 * k - 2 <= Len(file) => 3 * k - 2 \in 1..Len(file)
      BY <2>2, <2>l
    <3>2. QED
      BY <2>l, <3>1 DEF Id
  <2>8. Chained'
    <3>1. SUFFICES ASSUME NEW k \in Nat \ {0}, 3 * k - 2 <= Len(file')
                   PROVE  par[Id(file', k)] = IF k = 1 THEN 0 ELSE Id(file', k - 1)
      BY <2>l DEF Chained
    <3>2. k # 1 => k - 1 \in Nat \ {0} /\ 3 * (k - 1) - 2 <= Len(file)
      <4>1. Len(file') = Len(file) + 1 /\ v \in 0..2
        BY <2>l
      <4>2. QED
        BY <2>2, <3>1, <4>1
    <3>3. k # 1 => Id(file', k - 1) = Id(file, k - 1)
      BY <2>7, <3>2
    <3>4. CASE 3 * k - 2 <= Len(file)
      <4>1. par[Id(file, k)] = IF k = 1 THEN 0 ELSE Id(file, k - 1)
        BY <3>4 DEF Sequel, Chained
      <4>2. QED
        BY <2>7, <3>3, <3>4, <4>1
    <3>5. CASE ~(3 * k - 2 <= Len(file))
      <4>1. k = m + 1 /\ v = 0 /\ 3 * k - 2 = Len(file) + 1
        <5>1. Len(file') = Len(file) + 1 /\ v \in 0..2
          BY <2>l
        <5>2. QED
          BY <2>2, <3>1, <3>5, <5>1
      <4>2. Id(file', k) = n
        BY <2>l, <4>1 DEF Id
      <4>3. k = 1 <=> m = 0
        BY <2>2, <4>1
      <4>4. k - 1 = m
        BY <2>2, <4>1
      <4>5. QED
        BY <2>6, <3>3, <4>2, <4>3, <4>4
    <3>6. QED
      BY <3>4, <3>5
  <2>9. QED
    BY <2>3, <2>4, <2>8 DEF Sequel
<1>7. ASSUME NEW s \in Stores, AppendReturns(s) PROVE Sequel'
  <2> DEFINE e == appending[s].id
  <2>1. /\ mem' = [mem EXCEPT ![s] = Append(mem[s], e)]
        /\ leaf' = [leaf EXCEPT ![s] = e]
        /\ diskLeaf' = [diskLeaf EXCEPT ![s] = e]
        /\ explicit' = [explicit EXCEPT ![s] = FALSE]
        /\ appending' = [appending EXCEPT ![s] = NoAppend]
        /\ UNCHANGED <<file, par>>
    BY <1>7, ShapeTypes DEF AppendReturns
  <2>2. /\ mem'[s] = Append(mem[s], e) /\ leaf'[s] = e /\ diskLeaf'[s] = e /\ ~explicit'[s]
        /\ appending'[s] = NoAppend
        /\ \A t \in Stores \ {s} : /\ mem'[t] = mem[t] /\ leaf'[t] = leaf[t] /\ diskLeaf'[t] = diskLeaf[t]
                                   /\ explicit'[t] = explicit[t] /\ appending'[t] = appending[t]
    BY <2>1, ShapeTypes
  <2>3. LastOf(mem'[s], 0) = e
    <3>1. mem[s] \in Seq(Ids)
      BY ShapeTypes
    <3> HIDE DEF e
    <3>2. mem'[s] # <<>> /\ mem'[s][Len(mem'[s])] = e
      BY <2>2, <3>1
    <3>3. QED
      BY <3>2 DEF LastOf, Last
  <2>4. Following(s)'
    BY <2>2, <2>3 DEF Following, NoAppend
  <2>5. \A t \in Stores \ {s} : Following(t)'
    BY <1>f, <2>1, <2>2, FollowingKept
  <2>6. Chained'
    BY <2>1 DEF Sequel, Chained
  <2>7. QED
    BY <2>4, <2>5, <2>6 DEF Sequel
<1>8. ASSUME NEW s \in Stores, AppendFails(s) PROVE Sequel'
  <2> DEFINE back == appending[s].back
             at == IF back = <<>> THEN leaf[s] ELSE back[1]
             own == IF back = <<>> THEN explicit[s] ELSE back[2]
  <2>1. Raise(s, mem[s], leaf[s], appending[s].news)
    BY <1>8 DEF AppendFails
  <2>2. back = <<>> \/ ~appending[s].news
    BY <2>1 DEF Raise
  <2>3. at = LastOf(mem[s], 0) /\ ~own
    BY <1>f, <2>2 DEF Following
  <2>4. /\ mem' = [mem EXCEPT ![s] = mem[s]]
        /\ leaf' = [leaf EXCEPT ![s] = at]
        /\ explicit' = [explicit EXCEPT ![s] = own]
        /\ appending' = [appending EXCEPT ![s] = NoAppend]
        /\ UNCHANGED <<file, par, diskLeaf>>
    BY <2>1, ShapeTypes DEF Raise
  <2> HIDE DEF at, own
  <2>5. /\ mem' = mem /\ leaf'[s] = at /\ ~explicit'[s] /\ appending'[s] = NoAppend
        /\ \A t \in Stores \ {s} : /\ appending'[t] = appending[t] /\ leaf'[t] = leaf[t]
                                   /\ explicit'[t] = explicit[t]
    BY <2>3, <2>4, ShapeTypes
  <2>6. Following(s)'
    BY <1>f, <2>3, <2>4, <2>5 DEF Following, NoAppend
  <2>7. \A t \in Stores \ {s} : Following(t)'
    BY <1>f, <2>4, <2>5, FollowingKept
  <2>8. Chained'
    BY <2>4 DEF Sequel, Chained
  <2>9. QED
    BY <2>6, <2>7, <2>8 DEF Sequel
<1>9. ASSUME NEW s \in Stores, AppendRefused(s) PROVE Sequel'
  <2>1. appending[s].step = "syncing" /\ SyncRaises(s)
    BY <1>9 DEF AppendRefused
  <2>2. Nobody
    <3>1. \A t \in Stores \ {s} : appending[t].step \in {"idle", "selected"}
      BY <2>1, Alone
    <3>2. QED
      BY <2>1, <3>1 DEF Nobody
  <2>3. QED
    BY <2>1, <2>2, NeverRefused
<1>10. ASSUME NEW s \in Stores, Dies(s) PROVE Sequel'
  <2>1. /\ mem' = [mem EXCEPT ![s] = <<>>]
        /\ leaf' = [leaf EXCEPT ![s] = 0]
        /\ diskLeaf' = [diskLeaf EXCEPT ![s] = 0]
        /\ explicit' = [explicit EXCEPT ![s] = FALSE]
        /\ appending' = [appending EXCEPT ![s] = NoAppend]
        /\ UNCHANGED <<file, par>>
    BY <1>10 DEF Dies
  <2>2. /\ mem'[s] = <<>> /\ leaf'[s] = 0 /\ diskLeaf'[s] = 0 /\ ~explicit'[s]
        /\ appending'[s] = NoAppend
        /\ \A t \in Stores \ {s} : /\ mem'[t] = mem[t] /\ leaf'[t] = leaf[t] /\ diskLeaf'[t] = diskLeaf[t]
                                   /\ explicit'[t] = explicit[t] /\ appending'[t] = appending[t]
    BY <2>1, ShapeTypes
  <2>3. Following(s)'
    BY <2>2 DEF Following, NoAppend, LastOf
  <2>4. \A t \in Stores \ {s} : Following(t)'
    BY <1>f, <2>1, <2>2, FollowingKept
  <2>5. Chained'
    BY <2>1 DEF Sequel, Chained
  <2>6. QED
    BY <2>3, <2>4, <2>5 DEF Sequel
<1>11. ASSUME NEW s \in Stores, RecoveryFails(s) PROVE Sequel'
  BY <1>11 DEF RecoveryFails, Raise
<1>12. QED
  BY <1>1, <1>2, <1>3, <1>4, <1>5, <1>6, <1>7, <1>8, <1>9, <1>10, <1>11 DEF StoreNext

\* The faults of a behaviour and the selections made in it are not taken back.
LEMMA OnlyOnce ==
  ASSUME Shape, [StoreNext]_storeVars
  PROVE  (unended => unended') /\ (branched => branched') /\ (stranded => stranded')
<1>1. CASE UNCHANGED storeVars
  BY <1>1 DEF storeVars, history
<1>2. CASE StoreNext
  <2>1. PICK s \in Stores :
          \/ Open(s) \/ AppendBegins(s) \/ AppendSyncs(s) \/ AppendWrites(s) \/ AppendReturns(s)
          \/ AppendRefused(s) \/ RecoveryFails(s) \/ AppendFails(s) \/ Dies(s)
          \/ \E e \in 0..MaxEntries : Branch(s, e)
          \/ \E e \in 0..MaxEntries : CompactionBegins(s, e)
    BY <1>2 DEF StoreNext
  <2>2. CASE Open(s)
    BY <2>2 DEF Open, history
  <2>3. CASE AppendBegins(s)
    BY <2>3 DEF AppendBegins, history
  <2>4. CASE AppendSyncs(s)
    BY <2>4 DEF AppendSyncs, history
  <2>5. CASE AppendWrites(s)
    BY <2>5 DEF AppendWrites, history
  <2>6. CASE AppendReturns(s)
    BY <2>6 DEF AppendReturns
  <2>a. ASSUME NEW m, NEW l, NEW b, Raise(s, m, l, b), unended' = unended
        PROVE  (unended => unended') /\ (branched => branched') /\ (stranded => stranded')
    BY <2>a DEF Raise
  <2>7. CASE AppendRefused(s) \/ RecoveryFails(s)
    <3>1. unended' = unended /\ \E m, l : Raise(s, m, l, TRUE)
      BY <2>7 DEF AppendRefused, RecoveryFails
    <3>2. QED
      BY <2>a, <3>1
  <2>8. CASE AppendFails(s)
    BY <2>8 DEF AppendFails, Raise
  <2>9. CASE Dies(s)
    BY <2>9 DEF Dies
  <2>10. CASE \E e \in 0..MaxEntries : Branch(s, e)
    BY <2>10 DEF Branch
  <2>11. CASE \E e \in 0..MaxEntries : CompactionBegins(s, e)
    BY <2>11 DEF CompactionBegins
  <2>12. QED
    BY <2>1, <2>2, <2>3, <2>4, <2>5, <2>6, <2>7, <2>8, <2>9, <2>10, <2>11
<1>3. QED
  BY <1>1, <1>2

-----------------------------------------------------------------------------
(* What follows from the invariant of the session file.                    *)

\* The invariant of the session file holds in every state of every behaviour, for
\* any number of instances, records and faults and any places where a write may be
\* cut (_append_entry, _sync_from_disk, _load, _recover_truncated_tail).
THEOREM StoreInvariance ==
  StoreSpec => []StoreInv
<1>1. StoreInit => StoreInv
  <2> SUFFICES ASSUME StoreInit PROVE StoreInv
    OBVIOUS
  <2>1. Wishes
    BY DEF StoreInit, Wishes, Chosen, NoAppend
  <2>2. Sequel
    <3>1. Len(file) = 0
      BY DEF StoreInit
    <3>2. \A k \in Nat \ {0} : ~(3 * k - 2 <= 0)
      OBVIOUS
    <3>3. Chained
      BY <3>1, <3>2 DEF Chained
    <3>4. \A s \in Stores : Following(s)
      BY DEF StoreInit, Following, NoAppend, LastOf
    <3>5. QED
      BY <3>3, <3>4 DEF Sequel
  <2>3. QED
    BY <2>1, <2>2, ShapeInit, ReadableInit DEF StoreInv
<1>2. StoreInv /\ [StoreNext]_storeVars => StoreInv'
  <2> SUFFICES ASSUME StoreInv, [StoreNext]_storeVars PROVE StoreInv'
    OBVIOUS
  <2>1. Shape /\ Wishes /\ (~unended => Readable)
    BY DEF StoreInv
  <2>2. Shape' /\ Wishes' /\ (~unended' => Readable')
    BY <2>1, ShapeStep, WishesStep, ReadableStep
  <2>3. ASSUME ~unended', ~branched', ~stranded' PROVE Sequel'
    <3>1. ~unended /\ ~branched /\ ~stranded
      BY <2>1, <2>3, OnlyOnce
    <3>2. Readable /\ Sequel
      BY <3>1 DEF StoreInv
    <3>3. CASE StoreNext
      BY <2>1, <2>3, <3>2, <3>3, SequelStep
    <3>4. CASE UNCHANGED storeVars
      <4>1. UNCHANGED <<file, par, mem, leaf, diskLeaf, explicit, appending>>
        BY <3>4 DEF storeVars, store
      <4>2. Chained'
        BY <3>2, <4>1 DEF Sequel, Chained
      <4>3. \A t \in Stores : Following(t)'
        BY <3>2, <4>1, FollowingKept DEF Sequel
      <4>4. QED
        BY <4>2, <4>3 DEF Sequel
    <3>5. QED
      BY <3>3, <3>4
  <2>4. QED
    BY <2>2, <2>3 DEF StoreInv
<1>3. QED
  BY <1>1, <1>2, PTL DEF StoreSpec

\* How many entries a reader of a readable file finds.
LEMMA AllRead ==
  ASSUME Shape, Readable
  PROVE  /\ Entries(file) \in Seq(Ids)
         /\ \A k \in DOMAIN Entries(file) :
                k \in Nat \ {0} /\ 3 * k - 2 <= Len(file) /\ Entries(file)[k] = Id(file, k)
         /\ \A k \in Nat \ {0} : 3 * k <= Len(file) => k \in DOMAIN Entries(file)
<1>1. file \in Seq(Chunks) /\ Len(file) \in Nat /\ Laid(file)
  BY ShapeTypes DEF Readable
<1>2. /\ GoodEnd(file) \in 0..Len(file) /\ Entries(file) \in Seq(Ids)
      /\ \A k \in DOMAIN Entries(file) : /\ k \in Nat \ {0} /\ 3 * k - 2 <= GoodEnd(file)
                                         /\ Entries(file)[k] = Id(file, k)
      /\ \A k \in Nat \ {0} : 3 * k - 2 <= GoodEnd(file) => k \in DOMAIN Entries(file)
  BY <1>1, ReadFacts
<1>3. PICK j \in Nat : Len(file) \in (3 * j)..(3 * j + 2)
  <2>1. PICK j \in Nat : Len(file) = 3 * j \/ Len(file) = 3 * j + 1 \/ Len(file) = 3 * j + 2
    BY <1>1, Thirds
  <2>2. Len(file) \in (3 * j)..(3 * j + 2)
    BY <1>1, <2>1
  <2>3. QED
    BY <2>2
<1>4. GoodEnd(file) = IF Len(file) = 3 * j + 1 THEN 3 * j ELSE Len(file)
  BY <1>1, <1>3, LaidReads
<1>5. \A k \in Nat \ {0} : 3 * k <= Len(file) => 3 * k - 2 <= GoodEnd(file)
  BY <1>1, <1>3, <1>4
<1>6. \A k \in Nat : 3 * k - 2 <= GoodEnd(file) => 3 * k - 2 <= Len(file)
  BY <1>1, <1>2
<1>7. QED
  BY <1>2, <1>5, <1>6

\* Whatever the instances append, fail to append, recover or leave behind when they
\* die: the variables have their types, an open instance holds a prefix of what the
\* file holds (_sync_from_disk never skips, repeats or reorders an entry) and a
\* parent is in the file before its children (_append_entry chooses it after the
\* file was read).
THEOREM FileSoundCorrect ==
  StoreSpec => []FileSound
<1>1. StoreInv => FileSound
  <2> SUFFICES ASSUME StoreInv PROVE FileSound
    OBVIOUS
  <2>1. Shape /\ StoreTypeOK
    BY DEF StoreInv, Shape
  <2>2. ViewIsPrefix
    <3>1. SUFFICES ASSUME ~unended, NEW s \in Stores, up[s] PROVE IsPrefix(mem[s], Entries(file))
      BY DEF ViewIsPrefix
    <3>2. Readable
      BY <3>1 DEF StoreInv
    <3> DEFINE es == Entries(file)
               m == Len(mem[s])
    <3>3. /\ mem[s] \in Seq(Ids) /\ m \in Nat /\ Len(file) \in Nat
      BY <2>1, ShapeTypes
    <3>4. 3 * m <= Len(file) /\ \A k \in 1..m : mem[s][k] = Id(file, k)
      BY <3>2, <3>3 DEF Readable, Held
    <3>5. /\ es \in Seq(Ids) /\ \A k \in DOMAIN es : es[k] = Id(file, k)
          /\ \A k \in Nat \ {0} : 3 * k <= Len(file) => k \in DOMAIN es
      BY <2>1, <3>2, AllRead
    <3>d. m = Len(mem[s])
      OBVIOUS
    <3> HIDE DEF es, m
    <3>6. \A k \in 1..m : k \in Nat \ {0} /\ 3 * k <= Len(file)
      BY <3>3, <3>4
    <3>7. \A k \in 1..m : k \in DOMAIN es /\ es[k] = mem[s][k]
      BY <3>4, <3>5, <3>6
    <3>8. m <= Len(es)
      <4>1. CASE m = 0
        BY <3>5, <4>1
      <4>2. CASE m # 0
        <5>1. m \in DOMAIN es
          BY <3>3, <3>7, <4>2
        <5>2. QED
          BY <3>5, <5>1
      <4>3. QED
        BY <4>1, <4>2
    <3>9. SubSeq(mem[s], 1, m) = SubSeq(es, 1, m)
      BY <3>3, <3>5, <3>7, <3>8, <3>d
    <3>10. QED
      BY <3>8, <3>9, <3>d DEF IsPrefix, es
  <2>3. ParentBefore
    <3> DEFINE es == Entries(file)
    <3>1. SUFFICES ASSUME ~unended, NEW k \in DOMAIN es
                   PROVE  par[es[k]] \in {0} \union Range(SubSeq(es, 1, k - 1))
      BY DEF ParentBefore
    <3>2. Readable
      BY <3>1 DEF StoreInv
    <3>3. /\ es \in Seq(Ids)
          /\ \A j \in DOMAIN es : j \in Nat \ {0} /\ 3 * j - 2 <= Len(file) /\ es[j] = Id(file, j)
      BY <2>1, <3>2, AllRead
    <3> HIDE DEF es
    <3>4. par[es[k]] = 0 \/ \E j \in 1..(k - 1) : par[es[k]] = Id(file, j)
      BY <3>2, <3>3 DEF Readable, Rooted
    <3>5. ASSUME NEW j \in 1..(k - 1) PROVE Id(file, j) \in Range(SubSeq(es, 1, k - 1))
      <4>1. k \in 1..Len(es) /\ j \in DOMAIN es
        <5>1. Len(es) \in Nat /\ DOMAIN es = 1..Len(es)
          BY <3>3
        <5>2. QED
          BY <5>1
      <4>2. j \in DOMAIN SubSeq(es, 1, k - 1) /\ SubSeq(es, 1, k - 1)[j] = es[j]
        BY <3>3, <4>1
      <4>3. es[j] = Id(file, j)
        BY <3>3, <4>1
      <4>4. QED
        BY <4>2, <4>3 DEF Range
    <3>6. QED
      BY <3>4, <3>5
  <2>4. QED
    BY <2>1, <2>2, <2>3 DEF FileSound
<1>2. QED
  BY <1>1, StoreInvariance, PTL

\* An entry whose _append_entry returned is read back by whoever opens the session,
\* for ever, unless some write was cut just before a newline.
THEOREM AcknowledgedKeptCorrect ==
  StoreSpec => []AcknowledgedKept
<1>1. StoreInv => AcknowledgedKept
  <2> SUFFICES ASSUME StoreInv, ~unended, NEW e \in ack PROVE e \in Range(Entries(file))
    BY DEF AcknowledgedKept, NothingLost
  <2>1. Shape /\ Readable
    BY DEF StoreInv
  <2>2. PICK k \in Nat \ {0} : 3 * k <= Len(file) /\ Id(file, k) = e
    BY <2>1 DEF Readable, Kept
  <2>3. k \in DOMAIN Entries(file) /\ Entries(file)[k] = e
    BY <2>1, <2>2, AllRead
  <2>4. QED
    BY <2>3 DEF Range
<1>2. QED
  BY <1>1, StoreInvariance, PTL

\* Instances that share a session without selecting a parent extend one conversation, over
\* failed appends, crashes and recoveries of the tail, unless a compaction (append_compaction)
\* or the reading of the file (_load) has failed after it had found the file changed.
THEOREM OneConversationCorrect ==
  StoreSpec => []OneConversation
<1>1. StoreInv => OneConversation
  <2> DEFINE es == Entries(file)
  <2> SUFFICES ASSUME StoreInv, ~unended, ~branched, ~stranded, NEW k \in DOMAIN es
               PROVE  par[es[k]] = IF k = 1 THEN 0 ELSE es[k - 1]
    BY DEF OneConversation
  <2>1. Shape /\ Readable /\ Sequel
    BY DEF StoreInv
  <2>2. /\ es \in Seq(Ids)
        /\ \A j \in DOMAIN es : j \in Nat \ {0} /\ 3 * j - 2 <= Len(file) /\ es[j] = Id(file, j)
    BY <2>1, AllRead
  <2> HIDE DEF es
  <2>3. par[es[k]] = IF k = 1 THEN 0 ELSE Id(file, k - 1)
    BY <2>1, <2>2 DEF Sequel, Chained
  <2>4. k # 1 => k - 1 \in DOMAIN es
    BY <2>2
  <2>5. QED
    BY <2>2, <2>3, <2>4
<1>2. QED
  BY <1>1, StoreInvariance, PTL

\* The entry appended after branch(), reset_leaf() or with a compaction's parent_id is a
\* child of the entry that was selected, whatever was read in between, and however many
\* appends failed in between, as long as none of those found the file changed (Lost).
THEOREM SelectionHonouredCorrect ==
  StoreSpec => SelectionHonoured
<1> DEFINE Honours == \A e \in ack' \ ack : chosen[lock] \notin {NoChoice, Lost} => par[e] = chosen[lock]
<1>1. StoreInv /\ [StoreNext]_storeVars => [Honours]_storeVars
  <2> SUFFICES ASSUME StoreInv, StoreNext PROVE Honours
    OBVIOUS
  <2>1. Shape /\ Wishes
    BY DEF StoreInv
  <2>2. CASE ack' = ack
    BY <2>2
  <2>3. ASSUME NEW s \in Stores, AppendReturns(s) PROVE Honours
    <3>1. appending[s].step = "writing" /\ ack' = ack \union {appending[s].id}
      BY <2>3 DEF AppendReturns
    <3>2. lock = s
      BY <2>1, <3>1, Alone
    <3>3. QED
      BY <2>1, <3>1, <3>2 DEF Wishes, Chosen
  <2>4. ack' = ack \/ \E s \in Stores : AppendReturns(s)
    <3>1. PICK s \in Stores :
            \/ Open(s) \/ AppendBegins(s) \/ AppendSyncs(s) \/ AppendWrites(s) \/ AppendReturns(s)
            \/ AppendRefused(s) \/ RecoveryFails(s) \/ AppendFails(s) \/ Dies(s)
            \/ \E e \in 0..MaxEntries : Branch(s, e)
            \/ \E e \in 0..MaxEntries : CompactionBegins(s, e)
      BY DEF StoreNext
    <3>2. CASE Open(s) \/ AppendBegins(s) \/ AppendSyncs(s) \/ AppendWrites(s)
      BY <3>2 DEF Open, AppendBegins, AppendSyncs, AppendWrites, history
    <3>3. CASE AppendRefused(s) \/ RecoveryFails(s) \/ AppendFails(s)
      BY <3>3 DEF AppendRefused, RecoveryFails, AppendFails, Raise
    <3>4. CASE Dies(s)
      BY <3>4 DEF Dies
    <3>5. CASE \E e \in 0..MaxEntries : Branch(s, e)
      BY <3>5 DEF Branch
    <3>6. CASE \E e \in 0..MaxEntries : CompactionBegins(s, e)
      BY <3>6 DEF CompactionBegins
    <3>7. QED
      BY <3>1, <3>2, <3>3, <3>4, <3>5, <3>6
  <2>5. QED
    BY <2>2, <2>3, <2>4
<1>2. QED
  BY <1>1, StoreInvariance, PTL DEF StoreSpec, SelectionHonoured
=============================================================================

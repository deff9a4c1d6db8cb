
------------------------ MODULE OrchestrationProofs ------------------------
(***************************************************************************)
(* Proofs about Orchestration, for any tasks, workers, commands and        *)
(* limits.  A command is a process that reads the store, asks a relay and  *)
(* writes the store again, so what is true of a row depends on which       *)
(* commands are under way; most of the inductive invariant says what a     *)
(* command that has got to a step may still rely on.                       *)
(***************************************************************************)
EXTENDS Orchestration, FiniteSetTheorems, TLAPS

OnWorker == {"launch", "health", "retain", "look", "close", "stop", "lose", "suspect"}
OnDispatch == {"configure", "prompt", "accept", "doubt", "reply", "resume", "cancel"}

\* What a command is at work on is there.
Targets ==
    \A c \in Commands :
        /\ command[c].at \in {"none", "deliver"} \cup OnWorker \cup OnDispatch
        /\ command[c].at \in OnWorker => On(c) \in Workers
        /\ command[c].at \in OnDispatch => On(c) \in Dispatches /\ Exists(On(c))
        /\ At(c, "deliver") => \E d \in Dispatches, k \in Kinds :
              On(c) = <<d, k>> /\ message[d][k] # "none"

\* Dispatches are numbered in turn; a task has one that is not settled at most, and so has a
\* worker that was never given two.
Rows ==
    /\ \A d \in Dispatches :
          /\ Exists(d) => TaskOf(d) \in Tasks /\ WorkerOf(d) \in Workers
          /\ ~Exists(d) => /\ prompted[d] = 0 /\ ~dispatch[d].settled
                           /\ \A k \in Kinds : message[d][k] = "none"
          /\ Exists(d) => \A e \in 1..d : Exists(e)
          /\ dispatch[d].status = "abandoned" =>
                ~dispatch[d].settled /\ task[TaskOf(d)].status = "abandoned"
    /\ \A d, e \in Dispatches : Exists(d) /\ Exists(e) /\ ~dispatch[d].settled
           /\ ~dispatch[e].settled =>
          /\ TaskOf(d) = TaskOf(e) => d = e
          /\ WorkerOf(d) = WorkerOf(e) /\ WorkerOf(d) \notin shared => d = e

\* What is recorded of a worker, and its session.
Sessions ==
    /\ \A w \in Workers :
          /\ ~HasSession(w) => turn[w] = 0 /\ capability[w] = 0
          /\ turn[w] # 0 => Exists(turn[w]) /\ WorkerOf(turn[w]) = w
          /\ worker[w].status = "none" => relay[w] = "none"
          /\ relay[w] = "none" =>
                worker[w].status \in {"none", "starting", "lost", "stopped", "outcome_unknown"}
          /\ worker[w].status = "stopped" /\ w \notin misjudged => ~HasSession(w)
          /\ worker[w].status = "lost" /\ w \notin misjudged => relay[w] = "gone"
    /\ \A d \in Dispatches : Exists(d) => relay[WorkerOf(d)] # "none"

\* What a command on a worker relies on between two of its steps.
Errands ==
    /\ \A c \in Commands :
          /\ command[c].at \in OnWorker => worker[On(c)].status # "none"
          /\ At(c, "launch") => relay[On(c)] = "none"
                 /\ worker[On(c)].status \in {"starting", "lost"}
          /\ command[c].at \in {"health", "retain", "look", "close", "stop", "suspect"}
                 => relay[On(c)] # "none"
          /\ At(c, "stop") => relay[On(c)] = "gone" \/ On(c) \in misjudged
          /\ At(c, "cancel") =>
                relay[WorkerOf(On(c))] = "gone" \/ WorkerOf(On(c)) \in misjudged
    /\ \A b, c \in Commands : At(b, "launch") /\ At(c, "launch") /\ On(b) = On(c) => b = c

\* The worker that a command waits for is in no other use.
Starting ==
    \A c \in Commands : At(c, "health") =>
        /\ worker[On(c)].status \in {"starting", "lost", "outcome_unknown"}
        /\ \A d \in Dispatches : Exists(d) => WorkerOf(d) # On(c)
        /\ \A b \in Commands :
              command[b].at \in {"health", "look", "close", "stop", "retain"} /\ On(b) = On(c) => b = c

\* The workers that have a session or are about to, and the ones of them that the store knows of.
Engaged == {w \in Workers : HasSession(w) \/ \E c \in Commands : At(c, "launch") /\ On(c) = w}
Seen == Engaged \ misjudged
Limit == Cardinality(Seen) <= MaxWorkers

\* B gets the prompt of a dispatch once, and a reply once.
Prompting ==
    /\ \A d \in Dispatches :
          /\ prompted[d] <= IF message[d]["question"] = "acknowledged" THEN 2 ELSE 1
          /\ dispatch[d].status = "awaiting_coordinator" =>
                message[d]["question"] # "none" /\ prompted[d] <= 1
    /\ \A c \in Commands :
          /\ command[c].at \in {"configure", "prompt"} =>
                /\ prompted[On(c)] = 0 /\ turn[WorkerOf(On(c))] # On(c)
                /\ \A k \in Kinds : message[On(c)][k] = "none"
                /\ dispatch[On(c)].settled =>
                      relay[WorkerOf(On(c))] = "gone" \/ WorkerOf(On(c)) \in misjudged
          /\ At(c, "resume") => /\ message[On(c)]["question"] = "acknowledged"
                 /\ prompted[On(c)] <= 1
                                /\ dispatch[On(c)].status # "awaiting_coordinator"
          /\ At(c, "resume") /\ "reply" \notin raced =>
                /\ turn[WorkerOf(On(c))] # On(c)
                /\ dispatch[On(c)].settled =>
                      relay[WorkerOf(On(c))] = "gone" \/ WorkerOf(On(c)) \in misjudged
    /\ \A b, c \in Commands :
          /\ command[b].at \in {"configure", "prompt"}
                 /\ command[c].at \in {"configure", "prompt"}
                /\ On(b) = On(c) => b = c
          /\ At(b, "resume") /\ At(c, "resume") /\ On(b) = On(c) => b = c

\* The child of a worker that has one dispatch at a time has the capability of it.
Authority ==
    "reply" \in raced \/ \A w \in Workers \ shared : relay[w] = "up" =>
        /\ turn[w] # 0 => capability[w] = turn[w]
        /\ \A d \in OfWorker(w) :
              ~dispatch[d].settled /\ message[d]["question"] # "none" => capability[w] = d
        /\ \A c \in Commands : At(c, "prompt") /\ WorkerOf(On(c)) = w => capability[w] = On(c)

\* A command that is still to prompt B for a dispatch that was cancelled, whose session was not
\* seen: its worker has no other dispatch at work, and gets none.
Prompter(c) == command[c].at \in {"configure", "prompt", "resume"}
Leftover(c) ==
    LET w == WorkerOf(On(c)) IN
    Prompter(c) /\ dispatch[On(c)].settled /\ relay[w] # "gone" /\ w \notin shared =>
        /\ worker[w].status \notin {"ready", "idle"}
        /\ \A d \in Dispatches : Exists(d) /\ WorkerOf(d) = w => dispatch[d].settled
        /\ At(c, "resume") /\ relay[w] = "up" => capability[w] = On(c)
        /\ \A b \in Commands : Prompter(b) /\ WorkerOf(On(b)) = w => On(b) = On(c)
Leftovers == "reply" \in raced \/ \A c \in Commands : Leftover(c)

\* The prompts that a task has counted, each with its dispatch: one for the dispatch, and one
\* for the reply that was sent or is about to be.
Owes(d, n) == n = 1 \/ prompted[d] = 2 \/ \E c \in Commands : At(c, "resume") /\ On(c) = d
Owed(t) == {x \in OfTask(t) \X {1, 2} : Owes(x[1], x[2])}
Counted == \A t \in Tasks : Cardinality(Owed(t)) <= task[t].prompts

\* The inductive invariant.
IInv ==
    /\ TypeOK
    /\ Targets
    /\ Rows
    /\ Sessions
    /\ Errands
    /\ Starting
    /\ Limit
    /\ Prompting
    /\ DeliveredWhenIdle
    /\ Authority
    /\ Leftovers
    /\ Counted

-----------------------------------------------------------------------------
(* The actions, one branch at a time: what each does, without the choices  *)
(* that lead to it.  (The bounds, and the count of faults, are left out.)  *)

Free == UNCHANGED <<task, worker, dispatch, message, relay, capability, turn, prompted, shared,
            raced, misjudged>>

\* A command that is over, having changed nothing in this step.
GivesUp(c) == Goes(c, "none", 0) /\ Free

Reserves(c, w) ==
    /\ At(c, "none") /\ worker[w].status = "none" /\ Cardinality(ActiveWorkers) < MaxWorkers
    /\ SetWorker(w, "starting") /\ Goes(c, "launch", w)
    /\ UNCHANGED <<task, dispatch, message, relay, capability, turn, prompted, shared, raced, misjudged>>

\* A command may take w for one that has no session though it has one.
Misjudges(w) == misjudged \subseteq misjudged' /\ misjudged' \subseteq misjudged \cup {w}

\* A command on a worker looks, and goes on to step "at".
Looks(c, w, at) ==
    /\ \/ At(c, "none") /\ worker[w].status \in {"ready", "idle", "retained"} /\ at = "look"
       \/ At(c, "none") /\ worker[w].status \in ActiveWorkerStatuses /\ at = "lose"
       \/ At(c, "none") /\ worker[w].status # "none" /\ HasSession(w) /\ at = "suspect"
       \/ At(c, "look") /\ On(c) = w /\ (~HasSession(w) \/ w \in misjudged') /\ at = "stop"
       \/ At(c, "look") /\ On(c) = w /\ relay[w] = "up" /\ at = "close"
    /\ Goes(c, at, w) /\ Misjudges(w)
    /\ UNCHANGED <<task, worker, dispatch, message, relay, capability, turn, prompted, shared, raced>>

Creates(c, t, w, d) ==
    /\ At(c, "none") /\ ~Exists(d) /\ (\A e \in Dispatches : e < d => Exists(e))
    /\ worker[w].status \in {"ready", "idle"} /\ task[t].prompts < MaxRounds
    /\ (\A e \in Dispatches : Exists(e) /\ TaskOf(e) = t => dispatch[e].settled)
    /\ dispatch' = [dispatch EXCEPT ![d] =
                       [task |-> t, worker |-> w, status |-> "queued", settled |-> FALSE]]
    /\ task' = [task EXCEPT ![t] = [status |-> "active", prompts |-> task[t].prompts + 1]]
    /\ shared \subseteq shared' /\ shared' \subseteq shared \cup {w}
    /\ w \notin shared' => \A e \in Dispatches : Exists(e) /\ WorkerOf(e) = w
           => dispatch[e].settled
    /\ Goes(c, "configure", d)
    /\ UNCHANGED <<worker, message, relay, capability, turn, prompted, raced, misjudged>>

\* The session of w is ended, by the command c that goes on to step "at", or by itself.
Closes(c, w, at, x) ==
    /\ HasSession(w) /\ Gone(w) /\ Goes(c, at, x)
    /\ \/ At(c, "none") /\ at = "cancel" /\ x \in Dispatches /\ Exists(x) /\ WorkerOf(x) = w
       \/ At(c, "close") /\ On(c) = w /\ at = "stop" /\ x = w
       \/ At(c, "close") /\ On(c) = w /\ at = "none" /\ x = 0
    /\ UNCHANGED <<task, worker, dispatch, message, prompted, shared, raced, misjudged>>

CancelFinds(c, d) ==
    /\ At(c, "none") /\ Exists(d) /\ (~HasSession(WorkerOf(d)) \/ WorkerOf(d) \in misjudged')
    /\ Goes(c, "cancel", d) /\ Misjudges(WorkerOf(d))
    /\ UNCHANGED <<task, worker, dispatch, message, relay, capability, turn, prompted, shared, raced>>

Asked(c, d) ==
    /\ At(c, "none") /\ dispatch[d].status = "awaiting_coordinator"
    /\ Goes(c, "reply", d) /\ Free

Checks(c, d, k) ==
    /\ At(c, "none") /\ message[d][k] = "sent" /\ Quiet(d)
    /\ Goes(c, "deliver", <<d, k>>) /\ Free

Launches(c, w) ==
    /\ At(c, "launch") /\ On(c) = w
    /\ relay' = [relay EXCEPT ![w] = "up"] /\ Goes(c, "health", w)
    /\ UNCHANGED <<task, worker, dispatch, message, capability, turn, prompted, shared, raced, misjudged>>

LaunchFails(c, w, s) ==
    /\ At(c, "launch") /\ On(c) = w /\ s \in {"stopped", "outcome_unknown"}
    /\ SetWorker(w, s) /\ Goes(c, "none", 0)
    /\ UNCHANGED <<task, dispatch, message, relay, capability, turn, prompted, shared, raced, misjudged>>

LaunchDoubted(c, w, s) ==
    /\ At(c, "launch") /\ On(c) = w /\ s \in {"stopped", "outcome_unknown"}
    /\ SetWorker(w, s) /\ relay' = [relay EXCEPT ![w] = "up"] /\ Goes(c, "none", 0)
    /\ Misjudges(w) /\ (s = "stopped" => w \in misjudged')
    /\ UNCHANGED <<task, dispatch, message, capability, turn, prompted, shared, raced>>

\* The end of worker-start, and of recover.
Judges(c, w, s) ==
    /\ \/ At(c, "health") /\ HasSession(w) /\ s \in {"ready", "outcome_unknown"}
       \/ At(c, "health") /\ (~HasSession(w) \/ w \in misjudged') /\ s = "stopped"
       \/ At(c, "suspect") /\ s = "outcome_unknown"
    /\ On(c) = w /\ SetWorker(w, s) /\ Goes(c, "none", 0) /\ Misjudges(w)
    /\ UNCHANGED <<task, dispatch, message, relay, capability, turn, prompted, shared, raced>>

Loses(c, w) ==
    /\ At(c, "lose") /\ On(c) = w /\ SetWorker(w, "lost") /\ Goes(c, "none", 0)
    /\ w \in misjudged' \/ relay[w] = "gone"
    /\ Misjudges(w)
    /\ UNCHANGED <<task, dispatch, message, relay, capability, turn, prompted, shared, raced>>

Configures(c, d, at) ==
    /\ At(c, "configure") /\ On(c) = d /\ Up(d) /\ Quiet(d) /\ at \in {"prompt", "doubt"}
    /\ capability' = [capability EXCEPT ![WorkerOf(d)] = d] /\ Goes(c, at, d)
    /\ UNCHANGED <<task, worker, dispatch, message, relay, turn, prompted, shared, raced, misjudged>>

Replaces(c, d) ==
    /\ At(c, "configure") /\ On(c) = d /\ Up(d) /\ Orphaned(WorkerOf(d)) /\ Goes(c, "doubt", d)
    /\ UNCHANGED <<task, worker, dispatch, message, turn, prompted, shared, raced, misjudged>>

\* B begins with a prompt; the command goes on, is over, or is left in doubt.
Starts(c, d, at, x) ==
    /\ At(c, "prompt") \/ At(c, "resume")
    /\ On(c) = d /\ Up(d) /\ Quiet(d) /\ Begins(d)
    /\ (at \in {"accept", "doubt"} /\ x = d) \/ (at = "none" /\ x = 0)
    /\ Goes(c, at, x)
    /\ UNCHANGED <<task, worker, dispatch, message, relay, capability, shared, raced, misjudged>>

Misses(c, d, at, x) ==
    /\ At(c, "configure") \/ At(c, "prompt") \/ At(c, "resume")
    /\ On(c) = d /\ ((at \in {"accept", "doubt"} /\ x = d) \/ (At(c, "resume") /\ at = "none"
           /\ x = 0))
    /\ Goes(c, at, x) /\ Free

Marks(c, d, s, ws, at, x) ==
    /\ At(c, "accept") \/ At(c, "doubt")
    /\ On(c) = d /\ s \in {"accepted", "outcome_unknown"} /\ ws \in {"busy", "outcome_unknown"}
    /\ SetDispatch(d, s) /\ SetWorker(WorkerOf(d), ws)
    /\ (at = "retain" /\ x = WorkerOf(d)) \/ (at = "none" /\ x = 0)
    /\ Goes(c, at, x)
    /\ UNCHANGED <<task, message, relay, capability, turn, prompted, shared, raced, misjudged>>

Replies(c, d) ==
    /\ At(c, "reply") /\ On(c) = d
    /\ message[d]["question"] = "acknowledged" /\ dispatch[d].status = "awaiting_coordinator"
    /\ ~dispatch[d].settled /\ task[TaskOf(d)].prompts < MaxRounds
    /\ task' = [task EXCEPT ![TaskOf(d)] = [status |-> "active",
                   prompts |-> task[TaskOf(d)].prompts + 1]]
    /\ SetDispatch(d, "running") /\ SetWorker(WorkerOf(d), "busy") /\ Goes(c, "resume", d)
    /\ "reply" \in raced' \/ Quiet(d)
    /\ raced \subseteq raced' /\ raced' \subseteq raced \cup {"reply"}
    /\ UNCHANGED <<message, relay, capability, turn, prompted, shared, misjudged>>

\* A flag is set, and the status of a worker that is not in doubt or gone.
Retains(w) ==
    /\ Retained(w) /\ worker[w].status \in {"ready", "idle", "busy", "retained"}
           /\ UNCHANGED command
    /\ UNCHANGED <<task, dispatch, message, relay, capability, turn, prompted, shared, raced, misjudged>>

HandsOff(c, w) ==
    /\ At(c, "retain") /\ On(c) = w /\ Retained(w) /\ Goes(c, "none", 0)
    /\ UNCHANGED <<task, dispatch, message, relay, capability, turn, prompted, shared, raced, misjudged>>

Stops(c, w) ==
    /\ At(c, "stop") /\ On(c) = w /\ Goes(c, "none", 0)
    /\ worker' = [worker EXCEPT ![w] = [status |-> "stopped", retained |-> FALSE]]
    /\ UNCHANGED <<task, dispatch, message, relay, capability, turn, prompted, shared, raced, misjudged>>

Cancels(c, d) ==
    /\ At(c, "cancel") /\ On(c) = d /\ ~dispatch[d].settled /\ Goes(c, "none", 0)
    /\ SetTask(TaskOf(d), "cancelled")
    /\ dispatch' = [dispatch EXCEPT ![d].status = "cancelled", ![d].settled = TRUE]
    /\ worker' = [worker EXCEPT ![WorkerOf(d)] = [status |-> "stopped", retained |-> FALSE]]
    /\ UNCHANGED <<message, relay, capability, turn, prompted, shared, raced, misjudged>>

Abandons(d) ==
    /\ Exists(d) /\ ~dispatch[d].settled
    /\ SetTask(TaskOf(d), "abandoned") /\ SetDispatch(d, "abandoned")
    /\ worker' = [worker EXCEPT ![WorkerOf(d)] = [status |-> "retained", retained |-> TRUE]]
    /\ UNCHANGED <<message, relay, capability, turn, command, prompted, shared, raced, misjudged>>

Acknowledges(d, k) ==
    /\ message[d][k] = "sent"
    /\ message' = [message EXCEPT ![d][k] = "acknowledged"]
    /\ UNCHANGED <<task, worker, dispatch, relay, capability, turn, command, prompted, shared,
                   raced, misjudged>>

Reports(w, d, s) ==
    /\ turn[w] = d /\ capability[w] = d /\ ~dispatch[d].settled
    /\ message[d]["packet"] = "none" /\ dispatch[d].status # "abandoned"
           /\ s \in {"retained", "idle"}
    /\ message' = [message EXCEPT ![d]["packet"] = "sent"]
    /\ dispatch' = [dispatch EXCEPT ![d].status = "reported", ![d].settled = TRUE]
    /\ SetTask(TaskOf(d), "reported") /\ SetWorker(w, s)
    /\ UNCHANGED <<relay, capability, turn, command, prompted, shared, raced, misjudged>>

ReportsLate(w, d) ==
    /\ turn[w] = d /\ dispatch[d].status = "abandoned" /\ message[d]["packet"] = "none"
    /\ message' = [message EXCEPT ![d]["packet"] = "sent"]
    /\ UNCHANGED <<task, worker, dispatch, relay, capability, turn, command, prompted, shared,
                   raced, misjudged>>

Asks(w, d) ==
    /\ turn[w] = d /\ capability[w] = d /\ ~dispatch[d].settled /\ message[d]["question"] = "none"
    /\ dispatch[d].status \in {"accepted", "running", "awaiting_coordinator"}
    /\ message' = [message EXCEPT ![d]["question"] = "sent"]
    /\ SetDispatch(d, "awaiting_coordinator") /\ SetTask(TaskOf(d), "awaiting_coordinator")
    /\ SetWorker(w, "idle")
    /\ UNCHANGED <<relay, capability, turn, command, prompted, shared, raced, misjudged>>

Rests(w) ==
    /\ turn' = [turn EXCEPT ![w] = 0]
    /\ UNCHANGED <<task, worker, dispatch, message, relay, capability, command, prompted,
                   shared, raced, misjudged>>

Orphans(w) ==
    /\ relay[w] = "up" /\ Orphaned(w)
    /\ turn' = turn \/ turn' = [turn EXCEPT ![w] = 0]
    /\ UNCHANGED <<task, worker, dispatch, message, command, prompted, shared, raced, misjudged>>

Dies(w) ==
    /\ HasSession(w) /\ Gone(w)
    /\ UNCHANGED <<task, worker, dispatch, message, command, prompted, shared, raced, misjudged>>

CommandMoves(c) ==
    \/ GivesUp(c)
    \/ \E w \in Workers :
          \/ Reserves(c, w) \/ Launches(c, w) \/ Loses(c, w) \/ HandsOff(c, w) \/ Stops(c, w)
          \/ \E at \in OnWorker : Looks(c, w, at)
          \/ \E s \in {"ready", "stopped", "outcome_unknown"} :
                 LaunchFails(c, w, s) \/ LaunchDoubted(c, w, s) \/ Judges(c, w, s)
          \/ \E at \in {"stop", "cancel", "none"}, x \in Workers \cup Dispatches \cup {0} :
                 Closes(c, w, at, x)
          \/ \E t \in Tasks, d \in Dispatches : Creates(c, t, w, d)
    \/ \E d \in Dispatches :
          \/ CancelFinds(c, d) \/ Asked(c, d) \/ Replaces(c, d) \/ Replies(c, d) \/ Cancels(c, d)
          \/ \E k \in Kinds : Checks(c, d, k)
          \/ \E at \in {"prompt", "doubt"} : Configures(c, d, at)
          \/ \E at \in {"accept", "doubt", "none"}, x \in {d, 0} : Starts(c, d, at, x)
                 \/ Misses(c, d, at, x)
          \/ \E s \in {"accepted", "outcome_unknown"}, ws \in {"busy", "outcome_unknown"},
                at \in {"retain", "none"}, x \in Workers \cup {0} : Marks(c, d, s, ws, at, x)
OtherMoves ==
    \/ Free /\ UNCHANGED command
    \/ \E d \in Dispatches : Abandons(d) \/ \E k \in Kinds : Acknowledges(d, k)
    \/ \E w \in Workers :
          \/ Retains(w) \/ Rests(w) \/ Orphans(w) \/ Dies(w)
          \/ \E d \in Dispatches : \/ ReportsLate(w, d) \/ Asks(w, d)
                                   \/ \E s \in {"retained", "idle"} : Reports(w, d, s)
Moves == OtherMoves \/ \E c \in Commands : CommandMoves(c)

\* The number that the next dispatch gets is free, and all before it are taken.
LEMMA NextNumber ==
    ASSUME Rows
    PROVE  LET d == 1 + Cardinality({e \in Dispatches : Exists(e)}) IN
           d \notin {e \in Dispatches : Exists(e)}
           /\ \A e \in Dispatches : e < d => e \in {f \in Dispatches : Exists(f)}
<1> DEFINE there == {e \in Dispatches : Exists(e)}
<1>1. \A d \in there : 1..d \subseteq there
  <2> SUFFICES ASSUME NEW d \in there, NEW e \in 1..d PROVE e \in there
    OBVIOUS
  <2>1. d \in Dispatches /\ Exists(d) /\ e \in Dispatches
    BY OrchestrationAssumption DEF Dispatches
  <2> QED
    BY <2>1 DEF Rows
<1>2. there \subseteq 1..MaxDispatches /\ IsFiniteSet(there)
  <2>1. there \subseteq 1..MaxDispatches
    BY DEF Dispatches
  <2>2. IsFiniteSet(1..MaxDispatches)
    BY FS_Interval, OrchestrationAssumption
  <2> QED
    BY <2>1, <2>2, FS_Subset
<1>3. Cardinality(there) \in Nat
  BY <1>2, FS_CardinalityType
<1>4. 1 + Cardinality(there) \notin there
  <2> SUFFICES ASSUME 1 + Cardinality(there) \in there PROVE FALSE
    OBVIOUS
  <2>1. 1..(1 + Cardinality(there)) \subseteq there
    BY <1>1
  <2>2. Cardinality(1..(1 + Cardinality(there))) <= Cardinality(there)
    BY <2>1, <1>2, FS_Subset
  <2>3. Cardinality(1..(1 + Cardinality(there))) = 1 + Cardinality(there)
    <3> DEFINE n == 1 + Cardinality(there)
    <3>1. n \in Int /\ 1 \in Int /\ 1 <= n
      BY <1>3
    <3>2. Cardinality(1..n) = IF 1 > n THEN 0 ELSE n - 1 + 1
      <4> HIDE DEF n
      <4> QED BY <3>1, FS_Interval
    <3> QED
      BY <3>1, <3>2
  <2> QED
    BY <1>3, <2>2, <2>3
<1>5. ASSUME NEW e \in Dispatches, e < 1 + Cardinality(there) PROVE e \in there
  <2> SUFFICES ASSUME e \notin there PROVE FALSE
    OBVIOUS
  <2>1. e \in Nat \ {0}
    BY OrchestrationAssumption DEF Dispatches
  <2>2. there \subseteq 1..(e - 1)
    <3> SUFFICES ASSUME NEW d \in there, d \notin 1..(e - 1) PROVE FALSE
      OBVIOUS
    <3>1. d \in Nat \ {0}
      BY <1>2
    <3>2. e \in 1..d
      BY <3>1, <2>1
    <3> QED
      BY <3>2, <1>1
  <2>3. IsFiniteSet(1..(e - 1)) /\ Cardinality(1..(e - 1)) = e - 1
    <3> DEFINE n == e - 1
    <3>1. n \in Int /\ 1 \in Int /\ n >= 0
      BY <2>1
    <3>2. IsFiniteSet(1..n) /\ Cardinality(1..n) = IF 1 > n THEN 0 ELSE n - 1 + 1
      <4> HIDE DEF n
      <4> QED BY <3>1, FS_Interval
    <3> QED
      BY <3>1, <3>2
  <2>4. Cardinality(there) <= e - 1
    BY <2>2, <2>3, FS_Subset
  <2> QED
    BY <1>3, <2>1, <2>4, <1>5
<1> QED
  BY <1>4, <1>5

\* A step is one of the moves, or one that changes nothing but the count of faults.
LEMMA NextMoves ==
    ASSUME TypeOK, Targets, Rows, [Next]_vars
    PROVE  Moves
<1> USE DEF storeVars, relayVars, history, At, On, Ends, Idle, Goes, Misjudges, Free, SetTask, SetWorker,
        SetDispatch
<1>1. ASSUME NEW c \in Commands, NEW w \in Workers, ReserveWorker(c, w)
      PROVE  Moves
  <2>2. Reserves(c, w)
    BY <1>1 DEF ReserveWorker, Reserves
  <2> HIDE DEF On
  <2>3. CommandMoves(c)
    BY <2>2 DEF CommandMoves, OnWorker
  <2> QED
    BY <2>3 DEF Moves
<1>2. ASSUME NEW c \in Commands, NEW w \in Workers, ReleaseWorker(c, w)
      PROVE  Moves
  <2>2. Looks(c, w, "look")
    BY <1>2 DEF ReleaseWorker, Looks, Misjudges
  <2> HIDE DEF On
  <2>3. CommandMoves(c)
    BY <2>2 DEF CommandMoves, OnWorker
  <2> QED
    BY <2>3 DEF Moves
<1>3. ASSUME NEW c \in Commands, NEW w \in Workers, Recover(c, w)
      PROVE  Moves
  <2>2. Looks(c, w, "lose") \/ Looks(c, w, "suspect")
    BY <1>3 DEF Recover, Looks, ActiveWorkerStatuses, Misjudges, Unseen
  <2> HIDE DEF On
  <2>3. CommandMoves(c)
    BY <2>2 DEF CommandMoves, OnWorker
  <2> QED
    BY <2>3 DEF Moves
<1>4. ASSUME NEW c \in Commands, NEW w \in Workers, NEW t \in Tasks, CreateDispatch(c, t, w)
      PROVE  Moves
  <2>2. \E d \in Dispatches : Creates(c, t, w, d)
    <3> DEFINE there == {e \in Dispatches : Exists(e)}
               d == 1 + Cardinality(there)
    <3>1. d \in Dispatches /\ d \notin there /\ \A e \in Dispatches : e < d => e \in there
      BY <1>4, NextNumber DEF CreateDispatch
    <3>2. /\ At(c, "none") /\ d \in Dispatches /\ worker[w].status \in {"ready", "idle"}
          /\ task[t].prompts < MaxRounds /\ Unsettled(OfTask(t)) = {}
          /\ dispatch' = [dispatch EXCEPT ![d] =
                             [task |-> t, worker |-> w, status |-> "queued", settled |-> FALSE]]
          /\ task' = [task EXCEPT ![t] = [status |-> "active", prompts |-> @.prompts + 1]]
          /\ shared' = IF Unsettled(OfWorker(w)) = {} THEN shared ELSE shared \cup {w}
          /\ Goes(c, "configure", d)
          /\ UNCHANGED <<worker, message, relay, capability, turn, prompted, raced, misjudged>>
      BY <1>4 DEF CreateDispatch
    <3>3. ~Exists(d) /\ \A e \in Dispatches : e < d => Exists(e)
      BY <3>1
    <3>4. \A e \in Dispatches : Exists(e) /\ TaskOf(e) = t => dispatch[e].settled
      BY <3>2 DEF Unsettled, OfTask, TaskOf
    <3>5. /\ shared \subseteq shared' /\ shared' \subseteq shared \cup {w}
          /\ w \notin shared' => Unsettled(OfWorker(w)) = {}
      BY <3>2
    <3>6. w \notin shared' => \A e \in Dispatches : Exists(e) /\ WorkerOf(e) = w
              => dispatch[e].settled
      BY <3>5 DEF Unsettled, OfWorker, WorkerOf
    <3>7. task' = [task EXCEPT ![t] = [status |-> "active", prompts |-> task[t].prompts + 1]]
      BY <3>2 DEF TypeOK
    <3> HIDE DEF d
    <3> QED
      BY <3>2, <3>3, <3>4, <3>5, <3>6, <3>7 DEF Creates
  <2> HIDE DEF On
  <2>3. CommandMoves(c)
    BY <2>2 DEF CommandMoves, OnWorker
  <2> QED
    BY <2>3 DEF Moves
<1>5. ASSUME NEW c \in Commands, NEW d \in Dispatches, CancelDispatch(c, d)
      PROVE  Moves
  <2>1. WorkerOf(d) \in Workers
    BY <1>5 DEF Rows, CancelDispatch
  <2>2. CancelFinds(c, d) \/ Closes(c, WorkerOf(d), "cancel", d)
    <3>1. CASE HasSession(WorkerOf(d)) /\ Gone(WorkerOf(d)) /\ UNCHANGED misjudged
      BY <1>5, <3>1 DEF CancelDispatch, Closes
    <3>2. CASE ~HasSession(WorkerOf(d)) /\ UNCHANGED <<relay, capability, turn, misjudged>>
      BY <1>5, <3>2 DEF CancelDispatch, CancelFinds, Misjudges
    <3>3. CASE Misjudge(WorkerOf(d)) /\ UNCHANGED <<relay, capability, turn>>
      BY <1>5, <3>3 DEF CancelDispatch, CancelFinds, Misjudges, Misjudge
    <3> QED
      BY <1>5, <3>1, <3>2, <3>3 DEF CancelDispatch
  <2> HIDE DEF On
  <2>3. CommandMoves(c)
    BY <2>1, <2>2 DEF CommandMoves, OnWorker
  <2> QED
    BY <2>3 DEF Moves
<1>6. ASSUME NEW c \in Commands, NEW d \in Dispatches, ReplyToMessage(c, d)
      PROVE  Moves
  <2>2. Asked(c, d)
    BY <1>6 DEF ReplyToMessage, Asked
  <2> HIDE DEF On
  <2>3. CommandMoves(c)
    BY <2>2 DEF CommandMoves, OnWorker
  <2> QED
    BY <2>3 DEF Moves
<1>7. ASSUME NEW c \in Commands, NEW d \in Dispatches, NEW k \in Kinds, CheckMessages(c, d, k)
      PROVE  Moves
  <2>2. Checks(c, d, k)
    BY <1>7 DEF CheckMessages, Checks
  <2> HIDE DEF On
  <2>3. CommandMoves(c)
    BY <2>2 DEF CommandMoves, OnWorker
  <2> QED
    BY <2>3 DEF Moves
<1>8. ASSUME NEW c \in Commands, LaunchWorker(c)
      PROVE  Moves
  <2>1. On(c) \in Workers
    BY <1>8 DEF OnWorker, Targets, LaunchWorker
  <2>2. \/ Launches(c, On(c)) \/ LaunchFails(c, On(c), "stopped")
               \/ LaunchFails(c, On(c), "outcome_unknown")
               \/ LaunchDoubted(c, On(c), "stopped") \/ LaunchDoubted(c, On(c), "outcome_unknown")
    BY <1>8 DEF LaunchWorker, Launches, LaunchFails, LaunchDoubted, Misjudges, Misjudge
  <2> HIDE DEF On
  <2>3. CommandMoves(c)
    BY <2>1, <2>2 DEF CommandMoves, OnWorker
  <2> QED
    BY <2>3 DEF Moves
<1>9. ASSUME NEW c \in Commands, AwaitHealth(c)
      PROVE  Moves
  <2>1. On(c) \in Workers
    BY <1>9 DEF OnWorker, Targets, AwaitHealth
  <2>2. \E s \in {"ready", "stopped", "outcome_unknown"} : Judges(c, On(c), s)
    BY <1>9 DEF AwaitHealth, Judges, Misjudges, Misjudge
  <2> HIDE DEF On
  <2>3. CommandMoves(c)
    BY <2>1, <2>2 DEF CommandMoves, OnWorker
  <2> QED
    BY <2>3 DEF Moves
<1>10. ASSUME NEW c \in Commands, Configure(c)
       PROVE  Moves
  <2>1. On(c) \in Dispatches /\ WorkerOf(On(c)) \in Workers
    BY <1>10 DEF OnDispatch, Targets, Rows, Configure
  <2>2. \/ Configures(c, On(c), "prompt") \/ Configures(c, On(c), "doubt")
               \/ Replaces(c, On(c)) \/ Misses(c, On(c), "doubt", On(c))
    <3>0. /\ At(c, "configure")
                 /\ UNCHANGED <<task, worker, dispatch, message, turn, prompted, shared, raced, misjudged>>
          /\ \/ /\ Up(On(c)) /\ Quiet(On(c)) /\ relay' = relay
                /\ capability' = [capability EXCEPT ![WorkerOf(On(c))] = On(c)]
                /\ Goes(c, "prompt", On(c)) \/ Goes(c, "doubt", On(c))
             \/ Goes(c, "doubt", On(c)) /\ capability' = capability /\ relay' = relay
             \/ Up(On(c)) /\ Goes(c, "doubt", On(c)) /\ Orphaned(WorkerOf(On(c)))
      BY <1>10 DEF Configure
    <3>1. ASSUME NEW at \in {"prompt", "doubt"}, Goes(c, at, On(c)), Up(On(c)), Quiet(On(c)),
                 capability' = [capability EXCEPT ![WorkerOf(On(c))] = On(c)], relay' = relay
          PROVE  Configures(c, On(c), at)
      BY <3>0, <3>1 DEF Configures
    <3>2. CASE Goes(c, "doubt", On(c)) /\ capability' = capability /\ relay' = relay
      BY <3>0, <3>2 DEF Misses
    <3>3. CASE Up(On(c)) /\ Goes(c, "doubt", On(c)) /\ Orphaned(WorkerOf(On(c)))
      BY <3>0, <3>3 DEF Replaces
    <3> QED
      BY <3>0, <3>1, <3>2, <3>3
  <2> HIDE DEF On
  <2>3. CommandMoves(c)
    BY <2>1, <2>2 DEF CommandMoves, OnWorker
  <2> QED
    BY <2>3 DEF Moves
<1>11. ASSUME NEW c \in Commands, Prompt(c)
       PROVE  Moves
  <2>1. On(c) \in Dispatches /\ WorkerOf(On(c)) \in Workers
    BY <1>11 DEF OnDispatch, Targets, Rows, Prompt
  <2>2. \E at \in {"accept", "doubt", "none"}, x \in {On(c), 0} : Starts(c, On(c), at, x)
            \/ Misses(c, On(c), at, x)
    <3> DEFINE Result == \E at \in {"accept", "doubt", "none"}, x \in {On(c), 0} :
                             Starts(c, On(c), at, x) \/ Misses(c, On(c), at, x)
    <3>1. ASSUME Begins(On(c)), NEW at \in {"accept", "doubt", "none"}, NEW x \in {On(c), 0},
                 Goes(c, at, x), (at \in {"accept", "doubt"} /\ x = On(c)) \/ (at = "none"
                     /\ x = 0),
                 Up(On(c)), Quiet(On(c))
          PROVE  Starts(c, On(c), at, x)
      BY <1>11, <3>1 DEF Prompt, Starts
    <3>2. ASSUME UNCHANGED <<turn, prompted>>, NEW at \in {"accept", "doubt", "none"},
                 NEW x \in {On(c), 0}, Goes(c, at, x),
                 \/ at \in {"accept", "doubt"} /\ x = On(c)
                 \/ At(c, "resume") /\ at = "none" /\ x = 0
          PROVE  Misses(c, On(c), at, x)
      BY <1>11, <3>2 DEF Prompt, Misses
    <3>3. ASSUME At(c, "prompt") PROVE Result
      <4>1. ASSUME NEW at \in {"accept", "doubt"}, Begins(On(c)), Goes(c, at, On(c)),
                   Up(On(c)), Quiet(On(c))
            PROVE  Result
        BY <3>1, <4>1
      <4>2. ASSUME NEW at \in {"accept", "doubt"}, UNCHANGED <<turn, prompted>>, Goes(c, at,
                        On(c))
            PROVE  Result
        BY <3>2, <4>2
      <4>3. /\ \/ Begins(On(c)) /\ Up(On(c)) /\ Quiet(On(c))
               \/ UNCHANGED <<turn, prompted>>
            /\ Goes(c, "accept", On(c)) \/ Goes(c, "doubt", On(c))
        BY <1>11, <3>3 DEF Prompt
      <4> HIDE DEF Result, Goes, On
      <4> QED
        BY <4>1, <4>2, <4>3
    <3>4. ASSUME At(c, "resume") PROVE Result
      <4>1. ASSUME NEW at \in {"doubt", "none"}, NEW x \in {On(c), 0}, Begins(On(c)), Goes(c,
                        at, x),
                   (at = "doubt" /\ x = On(c)) \/ (at = "none" /\ x = 0), Up(On(c)), Quiet(On(c))
            PROVE  Result
        BY <3>1, <4>1
      <4>2. ASSUME NEW at \in {"doubt", "none"}, NEW x \in {On(c), 0}, UNCHANGED <<turn,
                        prompted>>,
                   Goes(c, at, x), (at = "doubt" /\ x = On(c)) \/ (at = "none" /\ x = 0)
            PROVE  Result
        BY <3>2, <3>4, <4>2
      <4>3. /\ \/ Begins(On(c)) /\ Up(On(c)) /\ Quiet(On(c))
               \/ UNCHANGED <<turn, prompted>>
            /\ Goes(c, "none", 0) \/ Goes(c, "doubt", On(c))
        BY <1>11, <3>4 DEF Prompt
      <4> HIDE DEF Result, Goes, On
      <4> QED
        BY <4>1, <4>2, <4>3
    <3> QED
      BY <1>11, <3>3, <3>4 DEF Prompt
  <2> HIDE DEF On
  <2>3. CommandMoves(c)
    BY <2>1, <2>2 DEF CommandMoves, OnWorker
  <2> QED
    BY <2>3 DEF Moves
<1>12. ASSUME NEW c \in Commands, Accept(c)
       PROVE  Moves
  <2>1. On(c) \in Dispatches /\ WorkerOf(On(c)) \in Workers
    BY <1>12 DEF OnDispatch, Targets, Rows, Accept
  <2>2. \/ Marks(c, On(c), "accepted", "busy", "retain", WorkerOf(On(c)))
               \/ Marks(c, On(c), "accepted", "busy", "none", 0)
    <3>1. CASE TaskOf(On(c)) \in Handoff
      BY <1>12, <3>1 DEF Accept, Marks, SetDispatchStatus
    <3>2. CASE TaskOf(On(c)) \notin Handoff
      BY <1>12, <3>2 DEF Accept, Marks, SetDispatchStatus
    <3> QED
      BY <3>1, <3>2
  <2> HIDE DEF On
  <2>3. CommandMoves(c)
    BY <2>1, <2>2 DEF CommandMoves, OnWorker
  <2> QED
    BY <2>3 DEF Moves
<1>13. ASSUME NEW c \in Commands, Doubt(c)
       PROVE  Moves
  <2>1. On(c) \in Dispatches /\ WorkerOf(On(c)) \in Workers
    BY <1>13 DEF OnDispatch, Targets, Rows, Doubt
  <2>2. Marks(c, On(c), "outcome_unknown", "outcome_unknown", "none", 0)
    BY <1>13 DEF Doubt, Marks, SetDispatchStatus
  <2> HIDE DEF On
  <2>3. CommandMoves(c)
    BY <2>1, <2>2 DEF CommandMoves, OnWorker
  <2> QED
    BY <2>3 DEF Moves
<1>14. ASSUME NEW c \in Commands, Deliver(c)
       PROVE  Moves
  <2>2. GivesUp(c)
    BY <1>14 DEF Deliver, GivesUp
  <2> HIDE DEF On
  <2>3. CommandMoves(c)
    BY <2>2 DEF CommandMoves, OnWorker
  <2> QED
    BY <2>3 DEF Moves
<1>15. ASSUME NEW c \in Commands, CreateReply(c)
       PROVE  Moves
  <2>1. On(c) \in Dispatches /\ WorkerOf(On(c)) \in Workers
    BY <1>15 DEF OnDispatch, Targets, Rows, CreateReply
  <2>2. GivesUp(c) \/ Replies(c, On(c))
    <3> DEFINE Sent == /\ message[On(c)]["question"] = "acknowledged"
                       /\ dispatch[On(c)].status = "awaiting_coordinator"
                              /\ ~dispatch[On(c)].settled
                       /\ worker[WorkerOf(On(c))].status = "idle"
                              /\ task[TaskOf(On(c))].prompts < MaxRounds
    <3>1. CASE Sent
      <4>1. /\ On(c) \in Dispatches /\ TaskOf(On(c)) \in Tasks
            /\ task \in [Tasks -> [status :
                   {"pending", "active", "awaiting_coordinator", "reported",
                                       "cancelled", "abandoned"},
                             prompts : 0..MaxRounds]]
        BY <1>15 DEF Targets, OnDispatch, Rows, TypeOK, CreateReply
      <4>2. /\ task' = [task EXCEPT ![TaskOf(On(c))] = [status |-> "active",
                           prompts |-> @.prompts + 1]]
            /\ SetDispatch(On(c), "running") /\ SetWorker(WorkerOf(On(c)), "busy")
            /\ raced' = raced \cup (IF Quiet(On(c)) THEN {} ELSE {"reply"})
            /\ Goes(c, "resume", On(c))
                   /\ UNCHANGED <<message, relay, capability, turn, prompted, shared, misjudged>>
        BY <1>15, <3>1 DEF CreateReply
      <4>3. /\ raced \subseteq raced' /\ raced' \subseteq raced \cup {"reply"}
            /\ "reply" \in raced' \/ Quiet(On(c))
        BY <4>2
      <4>4. At(c, "reply")
        BY <1>15 DEF CreateReply
      <4> QED
        BY <3>1, <4>1, <4>2, <4>3, <4>4 DEF Replies
    <3>2. CASE ~Sent
      BY <1>15, <3>2 DEF CreateReply, GivesUp
    <3> QED
      BY <3>1, <3>2
  <2> HIDE DEF On
  <2>3. CommandMoves(c)
    BY <2>1, <2>2 DEF CommandMoves, OnWorker
  <2> QED
    BY <2>3 DEF Moves
<1>16. ASSUME NEW c \in Commands, RetainHandoff(c)
       PROVE  Moves
  <2>1. On(c) \in Workers
    BY <1>16 DEF OnWorker, Targets, RetainHandoff
  <2>2. HandsOff(c, On(c))
    BY <1>16 DEF RetainHandoff, HandsOff, Retained
  <2> HIDE DEF On
  <2>3. CommandMoves(c)
    BY <2>1, <2>2 DEF CommandMoves, OnWorker
  <2> QED
    BY <2>3 DEF Moves
<1>17. ASSUME NEW c \in Commands, ReleaseLooks(c)
       PROVE  Moves
  <2>1. On(c) \in Workers
    BY <1>17 DEF OnWorker, Targets, ReleaseLooks
  <2>2. GivesUp(c) \/ Looks(c, On(c), "stop") \/ Looks(c, On(c), "close")
    <3>1. CASE ~HasSession(On(c)) /\ Goes(c, "stop", On(c)) /\ UNCHANGED misjudged
      BY <1>17, <3>1 DEF ReleaseLooks, Looks, Misjudges
    <3>2. CASE relay[On(c)] = "up" /\ Goes(c, "close", On(c)) /\ UNCHANGED misjudged
      BY <1>17, <3>2 DEF ReleaseLooks, Looks, Misjudges
    <3>3. CASE Ends(c) /\ UNCHANGED misjudged
      BY <1>17, <3>3 DEF ReleaseLooks, GivesUp
    <3>4. CASE Misjudge(On(c)) /\ Goes(c, "stop", On(c))
      BY <1>17, <3>4 DEF ReleaseLooks, Looks, Misjudges, Misjudge
    <3> QED
      BY <1>17, <3>1, <3>2, <3>3, <3>4 DEF ReleaseLooks
  <2> HIDE DEF On
  <2>3. CommandMoves(c)
    BY <2>1, <2>2 DEF CommandMoves, OnWorker
  <2> QED
    BY <2>3 DEF Moves
<1>18. ASSUME NEW c \in Commands, ReleaseCloses(c)
       PROVE  Moves
  <2>1. On(c) \in Workers
    BY <1>18 DEF OnWorker, Targets, ReleaseCloses
  <2>2. GivesUp(c) \/ Closes(c, On(c), "stop", On(c)) \/ Closes(c, On(c), "none", 0)
    <3>1. CASE relay[On(c)] = "up"
      BY <1>18, <3>1 DEF ReleaseCloses, Closes, HasSession
    <3>2. CASE relay[On(c)] # "up"
      BY <1>18, <3>2 DEF ReleaseCloses, GivesUp
    <3> QED
      BY <3>1, <3>2
  <2> HIDE DEF On
  <2>3. CommandMoves(c)
    BY <2>1, <2>2 DEF CommandMoves, OnWorker
  <2> QED
    BY <2>3 DEF Moves
<1>19. ASSUME NEW c \in Commands, ReleaseStops(c)
       PROVE  Moves
  <2>1. On(c) \in Workers
    BY <1>19 DEF OnWorker, Targets, ReleaseStops
  <2>2. Stops(c, On(c))
    BY <1>19 DEF ReleaseStops, Stops
  <2> HIDE DEF On
  <2>3. CommandMoves(c)
    BY <2>1, <2>2 DEF CommandMoves, OnWorker
  <2> QED
    BY <2>3 DEF Moves
<1>20. ASSUME NEW c \in Commands, MarkCancelled(c)
       PROVE  Moves
  <2>1. On(c) \in Dispatches /\ WorkerOf(On(c)) \in Workers
    BY <1>20 DEF OnDispatch, Targets, Rows, MarkCancelled
  <2>2. GivesUp(c) \/ Cancels(c, On(c))
    <3>1. CASE dispatch[On(c)].settled
      BY <1>20, <3>1 DEF MarkCancelled, GivesUp
    <3>2. CASE ~dispatch[On(c)].settled
      BY <1>20, <3>2 DEF MarkCancelled, Cancels
    <3> QED
      BY <3>1, <3>2
  <2> HIDE DEF On
  <2>3. CommandMoves(c)
    BY <2>1, <2>2 DEF CommandMoves, OnWorker
  <2> QED
    BY <2>3 DEF Moves
<1>21. ASSUME NEW c \in Commands, RecoverSets(c)
       PROVE  Moves
  <2>1. On(c) \in Workers
    BY <1>21 DEF OnWorker, Targets, RecoverSets
  <2>2. Loses(c, On(c)) \/ Judges(c, On(c), "outcome_unknown")
    <3>1. CASE At(c, "lose")
      BY <1>21, <3>1 DEF RecoverSets, Loses, Misjudges
    <3>2. CASE At(c, "suspect")
      BY <1>21, <3>2 DEF RecoverSets, Judges, Misjudges
    <3> QED
      BY <1>21, <3>1, <3>2 DEF RecoverSets
  <2> HIDE DEF On
  <2>3. CommandMoves(c)
    BY <2>1, <2>2 DEF CommandMoves, OnWorker
  <2> QED
    BY <2>3 DEF Moves
<1>22. ASSUME NEW c \in Commands, CommandDies(c)
       PROVE  Moves
  <2>2. GivesUp(c)
    BY <1>22 DEF CommandDies, GivesUp
  <2> HIDE DEF On
  <2>3. CommandMoves(c)
    BY <2>2 DEF CommandMoves, OnWorker
  <2> QED
    BY <2>3 DEF Moves
<1>23. ASSUME NEW d \in Dispatches, AbandonDispatch(d)
       PROVE  Moves
  <2>2. Abandons(d)
    BY <1>23 DEF AbandonDispatch, Abandons
  <2> QED
    BY <2>2 DEF Moves, OtherMoves
<1>24. ASSUME NEW d \in Dispatches, NEW k \in Kinds, AcknowledgeMessage(d, k)
       PROVE  Moves
  <2>2. Acknowledges(d, k)
    BY <1>24 DEF AcknowledgeMessage, Acknowledges
  <2> QED
    BY <2>2 DEF Moves, OtherMoves
<1>25. ASSUME NEW w \in Workers, RetainWorker(w)
       PROVE  Moves
  <2>2. Retains(w)
    BY <1>25 DEF RetainWorker, Retains, Retained
  <2> QED
    BY <2>2 DEF Moves, OtherMoves
<1>26. ASSUME NEW w \in Workers, RecordTerminal(w)
       PROVE  Moves
  <2>1. turn[w] \in Dispatches
    BY <1>26 DEF TypeOK, Authorised, RecordTerminal
  <2>2. \/ \E s \in {"retained", "idle"} : Reports(w, turn[w], s) \/ ReportsLate(w, turn[w])
    <3>1. CASE dispatch[turn[w]].status = "abandoned"
      BY <1>26, <3>1 DEF RecordTerminal, ReportsLate, Authorised
    <3>2. CASE dispatch[turn[w]].status # "abandoned"
      BY <1>26, <3>2 DEF RecordTerminal, Reports, Authorised
    <3> QED
      BY <3>1, <3>2
  <2> QED
    BY <2>1, <2>2 DEF Moves, OtherMoves
<1>27. ASSUME NEW w \in Workers, SendQuestion(w)
       PROVE  Moves
  <2>1. turn[w] \in Dispatches
    BY <1>27 DEF TypeOK, Authorised, SendQuestion
  <2>2. Asks(w, turn[w])
    BY <1>27 DEF SendQuestion, Asks, Authorised
  <2> QED
    BY <2>1, <2>2 DEF Moves, OtherMoves
<1>28. ASSUME NEW w \in Workers, TurnEnds(w)
       PROVE  Moves
  <2>2. Rests(w)
    BY <1>28 DEF TurnEnds, Rests
  <2> QED
    BY <2>2 DEF Moves, OtherMoves
<1>29. ASSUME NEW w \in Workers, ChildDies(w)
       PROVE  Moves
  <2>2. Orphans(w)
    BY <1>29 DEF ChildDies, Orphans, Orphaned
  <2> QED
    BY <2>2 DEF Moves, OtherMoves
<1>30. ASSUME NEW w \in Workers, RelayDies(w)
       PROVE  Moves
  <2>2. Dies(w)
    BY <1>30 DEF RelayDies, Dies, Gone
  <2> QED
    BY <2>2 DEF Moves, OtherMoves
<1>31. CASE UNCHANGED vars
  BY <1>31 DEF vars, Moves, OtherMoves
<1> QED
  BY <1>1, <1>2, <1>3, <1>4, <1>5, <1>6, <1>7, <1>8, <1>9, <1>10, <1>11, <1>12, <1>13, <1>14,
     <1>15, <1>16, <1>17, <1>18, <1>19, <1>20, <1>21, <1>22, <1>23, <1>24, <1>25, <1>26, <1>27,
     <1>28, <1>29, <1>30, <1>31 DEF Next, CommandBegins, CommandGoesOn, ShortCommand, WorkerStep

\* No dispatch has the number that stands for none.
LEMMA NotZero == 0 \notin Dispatches
BY DEF Dispatches

\* The rows of the store.
TaskRow == [status :
    {"pending", "active", "awaiting_coordinator", "reported", "cancelled", "abandoned"},
            prompts : 0..MaxRounds]
WorkerRow == [status : ActiveWorkerStatuses \cup {"none", "stopped", "lost"}, retained : BOOLEAN]
DispatchRow == [task : Tasks \cup {0}, worker : Workers \cup {0}, settled : BOOLEAN,
                status : {"none", "queued", "accepted", "running", "awaiting_coordinator",
                          "reported", "cancelled", "abandoned", "outcome_unknown"}]

\* A status that is set leaves the row of a task one of a task.
LEMMA TaskRowSet ==
    ASSUME NEW r \in TaskRow, NEW s \in {"active", "awaiting_coordinator", "reported",
                "cancelled", "abandoned"}
    PROVE  [r EXCEPT !.status = s] \in TaskRow
BY DEF TaskRow

\* So for a worker.
LEMMA WorkerRowSet ==
    ASSUME NEW r \in WorkerRow, NEW s \in ActiveWorkerStatuses \cup {"none", "stopped", "lost"}
    PROVE  [r EXCEPT !.status = s] \in WorkerRow
BY DEF WorkerRow

\* And for a dispatch, whether or not it is settled with it.
LEMMA DispatchRowSet ==
    ASSUME NEW r \in DispatchRow,
           NEW s \in {"accepted", "running", "awaiting_coordinator", "reported", "cancelled",
                      "abandoned", "outcome_unknown"}
    PROVE  /\ [r EXCEPT !.status = s] \in DispatchRow
           /\ [r EXCEPT !.status = s, !.settled = TRUE] \in DispatchRow
BY DEF DispatchRow
\* So a status that is set leaves the table one of rows.
LEMMA TaskTable ==
    ASSUME task \in [Tasks -> TaskRow], NEW t \in Tasks,
           NEW s \in {"active", "awaiting_coordinator", "reported", "cancelled", "abandoned"},
           task' = [task EXCEPT ![t].status = s]
    PROVE  task' \in [Tasks -> TaskRow]
BY TaskRowSet

\* The same, for the table of workers.
LEMMA WorkerTable ==
    ASSUME worker \in [Workers -> WorkerRow], NEW w \in Workers,
           NEW s \in ActiveWorkerStatuses \cup {"none", "stopped", "lost"},
           worker' = [worker EXCEPT ![w].status = s]
    PROVE  worker' \in [Workers -> WorkerRow]
BY WorkerRowSet

\* The same, for the table of dispatches.
LEMMA DispatchTable ==
    ASSUME dispatch \in [Dispatches -> DispatchRow], NEW d \in Dispatches,
           NEW s \in {"accepted", "running", "awaiting_coordinator", "reported", "cancelled",
                      "abandoned", "outcome_unknown"},
           \/ dispatch' = [dispatch EXCEPT ![d].status = s]
           \/ dispatch' = [dispatch EXCEPT ![d].status = s, ![d].settled = TRUE]
    PROVE  dispatch' \in [Dispatches -> DispatchRow]
<1>1. PICK r \in DispatchRow : dispatch' = [dispatch EXCEPT ![d] = r]
  <2>1. CASE dispatch' = [dispatch EXCEPT ![d].status = s]
    BY <2>1, DispatchRowSet
  <2>2. CASE dispatch' = [dispatch EXCEPT ![d].status = s, ![d].settled = TRUE]
    <3>1. dispatch' = [dispatch EXCEPT ![d] = [dispatch[d] EXCEPT !.status = s, !.settled = TRUE]]
      BY <2>2
    <3>2. [dispatch[d] EXCEPT !.status = s, !.settled = TRUE] \in DispatchRow
      BY DispatchRowSet
    <3> QED
      BY <3>1, <3>2
  <2> QED
    BY <2>1, <2>2
<1> QED
  BY <1>1

\* The moves keep the types.
LEMMA TypeStep ==
    ASSUME TypeOK, Targets, Rows, faults' \in 0..MaxFaults, Moves
    PROVE  TypeOK'
<1> USE DEF Exists, WorkerOf, TaskOf, Up, Quiet, Begins, HasSession, Gone, Orphaned, Retained,
        SetTask, SetWorker, SetDispatch, At, On, Goes, Misjudges, Free
<1>a. /\ task \in [Tasks -> TaskRow] /\ worker \in [Workers -> WorkerRow]
      /\ dispatch \in [Dispatches -> DispatchRow]
  BY DEF TypeOK, TaskRow, WorkerRow, DispatchRow
<1>1. ASSUME NEW c \in Commands, GivesUp(c)
      PROVE  TypeOK'
  BY <1>1, OrchestrationAssumption DEF GivesUp, TypeOK, ActiveWorkerStatuses, Kinds
<1>2. ASSUME NEW c \in Commands, NEW w \in Workers, Reserves(c, w)
      PROVE  TypeOK'
  BY <1>2, OrchestrationAssumption DEF Reserves, TypeOK, ActiveWorkerStatuses, Kinds
<1>3. ASSUME NEW c \in Commands, NEW w \in Workers, Launches(c, w)
      PROVE  TypeOK'
  BY <1>3, OrchestrationAssumption DEF Launches, TypeOK, ActiveWorkerStatuses, Kinds
<1>4. ASSUME NEW c \in Commands, NEW w \in Workers,
             NEW s \in {"ready", "stopped", "outcome_unknown"}, LaunchDoubted(c, w, s)
      PROVE  TypeOK'
  <2>1. TRUE
    BY <1>4 DEF LaunchDoubted, Free
  <2>2. worker' \in [Workers -> WorkerRow]
    <3>1. worker' = [worker EXCEPT ![w].status = s]
      BY <1>4 DEF LaunchDoubted
    <3> QED
      BY <1>a, <2>1, <3>1, WorkerTable DEF ActiveWorkerStatuses
  <2>3. relay' \in [Workers -> {"none", "up", "childless", "gone"}]
    <3>1. relay' = [relay EXCEPT ![w] = "up"]
      BY <1>4 DEF LaunchDoubted
    <3> QED
      BY <2>1, <3>1 DEF TypeOK, ActiveWorkerStatuses, Kinds
  <2>4. DOMAIN command' = Commands
    <3>1. command' = [command EXCEPT ![c] = [at |-> "none", on |-> 0]]
      BY <1>4 DEF LaunchDoubted
    <3> QED
      BY <2>1, <3>1 DEF TypeOK, ActiveWorkerStatuses, Kinds
  <2>5. /\ UNCHANGED <<task, dispatch, message, capability, turn, prompted, shared, raced>>
        /\ misjudged' \subseteq misjudged \cup {w}
    BY <1>4 DEF LaunchDoubted
  <2> QED
    BY <2>2, <2>3, <2>4, <2>5 DEF TypeOK, TaskRow, WorkerRow, DispatchRow
<1>5. ASSUME NEW c \in Commands, NEW w \in Workers, Loses(c, w)
      PROVE  TypeOK'
  BY <1>5, OrchestrationAssumption DEF Loses, TypeOK, ActiveWorkerStatuses, Kinds
<1>6. ASSUME NEW c \in Commands, NEW w \in Workers, HandsOff(c, w)
      PROVE  TypeOK'
  BY <1>6, OrchestrationAssumption DEF HandsOff, TypeOK, ActiveWorkerStatuses, Kinds
<1>7. ASSUME NEW c \in Commands, NEW w \in Workers, Stops(c, w)
      PROVE  TypeOK'
  BY <1>7, OrchestrationAssumption DEF Stops, TypeOK, ActiveWorkerStatuses, Kinds
<1>8. ASSUME NEW c \in Commands, NEW w \in Workers, NEW at \in OnWorker, Looks(c, w, at)
      PROVE  TypeOK'
  BY <1>8, OrchestrationAssumption DEF Looks, TypeOK, ActiveWorkerStatuses, Kinds
<1>9. ASSUME NEW c \in Commands, NEW w \in Workers, NEW s \in {"ready", "stopped",
                  "outcome_unknown"}, LaunchFails(c, w, s)
      PROVE  TypeOK'
  BY SMTT(60), <1>9, OrchestrationAssumption DEF LaunchFails, TypeOK, ActiveWorkerStatuses, Kinds,
     Targets, OnWorker
<1>10. ASSUME NEW c \in Commands, NEW w \in Workers, NEW s \in {"ready", "stopped",
                   "outcome_unknown"}, Judges(c, w, s)
       PROVE  TypeOK'
  BY <1>10, OrchestrationAssumption DEF Judges, TypeOK, ActiveWorkerStatuses, Kinds
<1>11. ASSUME NEW c \in Commands, NEW w \in Workers, NEW at \in {"stop", "cancel", "none"},
                   NEW x \in Workers \cup Dispatches \cup {0}, Closes(c, w, at, x)
       PROVE  TypeOK'
  BY <1>11, OrchestrationAssumption DEF Closes, TypeOK, ActiveWorkerStatuses, Kinds
<1>12. ASSUME NEW c \in Commands, NEW w \in Workers, NEW t \in Tasks, NEW d \in Dispatches,
                   Creates(c, t, w, d)
       PROVE  TypeOK'
  BY <1>12, OrchestrationAssumption DEF Creates, TypeOK, ActiveWorkerStatuses, Kinds
<1>13. ASSUME NEW c \in Commands, NEW d \in Dispatches, CancelFinds(c, d)
       PROVE  TypeOK'
  <2>1. WorkerOf(d) \in Workers
    BY <1>13 DEF CancelFinds, Rows
  <2> QED
    BY <1>13, <2>1, OrchestrationAssumption DEF CancelFinds, TypeOK, ActiveWorkerStatuses, Kinds
<1>14. ASSUME NEW c \in Commands, NEW d \in Dispatches, Asked(c, d)
       PROVE  TypeOK'
  BY <1>14, OrchestrationAssumption DEF Asked, TypeOK, ActiveWorkerStatuses, Kinds
<1>15. ASSUME NEW c \in Commands, NEW d \in Dispatches, Replaces(c, d)
       PROVE  TypeOK'
  BY <1>15, OrchestrationAssumption DEF Replaces, TypeOK, ActiveWorkerStatuses, Kinds
<1>16. ASSUME NEW c \in Commands, NEW d \in Dispatches, Replies(c, d)
       PROVE  TypeOK'
  <2>1. d \in Dispatches /\ TaskOf(d) \in Tasks /\ WorkerOf(d) \in Workers
    BY <1>16 DEF Replies, Targets, OnDispatch, Rows
  <2>2. task' \in [Tasks -> TaskRow]
    <3>1. task' = [task EXCEPT ![TaskOf(d)] = [status |-> "active",
                      prompts |-> task[TaskOf(d)].prompts + 1]]
      BY <1>16 DEF Replies
    <3>2. task[TaskOf(d)].prompts < MaxRounds
      BY <1>16 DEF Replies
    <3> QED
      BY <1>a, <2>1, <3>1, <3>2, OrchestrationAssumption DEF TaskRow
  <2>3. dispatch' \in [Dispatches -> DispatchRow]
    <3>1. dispatch' = [dispatch EXCEPT ![d].status = "running"]
      BY <1>16 DEF Replies
    <3> QED
      BY <1>a, <2>1, <3>1, DispatchTable
  <2>4. worker' \in [Workers -> WorkerRow]
    <3>1. worker' = [worker EXCEPT ![WorkerOf(d)].status = "busy"]
      BY <1>16 DEF Replies
    <3> QED
      BY <1>a, <2>1, <3>1, WorkerTable DEF ActiveWorkerStatuses
  <2>5. DOMAIN command' = Commands
    <3>1. command' = [command EXCEPT ![c] = [at |-> "resume", on |-> d]]
      BY <1>16 DEF Replies
    <3> QED
      BY <2>1, <3>1 DEF TypeOK, ActiveWorkerStatuses, Kinds
  <2>6. raced' \subseteq raced \cup {"reply"} /\ task[TaskOf(d)].prompts < MaxRounds
    BY <1>16 DEF Replies
  <2>7. UNCHANGED <<message, relay, capability, turn, prompted, shared, misjudged>>
    BY <1>16 DEF Replies
  <2> QED
    BY <2>2, <2>3, <2>4, <2>5, <2>6, <2>7 DEF TypeOK, TaskRow, WorkerRow, DispatchRow
<1>17. ASSUME NEW c \in Commands, NEW d \in Dispatches, Cancels(c, d)
       PROVE  TypeOK'
  <2>1. d \in Dispatches /\ TaskOf(d) \in Tasks /\ WorkerOf(d) \in Workers
    BY <1>17 DEF Cancels, Targets, OnDispatch, Rows
  <2>2. task' \in [Tasks -> TaskRow]
    <3>1. task' = [task EXCEPT ![TaskOf(d)].status = "cancelled"]
      BY <1>17 DEF Cancels
    <3> QED
      BY <1>a, <2>1, <3>1, TaskTable
  <2>3. dispatch' \in [Dispatches -> DispatchRow]
    <3>1. dispatch' = [dispatch EXCEPT ![d].status = "cancelled", ![d].settled = TRUE]
      BY <1>17 DEF Cancels
    <3> QED
      BY <1>a, <2>1, <3>1, DispatchTable
  <2>4. worker' \in [Workers -> WorkerRow]
    <3>1. worker' = [worker EXCEPT ![WorkerOf(d)] = [status |-> "stopped", retained |-> FALSE]]
      BY <1>17 DEF Cancels
    <3> QED
      BY <1>a, <2>1, <3>1 DEF WorkerRow, ActiveWorkerStatuses
  <2>5. DOMAIN command' = Commands
    <3>1. command' = [command EXCEPT ![c] = [at |-> "none", on |-> 0]]
      BY <1>17 DEF Cancels
    <3> QED
      BY <2>1, <3>1 DEF TypeOK, ActiveWorkerStatuses, Kinds
  <2>6. UNCHANGED <<message, relay, capability, turn, prompted, shared, raced, misjudged>>
    BY <1>17 DEF Cancels
  <2> QED
    BY <2>2, <2>3, <2>4, <2>5, <2>6 DEF TypeOK, TaskRow, WorkerRow, DispatchRow
<1>18. ASSUME NEW c \in Commands, NEW d \in Dispatches, NEW k \in Kinds, Checks(c, d, k)
       PROVE  TypeOK'
  BY <1>18, OrchestrationAssumption DEF Checks, TypeOK, ActiveWorkerStatuses, Kinds
<1>19. ASSUME NEW c \in Commands, NEW d \in Dispatches, NEW at \in {"prompt", "doubt"},
                   Configures(c, d, at)
       PROVE  TypeOK'
  BY <1>19, OrchestrationAssumption DEF Configures, TypeOK, ActiveWorkerStatuses, Kinds
<1>20. ASSUME NEW c \in Commands, NEW d \in Dispatches, NEW at \in {"accept", "doubt", "none"},
                   NEW x \in {d, 0}, Misses(c, d, at, x)
       PROVE  TypeOK'
  BY <1>20, OrchestrationAssumption DEF Misses, TypeOK, ActiveWorkerStatuses, Kinds
<1>21. ASSUME NEW c \in Commands, NEW d \in Dispatches, NEW at \in {"accept", "doubt", "none"},
                   NEW x \in {d, 0}, Starts(c, d, at, x)
       PROVE  TypeOK'
  BY <1>21, OrchestrationAssumption DEF Starts, TypeOK, ActiveWorkerStatuses, Kinds, Targets,
     OnDispatch, Rows
<1>22. ASSUME NEW c \in Commands, NEW d \in Dispatches, NEW s \in {"accepted",
                   "outcome_unknown"}, NEW ws \in {"busy", "outcome_unknown"},
                   NEW at \in {"retain", "none"}, NEW x \in Workers \cup {0}, Marks(c, d, s, ws,
                   at, x)
       PROVE  TypeOK'
  <2>1. d \in Dispatches /\ TaskOf(d) \in Tasks /\ WorkerOf(d) \in Workers
    BY <1>22 DEF Marks, Targets, OnDispatch, Rows
  <2>2. dispatch' \in [Dispatches -> DispatchRow]
    <3>1. dispatch' = [dispatch EXCEPT ![d].status = s]
      BY <1>22 DEF Marks
    <3> QED
      BY <1>a, <2>1, <3>1, DispatchTable
  <2>3. worker' \in [Workers -> WorkerRow]
    <3>1. worker' = [worker EXCEPT ![WorkerOf(d)].status = ws]
      BY <1>22 DEF Marks
    <3> QED
      BY <1>a, <2>1, <3>1, WorkerTable DEF ActiveWorkerStatuses
  <2>4. DOMAIN command' = Commands
    <3>1. command' = [command EXCEPT ![c] = [at |-> at, on |-> x]]
      BY <1>22 DEF Marks
    <3> QED
      BY <2>1, <3>1 DEF TypeOK, ActiveWorkerStatuses, Kinds
  <2>5. UNCHANGED <<task, message, relay, capability, turn, prompted, shared, raced, misjudged>>
    BY <1>22 DEF Marks
  <2> QED
    BY <2>2, <2>3, <2>4, <2>5 DEF TypeOK, TaskRow, WorkerRow, DispatchRow
<1>23. ASSUME Free /\ UNCHANGED command
       PROVE  TypeOK'
  BY <1>23, OrchestrationAssumption DEF Free, TypeOK, ActiveWorkerStatuses, Kinds
<1>24. ASSUME NEW d \in Dispatches, Abandons(d)
       PROVE  TypeOK'
  <2>1. d \in Dispatches /\ TaskOf(d) \in Tasks /\ WorkerOf(d) \in Workers
    BY <1>24 DEF Abandons, Rows
  <2>2. task' \in [Tasks -> TaskRow]
    <3>1. task' = [task EXCEPT ![TaskOf(d)].status = "abandoned"]
      BY <1>24 DEF Abandons
    <3> QED
      BY <1>a, <2>1, <3>1, TaskTable
  <2>3. dispatch' \in [Dispatches -> DispatchRow]
    <3>1. dispatch' = [dispatch EXCEPT ![d].status = "abandoned"]
      BY <1>24 DEF Abandons
    <3> QED
      BY <1>a, <2>1, <3>1, DispatchTable
  <2>4. worker' \in [Workers -> WorkerRow]
    <3>1. worker' = [worker EXCEPT ![WorkerOf(d)] = [status |-> "retained", retained |-> TRUE]]
      BY <1>24 DEF Abandons
    <3> QED
      BY <1>a, <2>1, <3>1 DEF WorkerRow, ActiveWorkerStatuses
  <2>5. UNCHANGED <<message, relay, capability, turn, command, prompted, shared, raced, misjudged>>
    BY <1>24 DEF Abandons
  <2> QED
    BY <2>2, <2>3, <2>4, <2>5 DEF TypeOK, TaskRow, WorkerRow, DispatchRow
<1>25. ASSUME NEW d \in Dispatches, NEW k \in Kinds, Acknowledges(d, k)
       PROVE  TypeOK'
  BY <1>25, OrchestrationAssumption DEF Acknowledges, TypeOK, ActiveWorkerStatuses, Kinds
<1>26. ASSUME NEW w \in Workers, Retains(w)
       PROVE  TypeOK'
  BY <1>26, OrchestrationAssumption DEF Retains, TypeOK, ActiveWorkerStatuses, Kinds
<1>27. ASSUME NEW w \in Workers, Rests(w)
       PROVE  TypeOK'
  BY <1>27, OrchestrationAssumption DEF Rests, TypeOK, ActiveWorkerStatuses, Kinds
<1>28. ASSUME NEW w \in Workers, Orphans(w)
       PROVE  TypeOK'
  BY <1>28, OrchestrationAssumption DEF Orphans, TypeOK, ActiveWorkerStatuses, Kinds
<1>29. ASSUME NEW w \in Workers, Dies(w)
       PROVE  TypeOK'
  BY <1>29, OrchestrationAssumption DEF Dies, TypeOK, ActiveWorkerStatuses, Kinds
<1>30. ASSUME NEW w \in Workers, NEW d \in Dispatches, ReportsLate(w, d)
       PROVE  TypeOK'
  BY <1>30, OrchestrationAssumption DEF ReportsLate, TypeOK, ActiveWorkerStatuses, Kinds
<1>31. ASSUME NEW w \in Workers, NEW d \in Dispatches, Asks(w, d)
       PROVE  TypeOK'
  <2>1. d \in Dispatches /\ TaskOf(d) \in Tasks /\ WorkerOf(d) \in Workers
    BY <1>31 DEF Asks, Rows
  <2>2. task' \in [Tasks -> TaskRow]
    <3>1. task' = [task EXCEPT ![TaskOf(d)].status = "awaiting_coordinator"]
      BY <1>31 DEF Asks
    <3> QED
      BY <1>a, <2>1, <3>1, TaskTable
  <2>3. dispatch' \in [Dispatches -> DispatchRow]
    <3>1. dispatch' = [dispatch EXCEPT ![d].status = "awaiting_coordinator"]
      BY <1>31 DEF Asks
    <3> QED
      BY <1>a, <2>1, <3>1, DispatchTable
  <2>4. worker' \in [Workers -> WorkerRow]
    <3>1. worker' = [worker EXCEPT ![w].status = "idle"]
      BY <1>31 DEF Asks
    <3> QED
      BY <1>a, <2>1, <3>1, WorkerTable DEF ActiveWorkerStatuses
  <2>5. message' \in [Dispatches -> [Kinds -> {"none", "sent", "acknowledged"}]]
    <3>1. message' = [message EXCEPT ![d]["question"] = "sent"]
      BY <1>31 DEF Asks
    <3> QED
      BY <2>1, <3>1 DEF TypeOK, ActiveWorkerStatuses, Kinds
  <2>6. UNCHANGED <<relay, capability, turn, command, prompted, shared, raced, misjudged>>
    BY <1>31 DEF Asks
  <2> QED
    BY <2>2, <2>3, <2>4, <2>5, <2>6 DEF TypeOK, TaskRow, WorkerRow, DispatchRow
<1>32. ASSUME NEW w \in Workers, NEW d \in Dispatches, NEW s \in {"retained", "idle"},
                   Reports(w, d, s)
       PROVE  TypeOK'
  <2>1. TaskOf(d) \in Tasks
    BY <1>32 DEF Reports, TypeOK, Rows
  <2>2. task' \in [Tasks -> TaskRow]
    <3>1. task' = [task EXCEPT ![TaskOf(d)].status = "reported"]
      BY <1>32 DEF Reports
    <3> QED
      BY <1>a, <2>1, <3>1, TaskTable
  <2>3. dispatch' \in [Dispatches -> DispatchRow]
    <3>1. dispatch' = [dispatch EXCEPT ![d].status = "reported", ![d].settled = TRUE]
      BY <1>32 DEF Reports
    <3> QED
      BY <1>a, <3>1, DispatchTable
  <2>4. worker' \in [Workers -> WorkerRow]
    <3>1. worker' = [worker EXCEPT ![w].status = s]
      BY <1>32 DEF Reports
    <3> QED
      BY <1>a, <3>1, WorkerTable DEF ActiveWorkerStatuses
  <2>5. message' \in [Dispatches -> [Kinds -> {"none", "sent", "acknowledged"}]]
    <3>1. message' = [message EXCEPT ![d]["packet"] = "sent"]
      BY <1>32 DEF Reports
    <3> QED
      BY <3>1 DEF TypeOK, Kinds
  <2>6. UNCHANGED <<relay, capability, turn, command, prompted, shared, raced, misjudged>>
    BY <1>32 DEF Reports
  <2> QED
    BY <2>2, <2>3, <2>4, <2>5, <2>6 DEF TypeOK, TaskRow, WorkerRow, DispatchRow
<1> HIDE DEF Exists, WorkerOf, TaskOf, Up, Quiet, Begins, HasSession, Gone, Orphaned, Retained,
            SetTask, SetWorker, SetDispatch, At, On, Goes, Misjudges, Free
<1> QED
  BY <1>1, <1>2, <1>3, <1>4, <1>5, <1>6, <1>7, <1>8, <1>9, <1>10, <1>11, <1>12, <1>13, <1>14,
     <1>15, <1>16, <1>17, <1>18, <1>19, <1>20, <1>21, <1>22, <1>23, <1>24, <1>25, <1>26, <1>27,
     <1>28, <1>29, <1>30, <1>31, <1>32 DEF Moves, CommandMoves, OtherMoves

\* The moves keep a command's target there.
LEMMA TargetsStep ==
    ASSUME TypeOK, Targets, Rows, Moves
    PROVE  Targets'
<1> USE DEF Targets, OnWorker, OnDispatch, Exists, TaskOf, WorkerOf, Begins, SetTask, SetWorker,
        SetDispatch, At, On, Goes, Misjudges, Free
<1>1. ASSUME NEW c \in Commands, GivesUp(c)
      PROVE  Targets'
  BY <1>1 DEF GivesUp, TypeOK, Rows, Kinds
<1>2. ASSUME NEW c \in Commands, NEW w \in Workers, Reserves(c, w)
      PROVE  Targets'
  BY <1>2 DEF Reserves, TypeOK, Rows, Kinds
<1>3. ASSUME NEW c \in Commands, NEW w \in Workers, Launches(c, w)
      PROVE  Targets'
  BY <1>3 DEF Launches, TypeOK, Rows, Kinds
<1>4. ASSUME NEW c \in Commands, NEW w \in Workers,
             NEW s \in {"ready", "stopped", "outcome_unknown"}, LaunchDoubted(c, w, s)
      PROVE  Targets'
  BY <1>4 DEF LaunchDoubted, TypeOK, Rows, Kinds
<1>5. ASSUME NEW c \in Commands, NEW w \in Workers, Loses(c, w)
      PROVE  Targets'
  BY <1>5 DEF Loses, TypeOK, Rows, Kinds
<1>6. ASSUME NEW c \in Commands, NEW w \in Workers, HandsOff(c, w)
      PROVE  Targets'
  BY <1>6 DEF HandsOff, TypeOK, Rows, Kinds
<1>7. ASSUME NEW c \in Commands, NEW w \in Workers, Stops(c, w)
      PROVE  Targets'
  BY SMTT(60), <1>7 DEF Stops, TypeOK, Rows, Kinds
<1>8. ASSUME NEW c \in Commands, NEW w \in Workers, NEW at \in OnWorker, Looks(c, w, at)
      PROVE  Targets'
  <2>1. command' = [command EXCEPT ![c] = [at |-> at, on |-> w]]
    BY <1>8 DEF Looks
  <2>2. UNCHANGED <<dispatch, message>>
    BY <1>8 DEF Looks
  <2>3. w \in Workers /\ at \in OnWorker
    BY <1>8, NotZero DEF Looks, Rows, Targets, HasSession
  <2> QED
    BY <2>1, <2>2, <2>3 DEF TypeOK
<1>9. ASSUME NEW c \in Commands, NEW w \in Workers, NEW s \in {"ready", "stopped",
                  "outcome_unknown"}, LaunchFails(c, w, s)
      PROVE  Targets'
  BY <1>9 DEF LaunchFails, TypeOK, Rows, Kinds
<1>10. ASSUME NEW c \in Commands, NEW w \in Workers, NEW s \in {"ready", "stopped",
                   "outcome_unknown"}, Judges(c, w, s)
       PROVE  Targets'
  BY <1>10 DEF Judges, TypeOK, Rows, Kinds
<1>11. ASSUME NEW c \in Commands, NEW w \in Workers, NEW at \in {"stop", "cancel", "none"},
                   NEW x \in Workers \cup Dispatches \cup {0}, Closes(c, w, at, x)
       PROVE  Targets'
  <2>1. command' = [command EXCEPT ![c] = [at |-> at, on |-> x]]
    BY <1>11 DEF Closes
  <2>2. UNCHANGED <<dispatch, message>>
    BY <1>11 DEF Closes
  <2>3. at = "none" \/ (at = "stop" /\ x \in Workers) \/ (at = "cancel" /\ x \in Dispatches
            /\ Exists(x))
    BY <1>11, NotZero DEF Closes, Rows, Targets, HasSession
  <2> QED
    BY <2>1, <2>2, <2>3 DEF TypeOK
<1>12. ASSUME NEW c \in Commands, NEW w \in Workers, NEW t \in Tasks, NEW d \in Dispatches,
                   Creates(c, t, w, d)
       PROVE  Targets'
  BY <1>12 DEF Creates, TypeOK, Rows, Kinds
<1>13. ASSUME NEW c \in Commands, NEW d \in Dispatches, CancelFinds(c, d)
       PROVE  Targets'
  BY <1>13 DEF CancelFinds, TypeOK, Rows, Kinds
<1>14. ASSUME NEW c \in Commands, NEW d \in Dispatches, Asked(c, d)
       PROVE  Targets'
  BY <1>14 DEF Asked, TypeOK, Rows, Kinds
<1>15. ASSUME NEW c \in Commands, NEW d \in Dispatches, Replaces(c, d)
       PROVE  Targets'
  BY <1>15 DEF Replaces, TypeOK, Rows, Kinds
<1>16. ASSUME NEW c \in Commands, NEW d \in Dispatches, Replies(c, d)
       PROVE  Targets'
  BY <1>16 DEF Replies, TypeOK, Rows, Kinds
<1>17. ASSUME NEW c \in Commands, NEW d \in Dispatches, Cancels(c, d)
       PROVE  Targets'
  BY <1>17 DEF Cancels, TypeOK, Rows, Kinds
<1>18. ASSUME NEW c \in Commands, NEW d \in Dispatches, NEW k \in Kinds, Checks(c, d, k)
       PROVE  Targets'
  BY <1>18 DEF Checks, TypeOK, Rows, Kinds
<1>19. ASSUME NEW c \in Commands, NEW d \in Dispatches, NEW at \in {"prompt", "doubt"},
                   Configures(c, d, at)
       PROVE  Targets'
  <2>1. command' = [command EXCEPT ![c] = [at |-> at, on |-> d]]
    BY <1>19 DEF Configures
  <2>2. UNCHANGED <<dispatch, message>>
    BY <1>19 DEF Configures
  <2>3. (at \in OnDispatch /\ d \in Dispatches /\ Exists(d)) \/ at = "none"
    BY <1>19, NotZero DEF Configures, Rows, Targets, HasSession
  <2> QED
    BY <2>1, <2>2, <2>3 DEF TypeOK
<1>20. ASSUME NEW c \in Commands, NEW d \in Dispatches, NEW at \in {"accept", "doubt", "none"},
                   NEW x \in {d, 0}, Misses(c, d, at, x)
       PROVE  Targets'
  <2>1. command' = [command EXCEPT ![c] = [at |-> at, on |-> x]]
    BY <1>20 DEF Misses
  <2>2. UNCHANGED <<dispatch, message>>
    BY <1>20 DEF Misses
  <2>3. (at \in OnDispatch /\ x \in Dispatches /\ Exists(x)) \/ at = "none"
    BY <1>20, NotZero DEF Misses, Rows, Targets, HasSession
  <2> QED
    BY <2>1, <2>2, <2>3 DEF TypeOK
<1>21. ASSUME NEW c \in Commands, NEW d \in Dispatches, NEW at \in {"accept", "doubt", "none"},
                   NEW x \in {d, 0}, Starts(c, d, at, x)
       PROVE  Targets'
  <2>1. command' = [command EXCEPT ![c] = [at |-> at, on |-> x]]
    BY <1>21 DEF Starts
  <2>2. UNCHANGED <<dispatch, message>>
    BY <1>21 DEF Starts
  <2>3. (at \in OnDispatch /\ x \in Dispatches /\ Exists(x)) \/ at = "none"
    BY <1>21, NotZero DEF Starts, Rows, Targets, HasSession
  <2> QED
    BY <2>1, <2>2, <2>3 DEF TypeOK
<1>22. ASSUME NEW c \in Commands, NEW d \in Dispatches, NEW s \in {"accepted",
                   "outcome_unknown"}, NEW ws \in {"busy", "outcome_unknown"},
                   NEW at \in {"retain", "none"}, NEW x \in Workers \cup {0}, Marks(c, d, s, ws,
                   at, x)
       PROVE  Targets'
  <2>1. /\ command' = [command EXCEPT ![c] = [at |-> at, on |-> x]]
        /\ dispatch' = [dispatch EXCEPT ![d].status = s] /\ UNCHANGED message
    BY <1>22 DEF Marks
  <2>2. /\ d \in Dispatches /\ Exists(d) /\ s # "none"
        /\ (at = "retain" /\ x \in Workers) \/ at = "none"
    BY <1>22 DEF Marks, Rows
  <2>3. \A e \in Dispatches : Exists(e)' <=> Exists(e)
    BY <2>1, <2>2 DEF TypeOK
  <2> HIDE DEF Exists
  <2> QED
    BY <2>1, <2>2, <2>3 DEF TypeOK
<1>23. ASSUME Free /\ UNCHANGED command
       PROVE  Targets'
  BY <1>23 DEF Free, TypeOK, Rows, Kinds
<1>24. ASSUME NEW d \in Dispatches, Abandons(d)
       PROVE  Targets'
  BY <1>24 DEF Abandons, TypeOK, Rows, Kinds
<1>25. ASSUME NEW d \in Dispatches, NEW k \in Kinds, Acknowledges(d, k)
       PROVE  Targets'
  BY <1>25 DEF Acknowledges, TypeOK, Rows, Kinds
<1>26. ASSUME NEW w \in Workers, Retains(w)
       PROVE  Targets'
  BY <1>26 DEF Retains, TypeOK, Rows, Kinds
<1>27. ASSUME NEW w \in Workers, Rests(w)
       PROVE  Targets'
  BY <1>27 DEF Rests, TypeOK, Rows, Kinds
<1>28. ASSUME NEW w \in Workers, Orphans(w)
       PROVE  Targets'
  BY <1>28 DEF Orphans, TypeOK, Rows, Kinds
<1>29. ASSUME NEW w \in Workers, Dies(w)
       PROVE  Targets'
  BY <1>29 DEF Dies, TypeOK, Rows, Kinds
<1>30. ASSUME NEW w \in Workers, NEW d \in Dispatches, ReportsLate(w, d)
       PROVE  Targets'
  <2>1. message' = [message EXCEPT ![d]["packet"] = "sent"] /\ UNCHANGED command
    BY <1>30 DEF ReportsLate
  <2>2. \A e \in Dispatches, k \in Kinds : message[e][k] # "none" => message'[e][k] # "none"
    BY <2>1 DEF TypeOK, Kinds
  <2>3. \A e \in Dispatches : dispatch[e].status # "none" => dispatch'[e].status # "none"
    BY <1>30 DEF ReportsLate, TypeOK
  <2> QED
    BY <2>1, <2>2, <2>3
<1>31. ASSUME NEW w \in Workers, NEW d \in Dispatches, Asks(w, d)
       PROVE  Targets'
  <2>1. message' = [message EXCEPT ![d]["question"] = "sent"] /\ UNCHANGED command
    BY <1>31 DEF Asks
  <2>2. \A e \in Dispatches, k \in Kinds : message[e][k] # "none" => message'[e][k] # "none"
    BY <2>1 DEF TypeOK, Kinds
  <2>3. \A e \in Dispatches : dispatch[e].status # "none" => dispatch'[e].status # "none"
    BY <1>31 DEF Asks, TypeOK
  <2> QED
    BY <2>1, <2>2, <2>3
<1>32. ASSUME NEW w \in Workers, NEW d \in Dispatches, NEW s \in {"retained", "idle"},
                   Reports(w, d, s)
       PROVE  Targets'
  BY <1>32 DEF Reports, TypeOK, Rows, Kinds
<1> HIDE DEF Targets, OnWorker, OnDispatch, Exists, TaskOf, WorkerOf, Begins, SetTask,
            SetWorker, SetDispatch, At, On, Goes, Misjudges, Free
<1> QED
  BY <1>1, <1>2, <1>3, <1>4, <1>5, <1>6, <1>7, <1>8, <1>9, <1>10, <1>11, <1>12, <1>13, <1>14,
     <1>15, <1>16, <1>17, <1>18, <1>19, <1>20, <1>21, <1>22, <1>23, <1>24, <1>25, <1>26, <1>27,
     <1>28, <1>29, <1>30, <1>31, <1>32 DEF Moves, CommandMoves, OtherMoves

\* The moves keep the rows of the workers in line with their sessions.
LEMMA SessionsStep ==
    ASSUME TypeOK, Targets, Rows, Sessions, Errands, Moves
    PROVE  Sessions'
<1> USE DEF Sessions, Exists, WorkerOf, TaskOf, Up, Quiet, Begins, HasSession, Gone, Orphaned,
        Retained, SetTask, SetWorker, SetDispatch, At, On, Goes, Misjudges, Free
<1>1. ASSUME NEW c \in Commands, GivesUp(c)
      PROVE  Sessions'
  BY <1>1 DEF GivesUp, TypeOK, Errands, Rows, Targets, OnWorker, OnDispatch
<1>2. ASSUME NEW c \in Commands, NEW w \in Workers, Reserves(c, w)
      PROVE  Sessions'
  BY <1>2 DEF Reserves, TypeOK, Errands, Rows, Targets, OnWorker, OnDispatch
<1>3. ASSUME NEW c \in Commands, NEW w \in Workers, Launches(c, w)
      PROVE  Sessions'
  BY <1>3 DEF Launches, TypeOK, Errands, Rows, Targets, OnWorker, OnDispatch
<1>4. ASSUME NEW c \in Commands, NEW w \in Workers,
             NEW s \in {"ready", "stopped", "outcome_unknown"}, LaunchDoubted(c, w, s)
      PROVE  Sessions'
  BY <1>4 DEF LaunchDoubted, TypeOK, Errands, Rows, Targets, OnWorker, OnDispatch
<1>5. ASSUME NEW c \in Commands, NEW w \in Workers, Loses(c, w)
      PROVE  Sessions'
  BY <1>5 DEF Loses, TypeOK, Errands, Rows, Targets, OnWorker, OnDispatch
<1>6. ASSUME NEW c \in Commands, NEW w \in Workers, HandsOff(c, w)
      PROVE  Sessions'
  BY <1>6 DEF HandsOff, TypeOK, Errands, Rows, Targets, OnWorker, OnDispatch
<1>7. ASSUME NEW c \in Commands, NEW w \in Workers, Stops(c, w)
      PROVE  Sessions'
  BY <1>7 DEF Stops, TypeOK, Errands, Rows, Targets, OnWorker, OnDispatch
<1>8. ASSUME NEW c \in Commands, NEW w \in Workers, NEW at \in OnWorker, Looks(c, w, at)
      PROVE  Sessions'
  BY <1>8 DEF Looks, TypeOK, Errands, Rows, Targets, OnWorker, OnDispatch
<1>9. ASSUME NEW c \in Commands, NEW w \in Workers, NEW s \in {"ready", "stopped",
                  "outcome_unknown"}, LaunchFails(c, w, s)
      PROVE  Sessions'
  BY <1>9 DEF LaunchFails, TypeOK, Errands, Rows, Targets, OnWorker, OnDispatch
<1>10. ASSUME NEW c \in Commands, NEW w \in Workers, NEW s \in {"ready", "stopped",
                   "outcome_unknown"}, Judges(c, w, s)
       PROVE  Sessions'
  BY <1>10 DEF Judges, TypeOK, Errands, Rows, Targets, OnWorker, OnDispatch
<1>11. ASSUME NEW c \in Commands, NEW w \in Workers, NEW at \in {"stop", "cancel", "none"},
                   NEW x \in Workers \cup Dispatches \cup {0}, Closes(c, w, at, x)
       PROVE  Sessions'
  BY <1>11 DEF Closes, TypeOK, Errands, Rows, Targets, OnWorker, OnDispatch
<1>12. ASSUME NEW c \in Commands, NEW w \in Workers, NEW t \in Tasks, NEW d \in Dispatches,
                   Creates(c, t, w, d)
       PROVE  Sessions'
  <2>1. /\ dispatch' = [dispatch EXCEPT ![d] =
                       [task |-> t, worker |-> w, status |-> "queued", settled |-> FALSE]]
        /\ UNCHANGED <<worker, relay, turn, capability, raced, misjudged>>
        /\ ~Exists(d) /\ worker[w].status \in {"ready", "idle"}
    BY <1>12 DEF Creates
  <2>2. relay[w] # "none"
    BY <2>1
  <2>3. \A e \in Dispatches : e # d => dispatch'[e] = dispatch[e]
    BY <2>1 DEF TypeOK
  <2>4. dispatch'[d].worker = w /\ dispatch'[d].status = "queued"
    BY <2>1 DEF TypeOK
  <2>5. \A v \in Workers : turn[v] # 0 => Exists(turn[v])' /\ (WorkerOf(turn[v]) = v)'
    BY <2>1, <2>3 DEF TypeOK
  <2> QED
    BY <2>1, <2>2, <2>3, <2>4, <2>5
<1>13. ASSUME NEW c \in Commands, NEW d \in Dispatches, CancelFinds(c, d)
       PROVE  Sessions'
  BY <1>13 DEF CancelFinds, TypeOK, Errands, Rows, Targets, OnWorker, OnDispatch
<1>14. ASSUME NEW c \in Commands, NEW d \in Dispatches, Asked(c, d)
       PROVE  Sessions'
  BY <1>14 DEF Asked, TypeOK, Errands, Rows, Targets, OnWorker, OnDispatch
<1>15. ASSUME NEW c \in Commands, NEW d \in Dispatches, Replaces(c, d)
       PROVE  Sessions'
  BY <1>15 DEF Replaces, TypeOK, Errands, Rows, Targets, OnWorker, OnDispatch
<1>16. ASSUME NEW c \in Commands, NEW d \in Dispatches, Replies(c, d)
       PROVE  Sessions'
  BY <1>16 DEF Replies, TypeOK, Errands, Rows, Targets, OnWorker, OnDispatch
<1>17. ASSUME NEW c \in Commands, NEW d \in Dispatches, Cancels(c, d)
       PROVE  Sessions'
  BY <1>17 DEF Cancels, TypeOK, Errands, Rows, Targets, OnWorker, OnDispatch
<1>18. ASSUME NEW c \in Commands, NEW d \in Dispatches, NEW k \in Kinds, Checks(c, d, k)
       PROVE  Sessions'
  BY <1>18 DEF Checks, TypeOK, Errands, Rows, Targets, OnWorker, OnDispatch
<1>19. ASSUME NEW c \in Commands, NEW d \in Dispatches, NEW at \in {"prompt", "doubt"},
                   Configures(c, d, at)
       PROVE  Sessions'
  BY <1>19 DEF Configures, TypeOK, Errands, Rows, Targets, OnWorker, OnDispatch
<1>20. ASSUME NEW c \in Commands, NEW d \in Dispatches, NEW at \in {"accept", "doubt", "none"},
                   NEW x \in {d, 0}, Misses(c, d, at, x)
       PROVE  Sessions'
  BY <1>20 DEF Misses, TypeOK, Errands, Rows, Targets, OnWorker, OnDispatch
<1>21. ASSUME NEW c \in Commands, NEW d \in Dispatches, NEW at \in {"accept", "doubt", "none"},
                   NEW x \in {d, 0}, Starts(c, d, at, x)
       PROVE  Sessions'
  BY <1>21 DEF Starts, TypeOK, Errands, Rows, Targets, OnWorker, OnDispatch
<1>22. ASSUME NEW c \in Commands, NEW d \in Dispatches, NEW s \in {"accepted",
                   "outcome_unknown"}, NEW ws \in {"busy", "outcome_unknown"},
                   NEW at \in {"retain", "none"}, NEW x \in Workers \cup {0}, Marks(c, d, s, ws,
                   at, x)
       PROVE  Sessions'
  BY <1>22 DEF Marks, TypeOK, Errands, Rows, Targets, OnWorker, OnDispatch
<1>23. ASSUME Free /\ UNCHANGED command
       PROVE  Sessions'
  BY <1>23 DEF Free, TypeOK, Errands, Rows, Targets, OnWorker, OnDispatch
<1>24. ASSUME NEW d \in Dispatches, Abandons(d)
       PROVE  Sessions'
  BY <1>24 DEF Abandons, TypeOK, Errands, Rows, Targets, OnWorker, OnDispatch
<1>25. ASSUME NEW d \in Dispatches, NEW k \in Kinds, Acknowledges(d, k)
       PROVE  Sessions'
  BY <1>25 DEF Acknowledges, TypeOK, Errands, Rows, Targets, OnWorker, OnDispatch
<1>26. ASSUME NEW w \in Workers, Retains(w)
       PROVE  Sessions'
  BY <1>26 DEF Retains, TypeOK, Errands, Rows, Targets, OnWorker, OnDispatch
<1>27. ASSUME NEW w \in Workers, Rests(w)
       PROVE  Sessions'
  BY <1>27 DEF Rests, TypeOK, Errands, Rows, Targets, OnWorker, OnDispatch
<1>28. ASSUME NEW w \in Workers, Orphans(w)
       PROVE  Sessions'
  BY <1>28 DEF Orphans, TypeOK, Errands, Rows, Targets, OnWorker, OnDispatch
<1>29. ASSUME NEW w \in Workers, Dies(w)
       PROVE  Sessions'
  BY <1>29 DEF Dies, TypeOK, Errands, Rows, Targets, OnWorker, OnDispatch
<1>30. ASSUME NEW w \in Workers, NEW d \in Dispatches, ReportsLate(w, d)
       PROVE  Sessions'
  BY <1>30 DEF ReportsLate, TypeOK, Errands, Rows, Targets, OnWorker, OnDispatch
<1>31. ASSUME NEW w \in Workers, NEW d \in Dispatches, Asks(w, d)
       PROVE  Sessions'
  BY <1>31, NotZero DEF Asks, TypeOK, Rows
<1>32. ASSUME NEW w \in Workers, NEW d \in Dispatches, NEW s \in {"retained", "idle"},
                   Reports(w, d, s)
       PROVE  Sessions'
  BY SMTT(60), <1>32 DEF Reports, TypeOK, Errands, Rows, Targets, OnWorker, OnDispatch
<1> HIDE DEF Sessions, Exists, WorkerOf, TaskOf, Up, Quiet, Begins, HasSession, Gone, Orphaned,
            Retained, SetTask, SetWorker, SetDispatch, At, On, Goes, Misjudges, Free
<1> QED
  BY <1>1, <1>2, <1>3, <1>4, <1>5, <1>6, <1>7, <1>8, <1>9, <1>10, <1>11, <1>12, <1>13, <1>14,
     <1>15, <1>16, <1>17, <1>18, <1>19, <1>20, <1>21, <1>22, <1>23, <1>24, <1>25, <1>26, <1>27,
     <1>28, <1>29, <1>30, <1>31, <1>32 DEF Moves, CommandMoves, OtherMoves

\* The moves keep what a command on a worker relies on.
LEMMA ErrandsStep ==
    ASSUME TypeOK, Targets, Rows, Sessions, Errands, Moves
    PROVE  Errands'
<1> USE DEF Errands, OnWorker, Exists, WorkerOf, TaskOf, HasSession, Gone, Orphaned, Retained,
        Begins, Up, SetTask, SetWorker, SetDispatch, At, On, Goes, Misjudges, Free
<1>1. ASSUME NEW c \in Commands, GivesUp(c)
      PROVE  Errands'
  BY <1>1 DEF GivesUp, TypeOK, Sessions, Rows, Targets, OnDispatch, ActiveWorkerStatuses
<1>2. ASSUME NEW c \in Commands, NEW w \in Workers, Reserves(c, w)
      PROVE  Errands'
  BY <1>2 DEF Reserves, TypeOK, Sessions, Rows, Targets, OnDispatch, ActiveWorkerStatuses
<1>3. ASSUME NEW c \in Commands, NEW w \in Workers, Launches(c, w)
      PROVE  Errands'
  BY <1>3 DEF Launches, TypeOK, Sessions, Rows, Targets, OnDispatch, ActiveWorkerStatuses
<1>4. ASSUME NEW c \in Commands, NEW w \in Workers,
             NEW s \in {"ready", "stopped", "outcome_unknown"}, LaunchDoubted(c, w, s)
      PROVE  Errands'
  BY <1>4 DEF LaunchDoubted, TypeOK, Sessions, Rows, Targets, OnDispatch, ActiveWorkerStatuses
<1>5. ASSUME NEW c \in Commands, NEW w \in Workers, Loses(c, w)
      PROVE  Errands'
  BY <1>5 DEF Loses, TypeOK, Sessions, Rows, Targets, OnDispatch, ActiveWorkerStatuses
<1>6. ASSUME NEW c \in Commands, NEW w \in Workers, HandsOff(c, w)
      PROVE  Errands'
  BY <1>6 DEF HandsOff, TypeOK, Sessions, Rows, Targets, OnDispatch, ActiveWorkerStatuses
<1>7. ASSUME NEW c \in Commands, NEW w \in Workers, Stops(c, w)
      PROVE  Errands'
  BY <1>7 DEF Stops, TypeOK, Sessions, Rows, Targets, OnDispatch, ActiveWorkerStatuses
<1>8. ASSUME NEW c \in Commands, NEW w \in Workers, NEW at \in OnWorker, Looks(c, w, at)
      PROVE  Errands'
  BY <1>8 DEF Looks, TypeOK, Sessions, Rows, Targets, OnDispatch, ActiveWorkerStatuses
<1>9. ASSUME NEW c \in Commands, NEW w \in Workers, NEW s \in {"ready", "stopped",
                  "outcome_unknown"}, LaunchFails(c, w, s)
      PROVE  Errands'
  BY <1>9 DEF LaunchFails, TypeOK, Sessions, Rows, Targets, OnDispatch, ActiveWorkerStatuses
<1>10. ASSUME NEW c \in Commands, NEW w \in Workers, NEW s \in {"ready", "stopped",
                   "outcome_unknown"}, Judges(c, w, s)
       PROVE  Errands'
  BY <1>10 DEF Judges, TypeOK, Sessions, Rows, Targets, OnDispatch, ActiveWorkerStatuses
<1>11. ASSUME NEW c \in Commands, NEW w \in Workers, NEW at \in {"stop", "cancel", "none"},
                   NEW x \in Workers \cup Dispatches \cup {0}, Closes(c, w, at, x)
       PROVE  Errands'
  BY <1>11 DEF Closes, TypeOK, Sessions, Rows, Targets, OnDispatch, ActiveWorkerStatuses
<1>12. ASSUME NEW c \in Commands, NEW w \in Workers, NEW t \in Tasks, NEW d \in Dispatches,
                   Creates(c, t, w, d)
       PROVE  Errands'
  BY <1>12 DEF Creates, TypeOK, Sessions, Rows, Targets, OnDispatch, ActiveWorkerStatuses
<1>13. ASSUME NEW c \in Commands, NEW d \in Dispatches, CancelFinds(c, d)
       PROVE  Errands'
  BY <1>13 DEF CancelFinds, TypeOK, Sessions, Rows, Targets, OnDispatch, ActiveWorkerStatuses
<1>14. ASSUME NEW c \in Commands, NEW d \in Dispatches, Asked(c, d)
       PROVE  Errands'
  BY <1>14 DEF Asked, TypeOK, Sessions, Rows, Targets, OnDispatch, ActiveWorkerStatuses
<1>15. ASSUME NEW c \in Commands, NEW d \in Dispatches, Replaces(c, d)
       PROVE  Errands'
  BY <1>15 DEF Replaces, TypeOK, Sessions, Rows, Targets, OnDispatch, ActiveWorkerStatuses
<1>16. ASSUME NEW c \in Commands, NEW d \in Dispatches, Replies(c, d)
       PROVE  Errands'
  BY <1>16 DEF Replies, TypeOK, Sessions, Rows, Targets, OnDispatch, ActiveWorkerStatuses
<1>17. ASSUME NEW c \in Commands, NEW d \in Dispatches, Cancels(c, d)
       PROVE  Errands'
  BY <1>17 DEF Cancels, TypeOK, Sessions, Rows, Targets, OnDispatch, ActiveWorkerStatuses
<1>18. ASSUME NEW c \in Commands, NEW d \in Dispatches, NEW k \in Kinds, Checks(c, d, k)
       PROVE  Errands'
  BY <1>18 DEF Checks, TypeOK, Sessions, Rows, Targets, OnDispatch, ActiveWorkerStatuses
<1>19. ASSUME NEW c \in Commands, NEW d \in Dispatches, NEW at \in {"prompt", "doubt"},
                   Configures(c, d, at)
       PROVE  Errands'
  BY <1>19 DEF Configures, TypeOK, Sessions, Rows, Targets, OnDispatch, ActiveWorkerStatuses
<1>20. ASSUME NEW c \in Commands, NEW d \in Dispatches, NEW at \in {"accept", "doubt", "none"},
                   NEW x \in {d, 0}, Misses(c, d, at, x)
       PROVE  Errands'
  BY <1>20 DEF Misses, TypeOK, Sessions, Rows, Targets, OnDispatch, ActiveWorkerStatuses
<1>21. ASSUME NEW c \in Commands, NEW d \in Dispatches, NEW at \in {"accept", "doubt", "none"},
                   NEW x \in {d, 0}, Starts(c, d, at, x)
       PROVE  Errands'
  BY <1>21 DEF Starts, TypeOK, Sessions, Rows, Targets, OnDispatch, ActiveWorkerStatuses
<1>22. ASSUME NEW c \in Commands, NEW d \in Dispatches, NEW s \in {"accepted",
                   "outcome_unknown"}, NEW ws \in {"busy", "outcome_unknown"},
                   NEW at \in {"retain", "none"}, NEW x \in Workers \cup {0}, Marks(c, d, s, ws,
                   at, x)
       PROVE  Errands'
  BY <1>22 DEF Marks, TypeOK, Sessions, Rows, Targets, OnDispatch, ActiveWorkerStatuses
<1>23. ASSUME Free /\ UNCHANGED command
       PROVE  Errands'
  BY <1>23 DEF Free, TypeOK, Sessions, Rows, Targets, OnDispatch, ActiveWorkerStatuses
<1>24. ASSUME NEW d \in Dispatches, Abandons(d)
       PROVE  Errands'
  BY <1>24 DEF Abandons, TypeOK, Sessions, Rows, Targets, OnDispatch, ActiveWorkerStatuses
<1>25. ASSUME NEW d \in Dispatches, NEW k \in Kinds, Acknowledges(d, k)
       PROVE  Errands'
  BY <1>25 DEF Acknowledges, TypeOK, Sessions, Rows, Targets, OnDispatch, ActiveWorkerStatuses
<1>26. ASSUME NEW w \in Workers, Retains(w)
       PROVE  Errands'
  BY <1>26 DEF Retains, TypeOK, Sessions, Rows, Targets, OnDispatch, ActiveWorkerStatuses
<1>27. ASSUME NEW w \in Workers, Rests(w)
       PROVE  Errands'
  BY <1>27 DEF Rests, TypeOK, Sessions, Rows, Targets, OnDispatch, ActiveWorkerStatuses
<1>28. ASSUME NEW w \in Workers, Orphans(w)
       PROVE  Errands'
  BY <1>28 DEF Orphans, TypeOK, Sessions, Rows, Targets, OnDispatch, ActiveWorkerStatuses
<1>29. ASSUME NEW w \in Workers, Dies(w)
       PROVE  Errands'
  BY <1>29 DEF Dies, TypeOK, Sessions, Rows, Targets, OnDispatch, ActiveWorkerStatuses
<1>30. ASSUME NEW w \in Workers, NEW d \in Dispatches, ReportsLate(w, d)
       PROVE  Errands'
  BY <1>30 DEF ReportsLate, TypeOK, Sessions, Rows, Targets, OnDispatch, ActiveWorkerStatuses
<1>31. ASSUME NEW w \in Workers, NEW d \in Dispatches, Asks(w, d)
       PROVE  Errands'
  BY <1>31, NotZero DEF Asks, TypeOK, Sessions, Rows, Targets, OnDispatch
<1>32. ASSUME NEW w \in Workers, NEW d \in Dispatches, NEW s \in {"retained", "idle"},
                   Reports(w, d, s)
       PROVE  Errands'
  BY SMTT(60), <1>32 DEF Reports, TypeOK, Sessions, Rows, Targets, OnDispatch, ActiveWorkerStatuses
<1> HIDE DEF Errands, OnWorker, Exists, WorkerOf, TaskOf, HasSession, Gone, Orphaned, Retained,
            Begins, Up, SetTask, SetWorker, SetDispatch, At, On, Goes, Misjudges, Free
<1> QED
  BY <1>1, <1>2, <1>3, <1>4, <1>5, <1>6, <1>7, <1>8, <1>9, <1>10, <1>11, <1>12, <1>13, <1>14,
     <1>15, <1>16, <1>17, <1>18, <1>19, <1>20, <1>21, <1>22, <1>23, <1>24, <1>25, <1>26, <1>27,
     <1>28, <1>29, <1>30, <1>31, <1>32 DEF Moves, CommandMoves, OtherMoves

\* The moves keep the rows of the dispatches in order.
LEMMA RowsStep ==
    ASSUME TypeOK, Targets, Rows, Sessions, Moves
    PROVE  Rows'
<1> USE DEF Rows, Exists, WorkerOf, TaskOf, Begins, Gone, Orphaned, Retained, SetTask,
        SetWorker, SetDispatch, At, On, Goes, Misjudges, Free
<1>1. ASSUME NEW c \in Commands, GivesUp(c)
      PROVE  Rows'
  BY <1>1 DEF GivesUp, TypeOK
<1>2. ASSUME NEW c \in Commands, NEW w \in Workers, Reserves(c, w)
      PROVE  Rows'
  BY <1>2 DEF Reserves, TypeOK
<1>3. ASSUME NEW c \in Commands, NEW w \in Workers, Launches(c, w)
      PROVE  Rows'
  BY <1>3 DEF Launches, TypeOK
<1>4. ASSUME NEW c \in Commands, NEW w \in Workers,
             NEW s \in {"ready", "stopped", "outcome_unknown"}, LaunchDoubted(c, w, s)
      PROVE  Rows'
  BY <1>4 DEF LaunchDoubted, TypeOK
<1>5. ASSUME NEW c \in Commands, NEW w \in Workers, Loses(c, w)
      PROVE  Rows'
  BY <1>5 DEF Loses, TypeOK
<1>6. ASSUME NEW c \in Commands, NEW w \in Workers, HandsOff(c, w)
      PROVE  Rows'
  BY <1>6 DEF HandsOff, TypeOK
<1>7. ASSUME NEW c \in Commands, NEW w \in Workers, Stops(c, w)
      PROVE  Rows'
  BY <1>7 DEF Stops, TypeOK
<1>8. ASSUME NEW c \in Commands, NEW w \in Workers, NEW at \in OnWorker, Looks(c, w, at)
      PROVE  Rows'
  BY <1>8 DEF Looks, TypeOK
<1>9. ASSUME NEW c \in Commands, NEW w \in Workers, NEW s \in {"ready", "stopped",
                  "outcome_unknown"}, LaunchFails(c, w, s)
      PROVE  Rows'
  BY <1>9 DEF LaunchFails, TypeOK
<1>10. ASSUME NEW c \in Commands, NEW w \in Workers, NEW s \in {"ready", "stopped",
                   "outcome_unknown"}, Judges(c, w, s)
       PROVE  Rows'
  BY <1>10 DEF Judges, TypeOK
<1>11. ASSUME NEW c \in Commands, NEW w \in Workers, NEW at \in {"stop", "cancel", "none"},
                   NEW x \in Workers \cup Dispatches \cup {0}, Closes(c, w, at, x)
       PROVE  Rows'
  BY <1>11 DEF Closes, TypeOK
<1>12. ASSUME NEW c \in Commands, NEW w \in Workers, NEW t \in Tasks, NEW d \in Dispatches,
                   Creates(c, t, w, d)
       PROVE  Rows'
  <2>1. /\ dispatch' = [dispatch EXCEPT ![d] =
                       [task |-> t, worker |-> w, status |-> "queued", settled |-> FALSE]]
        /\ ~Exists(d)
    BY <1>12 DEF Creates
  <2>2. \A e \in Dispatches : e # d => dispatch'[e] = dispatch[e]
    BY <2>1 DEF TypeOK
  <2>3. /\ dispatch'[d].worker = w /\ dispatch'[d].status = "queued" /\ dispatch'[d].task = t
        /\ dispatch'[d].settled = FALSE
    BY <2>1 DEF TypeOK
  <2>4. /\ \A e \in Dispatches : e < d => Exists(e)
        /\ \A e \in Dispatches : Exists(e) /\ TaskOf(e) = t => dispatch[e].settled
        /\ shared \subseteq shared'
        /\ w \notin shared' => \A e \in Dispatches : Exists(e) /\ WorkerOf(e) = w
               => dispatch[e].settled
        /\ task' = [task EXCEPT ![t] = [status |-> "active", prompts |-> task[t].prompts + 1]]
        /\ UNCHANGED <<message, prompted>>
    BY <1>12 DEF Creates
  <2>5. \A e, f \in Dispatches : Exists(e)' /\ Exists(f)' /\ ~dispatch'[e].settled
            /\ ~dispatch'[f].settled =>
          /\ TaskOf(e)' = TaskOf(f)' => e = f
          /\ WorkerOf(e)' = WorkerOf(f)' /\ WorkerOf(e)' \notin shared' => e = f
    <3> SUFFICES ASSUME NEW e \in Dispatches, NEW f \in Dispatches, Exists(e)', Exists(f)',
                        ~dispatch'[e].settled, ~dispatch'[f].settled
                 PROVE  /\ TaskOf(e)' = TaskOf(f)' => e = f
                        /\ WorkerOf(e)' = WorkerOf(f)' /\ WorkerOf(e)' \notin shared' => e = f
      OBVIOUS
    <3>1. CASE e # d /\ f # d
      BY <2>2, <2>4, <3>1
    <3>2. CASE e = d \/ f = d
      BY <2>2, <2>3, <2>4, <3>2
    <3> QED
      BY <3>1, <3>2
  <2>6. \A e \in Dispatches : Exists(e)' => \A f \in 1..e : Exists(f)'
    <3> SUFFICES ASSUME NEW e \in Dispatches, Exists(e)', NEW f \in 1..e PROVE Exists(f)'
      OBVIOUS
    <3>1. f \in Dispatches /\ (e = d => f = d \/ f < d)
      BY OrchestrationAssumption DEF Dispatches
    <3> QED
      BY <2>2, <2>3, <2>4, <3>1
  <2>7. \A e \in Dispatches :
          /\ Exists(e)' => TaskOf(e)' \in Tasks /\ WorkerOf(e)' \in Workers
          /\ ~Exists(e)' => /\ prompted'[e] = 0 /\ ~dispatch'[e].settled
                            /\ \A k \in Kinds : message'[e][k] = "none"
    BY <2>1, <2>2, <2>3, <2>4
  <2>8. \A e \in Dispatches : dispatch'[e].status = "abandoned" =>
             ~dispatch'[e].settled /\ task'[TaskOf(e)'].status = "abandoned"
    <3> SUFFICES ASSUME NEW e \in Dispatches, dispatch'[e].status = "abandoned"
                 PROVE  ~dispatch'[e].settled /\ task'[TaskOf(e)'].status = "abandoned"
      OBVIOUS
    <3>1. e # d /\ dispatch'[e] = dispatch[e]
      BY <2>2, <2>3
    <3>2. TaskOf(e) # t /\ TaskOf(e) \in Tasks
      BY <2>4, <3>1
    <3> QED
      BY <2>4, <3>1, <3>2 DEF TypeOK
  <2> QED
    BY <2>5, <2>6, <2>7, <2>8
<1>13. ASSUME NEW c \in Commands, NEW d \in Dispatches, CancelFinds(c, d)
       PROVE  Rows'
  BY <1>13 DEF CancelFinds, TypeOK
<1>14. ASSUME NEW c \in Commands, NEW d \in Dispatches, Asked(c, d)
       PROVE  Rows'
  BY <1>14 DEF Asked, TypeOK
<1>15. ASSUME NEW c \in Commands, NEW d \in Dispatches, Replaces(c, d)
       PROVE  Rows'
  BY <1>15 DEF Replaces, TypeOK
<1>16. ASSUME NEW c \in Commands, NEW d \in Dispatches, Replies(c, d)
       PROVE  Rows'
  BY <1>16 DEF Replies, TypeOK
<1>17. ASSUME NEW c \in Commands, NEW d \in Dispatches, Cancels(c, d)
       PROVE  Rows'
  BY <1>17 DEF Cancels, TypeOK, Targets, OnDispatch
<1>18. ASSUME NEW c \in Commands, NEW d \in Dispatches, NEW k \in Kinds, Checks(c, d, k)
       PROVE  Rows'
  BY <1>18 DEF Checks, TypeOK
<1>19. ASSUME NEW c \in Commands, NEW d \in Dispatches, NEW at \in {"prompt", "doubt"},
                   Configures(c, d, at)
       PROVE  Rows'
  BY <1>19 DEF Configures, TypeOK
<1>20. ASSUME NEW c \in Commands, NEW d \in Dispatches, NEW at \in {"accept", "doubt", "none"},
                   NEW x \in {d, 0}, Misses(c, d, at, x)
       PROVE  Rows'
  BY <1>20 DEF Misses, TypeOK
<1>21. ASSUME NEW c \in Commands, NEW d \in Dispatches, NEW at \in {"accept", "doubt", "none"},
                   NEW x \in {d, 0}, Starts(c, d, at, x)
       PROVE  Rows'
  BY <1>21 DEF Starts, TypeOK, Targets, OnDispatch
<1>22. ASSUME NEW c \in Commands, NEW d \in Dispatches, NEW s \in {"accepted",
                   "outcome_unknown"}, NEW ws \in {"busy", "outcome_unknown"},
                   NEW at \in {"retain", "none"}, NEW x \in Workers \cup {0}, Marks(c, d, s, ws,
                   at, x)
       PROVE  Rows'
  BY <1>22 DEF Marks, TypeOK, Targets, OnDispatch
<1>23. ASSUME Free /\ UNCHANGED command
       PROVE  Rows'
  BY <1>23 DEF Free, TypeOK
<1>24. ASSUME NEW d \in Dispatches, Abandons(d)
       PROVE  Rows'
  BY <1>24 DEF Abandons, TypeOK
<1>25. ASSUME NEW d \in Dispatches, NEW k \in Kinds, Acknowledges(d, k)
       PROVE  Rows'
  BY <1>25 DEF Acknowledges, TypeOK
<1>26. ASSUME NEW w \in Workers, Retains(w)
       PROVE  Rows'
  BY <1>26 DEF Retains, TypeOK
<1>27. ASSUME NEW w \in Workers, Rests(w)
       PROVE  Rows'
  BY <1>27 DEF Rests, TypeOK
<1>28. ASSUME NEW w \in Workers, Orphans(w)
       PROVE  Rows'
  BY <1>28 DEF Orphans, TypeOK
<1>29. ASSUME NEW w \in Workers, Dies(w)
       PROVE  Rows'
  BY <1>29 DEF Dies, TypeOK
<1>30. ASSUME NEW w \in Workers, NEW d \in Dispatches, ReportsLate(w, d)
       PROVE  Rows'
  BY <1>30 DEF ReportsLate, TypeOK
<1>31. ASSUME NEW w \in Workers, NEW d \in Dispatches, Asks(w, d)
       PROVE  Rows'
  BY <1>31 DEF Asks, TypeOK
<1>32. ASSUME NEW w \in Workers, NEW d \in Dispatches, NEW s \in {"retained", "idle"},
                   Reports(w, d, s)
       PROVE  Rows'
  <2>1. /\ dispatch' = [dispatch EXCEPT ![d].status = "reported", ![d].settled = TRUE]
        /\ message' = [message EXCEPT ![d]["packet"] = "sent"] /\ dispatch[d].status # "abandoned"
        /\ task' = [task EXCEPT ![TaskOf(d)].status = "reported"]
               /\ UNCHANGED <<prompted, shared>>
    BY <1>32 DEF Reports
  <2>2. Exists(d) /\ TaskOf(d) \in Tasks /\ ~dispatch[d].settled
    BY <1>32, NotZero DEF Reports, Sessions
  <2>3. \A e \in Dispatches : e # d => dispatch'[e] = dispatch[e] /\ message'[e] = message[e]
    BY <2>1 DEF TypeOK
  <2>4. /\ dispatch'[d].status = "reported" /\ dispatch'[d].settled = TRUE
        /\ dispatch'[d].task = dispatch[d].task /\ dispatch'[d].worker = dispatch[d].worker
    BY <2>1 DEF TypeOK
  <2>5. \A e \in Dispatches : dispatch[e].status = "abandoned" => TaskOf(e) # TaskOf(d)
            /\ TaskOf(e) \in Tasks
    BY <2>1, <2>2
  <2>6. \A e \in Dispatches : Exists(e)' <=> Exists(e)
    BY <2>2, <2>3, <2>4
  <2>7. \A e \in Dispatches : Exists(e)' => \A f \in 1..e : Exists(f)'
    BY <2>6, OrchestrationAssumption DEF Dispatches
  <2>8. \A t \in Tasks : t # TaskOf(d) => task'[t] = task[t]
    BY <2>1 DEF TypeOK
  <2>9. \A e \in Dispatches : dispatch'[e].status = "abandoned" =>
             ~dispatch'[e].settled /\ task'[TaskOf(e)'].status = "abandoned"
    BY <2>3, <2>4, <2>5, <2>8
  <2>10. UNCHANGED <<prompted, shared>>
    BY <2>1
  <2>11. \A e \in Dispatches :
          /\ Exists(e)' => TaskOf(e)' \in Tasks /\ WorkerOf(e)' \in Workers
          /\ ~Exists(e)' => /\ prompted'[e] = 0 /\ ~dispatch'[e].settled
                            /\ \A k \in Kinds : message'[e][k] = "none"
    BY <2>2, <2>3, <2>4, <2>10
  <2>12. \A e, f \in Dispatches : Exists(e)' /\ Exists(f)' /\ ~dispatch'[e].settled
             /\ ~dispatch'[f].settled =>
          /\ TaskOf(e)' = TaskOf(f)' => e = f
          /\ WorkerOf(e)' = WorkerOf(f)' /\ WorkerOf(e)' \notin shared' => e = f
    BY <2>2, <2>3, <2>4, <2>10
  <2> QED
    BY <2>7, <2>9, <2>11, <2>12
<1> HIDE DEF Rows, Exists, WorkerOf, TaskOf, Begins, Gone, Orphaned, Retained, SetTask,
            SetWorker, SetDispatch, At, On, Goes, Misjudges, Free
<1> QED
  BY <1>1, <1>2, <1>3, <1>4, <1>5, <1>6, <1>7, <1>8, <1>9, <1>10, <1>11, <1>12, <1>13, <1>14,
     <1>15, <1>16, <1>17, <1>18, <1>19, <1>20, <1>21, <1>22, <1>23, <1>24, <1>25, <1>26, <1>27,
     <1>28, <1>29, <1>30, <1>31, <1>32 DEF Moves, CommandMoves, OtherMoves

\* The moves keep a prompt from being sent twice.
LEMMA PromptingStep ==
    ASSUME TypeOK, Targets, Rows, Sessions, Errands, Prompting, Moves
    PROVE  Prompting'
<1> USE DEF Prompting, Exists, WorkerOf, TaskOf, Begins, Up, Quiet, HasSession, Gone, Orphaned,
        Retained, SetTask, SetWorker, SetDispatch, At, On, Goes, Misjudges, Free
<1>1. ASSUME NEW c \in Commands, GivesUp(c)
      PROVE  Prompting'
  BY <1>1 DEF GivesUp, TypeOK, Targets, OnDispatch, Rows, Sessions, Errands, Kinds
<1>2. ASSUME NEW c \in Commands, NEW w \in Workers, Reserves(c, w)
      PROVE  Prompting'
  BY <1>2 DEF Reserves, TypeOK, Targets, OnDispatch, Rows, Sessions, Errands, Kinds
<1>3. ASSUME NEW c \in Commands, NEW w \in Workers, Launches(c, w)
      PROVE  Prompting'
  BY <1>3 DEF Launches, TypeOK, Targets, OnDispatch, Rows, Sessions, Errands, Kinds
<1>4. ASSUME NEW c \in Commands, NEW w \in Workers,
             NEW s \in {"ready", "stopped", "outcome_unknown"}, LaunchDoubted(c, w, s)
      PROVE  Prompting'
  BY <1>4 DEF LaunchDoubted, TypeOK, Targets, OnDispatch, Rows, Sessions, Errands, Kinds
<1>5. ASSUME NEW c \in Commands, NEW w \in Workers, Loses(c, w)
      PROVE  Prompting'
  BY <1>5 DEF Loses, TypeOK, Targets, OnDispatch, Rows, Sessions, Errands, Kinds
<1>6. ASSUME NEW c \in Commands, NEW w \in Workers, HandsOff(c, w)
      PROVE  Prompting'
  BY <1>6 DEF HandsOff, TypeOK, Targets, OnDispatch, Rows, Sessions, Errands, Kinds
<1>7. ASSUME NEW c \in Commands, NEW w \in Workers, Stops(c, w)
      PROVE  Prompting'
  BY <1>7 DEF Stops, TypeOK, Targets, OnDispatch, Rows, Sessions, Errands, Kinds
<1>8. ASSUME NEW c \in Commands, NEW w \in Workers, NEW at \in OnWorker, Looks(c, w, at)
      PROVE  Prompting'
  BY Z3T(60), <1>8 DEF Looks, TypeOK, Targets, OnDispatch, Rows, Sessions, Errands, Kinds
<1>9. ASSUME NEW c \in Commands, NEW w \in Workers, NEW s \in {"ready", "stopped",
                  "outcome_unknown"}, LaunchFails(c, w, s)
      PROVE  Prompting'
  BY <1>9 DEF LaunchFails, TypeOK, Targets, OnDispatch, Rows, Sessions, Errands, Kinds
<1>10. ASSUME NEW c \in Commands, NEW w \in Workers, NEW s \in {"ready", "stopped",
                   "outcome_unknown"}, Judges(c, w, s)
       PROVE  Prompting'
  BY <1>10 DEF Judges, TypeOK, Targets, OnDispatch, Rows, Sessions, Errands, Kinds
<1>11. ASSUME NEW c \in Commands, NEW w \in Workers, NEW at \in {"stop", "cancel", "none"},
                   NEW x \in Workers \cup Dispatches \cup {0}, Closes(c, w, at, x)
       PROVE  Prompting'
  BY Z3T(60), <1>11, NotZero DEF Closes, TypeOK, Targets, OnDispatch, Rows, Sessions, Errands, Kinds
<1>12. ASSUME NEW c \in Commands, NEW w \in Workers, NEW t \in Tasks, NEW d \in Dispatches,
                   Creates(c, t, w, d)
       PROVE  Prompting'
  BY <1>12, NotZero DEF Creates, TypeOK, Targets, OnDispatch, Rows, Sessions, Errands, Kinds
<1>13. ASSUME NEW c \in Commands, NEW d \in Dispatches, CancelFinds(c, d)
       PROVE  Prompting'
  BY <1>13 DEF CancelFinds, TypeOK, Targets, OnDispatch, Rows, Sessions, Errands, Kinds
<1>14. ASSUME NEW c \in Commands, NEW d \in Dispatches, Asked(c, d)
       PROVE  Prompting'
  BY <1>14 DEF Asked, TypeOK, Targets, OnDispatch, Rows, Sessions, Errands, Kinds
<1>15. ASSUME NEW c \in Commands, NEW d \in Dispatches, Replaces(c, d)
       PROVE  Prompting'
  BY <1>15 DEF Replaces, TypeOK, Targets, OnDispatch, Rows, Sessions, Errands, Kinds
<1>16. ASSUME NEW c \in Commands, NEW d \in Dispatches, Replies(c, d)
       PROVE  Prompting'
  <2>1. /\ command' = [command EXCEPT ![c] = [at |-> "resume", on |-> d]]
        /\ dispatch' = [dispatch EXCEPT ![d].status = "running"]
        /\ UNCHANGED <<message, relay, turn, prompted, misjudged>>
        /\ message[d]["question"] = "acknowledged" /\ dispatch[d].status = "awaiting_coordinator"
        /\ ~dispatch[d].settled /\ ("reply" \in raced' \/ turn[dispatch[d].worker] = 0)
        /\ raced \subseteq raced' /\ command[c].at = "reply"
    BY <1>16 DEF Replies
  <2>2. \A e \in Dispatches :
          /\ dispatch'[e].worker = dispatch[e].worker
                 /\ dispatch'[e].settled = dispatch[e].settled
          /\ e # d => dispatch'[e] = dispatch[e]
    BY <2>1 DEF TypeOK
  <2>3. dispatch'[d].status = "running"
    BY <2>1 DEF TypeOK
  <2>4. \A b \in Commands : b # c => command'[b] = command[b]
    BY <2>1 DEF TypeOK
  <2>5. command'[c].at = "resume" /\ command'[c].on = d
    BY <2>1 DEF TypeOK
  <2>6. \A b \in Commands : command[b].at \in {"configure", "prompt", "resume"}
            => command[b].on \in Dispatches
    BY DEF Targets, OnDispatch
  <2>7. prompted[d] <= 1 /\ d # 0
    BY <2>1, NotZero
  <2>8. \A e \in Dispatches :
          /\ prompted'[e] <= IF message'[e]["question"] = "acknowledged" THEN 2 ELSE 1
          /\ dispatch'[e].status = "awaiting_coordinator" =>
                message'[e]["question"] # "none" /\ prompted'[e] <= 1
    BY <2>1, <2>2, <2>3
  <2>9. \A b \in Commands : command'[b].at \in {"configure", "prompt"} =>
          /\ b # c /\ prompted'[command'[b].on] = 0
          /\ turn'[dispatch'[command'[b].on].worker] # command'[b].on
          /\ \A k \in Kinds : message'[command'[b].on][k] = "none"
          /\ dispatch'[command'[b].on].settled
                 => \/ relay'[dispatch'[command'[b].on].worker] = "gone"
                    \/ dispatch'[command'[b].on].worker \in misjudged'
    BY <2>1, <2>2, <2>4, <2>5, <2>6
  <2>10. \A b \in Commands : command[b].at = "resume" => command[b].on # d
    BY <2>1
  <2>11. ASSUME NEW b \in Commands, command'[b].at = "resume"
         PROVE  /\ message'[command'[b].on]["question"] = "acknowledged"
                /\ prompted'[command'[b].on] <= 1
                /\ dispatch'[command'[b].on].status # "awaiting_coordinator"
                /\ "reply" \notin raced' =>
                     /\ turn'[dispatch'[command'[b].on].worker] # command'[b].on
                     /\ dispatch'[command'[b].on].settled =>
                           \/ relay'[dispatch'[command'[b].on].worker] = "gone"
                           \/ dispatch'[command'[b].on].worker \in misjudged'
    <3>1. CASE b = c
      BY <2>1, <2>2, <2>3, <2>5, <2>7, <3>1
    <3>2. CASE b # c
      BY <2>1, <2>2, <2>3, <2>4, <2>6, <2>10, <2>11, <3>2
    <3> QED
      BY <3>1, <3>2
  <2>12. \A a, b \in Commands :
          /\ command'[a].at \in {"configure", "prompt"}
                 /\ command'[b].at \in {"configure", "prompt"}
                /\ command'[a].on = command'[b].on => a = b
          /\ command'[a].at = "resume" /\ command'[b].at = "resume"
                 /\ command'[a].on = command'[b].on => a = b
    BY <2>4, <2>5, <2>10
  <2> QED
    BY <2>8, <2>9, <2>11, <2>12
<1>17. ASSUME NEW c \in Commands, NEW d \in Dispatches, Cancels(c, d)
       PROVE  Prompting'
  BY Z3T(60), <1>17 DEF Cancels, TypeOK, Targets, OnDispatch, Rows, Sessions, Errands, Kinds
<1>18. ASSUME NEW c \in Commands, NEW d \in Dispatches, NEW k \in Kinds, Checks(c, d, k)
       PROVE  Prompting'
  BY <1>18 DEF Checks, TypeOK, Targets, OnDispatch, Rows, Sessions, Errands, Kinds
<1>19. ASSUME NEW c \in Commands, NEW d \in Dispatches, NEW at \in {"prompt", "doubt"},
                   Configures(c, d, at)
       PROVE  Prompting'
  BY <1>19 DEF Configures, TypeOK, Targets, OnDispatch, Rows, Sessions, Errands, Kinds
<1>20. ASSUME NEW c \in Commands, NEW d \in Dispatches, NEW at \in {"accept", "doubt", "none"},
                   NEW x \in {d, 0}, Misses(c, d, at, x)
       PROVE  Prompting'
  BY <1>20 DEF Misses, TypeOK, Targets, OnDispatch, Rows, Sessions, Errands, Kinds
<1>21. ASSUME NEW c \in Commands, NEW d \in Dispatches, NEW at \in {"accept", "doubt", "none"},
                   NEW x \in {d, 0}, Starts(c, d, at, x)
       PROVE  Prompting'
  BY <1>21 DEF Starts, TypeOK, Targets, OnDispatch, Rows, Sessions, Errands, Kinds
<1>22. ASSUME NEW c \in Commands, NEW d \in Dispatches, NEW s \in {"accepted",
                   "outcome_unknown"}, NEW ws \in {"busy", "outcome_unknown"},
                   NEW at \in {"retain", "none"}, NEW x \in Workers \cup {0}, Marks(c, d, s, ws,
                   at, x)
       PROVE  Prompting'
  BY <1>22 DEF Marks, TypeOK, Targets, OnDispatch, Rows, Sessions, Errands, Kinds
<1>23. ASSUME Free /\ UNCHANGED command
       PROVE  Prompting'
  BY <1>23 DEF Free, TypeOK, Targets, OnDispatch, Rows, Sessions, Errands, Kinds
<1>24. ASSUME NEW d \in Dispatches, Abandons(d)
       PROVE  Prompting'
  BY <1>24 DEF Abandons, TypeOK, Targets, OnDispatch, Rows, Sessions, Errands, Kinds
<1>25. ASSUME NEW d \in Dispatches, NEW k \in Kinds, Acknowledges(d, k)
       PROVE  Prompting'
  BY <1>25 DEF Acknowledges, TypeOK, Targets, OnDispatch, Rows, Sessions, Errands, Kinds
<1>26. ASSUME NEW w \in Workers, Retains(w)
       PROVE  Prompting'
  BY <1>26 DEF Retains, TypeOK, Targets, OnDispatch, Rows, Sessions, Errands, Kinds
<1>27. ASSUME NEW w \in Workers, Rests(w)
       PROVE  Prompting'
  BY <1>27, NotZero DEF Rests, TypeOK, Targets, OnDispatch, Rows, Sessions, Errands, Kinds
<1>28. ASSUME NEW w \in Workers, Orphans(w)
       PROVE  Prompting'
  BY <1>28, NotZero DEF Orphans, TypeOK, Targets, OnDispatch, Rows, Sessions, Errands, Kinds
<1>29. ASSUME NEW w \in Workers, Dies(w)
       PROVE  Prompting'
  BY <1>29, NotZero DEF Dies, TypeOK, Targets, OnDispatch, Rows, Sessions, Errands, Kinds
<1>30. ASSUME NEW w \in Workers, NEW d \in Dispatches, ReportsLate(w, d)
       PROVE  Prompting'
  <2>1. /\ message' = [message EXCEPT ![d]["packet"] = "sent"] /\ turn[w] = d
        /\ UNCHANGED <<dispatch, relay, turn, command, prompted, raced, misjudged>>
    BY <1>30 DEF ReportsLate
  <2>2. \A e \in Dispatches : /\ message'[e]["question"] = message[e]["question"]
                               /\ e # d => message'[e] = message[e]
    BY <2>1 DEF TypeOK, Kinds
  <2>3. dispatch[d].worker = w
    BY <2>1, NotZero DEF Sessions
  <2>4. \A c \in Commands : command[c].at \in {"configure", "prompt", "resume"}
            => command[c].on \in Dispatches
    BY DEF Targets, OnDispatch
  <2>5. \A c \in Commands : command[c].at \in {"configure", "prompt"} => command[c].on # d
    BY <2>1, <2>3
  <2> QED
    BY <2>1, <2>2, <2>4, <2>5
<1>31. ASSUME NEW w \in Workers, NEW d \in Dispatches, Asks(w, d)
       PROVE  Prompting'
  BY <1>31, NotZero DEF Asks, TypeOK, Targets, OnDispatch, Rows, Sessions, Errands, Kinds
<1>32. ASSUME NEW w \in Workers, NEW d \in Dispatches, NEW s \in {"retained", "idle"},
                   Reports(w, d, s)
       PROVE  Prompting'
  BY Z3T(60), <1>32 DEF Reports, TypeOK, Targets, OnDispatch, Rows, Sessions, Errands, Kinds
<1> HIDE DEF Prompting, Exists, WorkerOf, TaskOf, Begins, Up, Quiet, HasSession, Gone, Orphaned,
            Retained, SetTask, SetWorker, SetDispatch, At, On, Goes, Misjudges, Free
<1> QED
  BY <1>1, <1>2, <1>3, <1>4, <1>5, <1>6, <1>7, <1>8, <1>9, <1>10, <1>11, <1>12, <1>13, <1>14,
     <1>15, <1>16, <1>17, <1>18, <1>19, <1>20, <1>21, <1>22, <1>23, <1>24, <1>25, <1>26, <1>27,
     <1>28, <1>29, <1>30, <1>31, <1>32 DEF Moves, CommandMoves, OtherMoves

\* The moves keep B from going on before a message of it is delivered.
LEMMA DeliveryStep ==
    ASSUME TypeOK, Targets, Rows, Sessions, Errands, Prompting, DeliveredWhenIdle, Moves
    PROVE  DeliveredWhenIdle'
<1> USE DEF DeliveredWhenIdle, Exists, WorkerOf, TaskOf, Begins, Up, Quiet, HasSession, Gone,
        Orphaned, Retained, SetTask, SetWorker, SetDispatch, At, On, Goes, Misjudges, Free
<1>1. ASSUME NEW c \in Commands, GivesUp(c)
      PROVE  DeliveredWhenIdle'
  BY <1>1 DEF GivesUp, TypeOK, Targets, OnDispatch, Rows, Sessions, Prompting, Kinds
<1>2. ASSUME NEW c \in Commands, NEW w \in Workers, Reserves(c, w)
      PROVE  DeliveredWhenIdle'
  BY <1>2 DEF Reserves, TypeOK, Targets, OnDispatch, Rows, Sessions, Prompting, Kinds
<1>3. ASSUME NEW c \in Commands, NEW w \in Workers, Launches(c, w)
      PROVE  DeliveredWhenIdle'
  BY <1>3 DEF Launches, TypeOK, Targets, OnDispatch, Rows, Sessions, Prompting, Kinds
<1>4. ASSUME NEW c \in Commands, NEW w \in Workers,
             NEW s \in {"ready", "stopped", "outcome_unknown"}, LaunchDoubted(c, w, s)
      PROVE  DeliveredWhenIdle'
  BY <1>4 DEF LaunchDoubted, TypeOK, Targets, OnDispatch, Rows, Sessions, Prompting, Kinds
<1>5. ASSUME NEW c \in Commands, NEW w \in Workers, Loses(c, w)
      PROVE  DeliveredWhenIdle'
  BY <1>5 DEF Loses, TypeOK, Targets, OnDispatch, Rows, Sessions, Prompting, Kinds
<1>6. ASSUME NEW c \in Commands, NEW w \in Workers, HandsOff(c, w)
      PROVE  DeliveredWhenIdle'
  BY <1>6 DEF HandsOff, TypeOK, Targets, OnDispatch, Rows, Sessions, Prompting, Kinds
<1>7. ASSUME NEW c \in Commands, NEW w \in Workers, Stops(c, w)
      PROVE  DeliveredWhenIdle'
  BY <1>7 DEF Stops, TypeOK, Targets, OnDispatch, Rows, Sessions, Prompting, Kinds
<1>8. ASSUME NEW c \in Commands, NEW w \in Workers, NEW at \in OnWorker, Looks(c, w, at)
      PROVE  DeliveredWhenIdle'
  BY <1>8 DEF Looks, TypeOK, Targets, OnDispatch, Rows, Sessions, Prompting, Kinds
<1>9. ASSUME NEW c \in Commands, NEW w \in Workers, NEW s \in {"ready", "stopped",
                  "outcome_unknown"}, LaunchFails(c, w, s)
      PROVE  DeliveredWhenIdle'
  BY <1>9 DEF LaunchFails, TypeOK, Targets, OnDispatch, Rows, Sessions, Prompting, Kinds
<1>10. ASSUME NEW c \in Commands, NEW w \in Workers, NEW s \in {"ready", "stopped",
                   "outcome_unknown"}, Judges(c, w, s)
       PROVE  DeliveredWhenIdle'
  BY <1>10 DEF Judges, TypeOK, Targets, OnDispatch, Rows, Sessions, Prompting, Kinds
<1>11. ASSUME NEW c \in Commands, NEW w \in Workers, NEW at \in {"stop", "cancel", "none"},
                   NEW x \in Workers \cup Dispatches \cup {0}, Closes(c, w, at, x)
       PROVE  DeliveredWhenIdle'
  <2> SUFFICES ASSUME NEW b \in Commands, command'[b].at = "deliver", "reply" \notin raced',
                      message'[command'[b].on[1]][command'[b].on[2]] = "sent",
                      command'[b].on[2] = "packet" =>
                          /\ dispatch'[command'[b].on[1]].settled
                          /\ dispatch'[command'[b].on[1]].worker \notin misjudged'
               PROVE  turn'[dispatch'[command'[b].on[1]].worker] # command'[b].on[1]
    OBVIOUS
  <2>1. /\ command' = [command EXCEPT ![c] = [at |-> at, on |-> x]] /\ at # "deliver"
        /\ turn' = [turn EXCEPT ![w] = 0] /\ UNCHANGED <<dispatch, message, raced, misjudged>>
    BY <1>11 DEF Closes
  <2>2. command'[b] = command[b] /\ command[b].at = "deliver"
    BY <1>11, <2>1 DEF Closes, TypeOK
  <2>3. PICK e \in Dispatches, k \in Kinds : command[b].on = <<e, k>> /\ message[e][k] # "none"
    BY <2>2 DEF Targets
  <2>4. command'[b].on[1] = e /\ command'[b].on[2] = k /\ dispatch'[e].worker = dispatch[e].worker
    BY <2>1, <2>2, <2>3 DEF TypeOK
  <2>5. message[e][k] = "sent"
               /\ (k = "packet" => dispatch[e].settled /\ dispatch[e].worker \notin misjudged)
            => turn[dispatch[e].worker] # e
    BY <2>1, <2>2, <2>3
  <2>6. turn'[dispatch[e].worker] \in {0, turn[dispatch[e].worker]}
    BY <2>1, <2>3 DEF Rows, TypeOK
  <2> QED
    BY <2>1, <2>3, <2>4, <2>5, <2>6, NotZero
<1>12. ASSUME NEW c \in Commands, NEW w \in Workers, NEW t \in Tasks, NEW d \in Dispatches,
                   Creates(c, t, w, d)
       PROVE  DeliveredWhenIdle'
  <2> SUFFICES ASSUME NEW b \in Commands, command'[b].at = "deliver", "reply" \notin raced',
                      message'[command'[b].on[1]][command'[b].on[2]] = "sent",
                      command'[b].on[2] = "packet" =>
                          /\ dispatch'[command'[b].on[1]].settled
                          /\ dispatch'[command'[b].on[1]].worker \notin misjudged'
               PROVE  turn'[dispatch'[command'[b].on[1]].worker] # command'[b].on[1]
    OBVIOUS
  <2>1. /\ command' = [command EXCEPT ![c] = [at |-> "configure", on |-> d]]
        /\ dispatch' = [dispatch EXCEPT ![d] =
                           [task |-> t, worker |-> w, status |-> "queued", settled |-> FALSE]]
        /\ dispatch[d].status = "none" /\ UNCHANGED <<message, turn, raced, misjudged>>
    BY <1>12 DEF Creates
  <2>2. command'[b] = command[b] /\ command[b].at = "deliver"
    BY <2>1 DEF TypeOK
  <2>3. PICK e \in Dispatches, k \in Kinds : command[b].on = <<e, k>> /\ message[e][k] # "none"
    BY <2>2 DEF Targets
  <2>4. dispatch'[e] = dispatch[e]
    BY <2>1, <2>3 DEF TypeOK, Rows
  <2>5. command'[b].on[1] = e /\ command'[b].on[2] = k
    BY <2>2, <2>3
  <2>6. message[e][k] = "sent"
               /\ (k = "packet" => dispatch[e].settled /\ dispatch[e].worker \notin misjudged)
            => turn[dispatch[e].worker] # e
    BY <2>1, <2>2, <2>3
  <2> QED
    BY <2>1, <2>4, <2>5, <2>6
<1>13. ASSUME NEW c \in Commands, NEW d \in Dispatches, CancelFinds(c, d)
       PROVE  DeliveredWhenIdle'
  BY <1>13 DEF CancelFinds, TypeOK, Targets, OnDispatch, Rows, Sessions, Prompting, Kinds
<1>14. ASSUME NEW c \in Commands, NEW d \in Dispatches, Asked(c, d)
       PROVE  DeliveredWhenIdle'
  BY <1>14 DEF Asked, TypeOK, Targets, OnDispatch, Rows, Sessions, Prompting, Kinds
<1>15. ASSUME NEW c \in Commands, NEW d \in Dispatches, Replaces(c, d)
       PROVE  DeliveredWhenIdle'
  BY <1>15 DEF Replaces, TypeOK, Targets, OnDispatch, Rows, Sessions, Prompting, Kinds
<1>16. ASSUME NEW c \in Commands, NEW d \in Dispatches, Replies(c, d)
       PROVE  DeliveredWhenIdle'
  BY <1>16 DEF Replies, TypeOK, Targets, OnDispatch, Rows, Sessions, Prompting, Kinds
<1>17. ASSUME NEW c \in Commands, NEW d \in Dispatches, Cancels(c, d)
       PROVE  DeliveredWhenIdle'
  <2> SUFFICES ASSUME NEW b \in Commands, command'[b].at = "deliver", "reply" \notin raced',
                      message'[command'[b].on[1]][command'[b].on[2]] = "sent",
                      command'[b].on[2] = "packet" =>
                          /\ dispatch'[command'[b].on[1]].settled
                          /\ dispatch'[command'[b].on[1]].worker \notin misjudged'
               PROVE  turn'[dispatch'[command'[b].on[1]].worker] # command'[b].on[1]
    OBVIOUS
  <2>1. /\ command' = [command EXCEPT ![c] = [at |-> "none", on |-> 0]]
        /\ dispatch' = [dispatch EXCEPT ![d].status = "cancelled", ![d].settled = TRUE]
        /\ command[c].at = "cancel" /\ command[c].on = d /\ UNCHANGED <<message, turn, raced, misjudged>>
    BY <1>17 DEF Cancels
  <2>2. command'[b] = command[b] /\ command[b].at = "deliver"
    BY <1>17, <2>1 DEF Cancels, TypeOK
  <2>3. PICK e \in Dispatches, k \in Kinds : command[b].on = <<e, k>> /\ message[e][k] # "none"
    BY <2>2 DEF Targets
  <2>4. command'[b].on[1] = e /\ command'[b].on[2] = k /\ dispatch'[e].worker = dispatch[e].worker
    BY <2>1, <2>2, <2>3 DEF TypeOK
  <2>5. message[e][k] = "sent"
               /\ (k = "packet" => dispatch[e].settled /\ dispatch[e].worker \notin misjudged)
            => turn[dispatch[e].worker] # e
    BY <2>1, <2>2, <2>3
  <2>8. /\ message'[e][k] = "sent"
        /\ k = "packet" => dispatch'[e].settled /\ dispatch'[e].worker \notin misjudged'
    BY <2>4
  <2>9. message' = message /\ misjudged' = misjudged /\ turn' = turn
    BY <2>1
  <2>6. CASE e = d
    <3>1. /\ relay[dispatch[d].worker] = "gone" \/ dispatch[d].worker \in misjudged
          /\ Exists(d) /\ dispatch[d].worker \in Workers
      BY <2>1 DEF Errands, Targets, OnDispatch, Rows
    <3>2. CASE relay[dispatch[d].worker] = "gone"
      <4>1. turn[dispatch[d].worker] = 0
        BY <3>1, <3>2 DEF Sessions
      <4> QED
        BY <2>1, <2>4, <2>6, <4>1, NotZero
    <3>3. CASE dispatch[d].worker \in misjudged
      <4>1. k # "packet" /\ message[d][k] = "sent"
        BY <2>4, <2>6, <2>8, <2>9, <3>3
      <4> QED
        BY <2>1, <2>4, <2>5, <2>6, <4>1
    <3> QED
      BY <3>1, <3>2, <3>3
  <2>7. CASE e # d
    <3>1. dispatch'[e] = dispatch[e]
      BY <2>1, <2>7 DEF TypeOK
    <3>2. message[e][k] = "sent"
          /\ (k = "packet" => dispatch[e].settled /\ dispatch[e].worker \notin misjudged)
      BY <2>8, <2>9, <3>1
    <3> QED
      BY <2>4, <2>5, <2>9, <3>1, <3>2
  <2> QED
    BY <2>6, <2>7
<1>18. ASSUME NEW c \in Commands, NEW d \in Dispatches, NEW k \in Kinds, Checks(c, d, k)
       PROVE  DeliveredWhenIdle'
  BY <1>18, NotZero DEF Checks, TypeOK, Targets, OnDispatch, Rows, Sessions, Prompting, Kinds
<1>19. ASSUME NEW c \in Commands, NEW d \in Dispatches, NEW at \in {"prompt", "doubt"},
                   Configures(c, d, at)
       PROVE  DeliveredWhenIdle'
  BY <1>19 DEF Configures, TypeOK, Targets, OnDispatch, Rows, Sessions, Prompting, Kinds
<1>20. ASSUME NEW c \in Commands, NEW d \in Dispatches, NEW at \in {"accept", "doubt", "none"},
                   NEW x \in {d, 0}, Misses(c, d, at, x)
       PROVE  DeliveredWhenIdle'
  BY <1>20 DEF Misses, TypeOK, Targets, OnDispatch, Rows, Sessions, Prompting, Kinds
<1>21. ASSUME NEW c \in Commands, NEW d \in Dispatches, NEW at \in {"accept", "doubt", "none"},
                   NEW x \in {d, 0}, Starts(c, d, at, x)
       PROVE  DeliveredWhenIdle'
  BY <1>21 DEF Starts, TypeOK, Targets, OnDispatch, Rows, Sessions, Prompting, Kinds
<1>22. ASSUME NEW c \in Commands, NEW d \in Dispatches, NEW s \in {"accepted",
                   "outcome_unknown"}, NEW ws \in {"busy", "outcome_unknown"},
                   NEW at \in {"retain", "none"}, NEW x \in Workers \cup {0}, Marks(c, d, s, ws,
                   at, x)
       PROVE  DeliveredWhenIdle'
  BY <1>22 DEF Marks, TypeOK, Targets, OnDispatch, Rows, Sessions, Prompting, Kinds
<1>23. ASSUME Free /\ UNCHANGED command
       PROVE  DeliveredWhenIdle'
  BY <1>23 DEF Free, TypeOK, Targets, OnDispatch, Rows, Sessions, Prompting, Kinds
<1>24. ASSUME NEW d \in Dispatches, Abandons(d)
       PROVE  DeliveredWhenIdle'
  <2> SUFFICES ASSUME NEW b \in Commands, command'[b].at = "deliver", "reply" \notin raced',
                      message'[command'[b].on[1]][command'[b].on[2]] = "sent",
                      command'[b].on[2] = "packet" =>
                          /\ dispatch'[command'[b].on[1]].settled
                          /\ dispatch'[command'[b].on[1]].worker \notin misjudged'
               PROVE  turn'[dispatch'[command'[b].on[1]].worker] # command'[b].on[1]
    OBVIOUS
  <2>1. /\ dispatch' = [dispatch EXCEPT ![d].status = "abandoned"]
        /\ UNCHANGED <<message, turn, command, raced, misjudged>>
    BY <1>24 DEF Abandons
  <2>2. command'[b] = command[b] /\ command[b].at = "deliver"
    BY <1>24, <2>1 DEF Abandons, TypeOK
  <2>3. PICK e \in Dispatches, k \in Kinds : command[b].on = <<e, k>> /\ message[e][k] # "none"
    BY <2>2 DEF Targets
  <2>4. command'[b].on[1] = e /\ command'[b].on[2] = k /\ dispatch'[e].worker = dispatch[e].worker
    BY <2>1, <2>2, <2>3 DEF TypeOK
  <2>5. message[e][k] = "sent"
               /\ (k = "packet" => dispatch[e].settled /\ dispatch[e].worker \notin misjudged)
            => turn[dispatch[e].worker] # e
    BY <2>1, <2>2, <2>3
  <2>6. dispatch'[e].settled = dispatch[e].settled
    BY <2>1, <2>3 DEF TypeOK
  <2> QED
    BY <2>1, <2>3, <2>4, <2>5, <2>6
<1>25. ASSUME NEW d \in Dispatches, NEW k \in Kinds, Acknowledges(d, k)
       PROVE  DeliveredWhenIdle'
  BY <1>25 DEF Acknowledges, TypeOK, Targets, OnDispatch, Rows, Sessions, Prompting, Kinds
<1>26. ASSUME NEW w \in Workers, Retains(w)
       PROVE  DeliveredWhenIdle'
  BY <1>26 DEF Retains, TypeOK, Targets, OnDispatch, Rows, Sessions, Prompting, Kinds
<1>27. ASSUME NEW w \in Workers, Rests(w)
       PROVE  DeliveredWhenIdle'
  BY <1>27, NotZero DEF Rests, TypeOK, Targets, OnDispatch, Rows, Sessions, Prompting, Kinds
<1>28. ASSUME NEW w \in Workers, Orphans(w)
       PROVE  DeliveredWhenIdle'
  BY <1>28, NotZero DEF Orphans, TypeOK, Targets, OnDispatch, Rows, Sessions, Prompting, Kinds
<1>29. ASSUME NEW w \in Workers, Dies(w)
       PROVE  DeliveredWhenIdle'
  BY <1>29, NotZero DEF Dies, TypeOK, Targets, OnDispatch, Rows, Sessions, Prompting, Kinds
<1>30. ASSUME NEW w \in Workers, NEW d \in Dispatches, ReportsLate(w, d)
       PROVE  DeliveredWhenIdle'
  BY <1>30 DEF ReportsLate, TypeOK, Targets, OnDispatch, Rows, Sessions, Prompting, Kinds
<1>31. ASSUME NEW w \in Workers, NEW d \in Dispatches, Asks(w, d)
       PROVE  DeliveredWhenIdle'
  <2> SUFFICES ASSUME NEW b \in Commands, command'[b].at = "deliver", "reply" \notin raced',
                      message'[command'[b].on[1]][command'[b].on[2]] = "sent",
                      command'[b].on[2] = "packet" =>
                          /\ dispatch'[command'[b].on[1]].settled
                          /\ dispatch'[command'[b].on[1]].worker \notin misjudged'
               PROVE  turn'[dispatch'[command'[b].on[1]].worker] # command'[b].on[1]
    OBVIOUS
  <2>1. /\ dispatch' = [dispatch EXCEPT ![d].status = "awaiting_coordinator"]
        /\ message' = [message EXCEPT ![d]["question"] = "sent"]
               /\ message[d]["question"] = "none"
        /\ UNCHANGED <<turn, command, raced, misjudged>>
    BY <1>31 DEF Asks
  <2>2. command'[b] = command[b] /\ command[b].at = "deliver"
    BY <1>31, <2>1 DEF Asks, TypeOK
  <2>3. PICK e \in Dispatches, k \in Kinds : command[b].on = <<e, k>> /\ message[e][k] # "none"
    BY <2>2 DEF Targets
  <2>4. command'[b].on[1] = e /\ command'[b].on[2] = k /\ dispatch'[e].worker = dispatch[e].worker
    BY <2>1, <2>2, <2>3 DEF TypeOK
  <2>5. message[e][k] = "sent"
               /\ (k = "packet" => dispatch[e].settled /\ dispatch[e].worker \notin misjudged)
            => turn[dispatch[e].worker] # e
    BY <2>1, <2>2, <2>3
  <2>6. dispatch'[e].settled = dispatch[e].settled
    BY <2>1, <2>3 DEF TypeOK
  <2>7. message'[e][k] = message[e][k]
    BY <2>1, <2>3 DEF TypeOK, Kinds
  <2> QED
    BY <2>1, <2>3, <2>4, <2>5, <2>6, <2>7
<1>32. ASSUME NEW w \in Workers, NEW d \in Dispatches, NEW s \in {"retained", "idle"},
                   Reports(w, d, s)
       PROVE  DeliveredWhenIdle'
  BY Z3T(60), <1>32 DEF Reports, TypeOK, Targets, OnDispatch, Rows, Sessions, Prompting, Kinds
<1> HIDE DEF DeliveredWhenIdle, Exists, WorkerOf, TaskOf, Begins, Up, Quiet, HasSession, Gone,
            Orphaned, Retained, SetTask, SetWorker, SetDispatch, At, On, Goes, Misjudges, Free
<1> QED
  BY <1>1, <1>2, <1>3, <1>4, <1>5, <1>6, <1>7, <1>8, <1>9, <1>10, <1>11, <1>12, <1>13, <1>14,
     <1>15, <1>16, <1>17, <1>18, <1>19, <1>20, <1>21, <1>22, <1>23, <1>24, <1>25, <1>26, <1>27,
     <1>28, <1>29, <1>30, <1>31, <1>32 DEF Moves, CommandMoves, OtherMoves

\* The moves keep the capability of the child that of its dispatch.
LEMMA AuthorityStep ==
    ASSUME TypeOK, Targets, Rows, Sessions, Errands, Prompting, Authority, Leftovers, Moves
    PROVE  Authority'
<1> USE DEF Authority, OfWorker, Exists, WorkerOf, TaskOf, Begins, Up, Quiet, HasSession, Gone,
        Orphaned, Retained, SetTask, SetWorker, SetDispatch, At, On, Goes, Misjudges, Free
<1>1. ASSUME NEW c \in Commands, GivesUp(c)
      PROVE  Authority'
  BY <1>1 DEF GivesUp, TypeOK, Targets, OnDispatch, Rows, Sessions, Prompting, Kinds
<1>2. ASSUME NEW c \in Commands, NEW w \in Workers, Reserves(c, w)
      PROVE  Authority'
  BY <1>2 DEF Reserves, TypeOK, Targets, OnDispatch, Rows, Sessions, Prompting, Kinds
<1>3. ASSUME NEW c \in Commands, NEW w \in Workers, Launches(c, w)
      PROVE  Authority'
  BY <1>3, NotZero DEF Launches, TypeOK, Targets, OnDispatch, Rows, Sessions, Errands,
     Prompting, Kinds
<1>4. ASSUME NEW c \in Commands, NEW w \in Workers,
             NEW s \in {"ready", "stopped", "outcome_unknown"}, LaunchDoubted(c, w, s)
      PROVE  Authority'
  BY <1>4, NotZero DEF LaunchDoubted, TypeOK, Targets, OnDispatch, Rows, Sessions, Errands,
     Prompting, Kinds
<1>5. ASSUME NEW c \in Commands, NEW w \in Workers, Loses(c, w)
      PROVE  Authority'
  BY <1>5 DEF Loses, TypeOK, Targets, OnDispatch, Rows, Sessions, Prompting, Kinds
<1>6. ASSUME NEW c \in Commands, NEW w \in Workers, HandsOff(c, w)
      PROVE  Authority'
  BY <1>6 DEF HandsOff, TypeOK, Targets, OnDispatch, Rows, Sessions, Prompting, Kinds
<1>7. ASSUME NEW c \in Commands, NEW w \in Workers, Stops(c, w)
      PROVE  Authority'
  BY <1>7 DEF Stops, TypeOK, Targets, OnDispatch, Rows, Sessions, Prompting, Kinds
<1>8. ASSUME NEW c \in Commands, NEW w \in Workers, NEW at \in OnWorker, Looks(c, w, at)
      PROVE  Authority'
  BY <1>8 DEF Looks, TypeOK, Targets, OnDispatch, Rows, Sessions, Prompting, Kinds
<1>9. ASSUME NEW c \in Commands, NEW w \in Workers, NEW s \in {"ready", "stopped",
                  "outcome_unknown"}, LaunchFails(c, w, s)
      PROVE  Authority'
  BY <1>9 DEF LaunchFails, TypeOK, Targets, OnDispatch, Rows, Sessions, Prompting, Kinds
<1>10. ASSUME NEW c \in Commands, NEW w \in Workers, NEW s \in {"ready", "stopped",
                   "outcome_unknown"}, Judges(c, w, s)
       PROVE  Authority'
  BY <1>10 DEF Judges, TypeOK, Targets, OnDispatch, Rows, Sessions, Prompting, Kinds
<1>11. ASSUME NEW c \in Commands, NEW w \in Workers, NEW at \in {"stop", "cancel", "none"},
                   NEW x \in Workers \cup Dispatches \cup {0}, Closes(c, w, at, x)
       PROVE  Authority'
  BY <1>11 DEF Closes, TypeOK, Targets, OnDispatch, Rows, Sessions, Prompting, Kinds
<1>12. ASSUME NEW c \in Commands, NEW w \in Workers, NEW t \in Tasks, NEW d \in Dispatches,
                   Creates(c, t, w, d)
       PROVE  Authority'
  BY <1>12 DEF Creates, TypeOK, Targets, OnDispatch, Rows, Sessions, Prompting, Kinds
<1>13. ASSUME NEW c \in Commands, NEW d \in Dispatches, CancelFinds(c, d)
       PROVE  Authority'
  BY <1>13 DEF CancelFinds, TypeOK, Targets, OnDispatch, Rows, Sessions, Prompting, Kinds
<1>14. ASSUME NEW c \in Commands, NEW d \in Dispatches, Asked(c, d)
       PROVE  Authority'
  BY <1>14 DEF Asked, TypeOK, Targets, OnDispatch, Rows, Sessions, Prompting, Kinds
<1>15. ASSUME NEW c \in Commands, NEW d \in Dispatches, Replaces(c, d)
       PROVE  Authority'
  BY <1>15 DEF Replaces, TypeOK, Targets, OnDispatch, Rows, Sessions, Prompting, Kinds
<1>16. ASSUME NEW c \in Commands, NEW d \in Dispatches, Replies(c, d)
       PROVE  Authority'
  BY <1>16 DEF Replies, TypeOK, Targets, OnDispatch, Rows, Sessions, Prompting, Kinds
<1>17. ASSUME NEW c \in Commands, NEW d \in Dispatches, Cancels(c, d)
       PROVE  Authority'
  BY Z3T(60), <1>17 DEF Cancels, TypeOK, Targets, OnDispatch, Rows, Sessions, Prompting, Kinds
<1>18. ASSUME NEW c \in Commands, NEW d \in Dispatches, NEW k \in Kinds, Checks(c, d, k)
       PROVE  Authority'
  BY <1>18 DEF Checks, TypeOK, Targets, OnDispatch, Rows, Sessions, Prompting, Kinds
<1>19. ASSUME NEW c \in Commands, NEW d \in Dispatches, NEW at \in {"prompt", "doubt"},
                   Configures(c, d, at)
       PROVE  Authority'
  <2> HIDE DEF Authority, OfWorker, Exists, WorkerOf, Up, Quiet, At, On
  <2> DEFINE w == WorkerOf(d)
  <2>1. /\ d \in Dispatches /\ Exists(d) /\ w \in Workers
        /\ At(c, "configure") /\ On(c) = d /\ Prompter(c) /\ relay[w] = "up" /\ turn[w] = 0
    BY <1>19 DEF Configures, Targets, OnDispatch, Rows, Prompter, At, Up, Quiet
  <2>2. /\ capability' = [capability EXCEPT ![w] = d]
        /\ UNCHANGED <<dispatch, message, relay, turn, shared, raced>>
        /\ command' = [command EXCEPT ![c] = [at |-> at, on |-> d]] /\ at \in {"prompt", "doubt"}
    BY <1>19 DEF Configures
  <2>3. capability'[w] = d /\ \A v \in Workers : v # w => capability'[v] = capability[v]
    BY <2>1, <2>2 DEF TypeOK
  <2>4. /\ On(c)' = d /\ \A b \in Commands : b # c => On(b)' = On(b)
        /\ \A b \in Commands : b # c => At(b, "prompt")' = At(b, "prompt")
    BY <2>2 DEF TypeOK, At, On
  <2>5. \A e \in Dispatches : WorkerOf(e)' = WorkerOf(e) /\ Exists(e)' = Exists(e)
    BY <2>2 DEF WorkerOf, Exists
  <2> SUFFICES ASSUME "reply" \notin raced, NEW v \in Workers \ shared, relay[v] = "up"
               PROVE  /\ turn[v] # 0 => capability'[v] = turn[v]
                      /\ \A e \in OfWorker(v) :
                            ~dispatch[e].settled /\ message[e]["question"] # "none"
                                => capability'[v] = e
                      /\ \A b \in Commands : At(b, "prompt")' /\ WorkerOf(On(b))' = v
                                => capability'[v] = On(b)'
    BY <2>2 DEF Authority, OfWorker, WorkerOf, Exists
  <2>6. CASE v # w
    <3>1. /\ turn[v] # 0 => capability[v] = turn[v]
          /\ \A e \in OfWorker(v) :
                ~dispatch[e].settled /\ message[e]["question"] # "none" => capability[v] = e
          /\ \A b \in Commands : At(b, "prompt") /\ WorkerOf(On(b)) = v => capability[v] = On(b)
      BY DEF Authority
    <3>2. ASSUME NEW b \in Commands, At(b, "prompt")', WorkerOf(On(b))' = v
          PROVE  capability'[v] = On(b)'
      <4>1. b # c
        BY <2>4, <2>5, <2>1, <2>2, <2>6, <3>2 DEF WorkerOf
      <4>2. At(b, "prompt") /\ On(b)' = On(b) /\ WorkerOf(On(b)) = v
        BY <2>2, <2>4, <3>2, <4>1 DEF WorkerOf
      <4> QED
        BY <2>3, <2>6, <3>1, <4>2
    <3> QED
      BY <2>3, <2>6, <3>1, <3>2
  <2>7. CASE v = w
    <3>1. ASSUME NEW e \in Dispatches, Exists(e), WorkerOf(e) = w, ~dispatch[e].settled PROVE e = d
      <4>1. CASE dispatch[d].settled
        BY <2>1, <2>7, <3>1, <4>1 DEF Leftovers, Leftover
      <4>2. CASE ~dispatch[d].settled
        BY <2>1, <2>7, <3>1, <4>2 DEF Rows
      <4> QED
        BY <4>1, <4>2
    <3>2. ASSUME NEW e \in OfWorker(w), ~dispatch[e].settled PROVE e = d
      BY <3>1, <3>2 DEF OfWorker, WorkerOf
    <3>3. ASSUME NEW b \in Commands, b # c, At(b, "prompt"), WorkerOf(On(b)) = w PROVE On(b) = d
      <4>1. Prompter(b) /\ On(b) \in Dispatches /\ Exists(On(b))
        BY <3>3 DEF Prompter, At, Targets, OnDispatch
      <4>2. CASE dispatch[On(b)].settled
        BY <2>1, <2>7, <3>3, <4>1, <4>2 DEF Leftovers, Leftover
      <4>3. CASE ~dispatch[On(b)].settled
        BY <3>1, <3>3, <4>1, <4>3
      <4> QED
        BY <4>2, <4>3
    <3>4. ASSUME NEW b \in Commands, At(b, "prompt")', WorkerOf(On(b))' = w PROVE On(b)' = d
      <4>1. CASE b = c
        BY <2>4, <4>1
      <4>2. CASE b # c
        <5>1. At(b, "prompt") /\ On(b)' = On(b) /\ WorkerOf(On(b)) = w
          BY <2>2, <2>4, <3>4, <4>2 DEF WorkerOf
        <5> QED
          BY <3>3, <4>2, <5>1
      <4> QED
        BY <4>1, <4>2
    <3> QED
      BY <2>1, <2>3, <2>7, <3>2, <3>4
  <2> QED
    BY <2>6, <2>7
<1>20. ASSUME NEW c \in Commands, NEW d \in Dispatches, NEW at \in {"accept", "doubt", "none"},
                   NEW x \in {d, 0}, Misses(c, d, at, x)
       PROVE  Authority'
  BY <1>20 DEF Misses, TypeOK, Targets, OnDispatch, Rows, Sessions, Prompting, Kinds
<1>21. ASSUME NEW c \in Commands, NEW d \in Dispatches, NEW at \in {"accept", "doubt", "none"},
                   NEW x \in {d, 0}, Starts(c, d, at, x)
       PROVE  Authority'
  <2> HIDE DEF Authority, OfWorker, Exists, WorkerOf, Up, Quiet, At, On
  <2> DEFINE w == WorkerOf(d)
  <2>1. /\ d \in Dispatches /\ Exists(d) /\ w \in Workers
        /\ (At(c, "prompt") \/ At(c, "resume")) /\ On(c) = d /\ Prompter(c) /\ relay[w] = "up"
    BY <1>21 DEF Starts, Targets, OnDispatch, Rows, Prompter, At, Up
  <2>2. /\ turn' = [turn EXCEPT ![w] = d]
        /\ UNCHANGED <<dispatch, message, relay, capability, shared, raced>>
        /\ command' = [command EXCEPT ![c] = [at |-> at, on |-> x]] /\ at # "prompt"
    BY <1>21 DEF Starts
  <2>3. turn'[w] = d /\ \A v \in Workers : v # w => turn'[v] = turn[v]
    BY <2>1, <2>2 DEF TypeOK
  <2>4. \A b \in Commands : At(b, "prompt")' => At(b, "prompt") /\ On(b)' = On(b)
    BY <2>2 DEF TypeOK, At, On
  <2> SUFFICES ASSUME "reply" \notin raced, NEW v \in Workers \ shared, relay[v] = "up"
               PROVE  /\ turn'[v] # 0 => capability[v] = turn'[v]
                      /\ \A e \in OfWorker(v) :
                            ~dispatch[e].settled /\ message[e]["question"] # "none"
                                => capability[v] = e
                      /\ \A b \in Commands : At(b, "prompt")' /\ WorkerOf(On(b))' = v
                                => capability[v] = On(b)'
    BY <2>2 DEF Authority, OfWorker, WorkerOf, Exists
  <2>5. /\ turn[v] # 0 => capability[v] = turn[v]
        /\ \A e \in OfWorker(v) :
              ~dispatch[e].settled /\ message[e]["question"] # "none" => capability[v] = e
        /\ \A b \in Commands : At(b, "prompt") /\ WorkerOf(On(b)) = v => capability[v] = On(b)
    BY DEF Authority
  <2>6. ASSUME v = w PROVE capability[w] = d
    <3>1. CASE At(c, "prompt")
      BY <2>1, <2>5, <2>6, <3>1
    <3>2. CASE At(c, "resume") /\ dispatch[d].settled
      BY <2>1, <2>6, <3>2 DEF Leftovers, Leftover
    <3>3. CASE At(c, "resume") /\ ~dispatch[d].settled
      <4>1. message[d]["question"] = "acknowledged" /\ d \in OfWorker(w)
        BY <2>1, <3>3 DEF Prompting, OfWorker, WorkerOf
      <4> QED
        BY <2>5, <2>6, <3>3, <4>1
    <3> QED
      BY <2>1, <3>1, <3>2, <3>3
  <2>7. turn'[v] # 0 => capability[v] = turn'[v]
    BY <2>3, <2>5, <2>6
  <2>8. ASSUME NEW b \in Commands, At(b, "prompt")', WorkerOf(On(b))' = v
        PROVE  capability[v] = On(b)'
    <3>1. At(b, "prompt") /\ On(b)' = On(b) /\ WorkerOf(On(b)) = v
      BY <2>2, <2>4, <2>8 DEF WorkerOf
    <3> QED
      BY <2>5, <3>1
  <2> QED
    BY <2>5, <2>7, <2>8
<1>22. ASSUME NEW c \in Commands, NEW d \in Dispatches, NEW s \in {"accepted",
                   "outcome_unknown"}, NEW ws \in {"busy", "outcome_unknown"},
                   NEW at \in {"retain", "none"}, NEW x \in Workers \cup {0}, Marks(c, d, s, ws,
                   at, x)
       PROVE  Authority'
  BY <1>22 DEF Marks, TypeOK, Targets, OnDispatch, Rows, Sessions, Prompting, Kinds
<1>23. ASSUME Free /\ UNCHANGED command
       PROVE  Authority'
  BY <1>23 DEF Free, TypeOK, Targets, OnDispatch, Rows, Sessions, Prompting, Kinds
<1>24. ASSUME NEW d \in Dispatches, Abandons(d)
       PROVE  Authority'
  BY <1>24 DEF Abandons, TypeOK, Targets, OnDispatch, Rows, Sessions, Prompting, Kinds
<1>25. ASSUME NEW d \in Dispatches, NEW k \in Kinds, Acknowledges(d, k)
       PROVE  Authority'
  BY <1>25 DEF Acknowledges, TypeOK, Targets, OnDispatch, Rows, Sessions, Prompting, Kinds
<1>26. ASSUME NEW w \in Workers, Retains(w)
       PROVE  Authority'
  BY <1>26 DEF Retains, TypeOK, Targets, OnDispatch, Rows, Sessions, Prompting, Kinds
<1>27. ASSUME NEW w \in Workers, Rests(w)
       PROVE  Authority'
  BY <1>27 DEF Rests, TypeOK, Targets, OnDispatch, Rows, Sessions, Prompting, Kinds
<1>28. ASSUME NEW w \in Workers, Orphans(w)
       PROVE  Authority'
  BY <1>28 DEF Orphans, TypeOK, Targets, OnDispatch, Rows, Sessions, Prompting, Kinds
<1>29. ASSUME NEW w \in Workers, Dies(w)
       PROVE  Authority'
  BY <1>29 DEF Dies, TypeOK, Targets, OnDispatch, Rows, Sessions, Prompting, Kinds
<1>30. ASSUME NEW w \in Workers, NEW d \in Dispatches, ReportsLate(w, d)
       PROVE  Authority'
  BY <1>30 DEF ReportsLate, TypeOK, Targets, OnDispatch, Rows, Sessions, Prompting, Kinds
<1>31. ASSUME NEW w \in Workers, NEW d \in Dispatches, Asks(w, d)
       PROVE  Authority'
  BY <1>31, NotZero DEF Asks, TypeOK, Targets, OnDispatch, Rows, Sessions, Errands, Prompting,
     Kinds
<1>32. ASSUME NEW w \in Workers, NEW d \in Dispatches, NEW s \in {"retained", "idle"},
                   Reports(w, d, s)
       PROVE  Authority'
  BY <1>32 DEF Reports, TypeOK, Targets, OnDispatch, Rows, Sessions, Prompting, Kinds
<1> HIDE DEF Authority, OfWorker, Exists, WorkerOf, TaskOf, Begins, Up, Quiet, HasSession, Gone,
            Orphaned, Retained, SetTask, SetWorker, SetDispatch, At, On, Goes, Misjudges, Free
<1> QED
  BY <1>1, <1>2, <1>3, <1>4, <1>5, <1>6, <1>7, <1>8, <1>9, <1>10, <1>11, <1>12, <1>13, <1>14,
     <1>15, <1>16, <1>17, <1>18, <1>19, <1>20, <1>21, <1>22, <1>23, <1>24, <1>25, <1>26, <1>27,
     <1>28, <1>29, <1>30, <1>31, <1>32 DEF Moves, CommandMoves, OtherMoves

\* The moves keep a worker that is waited for out of other use.
LEMMA StartingStep ==
    ASSUME TypeOK, Targets, Rows, Sessions, Errands, Starting, Moves
    PROVE  Starting'
<1> USE DEF Starting, Exists, WorkerOf, TaskOf, Begins, Up, Quiet, HasSession, Gone, Orphaned,
        Retained, SetTask, SetWorker, SetDispatch, At, On, Goes, Misjudges, Free
<1>1. ASSUME NEW c \in Commands, GivesUp(c)
      PROVE  Starting'
  BY <1>1, NotZero DEF GivesUp, TypeOK, Targets, OnWorker, OnDispatch, Rows, Sessions, Errands, ActiveWorkerStatuses
<1>2. ASSUME NEW c \in Commands, NEW w \in Workers, Reserves(c, w)
      PROVE  Starting'
  BY <1>2, NotZero DEF Reserves, TypeOK, Targets, OnWorker, OnDispatch, Rows, Sessions, Errands, ActiveWorkerStatuses
<1>3. ASSUME NEW c \in Commands, NEW w \in Workers, Launches(c, w)
      PROVE  Starting'
  BY <1>3, NotZero DEF Launches, TypeOK, Targets, OnWorker, OnDispatch, Rows, Sessions, Errands, ActiveWorkerStatuses
<1>4. ASSUME NEW c \in Commands, NEW w \in Workers,
             NEW s \in {"ready", "stopped", "outcome_unknown"}, LaunchDoubted(c, w, s)
      PROVE  Starting'
  BY <1>4, NotZero DEF LaunchDoubted, TypeOK, Targets, OnWorker, OnDispatch, Rows, Sessions, Errands, ActiveWorkerStatuses
<1>5. ASSUME NEW c \in Commands, NEW w \in Workers, Loses(c, w)
      PROVE  Starting'
  BY <1>5, NotZero DEF Loses, TypeOK, Targets, OnWorker, OnDispatch, Rows, Sessions, Errands, ActiveWorkerStatuses
<1>6. ASSUME NEW c \in Commands, NEW w \in Workers, HandsOff(c, w)
      PROVE  Starting'
  BY <1>6, NotZero DEF HandsOff, TypeOK, Targets, OnWorker, OnDispatch, Rows, Sessions, Errands, ActiveWorkerStatuses
<1>7. ASSUME NEW c \in Commands, NEW w \in Workers, Stops(c, w)
      PROVE  Starting'
  BY <1>7, NotZero DEF Stops, TypeOK, Targets, OnWorker, OnDispatch, Rows, Sessions, Errands, ActiveWorkerStatuses
<1>8. ASSUME NEW c \in Commands, NEW w \in Workers, NEW at \in OnWorker, Looks(c, w, at)
      PROVE  Starting'
  BY <1>8, NotZero DEF Looks, TypeOK, Targets, OnWorker, OnDispatch, Rows, Sessions, Errands, ActiveWorkerStatuses
<1>9. ASSUME NEW c \in Commands, NEW w \in Workers, NEW s \in {"ready", "stopped",
                  "outcome_unknown"}, LaunchFails(c, w, s)
      PROVE  Starting'
  BY <1>9, NotZero DEF LaunchFails, TypeOK, Targets, OnWorker, OnDispatch, Rows, Sessions, Errands, ActiveWorkerStatuses
<1>10. ASSUME NEW c \in Commands, NEW w \in Workers, NEW s \in {"ready", "stopped",
                   "outcome_unknown"}, Judges(c, w, s)
       PROVE  Starting'
  BY <1>10, NotZero DEF Judges, TypeOK, Targets, OnWorker, OnDispatch, Rows, Sessions, Errands, ActiveWorkerStatuses
<1>11. ASSUME NEW c \in Commands, NEW w \in Workers, NEW at \in {"stop", "cancel", "none"},
                   NEW x \in Workers \cup Dispatches \cup {0}, Closes(c, w, at, x)
       PROVE  Starting'
  BY <1>11, NotZero DEF Closes, TypeOK, Targets, OnWorker, OnDispatch, Rows, Sessions, Errands, ActiveWorkerStatuses
<1>12. ASSUME NEW c \in Commands, NEW w \in Workers, NEW t \in Tasks, NEW d \in Dispatches,
                   Creates(c, t, w, d)
       PROVE  Starting'
  BY <1>12, NotZero DEF Creates, TypeOK, Targets, OnWorker, OnDispatch, Rows, Sessions, Errands, ActiveWorkerStatuses
<1>13. ASSUME NEW c \in Commands, NEW d \in Dispatches, CancelFinds(c, d)
       PROVE  Starting'
  BY <1>13, NotZero DEF CancelFinds, TypeOK, Targets, OnWorker, OnDispatch, Rows, Sessions, Errands, ActiveWorkerStatuses
<1>14. ASSUME NEW c \in Commands, NEW d \in Dispatches, Asked(c, d)
       PROVE  Starting'
  BY <1>14, NotZero DEF Asked, TypeOK, Targets, OnWorker, OnDispatch, Rows, Sessions, Errands, ActiveWorkerStatuses
<1>15. ASSUME NEW c \in Commands, NEW d \in Dispatches, Replaces(c, d)
       PROVE  Starting'
  BY <1>15, NotZero DEF Replaces, TypeOK, Targets, OnWorker, OnDispatch, Rows, Sessions, Errands, ActiveWorkerStatuses
<1>16. ASSUME NEW c \in Commands, NEW d \in Dispatches, Replies(c, d)
       PROVE  Starting'
  BY <1>16, NotZero DEF Replies, TypeOK, Targets, OnWorker, OnDispatch, Rows, Sessions, Errands, ActiveWorkerStatuses
<1>17. ASSUME NEW c \in Commands, NEW d \in Dispatches, Cancels(c, d)
       PROVE  Starting'
  BY <1>17, NotZero DEF Cancels, TypeOK, Targets, OnWorker, OnDispatch, Rows, Sessions, Errands, ActiveWorkerStatuses
<1>18. ASSUME NEW c \in Commands, NEW d \in Dispatches, NEW k \in Kinds, Checks(c, d, k)
       PROVE  Starting'
  BY <1>18, NotZero DEF Checks, TypeOK, Targets, OnWorker, OnDispatch, Rows, Sessions, Errands, ActiveWorkerStatuses
<1>19. ASSUME NEW c \in Commands, NEW d \in Dispatches, NEW at \in {"prompt", "doubt"},
                   Configures(c, d, at)
       PROVE  Starting'
  BY <1>19, NotZero DEF Configures, TypeOK, Targets, OnWorker, OnDispatch, Rows, Sessions, Errands, ActiveWorkerStatuses
<1>20. ASSUME NEW c \in Commands, NEW d \in Dispatches, NEW at \in {"accept", "doubt", "none"},
                   NEW x \in {d, 0}, Misses(c, d, at, x)
       PROVE  Starting'
  BY <1>20, NotZero DEF Misses, TypeOK, Targets, OnWorker, OnDispatch, Rows, Sessions, Errands, ActiveWorkerStatuses
<1>21. ASSUME NEW c \in Commands, NEW d \in Dispatches, NEW at \in {"accept", "doubt", "none"},
                   NEW x \in {d, 0}, Starts(c, d, at, x)
       PROVE  Starting'
  BY <1>21, NotZero DEF Starts, TypeOK, Targets, OnWorker, OnDispatch, Rows, Sessions, Errands, ActiveWorkerStatuses
<1>22. ASSUME NEW c \in Commands, NEW d \in Dispatches, NEW s \in {"accepted",
                   "outcome_unknown"}, NEW ws \in {"busy", "outcome_unknown"},
                   NEW at \in {"retain", "none"}, NEW x \in Workers \cup {0}, Marks(c, d, s, ws,
                   at, x)
       PROVE  Starting'
  BY <1>22, NotZero DEF Marks, TypeOK, Targets, OnWorker, OnDispatch, Rows, Sessions, Errands, ActiveWorkerStatuses
<1>23. ASSUME Free /\ UNCHANGED command
       PROVE  Starting'
  BY <1>23, NotZero DEF Free, TypeOK, Targets, OnWorker, OnDispatch, Rows, Sessions, Errands, ActiveWorkerStatuses
<1>24. ASSUME NEW d \in Dispatches, Abandons(d)
       PROVE  Starting'
  BY <1>24, NotZero DEF Abandons, TypeOK, Targets, OnWorker, OnDispatch, Rows, Sessions, Errands, ActiveWorkerStatuses
<1>25. ASSUME NEW d \in Dispatches, NEW k \in Kinds, Acknowledges(d, k)
       PROVE  Starting'
  BY <1>25, NotZero DEF Acknowledges, TypeOK, Targets, OnWorker, OnDispatch, Rows, Sessions, Errands, ActiveWorkerStatuses
<1>26. ASSUME NEW w \in Workers, Retains(w)
       PROVE  Starting'
  BY <1>26, NotZero DEF Retains, TypeOK, Targets, OnWorker, OnDispatch, Rows, Sessions, Errands, ActiveWorkerStatuses
<1>27. ASSUME NEW w \in Workers, Rests(w)
       PROVE  Starting'
  BY <1>27, NotZero DEF Rests, TypeOK, Targets, OnWorker, OnDispatch, Rows, Sessions, Errands, ActiveWorkerStatuses
<1>28. ASSUME NEW w \in Workers, Orphans(w)
       PROVE  Starting'
  BY <1>28, NotZero DEF Orphans, TypeOK, Targets, OnWorker, OnDispatch, Rows, Sessions, Errands, ActiveWorkerStatuses
<1>29. ASSUME NEW w \in Workers, Dies(w)
       PROVE  Starting'
  BY <1>29, NotZero DEF Dies, TypeOK, Targets, OnWorker, OnDispatch, Rows, Sessions, Errands, ActiveWorkerStatuses
<1>30. ASSUME NEW w \in Workers, NEW d \in Dispatches, ReportsLate(w, d)
       PROVE  Starting'
  BY <1>30, NotZero DEF ReportsLate, TypeOK, Targets, OnWorker, OnDispatch, Rows, Sessions, Errands, ActiveWorkerStatuses
<1>31. ASSUME NEW w \in Workers, NEW d \in Dispatches, Asks(w, d)
       PROVE  Starting'
  BY <1>31, NotZero DEF Asks, TypeOK, Targets, OnWorker, OnDispatch, Rows, Sessions, Errands, ActiveWorkerStatuses
<1>32. ASSUME NEW w \in Workers, NEW d \in Dispatches, NEW s \in {"retained", "idle"},
                   Reports(w, d, s)
       PROVE  Starting'
  BY <1>32, NotZero DEF Reports, TypeOK, Targets, OnWorker, OnDispatch, Rows, Sessions, Errands, ActiveWorkerStatuses
<1> HIDE DEF Starting, Exists, WorkerOf, TaskOf, Begins, Up, Quiet, HasSession, Gone, Orphaned,
        Retained, SetTask, SetWorker, SetDispatch, At, On, Goes, Misjudges, Free
<1> QED
  BY <1>1, <1>2, <1>3, <1>4, <1>5, <1>6, <1>7, <1>8, <1>9, <1>10, <1>11, <1>12, <1>13, <1>14,
     <1>15, <1>16, <1>17, <1>18, <1>19, <1>20, <1>21, <1>22, <1>23, <1>24, <1>25, <1>26, <1>27,
     <1>28, <1>29, <1>30, <1>31, <1>32 DEF Moves, CommandMoves, OtherMoves

\* What a move may do to the dispatches, to the workers, and to the commands that are to prompt B.
Course ==
    /\ shared \subseteq shared' /\ raced \subseteq raced'
    /\ \A d \in Dispatches :
          /\ Exists(d) => /\ Exists(d)' /\ WorkerOf(d)' = WorkerOf(d)
                          /\ dispatch[d].settled => dispatch'[d].settled
          /\ Exists(d)' /\ ~Exists(d) =>
                /\ worker[WorkerOf(d)'].status \in {"ready", "idle"} /\ ~dispatch'[d].settled
                /\ \A e \in Dispatches : dispatch'[e].settled => dispatch[e].settled
          /\ Exists(d) /\ ~dispatch[d].settled /\ dispatch'[d].settled =>
                \/ worker'[WorkerOf(d)].status \notin {"ready", "idle"}
                \/ turn[WorkerOf(d)] = d
    /\ \A c \in Commands : Prompter(c)' =>
          \/ Prompter(c) /\ On(c)' = On(c) /\ (At(c, "resume")' => At(c, "resume"))
          \/ On(c)' \in Dispatches /\ Exists(On(c))' /\ ~dispatch'[On(c)'].settled
    /\ \A w \in Workers :
          /\ relay[w] = "gone" => relay'[w] = "gone"
          /\ relay'[w] = "up" =>
                /\ relay[w] \in {"up", "none"}
                /\ \/ capability'[w] = capability[w]
                   \/ \E c \in Commands : At(c, "configure") /\ WorkerOf(On(c)) = w
          /\ worker'[w].status \in {"ready", "idle"} =>
                \/ worker[w].status \in {"ready", "idle"}
                \/ \E d \in Dispatches : Exists(d) /\ WorkerOf(d) = w /\ ~dispatch[d].settled
                \/ \A d \in Dispatches : Exists(d) => WorkerOf(d) # w

\* The moves keep to that.
LEMMA CourseStep ==
    ASSUME TypeOK, Targets, Rows, Sessions, Errands, Starting, Moves
    PROVE  Course
<1> USE DEF Course, Prompter, Exists, WorkerOf, TaskOf, Begins, Up, Quiet, HasSession, Gone, Orphaned,
        Retained, SetTask, SetWorker, SetDispatch, At, On, Goes, Misjudges, Free
<1>1. ASSUME NEW c \in Commands, GivesUp(c)
      PROVE  Course
  BY <1>1, NotZero DEF GivesUp, TypeOK, Targets, OnWorker, OnDispatch, Rows, Sessions, Errands
<1>2. ASSUME NEW c \in Commands, NEW w \in Workers, Reserves(c, w)
      PROVE  Course
  BY <1>2, NotZero DEF Reserves, TypeOK, Targets, OnWorker, OnDispatch, Rows, Sessions, Errands
<1>3. ASSUME NEW c \in Commands, NEW w \in Workers, Launches(c, w)
      PROVE  Course
  BY <1>3, NotZero DEF Launches, TypeOK, Targets, OnWorker, OnDispatch, Rows, Sessions, Errands
<1>4. ASSUME NEW c \in Commands, NEW w \in Workers,
             NEW s \in {"ready", "stopped", "outcome_unknown"}, LaunchDoubted(c, w, s)
      PROVE  Course
  BY <1>4, NotZero DEF LaunchDoubted, TypeOK, Targets, OnWorker, OnDispatch, Rows, Sessions, Errands
<1>5. ASSUME NEW c \in Commands, NEW w \in Workers, Loses(c, w)
      PROVE  Course
  BY <1>5, NotZero DEF Loses, TypeOK, Targets, OnWorker, OnDispatch, Rows, Sessions, Errands
<1>6. ASSUME NEW c \in Commands, NEW w \in Workers, HandsOff(c, w)
      PROVE  Course
  BY <1>6, NotZero DEF HandsOff, TypeOK, Targets, OnWorker, OnDispatch, Rows, Sessions, Errands
<1>7. ASSUME NEW c \in Commands, NEW w \in Workers, Stops(c, w)
      PROVE  Course
  BY <1>7, NotZero DEF Stops, TypeOK, Targets, OnWorker, OnDispatch, Rows, Sessions, Errands
<1>8. ASSUME NEW c \in Commands, NEW w \in Workers, NEW at \in OnWorker, Looks(c, w, at)
      PROVE  Course
  BY <1>8, NotZero DEF Looks, TypeOK, Targets, OnWorker, OnDispatch, Rows, Sessions, Errands
<1>9. ASSUME NEW c \in Commands, NEW w \in Workers, NEW s \in {"ready", "stopped",
                  "outcome_unknown"}, LaunchFails(c, w, s)
      PROVE  Course
  BY <1>9, NotZero DEF LaunchFails, TypeOK, Targets, OnWorker, OnDispatch, Rows, Sessions, Errands
<1>10. ASSUME NEW c \in Commands, NEW w \in Workers, NEW s \in {"ready", "stopped",
                   "outcome_unknown"}, Judges(c, w, s)
       PROVE  Course
  BY <1>10, NotZero DEF Judges, TypeOK, Targets, OnWorker, OnDispatch, Starting
<1>11. ASSUME NEW c \in Commands, NEW w \in Workers, NEW at \in {"stop", "cancel", "none"},
                   NEW x \in Workers \cup Dispatches \cup {0}, Closes(c, w, at, x)
       PROVE  Course
  BY <1>11, NotZero DEF Closes, TypeOK, Targets, OnWorker, OnDispatch, Rows, Sessions, Errands
<1>12. ASSUME NEW c \in Commands, NEW w \in Workers, NEW t \in Tasks, NEW d \in Dispatches,
                   Creates(c, t, w, d)
       PROVE  Course
  BY <1>12, NotZero DEF Creates, TypeOK, Targets, OnWorker, OnDispatch, Rows, Sessions, Errands
<1>13. ASSUME NEW c \in Commands, NEW d \in Dispatches, CancelFinds(c, d)
       PROVE  Course
  BY <1>13, NotZero DEF CancelFinds, TypeOK, Targets, OnWorker, OnDispatch, Rows, Sessions, Errands
<1>14. ASSUME NEW c \in Commands, NEW d \in Dispatches, Asked(c, d)
       PROVE  Course
  BY <1>14, NotZero DEF Asked, TypeOK, Targets, OnWorker, OnDispatch, Rows, Sessions, Errands
<1>15. ASSUME NEW c \in Commands, NEW d \in Dispatches, Replaces(c, d)
       PROVE  Course
  BY <1>15, NotZero DEF Replaces, TypeOK, Targets, OnWorker, OnDispatch, Rows, Sessions, Errands
<1>16. ASSUME NEW c \in Commands, NEW d \in Dispatches, Replies(c, d)
       PROVE  Course
  BY <1>16, NotZero DEF Replies, TypeOK, Targets, OnWorker, OnDispatch, Rows, Sessions, Errands
<1>17. ASSUME NEW c \in Commands, NEW d \in Dispatches, Cancels(c, d)
       PROVE  Course
  BY <1>17, NotZero DEF Cancels, TypeOK, Targets, OnWorker, OnDispatch, Rows, Sessions, Errands
<1>18. ASSUME NEW c \in Commands, NEW d \in Dispatches, NEW k \in Kinds, Checks(c, d, k)
       PROVE  Course
  BY <1>18, NotZero DEF Checks, TypeOK, Targets, OnWorker, OnDispatch, Rows, Sessions, Errands
<1>19. ASSUME NEW c \in Commands, NEW d \in Dispatches, NEW at \in {"prompt", "doubt"},
                   Configures(c, d, at)
       PROVE  Course
  BY <1>19, NotZero DEF Configures, TypeOK, Targets, OnWorker, OnDispatch, Rows, Sessions, Errands
<1>20. ASSUME NEW c \in Commands, NEW d \in Dispatches, NEW at \in {"accept", "doubt", "none"},
                   NEW x \in {d, 0}, Misses(c, d, at, x)
       PROVE  Course
  BY <1>20, NotZero DEF Misses, TypeOK, Targets, OnWorker, OnDispatch, Rows, Sessions, Errands
<1>21. ASSUME NEW c \in Commands, NEW d \in Dispatches, NEW at \in {"accept", "doubt", "none"},
                   NEW x \in {d, 0}, Starts(c, d, at, x)
       PROVE  Course
  BY <1>21, NotZero DEF Starts, TypeOK, Targets, OnWorker, OnDispatch, Rows, Sessions, Errands
<1>22. ASSUME NEW c \in Commands, NEW d \in Dispatches, NEW s \in {"accepted",
                   "outcome_unknown"}, NEW ws \in {"busy", "outcome_unknown"},
                   NEW at \in {"retain", "none"}, NEW x \in Workers \cup {0}, Marks(c, d, s, ws,
                   at, x)
       PROVE  Course
  BY <1>22, NotZero DEF Marks, TypeOK, Targets, OnWorker, OnDispatch, Rows, Sessions, Errands
<1>23. ASSUME Free /\ UNCHANGED command
       PROVE  Course
  BY <1>23, NotZero DEF Free, TypeOK, Targets, OnWorker, OnDispatch, Rows, Sessions, Errands
<1>24. ASSUME NEW d \in Dispatches, Abandons(d)
       PROVE  Course
  BY <1>24, NotZero DEF Abandons, TypeOK, Targets, OnWorker, OnDispatch, Rows, Sessions, Errands
<1>25. ASSUME NEW d \in Dispatches, NEW k \in Kinds, Acknowledges(d, k)
       PROVE  Course
  BY <1>25, NotZero DEF Acknowledges, TypeOK, Targets, OnWorker, OnDispatch, Rows, Sessions, Errands
<1>26. ASSUME NEW w \in Workers, Retains(w)
       PROVE  Course
  BY <1>26, NotZero DEF Retains, TypeOK, Targets, OnWorker, OnDispatch, Rows, Sessions, Errands
<1>27. ASSUME NEW w \in Workers, Rests(w)
       PROVE  Course
  BY <1>27, NotZero DEF Rests, TypeOK, Targets, OnWorker, OnDispatch, Rows, Sessions, Errands
<1>28. ASSUME NEW w \in Workers, Orphans(w)
       PROVE  Course
  BY <1>28, NotZero DEF Orphans, TypeOK, Targets, OnWorker, OnDispatch, Rows, Sessions, Errands
<1>29. ASSUME NEW w \in Workers, Dies(w)
       PROVE  Course
  BY <1>29, NotZero DEF Dies, TypeOK, Targets, OnWorker, OnDispatch, Rows, Sessions, Errands
<1>30. ASSUME NEW w \in Workers, NEW d \in Dispatches, ReportsLate(w, d)
       PROVE  Course
  BY <1>30, NotZero DEF ReportsLate, TypeOK, Targets, OnWorker, OnDispatch, Rows, Sessions, Errands
<1>31. ASSUME NEW w \in Workers, NEW d \in Dispatches, Asks(w, d)
       PROVE  Course
  BY <1>31, NotZero DEF Asks, TypeOK, Targets, OnWorker, OnDispatch, Rows, Sessions, Errands
<1>32. ASSUME NEW w \in Workers, NEW d \in Dispatches, NEW s \in {"retained", "idle"},
                   Reports(w, d, s)
       PROVE  Course
  BY <1>32, NotZero DEF Reports, TypeOK, Targets, OnWorker, OnDispatch, Rows, Sessions, Errands
<1> HIDE DEF Course, Prompter, Exists, WorkerOf, TaskOf, Begins, Up, Quiet, HasSession, Gone, Orphaned,
        Retained, SetTask, SetWorker, SetDispatch, At, On, Goes, Misjudges, Free
<1> QED
  BY <1>1, <1>2, <1>3, <1>4, <1>5, <1>6, <1>7, <1>8, <1>9, <1>10, <1>11, <1>12, <1>13, <1>14,
     <1>15, <1>16, <1>17, <1>18, <1>19, <1>20, <1>21, <1>22, <1>23, <1>24, <1>25, <1>26, <1>27,
     <1>28, <1>29, <1>30, <1>31, <1>32 DEF Moves, CommandMoves, OtherMoves

\* A command whose dispatch was cancelled is left the last one at its worker.
LEMMA LeftoversStep ==
    ASSUME TypeOK, Targets, Rows, Sessions, Prompting, Authority, Leftovers, Course
    PROVE  Leftovers'
<1> SUFFICES ASSUME "reply" \notin raced', NEW c \in Commands, Prompter(c)',
                    dispatch'[On(c)'].settled, relay'[dispatch'[On(c)'].worker] # "gone",
                    dispatch'[On(c)'].worker \notin shared'
             PROVE  LET w == dispatch'[On(c)'].worker IN
                    /\ worker'[w].status \notin {"ready", "idle"}
                    /\ \A e \in Dispatches : Exists(e)' /\ WorkerOf(e)' = w => dispatch'[e].settled
                    /\ At(c, "resume")' /\ relay'[w] = "up" => capability'[w] = On(c)'
                    /\ \A b \in Commands : Prompter(b)' /\ WorkerOf(On(b))' = w => On(b)' = On(c)'
  BY DEF Leftovers, Leftover, WorkerOf
<1> DEFINE d == On(c)
           w == WorkerOf(d)
<1>1. "reply" \notin raced /\ shared \subseteq shared'
  BY DEF Course
<1>2. Prompter(c) /\ On(c)' = d /\ (At(c, "resume")' => At(c, "resume"))
  BY DEF Course
<1>3. d \in Dispatches /\ Exists(d) /\ w \in Workers
  BY <1>2 DEF Prompter, Targets, OnDispatch, Rows, At
<1>4. WorkerOf(d)' = w /\ dispatch'[On(c)'].worker = w
  BY <1>2, <1>3 DEF Course, WorkerOf
<1>5. w \notin shared /\ relay[w] # "gone" /\ relay[w] # "none"
  BY <1>1, <1>3, <1>4 DEF Course, Sessions
<1>6. relay'[w] = "up" => relay[w] = "up"
  BY <1>3, <1>5 DEF Course
<1>7. \A b \in Commands : Prompter(b) =>
         /\ On(b) \in Dispatches /\ Exists(On(b))
         /\ turn[WorkerOf(On(b))] # On(b)
         /\ At(b, "configure") => message[On(b)]["question"] = "none"
         /\ At(b, "resume") => message[On(b)]["question"] = "acknowledged"
  <2> SUFFICES ASSUME NEW b \in Commands, Prompter(b)
               PROVE  /\ On(b) \in Dispatches /\ Exists(On(b))
                      /\ turn[WorkerOf(On(b))] # On(b)
                      /\ At(b, "configure") => message[On(b)]["question"] = "none"
                      /\ At(b, "resume") => message[On(b)]["question"] = "acknowledged"
    OBVIOUS
  <2>1. On(b) \in Dispatches /\ Exists(On(b))
    BY DEF Prompter, Targets, OnDispatch
  <2>2. turn[WorkerOf(On(b))] # On(b)
    BY <1>1 DEF Prompter, Prompting, At
  <2>3. At(b, "configure") => message[On(b)]["question"] = "none"
    BY DEF Prompting, At, Kinds
  <2>4. At(b, "resume") => message[On(b)]["question"] = "acknowledged"
    BY DEF Prompting
  <2> QED
    BY <2>1, <2>2, <2>3, <2>4
<1>8. ASSUME NEW b \in Commands, Prompter(b), WorkerOf(On(b)) = w, dispatch[On(b)].settled
      PROVE  /\ worker[w].status \notin {"ready", "idle"}
             /\ \A e \in Dispatches : Exists(e) /\ WorkerOf(e) = w => dispatch[e].settled
             /\ At(b, "resume") /\ relay[w] = "up" => capability[w] = On(b)
             /\ \A a \in Commands : Prompter(a) /\ WorkerOf(On(a)) = w => On(a) = On(b)
  BY <1>1, <1>5, <1>8 DEF Leftovers, Leftover
\* Before the step, the commands that are to prompt B at the worker are at one dispatch.
<1>9. ASSUME NEW b \in Commands, Prompter(b), WorkerOf(On(b)) = w
      PROVE  On(b) = d
  <2>1. On(b) \in Dispatches /\ Exists(On(b))
    BY <1>7, <1>9
  <2>2. CASE dispatch[d].settled
    BY <1>2, <1>8, <1>9, <2>2
  <2>3. CASE ~dispatch[d].settled
    <3>1. ~dispatch[On(b)].settled
      BY <1>3, <1>8, <1>9, <2>3
    <3> QED
      BY <1>3, <1>5, <1>9, <2>1, <2>3, <3>1 DEF Rows
  <2> QED
    BY <2>2, <2>3
<1>10. \A e \in Dispatches : Exists(e) /\ WorkerOf(e) = w /\ e # d => dispatch[e].settled
  <2>1. CASE dispatch[d].settled
    BY <1>2, <1>8, <2>1
  <2>2. CASE ~dispatch[d].settled
    BY <1>3, <1>5, <2>2 DEF Rows
  <2> QED
    BY <2>1, <2>2
<1>11. dispatch'[d].settled
  BY <1>2
<1>12. \A e \in Dispatches : Exists(e)' /\ WorkerOf(e)' = w => dispatch'[e].settled
  <2> SUFFICES ASSUME NEW e \in Dispatches, Exists(e)', WorkerOf(e)' = w
               PROVE  dispatch'[e].settled
    OBVIOUS
  <2>1. CASE Exists(e)
    BY <1>10, <1>11, <2>1 DEF Course
  <2>2. CASE ~Exists(e)
    <3>1. worker[w].status \in {"ready", "idle"} /\ dispatch[d].settled
      BY <1>3, <1>11, <2>2 DEF Course
    <3> QED
      BY <1>2, <1>8, <3>1
  <2> QED
    BY <2>1, <2>2
<1>13. worker'[w].status \notin {"ready", "idle"}
  <2>1. CASE dispatch[d].settled
    <3>1. /\ worker[w].status \notin {"ready", "idle"}
          /\ \A e \in Dispatches : Exists(e) /\ WorkerOf(e) = w => dispatch[e].settled
      BY <1>2, <1>8, <2>1
    <3> QED
      BY <1>3, <3>1 DEF Course
  <2>2. CASE ~dispatch[d].settled
    BY <1>2, <1>3, <1>7, <1>11, <2>2 DEF Course
  <2> QED
    BY <2>1, <2>2
<1>14. ASSUME At(c, "resume"), relay'[w] = "up" PROVE capability'[w] = d
  <2>1. capability[w] = d
    <3>1. CASE dispatch[d].settled
      BY <1>2, <1>6, <1>8, <1>14, <3>1
    <3>2. CASE ~dispatch[d].settled
      <4>1. message[d]["question"] # "none"
        BY <1>2, <1>7, <1>14
      <4>2. relay[w] = "up" /\ d \in OfWorker(w)
        BY <1>3, <1>6, <1>14 DEF OfWorker, WorkerOf
      <4> QED
        BY <1>1, <1>3, <1>5, <3>2, <4>1, <4>2 DEF Authority
    <3> QED
      BY <3>1, <3>2
  <2>2. ASSUME NEW b \in Commands, At(b, "configure"), WorkerOf(On(b)) = w PROVE FALSE
    <3>1. Prompter(b)
      BY <2>2 DEF Prompter, At
    <3>2. On(b) = d
      BY <1>9, <2>2, <3>1
    <3>3. message[d]["question"] = "none"
      BY <1>7, <2>2, <3>1, <3>2
    <3>4. message[d]["question"] = "acknowledged"
      BY <1>2, <1>7, <1>14
    <3> QED
      BY <3>3, <3>4
  <2> QED
    BY <1>3, <1>14, <2>1, <2>2 DEF Course
<1>15. ASSUME NEW b \in Commands, Prompter(b)', WorkerOf(On(b))' = w PROVE On(b)' = d
  <2>1. CASE Prompter(b) /\ On(b)' = On(b)
    <3>1. On(b) \in Dispatches /\ Exists(On(b)) /\ WorkerOf(On(b)) = w
      BY <1>7, <1>15, <2>1 DEF Course, WorkerOf
    <3> QED
      BY <1>9, <2>1, <3>1
  <2>2. CASE On(b)' \in Dispatches /\ Exists(On(b))' /\ ~dispatch'[On(b)'].settled
    BY <1>12, <1>15, <2>2 DEF Exists, WorkerOf
  <2> QED
    BY <1>15, <2>1, <2>2 DEF Course
<1> QED
  BY <1>2, <1>4, <1>12, <1>13, <1>14, <1>15

\* A worker that is reserved is the only one that comes to be engaged.
EngagedKept ==
    /\ misjudged \subseteq misjudged'
    /\ \/ \A v \in Workers : (v \in Engaged)' => v \in Engaged
       \/ \E c \in Commands, w \in Workers : Reserves(c, w)

\* The moves keep the others from being engaged.
LEMMA EngagedStep ==
    ASSUME TypeOK, Targets, Sessions, Errands, Moves
    PROVE  EngagedKept
<1> USE DEF EngagedKept, Engaged, Begins, HasSession, Gone, Orphaned, Retained, SetTask,
        SetWorker, SetDispatch, At, On, Goes, Misjudges, Free
<1>1. ASSUME NEW c \in Commands, GivesUp(c)
      PROVE  EngagedKept
  BY <1>1 DEF GivesUp, TypeOK
<1>2. ASSUME NEW c \in Commands, NEW w \in Workers, Reserves(c, w)
      PROVE  EngagedKept
  <2>1. misjudged \subseteq misjudged'
    BY <1>2 DEF Reserves
  <2> QED
    BY <1>2, <2>1 DEF EngagedKept
<1>3. ASSUME NEW c \in Commands, NEW w \in Workers, Launches(c, w)
      PROVE  EngagedKept
  BY <1>3 DEF Launches, TypeOK, Targets, OnWorker
<1>4. ASSUME NEW c \in Commands, NEW w \in Workers,
             NEW s \in {"ready", "stopped", "outcome_unknown"}, LaunchDoubted(c, w, s)
      PROVE  EngagedKept
  BY <1>4 DEF LaunchDoubted, TypeOK, Targets, OnWorker
<1>5. ASSUME NEW c \in Commands, NEW w \in Workers, Loses(c, w)
      PROVE  EngagedKept
  BY <1>5 DEF Loses, TypeOK
<1>6. ASSUME NEW c \in Commands, NEW w \in Workers, HandsOff(c, w)
      PROVE  EngagedKept
  BY <1>6 DEF HandsOff, TypeOK
<1>7. ASSUME NEW c \in Commands, NEW w \in Workers, Stops(c, w)
      PROVE  EngagedKept
  BY <1>7 DEF Stops, TypeOK
<1>8. ASSUME NEW c \in Commands, NEW w \in Workers, NEW at \in OnWorker, Looks(c, w, at)
      PROVE  EngagedKept
  BY <1>8 DEF Looks, TypeOK
<1>9. ASSUME NEW c \in Commands, NEW w \in Workers, NEW s \in {"ready", "stopped",
                  "outcome_unknown"}, LaunchFails(c, w, s)
      PROVE  EngagedKept
  BY <1>9 DEF LaunchFails, TypeOK
<1>10. ASSUME NEW c \in Commands, NEW w \in Workers, NEW s \in {"ready", "stopped",
                   "outcome_unknown"}, Judges(c, w, s)
       PROVE  EngagedKept
  BY <1>10 DEF Judges, TypeOK
<1>11. ASSUME NEW c \in Commands, NEW w \in Workers, NEW at \in {"stop", "cancel", "none"},
                   NEW x \in Workers \cup Dispatches \cup {0}, Closes(c, w, at, x)
       PROVE  EngagedKept
  BY <1>11 DEF Closes, TypeOK
<1>12. ASSUME NEW c \in Commands, NEW w \in Workers, NEW t \in Tasks, NEW d \in Dispatches,
                   Creates(c, t, w, d)
       PROVE  EngagedKept
  BY <1>12 DEF Creates, TypeOK
<1>13. ASSUME NEW c \in Commands, NEW d \in Dispatches, CancelFinds(c, d)
       PROVE  EngagedKept
  BY <1>13 DEF CancelFinds, TypeOK
<1>14. ASSUME NEW c \in Commands, NEW d \in Dispatches, Asked(c, d)
       PROVE  EngagedKept
  BY <1>14 DEF Asked, TypeOK
<1>15. ASSUME NEW c \in Commands, NEW d \in Dispatches, Replaces(c, d)
       PROVE  EngagedKept
  BY <1>15 DEF Replaces, TypeOK, Up
<1>16. ASSUME NEW c \in Commands, NEW d \in Dispatches, Replies(c, d)
       PROVE  EngagedKept
  BY <1>16 DEF Replies, TypeOK
<1>17. ASSUME NEW c \in Commands, NEW d \in Dispatches, Cancels(c, d)
       PROVE  EngagedKept
  BY <1>17 DEF Cancels, TypeOK
<1>18. ASSUME NEW c \in Commands, NEW d \in Dispatches, NEW k \in Kinds, Checks(c, d, k)
       PROVE  EngagedKept
  BY <1>18 DEF Checks, TypeOK
<1>19. ASSUME NEW c \in Commands, NEW d \in Dispatches, NEW at \in {"prompt", "doubt"},
                   Configures(c, d, at)
       PROVE  EngagedKept
  BY <1>19 DEF Configures, TypeOK
<1>20. ASSUME NEW c \in Commands, NEW d \in Dispatches, NEW at \in {"accept", "doubt", "none"},
                   NEW x \in {d, 0}, Misses(c, d, at, x)
       PROVE  EngagedKept
  BY <1>20 DEF Misses, TypeOK
<1>21. ASSUME NEW c \in Commands, NEW d \in Dispatches, NEW at \in {"accept", "doubt", "none"},
                   NEW x \in {d, 0}, Starts(c, d, at, x)
       PROVE  EngagedKept
  BY <1>21 DEF Starts, TypeOK
<1>22. ASSUME NEW c \in Commands, NEW d \in Dispatches, NEW s \in {"accepted",
                   "outcome_unknown"}, NEW ws \in {"busy", "outcome_unknown"},
                   NEW at \in {"retain", "none"}, NEW x \in Workers \cup {0}, Marks(c, d, s, ws,
                   at, x)
       PROVE  EngagedKept
  BY <1>22 DEF Marks, TypeOK
<1>23. ASSUME Free /\ UNCHANGED command
       PROVE  EngagedKept
  BY <1>23 DEF Free, TypeOK
<1>24. ASSUME NEW d \in Dispatches, Abandons(d)
       PROVE  EngagedKept
  BY <1>24 DEF Abandons, TypeOK
<1>25. ASSUME NEW d \in Dispatches, NEW k \in Kinds, Acknowledges(d, k)
       PROVE  EngagedKept
  BY <1>25 DEF Acknowledges, TypeOK
<1>26. ASSUME NEW w \in Workers, Retains(w)
       PROVE  EngagedKept
  BY <1>26 DEF Retains, TypeOK
<1>27. ASSUME NEW w \in Workers, Rests(w)
       PROVE  EngagedKept
  BY <1>27 DEF Rests, TypeOK
<1>28. ASSUME NEW w \in Workers, Orphans(w)
       PROVE  EngagedKept
  BY <1>28 DEF Orphans, TypeOK
<1>29. ASSUME NEW w \in Workers, Dies(w)
       PROVE  EngagedKept
  BY <1>29 DEF Dies, TypeOK
<1>30. ASSUME NEW w \in Workers, NEW d \in Dispatches, ReportsLate(w, d)
       PROVE  EngagedKept
  BY <1>30 DEF ReportsLate, TypeOK
<1>31. ASSUME NEW w \in Workers, NEW d \in Dispatches, Asks(w, d)
       PROVE  EngagedKept
  BY <1>31 DEF Asks, TypeOK
<1>32. ASSUME NEW w \in Workers, NEW d \in Dispatches, NEW s \in {"retained", "idle"},
                   Reports(w, d, s)
       PROVE  EngagedKept
  BY <1>32 DEF Reports, TypeOK
<1> HIDE DEF EngagedKept, Engaged, Begins, HasSession, Gone, Orphaned, Retained, SetTask,
            SetWorker, SetDispatch, At, On, Goes, Misjudges, Free
<1> QED
  BY <1>1, <1>2, <1>3, <1>4, <1>5, <1>6, <1>7, <1>8, <1>9, <1>10, <1>11, <1>12, <1>13, <1>14,
     <1>15, <1>16, <1>17, <1>18, <1>19, <1>20, <1>21, <1>22, <1>23, <1>24, <1>25, <1>26, <1>27,
     <1>28, <1>29, <1>30, <1>31, <1>32 DEF Moves, CommandMoves, OtherMoves

\* A worker that is engaged, and was not wrongly taken for stopped or lost, counts against
\* the limit.
LEMMA SeenActive ==
    ASSUME TypeOK, Sessions, Errands
    PROVE  Seen \subseteq ActiveWorkers
BY DEF TypeOK, Sessions, Errands, Seen, Engaged, ActiveWorkers, ActiveWorkerStatuses, HasSession,
       At, On

\* The limit on the workers that are engaged is kept: a worker is reserved below the limit only.
LEMMA LimitStep ==
    ASSUME TypeOK, Targets, Sessions, Errands, Limit, Moves
    PROVE  Limit'
<1> SUFFICES Cardinality(Seen') <= MaxWorkers
  BY DEF Limit
<1>1. EngagedKept
  BY EngagedStep
<1>2. Cardinality(Seen) <= MaxWorkers
  BY DEF Limit
<1>3. /\ Seen \subseteq Workers /\ Seen' \subseteq Workers /\ ActiveWorkers \subseteq Workers
      /\ IsFiniteSet(Workers)
  BY OrchestrationAssumption DEF Seen, Engaged, ActiveWorkers
<1>4. /\ IsFiniteSet(Seen) /\ IsFiniteSet(ActiveWorkers) /\ IsFiniteSet(Seen')
      /\ Cardinality(Seen) \in Nat /\ Cardinality(ActiveWorkers) \in Nat
      /\ Cardinality(Seen') \in Nat
  BY <1>3, FS_Subset, FS_CardinalityType
<1>5. CASE \A v \in Workers : (v \in Engaged)' => v \in Engaged
  <2>1. Seen' \subseteq Seen
    <3> SUFFICES ASSUME NEW v \in Workers, v \in Seen' PROVE v \in Seen
      BY <1>3
    <3>1. v \in Engaged' /\ v \notin misjudged'
      BY DEF Seen
    <3> QED
      BY <1>1, <1>5, <3>1 DEF Seen, EngagedKept
  <2>2. Cardinality(Seen') <= Cardinality(Seen)
    BY <1>4, <2>1, FS_Subset
  <2> QED
    BY <1>2, <1>4, <2>2, OrchestrationAssumption
<1>6. ASSUME NEW c \in Commands, NEW w \in Workers, Reserves(c, w)
      PROVE  Cardinality(Seen') <= MaxWorkers
  <2>1. Seen' \subseteq Seen \cup {w}
    BY <1>6 DEF Seen, Engaged, Reserves, HasSession, At, On, Goes, TypeOK
  <2>2. Seen' \subseteq ActiveWorkers \cup {w}
    BY <2>1, SeenActive
  <2>3. /\ IsFiniteSet(ActiveWorkers \cup {w})
        /\ Cardinality(ActiveWorkers \cup {w}) \in {Cardinality(ActiveWorkers),
                       Cardinality(ActiveWorkers) + 1}
    BY <1>4, FS_AddElement
  <2>4. Cardinality(Seen') <= Cardinality(ActiveWorkers \cup {w})
    BY <2>2, <2>3, FS_Subset
  <2>5. Cardinality(ActiveWorkers) < MaxWorkers
    BY <1>6 DEF Reserves
  <2> QED
    BY <1>4, <2>3, <2>4, <2>5, OrchestrationAssumption
<1> QED
  BY <1>1, <1>5, <1>6 DEF EngagedKept

\* What a move does to what a task owes: nothing new, or one prompt, which is counted.
OwedKept(u) ==
    /\ task'[u].prompts = task[u].prompts
    /\ \A e \in Dispatches, n \in {1, 2} :
          (e \in OfTask(u) /\ Owes(e, n))' => e \in OfTask(u) /\ Owes(e, n)
OwedOne(u, f, m) ==
    /\ task'[u].prompts = task[u].prompts + 1
    /\ \A e \in Dispatches, n \in {1, 2} :
          (e \in OfTask(u) /\ Owes(e, n))' => (e \in OfTask(u) /\ Owes(e, n)) \/ (e = f /\ n = m)

\* The moves keep to that.
LEMMA OwedStep ==
    ASSUME TypeOK, Targets, Rows, Prompting, Moves
    PROVE  \A u \in Tasks : OwedKept(u) \/ \E f \in Dispatches, m \in {1, 2} : OwedOne(u, f, m)
<1> USE DEF OwedKept, OwedOne, OfTask, Owes, Exists, TaskOf, WorkerOf, Begins, SetTask,
        SetWorker, SetDispatch, At, On, Goes, Misjudges, Free
<1>1. ASSUME NEW c \in Commands, GivesUp(c)
      PROVE  \A u \in Tasks : OwedKept(u) \/ \E f \in Dispatches, m \in {1, 2} : OwedOne(u, f, m)
  BY <1>1 DEF GivesUp, TypeOK
<1>2. ASSUME NEW c \in Commands, NEW w \in Workers, Reserves(c, w)
      PROVE  \A u \in Tasks : OwedKept(u) \/ \E f \in Dispatches, m \in {1, 2} : OwedOne(u, f, m)
  BY <1>2 DEF Reserves, TypeOK
<1>3. ASSUME NEW c \in Commands, NEW w \in Workers, Launches(c, w)
      PROVE  \A u \in Tasks : OwedKept(u) \/ \E f \in Dispatches, m \in {1, 2} : OwedOne(u, f, m)
  BY <1>3 DEF Launches, TypeOK
<1>4. ASSUME NEW c \in Commands, NEW w \in Workers,
             NEW s \in {"ready", "stopped", "outcome_unknown"}, LaunchDoubted(c, w, s)
      PROVE  \A u \in Tasks : OwedKept(u) \/ \E f \in Dispatches, m \in {1, 2} : OwedOne(u, f, m)
  BY <1>4 DEF LaunchDoubted, TypeOK
<1>5. ASSUME NEW c \in Commands, NEW w \in Workers, Loses(c, w)
      PROVE  \A u \in Tasks : OwedKept(u) \/ \E f \in Dispatches, m \in {1, 2} : OwedOne(u, f, m)
  BY <1>5 DEF Loses, TypeOK
<1>6. ASSUME NEW c \in Commands, NEW w \in Workers, HandsOff(c, w)
      PROVE  \A u \in Tasks : OwedKept(u) \/ \E f \in Dispatches, m \in {1, 2} : OwedOne(u, f, m)
  BY <1>6 DEF HandsOff, TypeOK
<1>7. ASSUME NEW c \in Commands, NEW w \in Workers, Stops(c, w)
      PROVE  \A u \in Tasks : OwedKept(u) \/ \E f \in Dispatches, m \in {1, 2} : OwedOne(u, f, m)
  BY <1>7 DEF Stops, TypeOK
<1>8. ASSUME NEW c \in Commands, NEW w \in Workers, NEW at \in OnWorker, Looks(c, w, at)
      PROVE  \A u \in Tasks : OwedKept(u) \/ \E f \in Dispatches, m \in {1, 2} : OwedOne(u, f, m)
  BY <1>8 DEF Looks, TypeOK
<1>9. ASSUME NEW c \in Commands, NEW w \in Workers, NEW s \in {"ready", "stopped",
                  "outcome_unknown"}, LaunchFails(c, w, s)
      PROVE  \A u \in Tasks : OwedKept(u) \/ \E f \in Dispatches, m \in {1, 2} : OwedOne(u, f, m)
  BY <1>9 DEF LaunchFails, TypeOK
<1>10. ASSUME NEW c \in Commands, NEW w \in Workers, NEW s \in {"ready", "stopped",
                   "outcome_unknown"}, Judges(c, w, s)
       PROVE  \A u \in Tasks : OwedKept(u) \/ \E f \in Dispatches, m \in {1, 2} : OwedOne(u, f, m)
  BY <1>10 DEF Judges, TypeOK
<1>11. ASSUME NEW c \in Commands, NEW w \in Workers, NEW at \in {"stop", "cancel", "none"},
                   NEW x \in Workers \cup Dispatches \cup {0}, Closes(c, w, at, x)
       PROVE  \A u \in Tasks : OwedKept(u) \/ \E f \in Dispatches, m \in {1, 2} : OwedOne(u, f, m)
  BY <1>11 DEF Closes, TypeOK
<1>12. ASSUME NEW c \in Commands, NEW w \in Workers, NEW t \in Tasks, NEW d \in Dispatches,
                   Creates(c, t, w, d)
       PROVE  \A u \in Tasks : OwedKept(u) \/ \E f \in Dispatches, m \in {1, 2} : OwedOne(u, f, m)
  <2>1. /\ dispatch' = [dispatch EXCEPT ![d] =
                       [task |-> t, worker |-> w, status |-> "queued", settled |-> FALSE]]
        /\ command' = [command EXCEPT ![c] = [at |-> "configure", on |-> d]] /\ ~Exists(d)
        /\ task' = [task EXCEPT ![t] = [status |-> "active", prompts |-> task[t].prompts + 1]]
        /\ UNCHANGED prompted
    BY <1>12 DEF Creates
  <2>2. \A e \in Dispatches : e # d => dispatch'[e] = dispatch[e]
    BY <2>1 DEF TypeOK
  <2>3. dispatch'[d].status = "queued" /\ dispatch'[d].task = t
    BY <2>1 DEF TypeOK
  <2>4. prompted[d] = 0 /\ \A b \in Commands : command[b].at = "resume" => command[b].on # d
    BY <2>1 DEF Rows, Targets, OnDispatch
  <2>5. \A b \in Commands : command'[b].at = "resume" => command'[b] = command[b]
    BY <2>1 DEF TypeOK
  <2>6. \A e \in Dispatches, n \in {1, 2} : e # d /\ Owes(e, n)' => Owes(e, n)
    BY <2>1, <2>5
  <2>7. ASSUME NEW n \in {1, 2}, Owes(d, n)' PROVE n = 1
    BY <2>1, <2>4, <2>5, <2>7
  <2>8. task'[t].prompts = task[t].prompts + 1
    BY <2>1 DEF TypeOK
  <2>9. \A u \in Tasks : u # t => task'[u].prompts = task[u].prompts
    BY <2>1 DEF TypeOK
  <2> HIDE DEF Owes
  <2>10. OwedOne(t, d, 1)
    BY <2>2, <2>3, <2>6, <2>7, <2>8
  <2>11. \A u \in Tasks : u # t => OwedKept(u)
    BY <2>2, <2>3, <2>6, <2>9
  <2> HIDE DEF OwedOne, OwedKept
  <2> QED
    BY <2>10, <2>11
<1>13. ASSUME NEW c \in Commands, NEW d \in Dispatches, CancelFinds(c, d)
       PROVE  \A u \in Tasks : OwedKept(u) \/ \E f \in Dispatches, m \in {1, 2} : OwedOne(u, f, m)
  BY <1>13 DEF CancelFinds, TypeOK
<1>14. ASSUME NEW c \in Commands, NEW d \in Dispatches, Asked(c, d)
       PROVE  \A u \in Tasks : OwedKept(u) \/ \E f \in Dispatches, m \in {1, 2} : OwedOne(u, f, m)
  BY <1>14 DEF Asked, TypeOK
<1>15. ASSUME NEW c \in Commands, NEW d \in Dispatches, Replaces(c, d)
       PROVE  \A u \in Tasks : OwedKept(u) \/ \E f \in Dispatches, m \in {1, 2} : OwedOne(u, f, m)
  BY <1>15 DEF Replaces, TypeOK
<1>16. ASSUME NEW c \in Commands, NEW d \in Dispatches, Replies(c, d)
       PROVE  \A u \in Tasks : OwedKept(u) \/ \E f \in Dispatches, m \in {1, 2} : OwedOne(u, f, m)
  <2>1. /\ dispatch' = [dispatch EXCEPT ![d].status = "running"]
        /\ command' = [command EXCEPT ![c] = [at |-> "resume", on |-> d]]
        /\ task' = [task EXCEPT ![TaskOf(d)] = [status |-> "active",
                       prompts |-> task[TaskOf(d)].prompts + 1]]
        /\ UNCHANGED prompted /\ Exists(d)
    BY <1>16 DEF Replies
  <2>2. \A e \in Dispatches : dispatch'[e].task = dispatch[e].task /\ (Exists(e)' => Exists(e))
    BY <2>1 DEF TypeOK
  <2>3. TaskOf(d) \in Tasks
    BY <2>1 DEF Rows
  <2>4. \A b \in Commands : b # c => command'[b] = command[b]
    BY <2>1 DEF TypeOK
  <2>5. command'[c].on = d
    BY <2>1 DEF TypeOK
  <2>6. \A e \in Dispatches, n \in {1, 2} : e # d \/ n = 1 => (Owes(e, n)' => Owes(e, n))
    BY <2>1, <2>4, <2>5
  <2>7. task'[TaskOf(d)].prompts = task[TaskOf(d)].prompts + 1
    BY <2>1, <2>3 DEF TypeOK
  <2>8. \A u \in Tasks : u # TaskOf(d) => task'[u].prompts = task[u].prompts
    BY <2>1 DEF TypeOK
  <2> HIDE DEF Owes
  <2>9. OwedOne(TaskOf(d), d, 2)
    BY <2>2, <2>6, <2>7
  <2>10. \A u \in Tasks : u # TaskOf(d) => OwedKept(u)
    BY <2>2, <2>6, <2>8
  <2> HIDE DEF OwedOne, OwedKept
  <2> QED
    BY <2>9, <2>10
<1>17. ASSUME NEW c \in Commands, NEW d \in Dispatches, Cancels(c, d)
       PROVE  \A u \in Tasks : OwedKept(u) \/ \E f \in Dispatches, m \in {1, 2} : OwedOne(u, f, m)
  BY <1>17 DEF Cancels, TypeOK, Targets, OnDispatch
<1>18. ASSUME NEW c \in Commands, NEW d \in Dispatches, NEW k \in Kinds, Checks(c, d, k)
       PROVE  \A u \in Tasks : OwedKept(u) \/ \E f \in Dispatches, m \in {1, 2} : OwedOne(u, f, m)
  BY <1>18 DEF Checks, TypeOK
<1>19. ASSUME NEW c \in Commands, NEW d \in Dispatches, NEW at \in {"prompt", "doubt"},
                   Configures(c, d, at)
       PROVE  \A u \in Tasks : OwedKept(u) \/ \E f \in Dispatches, m \in {1, 2} : OwedOne(u, f, m)
  BY <1>19 DEF Configures, TypeOK
<1>20. ASSUME NEW c \in Commands, NEW d \in Dispatches, NEW at \in {"accept", "doubt", "none"},
                   NEW x \in {d, 0}, Misses(c, d, at, x)
       PROVE  \A u \in Tasks : OwedKept(u) \/ \E f \in Dispatches, m \in {1, 2} : OwedOne(u, f, m)
  BY <1>20 DEF Misses, TypeOK
<1>21. ASSUME NEW c \in Commands, NEW d \in Dispatches, NEW at \in {"accept", "doubt", "none"},
                   NEW x \in {d, 0}, Starts(c, d, at, x)
       PROVE  \A u \in Tasks : OwedKept(u) \/ \E f \in Dispatches, m \in {1, 2} : OwedOne(u, f, m)
  BY <1>21 DEF Starts, TypeOK, Prompting, Targets, OnDispatch
<1>22. ASSUME NEW c \in Commands, NEW d \in Dispatches, NEW s \in {"accepted",
                   "outcome_unknown"}, NEW ws \in {"busy", "outcome_unknown"},
                   NEW at \in {"retain", "none"}, NEW x \in Workers \cup {0}, Marks(c, d, s, ws,
                   at, x)
       PROVE  \A u \in Tasks : OwedKept(u) \/ \E f \in Dispatches, m \in {1, 2} : OwedOne(u, f, m)
  BY <1>22 DEF Marks, TypeOK, Targets, OnDispatch
<1>23. ASSUME Free /\ UNCHANGED command
       PROVE  \A u \in Tasks : OwedKept(u) \/ \E f \in Dispatches, m \in {1, 2} : OwedOne(u, f, m)
  BY <1>23 DEF Free, TypeOK
<1>24. ASSUME NEW d \in Dispatches, Abandons(d)
       PROVE  \A u \in Tasks : OwedKept(u) \/ \E f \in Dispatches, m \in {1, 2} : OwedOne(u, f, m)
  BY <1>24 DEF Abandons, TypeOK
<1>25. ASSUME NEW d \in Dispatches, NEW k \in Kinds, Acknowledges(d, k)
       PROVE  \A u \in Tasks : OwedKept(u) \/ \E f \in Dispatches, m \in {1, 2} : OwedOne(u, f, m)
  BY <1>25 DEF Acknowledges, TypeOK
<1>26. ASSUME NEW w \in Workers, Retains(w)
       PROVE  \A u \in Tasks : OwedKept(u) \/ \E f \in Dispatches, m \in {1, 2} : OwedOne(u, f, m)
  BY <1>26 DEF Retains, TypeOK
<1>27. ASSUME NEW w \in Workers, Rests(w)
       PROVE  \A u \in Tasks : OwedKept(u) \/ \E f \in Dispatches, m \in {1, 2} : OwedOne(u, f, m)
  BY <1>27 DEF Rests, TypeOK
<1>28. ASSUME NEW w \in Workers, Orphans(w)
       PROVE  \A u \in Tasks : OwedKept(u) \/ \E f \in Dispatches, m \in {1, 2} : OwedOne(u, f, m)
  BY <1>28 DEF Orphans, TypeOK
<1>29. ASSUME NEW w \in Workers, Dies(w)
       PROVE  \A u \in Tasks : OwedKept(u) \/ \E f \in Dispatches, m \in {1, 2} : OwedOne(u, f, m)
  BY <1>29 DEF Dies, TypeOK
<1>30. ASSUME NEW w \in Workers, NEW d \in Dispatches, ReportsLate(w, d)
       PROVE  \A u \in Tasks : OwedKept(u) \/ \E f \in Dispatches, m \in {1, 2} : OwedOne(u, f, m)
  BY <1>30 DEF ReportsLate, TypeOK
<1>31. ASSUME NEW w \in Workers, NEW d \in Dispatches, Asks(w, d)
       PROVE  \A u \in Tasks : OwedKept(u) \/ \E f \in Dispatches, m \in {1, 2} : OwedOne(u, f, m)
  BY <1>31 DEF Asks, TypeOK
<1>32. ASSUME NEW w \in Workers, NEW d \in Dispatches, NEW s \in {"retained", "idle"},
                   Reports(w, d, s)
       PROVE  \A u \in Tasks : OwedKept(u) \/ \E f \in Dispatches, m \in {1, 2} : OwedOne(u, f, m)
  BY SMTT(60), <1>32 DEF Reports, TypeOK
<1> HIDE DEF OwedKept, OwedOne, OfTask, Owes, Exists, TaskOf, WorkerOf, Begins, SetTask,
            SetWorker, SetDispatch, At, On, Goes, Misjudges, Free
<1> QED
  BY <1>1, <1>2, <1>3, <1>4, <1>5, <1>6, <1>7, <1>8, <1>9, <1>10, <1>11, <1>12, <1>13, <1>14,
     <1>15, <1>16, <1>17, <1>18, <1>19, <1>20, <1>21, <1>22, <1>23, <1>24, <1>25, <1>26, <1>27,
     <1>28, <1>29, <1>30, <1>31, <1>32 DEF Moves, CommandMoves, OtherMoves

\* The prompts of a task are counted before they are sent.
LEMMA CountedStep ==
    ASSUME TypeOK, TypeOK', Targets, Rows, Prompting, Counted, Moves
    PROVE  Counted'
<1> SUFFICES ASSUME NEW u \in Tasks
             PROVE  Cardinality(Owed(u)') <= task'[u].prompts
  BY DEF Counted
<1>1. IsFiniteSet(Dispatches \X {1, 2})
  <2>1. IsFiniteSet(Dispatches)
    BY FS_Interval, OrchestrationAssumption DEF Dispatches
  <2>2. IsFiniteSet({1, 2})
    <3>1. {1, 2} = 1..2 /\ 1 \in Int /\ 2 \in Int
      OBVIOUS
    <3> QED
      BY <3>1, FS_Interval
  <2> QED
    BY <2>1, <2>2, FS_Product
<1>2. Owed(u) \subseteq Dispatches \X {1, 2} /\ Owed(u)' \subseteq Dispatches \X {1, 2}
  BY DEF Owed, OfTask
<1>3. /\ IsFiniteSet(Owed(u)) /\ IsFiniteSet(Owed(u)')
      /\ Cardinality(Owed(u)) \in Nat /\ Cardinality(Owed(u)') \in Nat
  BY <1>1, <1>2, FS_Subset, FS_CardinalityType
<1>4. Cardinality(Owed(u)) <= task[u].prompts /\ task[u].prompts \in Nat
          /\ task'[u].prompts \in Nat
  BY OrchestrationAssumption DEF Counted, TypeOK
<1>5. CASE OwedKept(u)
  <2>1. Owed(u)' \subseteq Owed(u)
    BY <1>5 DEF OwedKept, Owed, OfTask
  <2>2. Cardinality(Owed(u)') <= Cardinality(Owed(u))
    BY <1>3, <2>1, FS_Subset
  <2> QED
    BY <1>3, <1>4, <1>5, <2>2 DEF OwedKept
<1>6. ASSUME NEW f \in Dispatches, NEW m \in {1, 2}, OwedOne(u, f, m)
      PROVE  Cardinality(Owed(u)') <= task'[u].prompts
  <2>1. Owed(u)' \subseteq Owed(u) \cup {<<f, m>>}
    BY <1>6 DEF OwedOne, Owed, OfTask
  <2>2. /\ IsFiniteSet(Owed(u) \cup {<<f, m>>})
        /\ Cardinality(Owed(u) \cup {<<f, m>>}) \in {Cardinality(Owed(u)),
                       Cardinality(Owed(u)) + 1}
    BY <1>3, FS_AddElement
  <2>3. Cardinality(Owed(u)') <= Cardinality(Owed(u) \cup {<<f, m>>})
    BY <2>1, <2>2, FS_Subset
  <2> QED
    BY <1>3, <1>4, <1>6, <2>2, <2>3 DEF OwedOne
<1> QED
  BY <1>5, <1>6, OwedStep

\* What a move leaves of a dispatch that is settled or abandoned, and that no command is at.
OutcomeKept ==
    \A d \in Dispatches : Exists(d) /\ ~InFlight(d) =>
        /\ dispatch[d].settled => dispatch'[d] = dispatch[d]
        /\ dispatch[d].status = "abandoned" =>
              /\ dispatch'[d].status \in {"abandoned", "cancelled"}
              /\ task'[TaskOf(d)].status = dispatch'[d].status

\* The moves keep it so.
LEMMA StandsStep ==
    ASSUME TypeOK, Targets, Rows, Sessions, Moves
    PROVE  OutcomeKept
<1> USE DEF OutcomeKept, InFlight, Exists, TaskOf, WorkerOf, Begins, SetTask, SetWorker,
        SetDispatch, At, On, Goes, Misjudges, Free
<1>1. ASSUME NEW c \in Commands, GivesUp(c)
      PROVE  OutcomeKept
  BY <1>1 DEF GivesUp, TypeOK, Rows
<1>2. ASSUME NEW c \in Commands, NEW w \in Workers, Reserves(c, w)
      PROVE  OutcomeKept
  BY <1>2 DEF Reserves, TypeOK, Rows
<1>3. ASSUME NEW c \in Commands, NEW w \in Workers, Launches(c, w)
      PROVE  OutcomeKept
  BY <1>3 DEF Launches, TypeOK, Rows
<1>4. ASSUME NEW c \in Commands, NEW w \in Workers,
             NEW s \in {"ready", "stopped", "outcome_unknown"}, LaunchDoubted(c, w, s)
      PROVE  OutcomeKept
  BY <1>4 DEF LaunchDoubted, TypeOK, Rows
<1>5. ASSUME NEW c \in Commands, NEW w \in Workers, Loses(c, w)
      PROVE  OutcomeKept
  BY <1>5 DEF Loses, TypeOK, Rows
<1>6. ASSUME NEW c \in Commands, NEW w \in Workers, HandsOff(c, w)
      PROVE  OutcomeKept
  BY <1>6 DEF HandsOff, TypeOK, Rows
<1>7. ASSUME NEW c \in Commands, NEW w \in Workers, Stops(c, w)
      PROVE  OutcomeKept
  BY <1>7 DEF Stops, TypeOK, Rows
<1>8. ASSUME NEW c \in Commands, NEW w \in Workers, NEW at \in OnWorker, Looks(c, w, at)
      PROVE  OutcomeKept
  BY <1>8 DEF Looks, TypeOK, Rows
<1>9. ASSUME NEW c \in Commands, NEW w \in Workers, NEW s \in {"ready", "stopped",
                  "outcome_unknown"}, LaunchFails(c, w, s)
      PROVE  OutcomeKept
  BY <1>9 DEF LaunchFails, TypeOK, Rows
<1>10. ASSUME NEW c \in Commands, NEW w \in Workers, NEW s \in {"ready", "stopped",
                   "outcome_unknown"}, Judges(c, w, s)
       PROVE  OutcomeKept
  BY <1>10 DEF Judges, TypeOK, Rows
<1>11. ASSUME NEW c \in Commands, NEW w \in Workers, NEW at \in {"stop", "cancel", "none"},
                   NEW x \in Workers \cup Dispatches \cup {0}, Closes(c, w, at, x)
       PROVE  OutcomeKept
  BY <1>11 DEF Closes, TypeOK, Rows
<1>12. ASSUME NEW c \in Commands, NEW w \in Workers, NEW t \in Tasks, NEW d \in Dispatches,
                   Creates(c, t, w, d)
       PROVE  OutcomeKept
  BY <1>12 DEF Creates, TypeOK, Rows
<1>13. ASSUME NEW c \in Commands, NEW d \in Dispatches, CancelFinds(c, d)
       PROVE  OutcomeKept
  BY <1>13 DEF CancelFinds, TypeOK, Rows
<1>14. ASSUME NEW c \in Commands, NEW d \in Dispatches, Asked(c, d)
       PROVE  OutcomeKept
  BY <1>14 DEF Asked, TypeOK, Rows
<1>15. ASSUME NEW c \in Commands, NEW d \in Dispatches, Replaces(c, d)
       PROVE  OutcomeKept
  BY <1>15 DEF Replaces, TypeOK, Rows
<1>16. ASSUME NEW c \in Commands, NEW d \in Dispatches, Replies(c, d)
       PROVE  OutcomeKept
  BY <1>16 DEF Replies, TypeOK, Rows
<1>17. ASSUME NEW c \in Commands, NEW d \in Dispatches, Cancels(c, d)
       PROVE  OutcomeKept
  BY <1>17 DEF Cancels, TypeOK, Rows, Targets, OnDispatch
<1>18. ASSUME NEW c \in Commands, NEW d \in Dispatches, NEW k \in Kinds, Checks(c, d, k)
       PROVE  OutcomeKept
  BY <1>18 DEF Checks, TypeOK, Rows
<1>19. ASSUME NEW c \in Commands, NEW d \in Dispatches, NEW at \in {"prompt", "doubt"},
                   Configures(c, d, at)
       PROVE  OutcomeKept
  BY <1>19 DEF Configures, TypeOK, Rows
<1>20. ASSUME NEW c \in Commands, NEW d \in Dispatches, NEW at \in {"accept", "doubt", "none"},
                   NEW x \in {d, 0}, Misses(c, d, at, x)
       PROVE  OutcomeKept
  BY <1>20 DEF Misses, TypeOK, Rows
<1>21. ASSUME NEW c \in Commands, NEW d \in Dispatches, NEW at \in {"accept", "doubt", "none"},
                   NEW x \in {d, 0}, Starts(c, d, at, x)
       PROVE  OutcomeKept
  BY <1>21 DEF Starts, TypeOK, Rows
<1>22. ASSUME NEW c \in Commands, NEW d \in Dispatches, NEW s \in {"accepted",
                   "outcome_unknown"}, NEW ws \in {"busy", "outcome_unknown"},
                   NEW at \in {"retain", "none"}, NEW x \in Workers \cup {0}, Marks(c, d, s, ws,
                   at, x)
       PROVE  OutcomeKept
  BY <1>22 DEF Marks, TypeOK, Rows
<1>23. ASSUME Free /\ UNCHANGED command
       PROVE  OutcomeKept
  BY <1>23 DEF Free, TypeOK, Rows
<1>24. ASSUME NEW d \in Dispatches, Abandons(d)
       PROVE  OutcomeKept
  BY <1>24 DEF Abandons, TypeOK, Rows
<1>25. ASSUME NEW d \in Dispatches, NEW k \in Kinds, Acknowledges(d, k)
       PROVE  OutcomeKept
  BY <1>25 DEF Acknowledges, TypeOK, Rows
<1>26. ASSUME NEW w \in Workers, Retains(w)
       PROVE  OutcomeKept
  BY <1>26 DEF Retains, TypeOK, Rows
<1>27. ASSUME NEW w \in Workers, Rests(w)
       PROVE  OutcomeKept
  BY <1>27 DEF Rests, TypeOK, Rows
<1>28. ASSUME NEW w \in Workers, Orphans(w)
       PROVE  OutcomeKept
  BY <1>28 DEF Orphans, TypeOK, Rows
<1>29. ASSUME NEW w \in Workers, Dies(w)
       PROVE  OutcomeKept
  BY <1>29 DEF Dies, TypeOK, Rows
<1>30. ASSUME NEW w \in Workers, NEW d \in Dispatches, ReportsLate(w, d)
       PROVE  OutcomeKept
  BY <1>30 DEF ReportsLate, TypeOK, Rows
<1>31. ASSUME NEW w \in Workers, NEW d \in Dispatches, Asks(w, d)
       PROVE  OutcomeKept
  BY <1>31 DEF Asks, TypeOK, Rows
<1>32. ASSUME NEW w \in Workers, NEW d \in Dispatches, NEW s \in {"retained", "idle"},
                   Reports(w, d, s)
       PROVE  OutcomeKept
  BY <1>32 DEF Reports, TypeOK, Rows
<1> HIDE DEF OutcomeKept, InFlight, Exists, TaskOf, WorkerOf, Begins, SetTask, SetWorker,
            SetDispatch, At, On, Goes, Misjudges, Free
<1> QED
  BY <1>1, <1>2, <1>3, <1>4, <1>5, <1>6, <1>7, <1>8, <1>9, <1>10, <1>11, <1>12, <1>13, <1>14,
     <1>15, <1>16, <1>17, <1>18, <1>19, <1>20, <1>21, <1>22, <1>23, <1>24, <1>25, <1>26, <1>27,
     <1>28, <1>29, <1>30, <1>31, <1>32 DEF Moves, CommandMoves, OtherMoves

\* The faults stay within their bound.
LEMMA FaultsStep ==
    ASSUME TypeOK, [Next]_vars
    PROVE  faults' \in 0..MaxFaults
<1> USE OrchestrationAssumption DEF history, Fails, MayFail
<1>a. faults \in 0..MaxFaults
  BY DEF TypeOK
<1> USE <1>a
<1>1. ASSUME NEW c \in Commands, NEW w \in Workers, ReserveWorker(c, w)
      PROVE  faults' \in 0..MaxFaults
  BY <1>1 DEF ReserveWorker
<1>2. ASSUME NEW c \in Commands, NEW w \in Workers, ReleaseWorker(c, w)
      PROVE  faults' \in 0..MaxFaults
  BY <1>2 DEF ReleaseWorker
<1>3. ASSUME NEW c \in Commands, NEW w \in Workers, Recover(c, w)
      PROVE  faults' \in 0..MaxFaults
  BY <1>3 DEF Recover, Unseen
<1>4. ASSUME NEW c \in Commands, NEW w \in Workers, NEW t \in Tasks, CreateDispatch(c, t, w)
      PROVE  faults' \in 0..MaxFaults
  BY <1>4 DEF CreateDispatch
<1>5. ASSUME NEW c \in Commands, NEW d \in Dispatches, CancelDispatch(c, d)
      PROVE  faults' \in 0..MaxFaults
  BY <1>5 DEF CancelDispatch, Unseen
<1>6. ASSUME NEW c \in Commands, NEW d \in Dispatches, ReplyToMessage(c, d)
      PROVE  faults' \in 0..MaxFaults
  BY <1>6 DEF ReplyToMessage
<1>7. ASSUME NEW c \in Commands, NEW d \in Dispatches, NEW k \in Kinds, CheckMessages(c, d, k)
      PROVE  faults' \in 0..MaxFaults
  BY <1>7 DEF CheckMessages
<1>8. ASSUME NEW c \in Commands, LaunchWorker(c)
      PROVE  faults' \in 0..MaxFaults
  BY <1>8 DEF LaunchWorker, Unseen
<1>9. ASSUME NEW c \in Commands, AwaitHealth(c)
      PROVE  faults' \in 0..MaxFaults
  BY <1>9 DEF AwaitHealth, Unseen
<1>10. ASSUME NEW c \in Commands, Configure(c)
       PROVE  faults' \in 0..MaxFaults
  BY <1>10 DEF Configure
<1>11. ASSUME NEW c \in Commands, Prompt(c)
       PROVE  faults' \in 0..MaxFaults
  BY <1>11 DEF Prompt
<1>12. ASSUME NEW c \in Commands, Accept(c)
       PROVE  faults' \in 0..MaxFaults
  BY <1>12 DEF Accept
<1>13. ASSUME NEW c \in Commands, Doubt(c)
       PROVE  faults' \in 0..MaxFaults
  BY <1>13 DEF Doubt
<1>14. ASSUME NEW c \in Commands, Deliver(c)
       PROVE  faults' \in 0..MaxFaults
  BY <1>14 DEF Deliver
<1>15. ASSUME NEW c \in Commands, CreateReply(c)
       PROVE  faults' \in 0..MaxFaults
  BY <1>15 DEF CreateReply
<1>16. ASSUME NEW c \in Commands, RetainHandoff(c)
       PROVE  faults' \in 0..MaxFaults
  BY <1>16 DEF RetainHandoff
<1>17. ASSUME NEW c \in Commands, ReleaseLooks(c)
       PROVE  faults' \in 0..MaxFaults
  BY <1>17 DEF ReleaseLooks, Unseen
<1>18. ASSUME NEW c \in Commands, ReleaseCloses(c)
       PROVE  faults' \in 0..MaxFaults
  BY <1>18 DEF ReleaseCloses
<1>19. ASSUME NEW c \in Commands, ReleaseStops(c)
       PROVE  faults' \in 0..MaxFaults
  BY <1>19 DEF ReleaseStops
<1>20. ASSUME NEW c \in Commands, MarkCancelled(c)
       PROVE  faults' \in 0..MaxFaults
  BY <1>20 DEF MarkCancelled
<1>21. ASSUME NEW c \in Commands, RecoverSets(c)
       PROVE  faults' \in 0..MaxFaults
  BY <1>21 DEF RecoverSets
<1>22. ASSUME NEW c \in Commands, CommandDies(c)
       PROVE  faults' \in 0..MaxFaults
  BY <1>22 DEF CommandDies
<1>23. ASSUME NEW d \in Dispatches, AbandonDispatch(d)
       PROVE  faults' \in 0..MaxFaults
  BY <1>23 DEF AbandonDispatch
<1>24. ASSUME NEW d \in Dispatches, NEW k \in Kinds, AcknowledgeMessage(d, k)
       PROVE  faults' \in 0..MaxFaults
  BY <1>24 DEF AcknowledgeMessage
<1>25. ASSUME NEW w \in Workers, RetainWorker(w)
       PROVE  faults' \in 0..MaxFaults
  BY <1>25 DEF RetainWorker
<1>26. ASSUME NEW w \in Workers, RecordTerminal(w)
       PROVE  faults' \in 0..MaxFaults
  BY <1>26 DEF RecordTerminal
<1>27. ASSUME NEW w \in Workers, SendQuestion(w)
       PROVE  faults' \in 0..MaxFaults
  BY <1>27 DEF SendQuestion
<1>28. ASSUME NEW w \in Workers, TurnEnds(w)
       PROVE  faults' \in 0..MaxFaults
  BY <1>28 DEF TurnEnds
<1>29. ASSUME NEW w \in Workers, ChildDies(w)
       PROVE  faults' \in 0..MaxFaults
  BY <1>29 DEF ChildDies
<1>30. ASSUME NEW w \in Workers, RelayDies(w)
       PROVE  faults' \in 0..MaxFaults
  BY <1>30 DEF RelayDies
<1>31. CASE UNCHANGED vars
  BY <1>31 DEF vars
<1> QED
  BY <1>1, <1>2, <1>3, <1>4, <1>5, <1>6, <1>7, <1>8, <1>9, <1>10, <1>11, <1>12, <1>13, <1>14,
     <1>15, <1>16, <1>17, <1>18, <1>19, <1>20, <1>21, <1>22, <1>23, <1>24, <1>25, <1>26, <1>27,
     <1>28, <1>29, <1>30, <1>31 DEF Next, CommandBegins, CommandGoesOn, ShortCommand, WorkerStep

-----------------------------------------------------------------------------
(* The theorems.                                                           *)

\* The store of a new run has everything that the invariant asks for.
LEMMA InitInv == Init => IInv
<1> SUFFICES ASSUME Init PROVE IInv
  OBVIOUS
<1> USE OrchestrationAssumption DEF Init
<1>1. TypeOK
  BY DEF TypeOK, ActiveWorkerStatuses
<1>2. Targets
  BY DEF Targets, OnWorker, OnDispatch, At, Idle
<1>3. Rows
  BY DEF Rows, Exists, WorkerOf, TaskOf
<1>4. Sessions
  BY DEF Sessions, HasSession, Exists
<1>5. Errands /\ Starting
  BY DEF Errands, Starting, OnWorker, At, Idle
<1>6. Limit
  <2>1. Seen = {}
    BY DEF Seen, Engaged, HasSession, At, Idle
  <2>2. Cardinality({}) = 0
    BY FS_EmptySet
  <2> QED
    BY <2>1, <2>2 DEF Limit
<1>7. Prompting
  BY DEF Prompting, At, Idle, Kinds
<1>8. DeliveredWhenIdle
  BY DEF DeliveredWhenIdle, At, Idle
<1>9. Authority /\ Leftovers
  BY DEF Authority, Leftovers, Leftover, Prompter, Idle
<1>10. Counted
  <2> SUFFICES ASSUME NEW t \in Tasks PROVE Cardinality(Owed(t)) <= task[t].prompts
    BY DEF Counted
  <2>1. Owed(t) = {}
    BY DEF Owed, OfTask, Exists
  <2>2. Cardinality({}) = 0 /\ task[t].prompts = 0
    BY FS_EmptySet
  <2> QED
    BY <2>1, <2>2
<1> QED
  BY <1>1, <1>2, <1>3, <1>4, <1>5, <1>6, <1>7, <1>8, <1>9, <1>10 DEF IInv

\* Every step keeps all parts of the invariant.
LEMMA StepInv ==
    ASSUME IInv, [Next]_vars
    PROVE  IInv'
<1> USE DEF IInv
<1>1. Moves
  BY NextMoves
<1>2. TypeOK'
  BY <1>1, FaultsStep, TypeStep
<1>3. Targets' /\ Rows' /\ Sessions' /\ Errands' /\ Starting'
  BY <1>1, TargetsStep, RowsStep, SessionsStep, ErrandsStep, StartingStep
<1>4. Limit' /\ Counted'
  BY <1>1, <1>2, LimitStep, CountedStep
<1>5. Prompting' /\ DeliveredWhenIdle' /\ Authority' /\ Leftovers'
  BY <1>1, PromptingStep, DeliveryStep, AuthorityStep, CourseStep, LeftoversStep
<1> QED
  BY <1>2, <1>3, <1>4, <1>5

\* The inductive invariant holds in every state of every run of the commands, whatever is
\* killed or lost between two of their steps.
THEOREM Invariance == Spec => []IInv
BY InitInv, StepInv, PTL DEF Spec

\* The store is right about workers: but for those whose session tmux did not show to a command,
\* or that recover took for lost while they were being launched, a worker that is recorded as
\* stopped has no session and never gets one, and no more have one than max_workers; and a
\* message is delivered only when B is idle.
THEOREM WorkersSoundCorrect == Spec => []WorkersSound
<1>1. ASSUME IInv PROVE WorkersSound
  <2>1. TypeOK /\ DeliveredWhenIdle
    BY <1>1 DEF IInv
  <2>2. StoppedIsGone
    BY <1>1 DEF IInv, Sessions, StoppedIsGone
  <2>3. LiveWorkerBound
    <3> DEFINE live == {w \in Workers : HasSession(w)} \ misjudged
    <3> SUFFICES Cardinality(live) <= MaxWorkers
      BY DEF LiveWorkerBound
    <3>1. Cardinality(Seen) <= MaxWorkers
      BY <1>1 DEF IInv, Limit
    <3>2. live \subseteq Seen /\ Seen \subseteq Workers /\ IsFiniteSet(Workers)
      BY OrchestrationAssumption DEF Seen, Engaged
    <3>3. IsFiniteSet(Seen)
      BY <3>2, FS_Subset
    <3>4. IsFiniteSet(live) /\ Cardinality(live) <= Cardinality(Seen)
      BY <3>2, <3>3, FS_Subset
    <3>5. Cardinality(live) \in Nat /\ Cardinality(Seen) \in Nat
      BY <3>3, <3>4, FS_CardinalityType
    <3> QED
      BY <3>1, <3>4, <3>5, OrchestrationAssumption
  <2> QED
    BY <2>1, <2>2, <2>3 DEF WorkersSound
<1> QED
  BY <1>1, Invariance, PTL

\* Whatever is lost, killed or repeated, B gets no more prompts for a task than the task has
\* counted (create_dispatch and create_reply count them before they are sent), one for a
\* dispatch, and one more if its question was acknowledged.
THEOREM NoReplayCorrect == Spec => []NoReplay
<1>1. ASSUME IInv PROVE NoReplay
  <2>1. \A d \in Dispatches :
          /\ prompted[d] \in Nat
          /\ prompted[d] <= IF message[d]["question"] = "acknowledged" THEN 2 ELSE 1
    BY <1>1 DEF IInv, TypeOK, Prompting
  <2>2. ASSUME NEW t \in Tasks PROVE Cardinality(Prompts(t)) <= task[t].prompts
    <3>1. Prompts(t) \subseteq Owed(t)
      <4> SUFFICES ASSUME NEW p \in Prompts(t) PROVE p \in Owed(t)
        OBVIOUS
      <4>1. PICK d \in OfTask(t) : p \in {d} \X (1..prompted[d])
        BY DEF Prompts
      <4>2. PICK n \in 1..prompted[d] : p = <<d, n>>
        BY <4>1
      <4>3. d \in Dispatches
        BY DEF OfTask
      <4>4. n \in {1, 2} /\ (n = 1 \/ prompted[d] = 2)
        BY <2>1, <4>3
      <4> QED
        BY <4>2, <4>4 DEF Owed, Owes
    <3>2. IsFiniteSet(Owed(t))
      <4>1. IsFiniteSet(Dispatches)
        BY FS_Interval, OrchestrationAssumption DEF Dispatches
      <4>2. {1, 2} = 1..2 /\ 1 \in Int /\ 2 \in Int
        OBVIOUS
      <4>3. IsFiniteSet({1, 2})
        BY <4>2, FS_Interval
      <4>4. IsFiniteSet(Dispatches \X {1, 2})
        BY <4>1, <4>3, FS_Product
      <4>5. Owed(t) \subseteq Dispatches \X {1, 2}
        BY DEF Owed, OfTask
      <4> QED
        BY <4>4, <4>5, FS_Subset
    <3>3. IsFiniteSet(Prompts(t)) /\ Cardinality(Prompts(t)) <= Cardinality(Owed(t))
      BY <3>1, <3>2, FS_Subset
    <3>4. Cardinality(Prompts(t)) \in Nat /\ Cardinality(Owed(t)) \in Nat
              /\ task[t].prompts \in Nat
      BY <1>1, <3>2, <3>3, FS_CardinalityType, OrchestrationAssumption DEF IInv, TypeOK
    <3>5. Cardinality(Owed(t)) <= task[t].prompts
      BY <1>1 DEF IInv, Counted
    <3> QED
      BY <3>3, <3>4, <3>5
  <2> QED
    BY <2>1, <2>2 DEF NoReplay
<1> QED
  BY <1>1, Invariance, PTL

\* B can report on what it works on: the child that works on a prompt has the capability of
\* the dispatch of that prompt, as long as its worker has had one unsettled dispatch at a time.
THEOREM ReportsAuthorisedCorrect == Spec => []ReportsAuthorised
<1>1. ASSUME IInv PROVE ReportsAuthorised
  BY <1>1 DEF IInv, Authority, ReportsAuthorised
<1> QED
  BY <1>1, Invariance, PTL

\* A dispatch that is settled is not written again, and a task whose dispatch was abandoned
\* goes no further than cancelled, unless a command that began before is still to write.
THEOREM OutcomeStandsCorrect == Spec => OutcomeStands
<1> DEFINE Stands == \A d \in Dispatches : Exists(d) /\ ~InFlight(d) =>
              /\ dispatch[d].settled => dispatch'[d] = dispatch[d]
              /\ dispatch[d].status = "abandoned" =>
                    /\ dispatch'[d].status \in {"abandoned", "cancelled"}
                    /\ task'[TaskOf(d)].status = dispatch'[d].status
<1>1. ASSUME IInv, [Next]_vars PROVE Stands
  <2>1. Moves
    BY <1>1, NextMoves DEF IInv
  <2> QED
    BY <1>1, <2>1, StandsStep DEF IInv, OutcomeKept
<1>2. IInv /\ [Next]_vars => [Stands]_vars
  BY <1>1
<1> HIDE DEF Stands
<1>3. Spec => [][Stands]_vars
  BY <1>2, Invariance, PTL DEF Spec
<1> QED
  BY <1>3 DEF Stands, OutcomeStands
=============================================================================

--------------------------- MODULE SessionContext ---------------------------
(***************************************************************************)
(* Compaction of a session (compaction_coordinator.py,                     *)
(* compaction_adapter.py, the tree and the context of session_store.py,    *)
(* the turn of app.py and the retries of session_turns.py).                *)
(*                                                                         *)
(* A session keeps its conversation twice: `live`, the list the next       *)
(* request is built from, and the tree of stored entries, from which the   *)
(* conversation is rebuilt after a compaction, a branch or a restart.  A   *)
(* compaction takes a copy of `live`, has it summarised (seconds, during   *)
(* which other threads go on), and then stores an entry that names, by     *)
(* position in the copy, the first entry to keep and its own parent.  The  *)
(* turn thread and the thread of a /compact command run transactions of    *)
(* their own.                                                              *)
(*                                                                         *)
(* Whether a compaction is due, and where the summary ends, depend on      *)
(* token counts: both are choices here.                                    *)
(***************************************************************************)
EXTENDS Integers, Sequences, FiniteSets, SequencesExt, FiniteSetsExt

CONSTANTS MaxEntries,    \* bound: the entries stored
          MaxOther       \* bound: settings, bash results, notices, branches and
                         \* restarts

ASSUME ContextAssumption == MaxEntries \in Nat /\ MaxOther \in Nat

VARIABLES
    tree,      \* the stored entries: kind, parent, and ref: the firstKeptEntryId
               \* of a compaction (0: ""), the call of a result
    leaf,      \* leaf_id of the store, 0 for None
    live,      \* agent.state.messages, as entry ids; 0: not stored yet
    setting,   \* the setting in force, as the entry that stored it
    phase,     \* where the turn thread is
    txn,       \* txn[t]: the compaction thread t is in
    notice,    \* a message of another thread is in live and not stored yet
    other,     \* how many of these there were
    gone,      \* history: messages an applied compaction summarised away
    lost,      \* history: messages it dropped that it had not summarised
    skewed,    \* history: a compaction was applied to a context that was not
               \*          the one it had copied
    raced      \* history: two threads changed the conversation at once

contextVars == <<tree, leaf, live, setting, phase, txn, notice, other, gone, lost,
                 skewed, raced>>

Threads == {"turn", "user"}
Phases == {"idle", "start", "run", "tool", "failed", "post"}
EntryKinds == {"user", "reply", "call", "result", "failed", "hidden", "notice",
               "setting", "compaction"}
Variants == {"manual", "deep", "auto", "error", "overflow"}
NoTxn == [variant |-> "none", source |-> <<>>]
Busy(t) == txn[t].variant # "none"
Compacting == \E t \in Threads : Busy(t)
Kind(e) == tree[e].kind

\* The elements of s that are in S, in their order.
Only(s, S) ==
    LET some[i \in 0..Len(s)] ==
            IF i = 0 THEN <<>>
            ELSE IF s[i] \in S THEN Append(some[i - 1], s[i]) ELSE some[i - 1]
    IN  some[Len(s)]

----------------------------------------------------------------------------
(* The tree and the context it stands for.                                 *)

\* The entries of a tree that are of these kinds.
Of(t, kinds) == {e \in DOMAIN t : t[e].kind \in kinds}

\* get_branch(l)
BranchIn(t, l) ==
    LET path[e \in 0..Len(t)] == IF e = 0 THEN <<>> ELSE Append(path[t[e].parent], e)
    IN  path[l]

\* _context_messages_and_entry_ids: the last compaction of the branch, the
\* entries from the one it keeps first, and those after it; of these the
\* messages, and no result without its call.
LastCompaction(t, b) == Max({0} \union {i \in DOMAIN b : t[b[i]].kind = "compaction"})
Selected(t, b) ==
    LET c == LastCompaction(t, b)
        first == Min({c} \union {i \in 1..(c - 1) : b[i] = t[b[c]].ref})
    IN  IF c = 0 THEN b ELSE <<b[c]>> \o SubSeq(b, first, c - 1) \o SubSeq(b, c + 1, Len(b))
Messages(t, l) == Only(Selected(t, BranchIn(t, l)), Of(t, EntryKinds \ {"setting"}))
ContextOf(t, l) ==
    LET messages == Messages(t, l)
    IN  Only(messages, {e \in DOMAIN t : t[e].kind = "result" => t[e].ref \in Range(messages)})

\* build_context(): the last setting of the branch.
SettingOf(t, l) == Max({0} \union (Range(BranchIn(t, l)) \intersect Of(t, {"setting"})))

Stored == ContextOf(tree, leaf)

----------------------------------------------------------------------------
ContextInit ==
    /\ tree = <<>> /\ leaf = 0 /\ live = <<>> /\ setting = 0
    /\ phase = "idle"
    /\ txn = [t \in Threads |-> NoTxn]
    /\ notice = FALSE
    /\ other = 0
    /\ gone = {} /\ lost = {} /\ skewed = FALSE /\ raced = FALSE

\* _append_entry below the leaf; the entry becomes the leaf.
Put(kind, ref) ==
    /\ Len(tree) < MaxEntries
    /\ tree' = Append(tree, [kind |-> kind, parent |-> leaf, ref |-> ref])
    /\ leaf' = Len(tree) + 1

\* A message of the conversation: it ends up in live and in the store.
PutMessage(kind, ref) ==
    /\ Put(kind, ref)
    /\ live' = Append(live, Len(tree) + 1)
    /\ raced' = (raced \/ Compacting \/ notice)

----------------------------------------------------------------------------
(* The turn: TravisApp.run_turn and _run_agent_prompt.                     *)

LastAssistant ==
    Max({0} \union {i \in DOMAIN live : live[i] \in Of(tree, {"reply", "call", "failed"})})
LastFailed == LastAssistant > 0 /\ Kind(live[LastAssistant]) = "failed"

TurnStarts ==
    /\ phase = "idle" /\ ~Compacting
    /\ phase' = "start"
    /\ UNCHANGED <<tree, leaf, live, setting, txn, notice, other, gone, lost, skewed, raced>>

Turn(from, kind, ref, to) ==
    /\ phase = from /\ ~Busy("turn")
    /\ PutMessage(kind, ref)
    /\ phase' = to
    /\ UNCHANGED <<setting, txn, notice, other, gone, lost, skewed>>

Prompts == Turn("start", "user", 0, "run")
Replies == Turn("run", "reply", 0, "post")
Calls == Turn("run", "call", 0, "tool")
Results == Turn("tool", "result", Max(Of(tree, {"call"})), "run")
Fails == Turn("run", "failed", 0, "failed")

\* _prepare_retry: the last message leaves live if an assistant wrote it; the
\* store has it already.  The wait may be cancelled (post), and continue_()
\* raises where there is nothing to answer and no steering to go on with
\* (idle).  The prompt that is added to live after malformed arguments of a
\* call is left out.
Retries ==
    LET unanswered(s) == s # <<>> /\ Last(s) \notin Of(tree, {"reply", "call", "failed"})
    IN  /\ phase = "failed"
        /\ live' = IF live = <<>> \/ unanswered(live) THEN live ELSE Front(live)
        /\ \/ phase' = "run" /\ live' # <<>>
           \/ phase' = "post"
           \/ phase' = "idle" /\ ~unanswered(live')
        /\ UNCHANGED <<tree, leaf, setting, txn, notice, other, gone, lost, skewed, raced>>

GivesUp ==
    /\ phase = "failed"
    /\ phase' = "post"
    /\ UNCHANGED <<tree, leaf, live, setting, txn, notice, other, gone, lost, skewed, raced>>

TurnEnds ==
    /\ phase = "post" /\ ~Busy("turn")
    /\ phase' = "idle"
    /\ UNCHANGED <<tree, leaf, live, setting, txn, notice, other, gone, lost, skewed, raced>>

----------------------------------------------------------------------------
(* Other threads.                                                          *)

\* A setting is stored and takes effect (set_generation_param_override,
\* set_session_name and the like).
Sets ==
    /\ other < MaxOther
    /\ Put("setting", 0)
    /\ setting' = Len(tree) + 1
    /\ other' = other + 1
    /\ UNCHANGED <<live, phase, txn, notice, gone, lost, skewed, raced>>

\* record_bash_result, of a command whose output the model is not to see.
RecordsBash ==
    /\ phase = "idle" /\ ~Compacting /\ other < MaxOther
    /\ PutMessage("hidden", 0)
    /\ other' = other + 1
    /\ UNCHANGED <<setting, phase, txn, notice, gone, lost, skewed>>

\* send_message outside a run: first live, then the store.
NoticeComes ==
    /\ phase \notin {"run", "tool"} /\ ~notice /\ other < MaxOther
    /\ live' = Append(live, 0)
    /\ notice' = TRUE
    /\ other' = other + 1
    /\ UNCHANGED <<tree, leaf, setting, phase, txn, gone, lost, skewed, raced>>

NoticeStored ==
    /\ notice
    /\ Put("notice", 0)
    /\ live' = [i \in DOMAIN live |-> IF live[i] = 0 THEN Len(tree) + 1 ELSE live[i]]
    /\ notice' = FALSE
    /\ raced' = (raced \/ Compacting \/ 0 \notin Range(live))
    /\ UNCHANGED <<setting, phase, txn, other, gone, lost, skewed>>

\* branch(), navigate_tree() and the reload of a restart: live and the
\* settings are rebuilt from the branch.
Rebuild(l) ==
    /\ phase = "idle" /\ ~Compacting /\ ~notice /\ other < MaxOther
    /\ other' = other + 1
    /\ leaf' = l
    /\ live' = ContextOf(tree, l)
    /\ setting' = SettingOf(tree, l)
    /\ gone' = IF l = leaf THEN gone ELSE {}
    /\ raced' = FALSE
    /\ UNCHANGED <<tree, phase, txn, notice, lost, skewed>>

Navigates(e) == Rebuild(IF Kind(e) \in {"user", "notice"} THEN tree[e].parent ELSE e)

\* The last entry of the file is the leaf.
Resumes == Rebuild(Len(tree))

----------------------------------------------------------------------------
(* A compaction: begin, summarise, apply.                                  *)

Copies(t, variant, source) ==
    /\ ~Busy(t)
    /\ 0 \notin Range(source)
    /\ txn' = [txn EXCEPT ![t] = [variant |-> variant, source |-> source]]
    /\ UNCHANGED <<tree, leaf, live, setting, phase, notice, other, gone, lost, skewed, raced>>

\* manual(): /compact finds the lease free, or aborts the run and waits.
UserCompacts(variant) ==
    /\ phase \notin {"run", "tool"}
    /\ Copies("user", variant, live)

\* preflight() before a request, post_response() after a reply.
AutoCompacts ==
    /\ phase = "run" \/ (phase = "post" /\ ~LastFailed)
    /\ Copies("turn", "auto", live)

\* _recover_context_overflow: without the message that reports the overflow.
RecoversOverflow ==
    /\ phase \in {"start", "post"} /\ LastFailed
    /\ Copies("turn", "overflow", RemoveAt(live, LastAssistant))

\* _compact_failed_turn_context: no part of the source is retained.
CompactsFailedTurn ==
    /\ phase \in {"start", "post"} /\ LastFailed
    /\ Copies("turn", "error", live)

\* to_compressor_context: the positions of the source the compressor sees.
SourceIndices(source) ==
    Only([i \in DOMAIN source |-> i], {i \in DOMAIN source : Kind(source[i]) # "hidden"})

\* Where the kept part may begin: after something was summarised, and never
\* between a call and its result.  One past the end: nothing is kept.
Boundaries(variant, source) ==
    LET seen == SourceIndices(source)
        head(p) == {source[seen[i]] : i \in 1..(p - 1)}
        tail(p) == {source[seen[i]] : i \in p..Len(seen)}
    IN  IF variant \in {"deep", "error"} THEN {Len(seen) + 1}
        ELSE {p \in 2..(Len(seen) + 1) :
                \A r \in tail(p) : Kind(r) = "result" => tree[r].ref \notin head(p)}

\* Mutant: the position among what the compressor saw is not mapped back.
FirstKeptUnmapped(variant, source, p, ids) ==
    IF variant \notin {"deep", "error"} /\ p \in DOMAIN ids THEN ids[p]
    ELSE IF variant = "manual" THEN leaf ELSE 0

\* _first_kept_entry_id
FirstKept(variant, source, p, ids) ==
    LET seen == SourceIndices(source)
    IN  IF variant \notin {"deep", "error"} /\ p \in DOMAIN seen /\ seen[p] \in DOMAIN ids
        THEN ids[seen[p]]
        ELSE IF variant = "manual" THEN leaf ELSE 0

\* _compaction_parent_entry_id; the manual ones are appended at the leaf.
ParentFor(variant, source, ids) ==
    IF variant \notin {"manual", "deep"} /\ Len(source) \in DOMAIN ids
    THEN ids[Len(source)] ELSE leaf

\* What the turn goes on with.
PhaseAfter(t, applied) ==
    IF t = "user" THEN phase
    ELSE IF txn[t].variant = "overflow" THEN (IF applied THEN "run" ELSE "idle")
    ELSE IF phase = "post" THEN "idle" ELSE phase

Closes(t) == [txn EXCEPT ![t] = NoTxn]

\* Mutant: live is left as it was.
RestoreNothing(t, l) == live

\* _restore_persisted_context
Restored(t, l) == ContextOf(t, l)

\* apply_result, apply_manual_status, apply_extension_compaction: the entry
\* is stored, and live is what the store now stands for.
Applies(t, p) ==
    LET v == txn[t].variant
        source == txn[t].source
        ids == Stored
        seen == SourceIndices(source)
        summarised == {source[seen[i]] : i \in 1..(p - 1)}
        kept == FirstKept(v, source, p, ids)
        past == v = "manual" /\ p > Len(seen)    \* the leaf is kept all the same
        succeeded == Of(tree, EntryKinds \ {"failed"})
        visible == Range(live) \intersect Of(tree, EntryKinds \ {"hidden", "failed", "compaction"})
    IN  /\ Busy(t) /\ Len(seen) > 1
        /\ p \in Boundaries(v, source)
        /\ Len(tree) < MaxEntries
        /\ tree' = Append(tree, [kind |-> "compaction", ref |-> kept,
                                 parent |-> ParentFor(v, source, ids)])
        /\ leaf' = Len(tree) + 1
        /\ live' = Restored(tree', leaf')
        /\ gone' = gone \union {e \in summarised : Kind(e) # "compaction" /\ ~(past /\ e = leaf)}
        /\ lost' = lost \union (visible \ (Range(live') \union summarised))
        /\ skewed' = (skewed \/ raced \/ ~IsPrefix(source, ids)
                              \/ Only(ids, succeeded) # Only(source, succeeded))
        /\ txn' = Closes(t)
        /\ phase' = PhaseAfter(t, TRUE)
        /\ raced' = (raced \/ \E u \in Threads \ {t} : Busy(u))
        /\ UNCHANGED <<setting, notice, other>>

\* Nothing was compacted: cancelled, failed, in cooldown, or nothing to gain.
\* A manual compaction and an overflow recovery put their copy in live.
MakesNoChange(t) ==
    LET v == txn[t].variant
        source == txn[t].source
    IN  /\ Busy(t)
        /\ \/ live' = live
           \/ /\ v = "manual"
              /\ live' = Only(source, Of(tree, EntryKinds \ {"hidden"}))
           \/ v = "overflow" /\ live' = source
        /\ txn' = Closes(t)
        /\ phase' = PhaseAfter(t, FALSE)
        /\ raced' = (raced \/ notice)
        /\ UNCHANGED <<tree, leaf, setting, notice, other, gone, lost, skewed>>

----------------------------------------------------------------------------
ContextNext ==
    \/ TurnStarts \/ Prompts \/ Replies \/ Calls \/ Results \/ Fails
    \/ Retries \/ GivesUp \/ TurnEnds
    \/ Sets \/ RecordsBash \/ NoticeComes \/ NoticeStored
    \/ \E e \in DOMAIN tree : Navigates(e)
    \/ Resumes
    \/ \E v \in {"manual", "deep"} : UserCompacts(v)
    \/ AutoCompacts \/ RecoversOverflow \/ CompactsFailedTurn
    \/ \E t \in Threads : \E p \in 1..(MaxEntries + 1) : Applies(t, p)
    \/ \E t \in Threads : MakesNoChange(t)

ContextSpec == ContextInit /\ [][ContextNext]_contextVars

----------------------------------------------------------------------------
(* Properties.                                                             *)

Ids == 1..MaxEntries

\* The state has its shape; parents and references point backwards; and the
\* turn thread never leaves a turn with its compaction open.
ContextTypeOK ==
    /\ tree \in Seq([kind : EntryKinds, parent : 0..MaxEntries, ref : 0..MaxEntries])
    /\ \A e \in DOMAIN tree : tree[e].parent < e /\ tree[e].ref < e
    /\ leaf \in 0..Len(tree)
    /\ live \in Seq(0..Len(tree))
    /\ setting \in 0..Len(tree)
    /\ phase \in Phases
    /\ txn \in [Threads -> {NoTxn} \union [variant : Variants, source : Seq(Ids)]]
    /\ phase \in {"idle", "tool", "failed"} => ~Busy("turn")
    /\ notice \in BOOLEAN /\ other \in 0..MaxOther
    /\ gone \subseteq Ids /\ lost \subseteq Ids
    /\ skewed \in BOOLEAN /\ raced \in BOOLEAN

\* Between turns, the conversation a request is built from is the one a
\* restart would rebuild from the file, but for failed messages that were
\* retried or recovered from and for bash results the model never sees.
\* (A retry after malformed arguments of a call is not modelled: its prompt
\* is in live only.)  Excepted is a conversation that two threads changed at once (a message
\* stored during a compaction, or while another was on its way, or two
\* compactions).
LiveIsStored ==
    LET said == Of(tree, EntryKinds \ {"failed", "hidden"})
    IN  phase = "idle" /\ ~Compacting /\ ~notice /\ ~raced => Only(live, said) = Only(Stored, said)

\* A persisted compaction summarises every message it discards.
SummarisesDiscarded == lost = {}

\* The same, as long as compactions are applied to the context they copied.
AlignedKeepsAll == ~skewed => SummarisesDiscarded

\* Under the same condition, a message that was summarised away does not
\* come back into the context of that branch, through later compactions,
\* turns, failures and restarts.
NotResurrected == ~skewed => gone \intersect Range(Stored) = {}

\* Compaction is sound: the tree is well formed, and a compaction applied to the context it
\* copied summarises what it discards and brings nothing back.
CompactionSound ==
    /\ ContextTypeOK
    /\ AlignedKeepsAll
    /\ NotResurrected
=============================================================================

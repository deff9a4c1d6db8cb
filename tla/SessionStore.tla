---------------------------- MODULE SessionStore ----------------------------
(***************************************************************************)
(* The session file (session_store.py, session_lock.py): one JSONL file of *)
(* parent-linked entries, appended to by several SessionStore instances,   *)
(* each in a process of its own.  An append holds the store's thread lock  *)
(* and the file's flock throughout: it reads what others have appended,    *)
(* chooses the parent, writes its record and only then changes its memory. *)
(* A write may be cut short (a full disk, the death of the process); the   *)
(* next reader quarantines a tail that does not parse.                     *)
(*                                                                         *)
(* A record is three chunks: two halves of its JSON text and the newline.  *)
(* What a reader makes of a file is computed from the chunks, so a record  *)
(* cut after its first half, and one that only lacks its newline, are read *)
(* as the code reads them.  The header line, written by one os.replace, is *)
(* left out; so is the search index, whose errors the store swallows.  The *)
(* calls on one instance come one after the other, and a file that takes   *)
(* the place of another is a new one (its inode number is not used again). *)
(***************************************************************************)
EXTENDS Integers, Sequences, FiniteSets, SequencesExt, FiniteSetsExt

CONSTANTS
    Stores,        \* the SessionStore instances
    NoStore,       \* nobody holds the file lock
    MaxEntries,    \* bound: the records ever begun
    MaxFaults,     \* bound: the appends that fail and the processes that die
    Cuts           \* the numbers of chunks after which a write may end

ASSUME StoreAssumption == /\ NoStore \notin Stores
                          /\ MaxEntries \in Nat /\ MaxFaults \in Nat
                          /\ Cuts \subseteq 0..3

VARIABLES
    file,      \* the bytes of the file, as a sequence of chunks
    inode,     \* which file the path names: recovery replaces it
    lock,      \* the store that holds the SessionFileLock
    par,       \* par[e]: the parentId of entry e, for every e ever begun
    up,        \* up[s]: the store's process runs and has the session open
    mem,       \* mem[s]: file_entries, as ids
    leaf,      \* leaf[s]: leaf_id, 0 for None
    diskLeaf,  \* diskLeaf[s]: _disk_leaf_id
    offset,    \* offset[s]: _disk_offset
    ident,     \* ident[s]: _disk_identity
    explicit,  \* explicit[s]: _explicit_parent_selection
    appending, \* appending[s]: the locals of the append in progress
    ack,       \* history: the entries whose append returned to its caller
    chosen,    \* history: chosen[s]: the parent the caller selected, NoChoice, or Lost
    branched,  \* history: somebody selected a parent
    stranded,  \* history: a compaction, or the reading of the file, failed after it had
               \* found the file changed
    unended,   \* history: a write was cut between a record and its newline
    faults     \* the faults so far

store == <<mem, leaf, diskLeaf, offset, ident, explicit>>
history == <<ack, chosen, branched, stranded, unended>>
storeVars == <<file, inode, lock, par, up, store, appending, history, faults>>

Ids == 1..MaxEntries
NoChoice == -1
\* The selection of an instance one of whose appends failed after it had found the file
\* changed: the leaf is then where the reading has left it.
Lost == -2

----------------------------------------------------------------------------
(* What a reader makes of the file.                                        *)

Record(e) == << <<e, 1>>, <<e, 2>>, <<e, 3>> >>
EndsLine(chunk) == chunk[2] = 3

\* raw.splitlines(keepends=True): after how many chunks a line begins, and the
\* line, which ends with its newline or with the file.
Begins(f) == {i \in 0..(Len(f) - 1) : i = 0 \/ EndsLine(f[i])}
LineAt(f, i) == SubSeq(f, i + 1, Min({j \in (i + 1)..Len(f) : EndsLine(f[j]) \/ j = Len(f)}))

\* json.loads accepts a line that is the text of one entry, whether the
\* newline is there or not.
Parses(line) ==
    /\ Len(line) \in 2..3
    /\ \A p \in DOMAIN line : line[p] = Record(line[1][1])[p]

\* How much is read before the first line that does not parse.
GoodEnd(f) == Min({i \in Begins(f) : ~Parses(LineAt(f, i))} \union {Len(f)})

\* The entries of those lines: all but the last of them are whole records.
Entries(f) == [k \in 1..((GoodEnd(f) + 2) \div 3) |-> f[3 * k - 2][1]]
LastOf(es, default) == IF es = <<>> THEN default ELSE Last(es)

\* The last line, and only it, does not parse, and it has no newline.
IncompleteTail(f) ==
    /\ GoodEnd(f) < Len(f)
    /\ \A i \in (GoodEnd(f) + 1)..Len(f) : ~EndsLine(f[i])
Corrupt(f) == GoodEnd(f) < Len(f) /\ ~IncompleteTail(f)

\* Mutant: the last whole line goes too.
ValidPrefixShort(f) == SubSeq(f, 1, GoodEnd(f) - 3)

\* The bytes _recover_truncated_tail leaves in the file.
ValidPrefix(f) == SubSeq(f, 1, GoodEnd(f))

----------------------------------------------------------------------------
NoAppend == [step |-> "idle", selected |-> 0, follows |-> FALSE, id |-> 0, written |-> 0,
             news |-> FALSE, back |-> <<>>]
Selected(back) == [step |-> "selected", selected |-> 0, follows |-> FALSE, id |-> 0,
                   written |-> 0, news |-> FALSE, back |-> back]
Syncing(selected, follows, back) ==
    [step |-> "syncing", selected |-> selected, follows |-> follows, id |-> 0,
     written |-> 0, news |-> FALSE, back |-> back]
Writing(o, id, written, news) ==
    [step |-> "writing", selected |-> o.selected, follows |-> o.follows, id |-> id,
     written |-> written, news |-> news, back |-> o.back]

StoreInit ==
    /\ file = <<>> /\ inode = 0
    /\ lock = NoStore
    /\ par = <<>>
    /\ up = [s \in Stores |-> FALSE]
    /\ mem = [s \in Stores |-> <<>>]
    /\ leaf = [s \in Stores |-> 0]
    /\ diskLeaf = [s \in Stores |-> 0]
    /\ offset = [s \in Stores |-> 0]
    /\ ident = [s \in Stores |-> 0]
    /\ explicit = [s \in Stores |-> FALSE]
    /\ appending = [s \in Stores |-> NoAppend]
    /\ ack = {}
    /\ chosen = [s \in Stores |-> NoChoice]
    /\ branched = FALSE /\ stranded = FALSE /\ unended = FALSE
    /\ faults = 0

----------------------------------------------------------------------------
(* Reading.                                                                *)

\* _load: everything is read again; an incomplete tail is moved aside and
\* the file replaced by the prefix that parses.
Load(s) ==
    LET es == Entries(file)
        recovered == IncompleteTail(file)
    IN  /\ file' = IF recovered THEN ValidPrefix(file) ELSE file
        /\ inode' = IF recovered THEN inode + 1 ELSE inode
        /\ mem' = [mem EXCEPT ![s] = es]
        /\ leaf' = [leaf EXCEPT ![s] = LastOf(es, 0)]
        /\ diskLeaf' = [diskLeaf EXCEPT ![s] = LastOf(es, 0)]
        /\ offset' = [offset EXCEPT ![s] = Len(file')]
        /\ ident' = [ident EXCEPT ![s] = inode']
        /\ explicit' = [explicit EXCEPT ![s] = FALSE]

\* The new lines are applied to what the store has.
ReadSuffix(s, suffix) ==
    LET es == Entries(suffix)
    IN  /\ mem' = [mem EXCEPT ![s] = @ \o es]
        /\ leaf' = [leaf EXCEPT ![s] = LastOf(es, @)]
        /\ diskLeaf' = [diskLeaf EXCEPT ![s] = LastOf(es, @)]
        /\ offset' = [offset EXCEPT ![s] = Len(file)]
        /\ UNCHANGED <<file, inode, ident, explicit>>

Replaced(s) == ident[s] # inode \/ Len(file) < offset[s]
Suffix(s) == SubSeq(file, offset[s] + 1, Len(file))

\* The file is not as the store has left it.
Changed(s) == Replaced(s) \/ Len(file) > offset[s]

\* The file was replaced, or it ends in the middle of a line.
MustReload(s) ==
    \/ Replaced(s)
    \/ Len(file) > offset[s] /\ ~EndsLine(Last(file))

\* _sync_from_disk, when it does not raise.
Sync(s) ==
    \/ MustReload(s) /\ ~Corrupt(file) /\ Load(s)
    \/ /\ ~MustReload(s)
       /\ GoodEnd(Suffix(s)) = Len(Suffix(s))
       /\ ReadSuffix(s, Suffix(s))

\* SessionCorruptionError: some line in the middle does not parse.
SyncRaises(s) ==
    IF MustReload(s) THEN Corrupt(file)
    ELSE GoodEnd(Suffix(s)) < Len(Suffix(s))

\* A session is opened by reading all of it under the lock; a corrupt file
\* cannot be opened.
Open(s) ==
    /\ ~up[s] /\ lock = NoStore
    /\ ~Corrupt(file)
    /\ Load(s)
    /\ up' = [up EXCEPT ![s] = TRUE]
    /\ UNCHANGED <<lock, par, appending, history, faults>>

----------------------------------------------------------------------------
(* Selecting a parent: branch(), reset_leaf().                             *)

Branch(s, e) ==
    /\ up[s] /\ appending[s].step = "idle"
    /\ e \in Range(mem[s]) \union {0}
    /\ leaf' = [leaf EXCEPT ![s] = e]
    /\ explicit' = [explicit EXCEPT ![s] = TRUE]
    /\ chosen' = [chosen EXCEPT ![s] = e]
    /\ branched' = TRUE
    /\ UNCHANGED <<file, inode, lock, par, up, mem, diskLeaf, offset, ident, appending,
                   ack, stranded, unended, faults>>

----------------------------------------------------------------------------
(* _append_entry.                                                          *)

\* append_compaction notes the selection in force, to put it back if the append fails.  A
\* parent_id is selected for this append only; e is 0 if there is none.  No lock is held.
CompactionBegins(s, e) ==
    /\ up[s] /\ appending[s].step = "idle"
    /\ Len(par) < MaxEntries
    /\ e \in Range(mem[s]) \union {0}
    /\ appending' = [appending EXCEPT ![s] = Selected(<<leaf[s], explicit[s], chosen[s]>>)]
    /\ IF e = 0
       THEN UNCHANGED <<leaf, explicit, chosen, branched>>
       ELSE /\ leaf' = [leaf EXCEPT ![s] = e]
            /\ explicit' = [explicit EXCEPT ![s] = TRUE]
            /\ chosen' = [chosen EXCEPT ![s] = e]
            /\ branched' = TRUE
    /\ UNCHANGED <<file, inode, lock, par, up, mem, diskLeaf, offset, ident, ack, stranded,
                   unended, faults>>

\* The locks are taken and the parent in force is noted.
AppendBegins(s) ==
    /\ up[s] /\ appending[s].step \in {"idle", "selected"} /\ lock = NoStore
    /\ Len(par) < MaxEntries
    /\ lock' = s
    /\ appending' = [appending EXCEPT ![s] =
           Syncing(leaf[s], ~explicit[s] /\ leaf[s] = diskLeaf[s], @.back)]
    /\ UNCHANGED <<file, inode, par, up, store, history, faults>>

\* Mutant: the parent is always the one chosen before the file was read.
ParentSelected(o, tail) == o.selected

\* Mutant: the parent is always the end of the file.
ParentTail(o, tail) == tail

\* A store that was at the end of the file stays there; any other keeps the
\* parent it had before the file was read.
ParentOf(o, tail) == IF o.follows THEN tail ELSE o.selected

AppendSyncs(s) ==
    /\ appending[s].step = "syncing"
    /\ Sync(s)
    /\ par' = Append(par, ParentOf(appending[s], leaf'[s]))
    /\ appending' = [appending EXCEPT ![s] = Writing(@, Len(par'), 0, Changed(s))]
    /\ UNCHANGED <<lock, up, history, faults>>

\* os.write: some more of the payload reaches the file.
AppendWrites(s) ==
    /\ appending[s].step = "writing" /\ appending[s].written < 3
    /\ file' = Append(file, Record(appending[s].id)[appending[s].written + 1])
    /\ appending' = [appending EXCEPT ![s] = Writing(@, @.id, @.written + 1, @.news)]
    /\ UNCHANGED <<inode, lock, par, up, store, history, faults>>

\* Mutant: the offset is not advanced.
OffsetKept(s) == offset[s]

OffsetAfter(s) == offset[s] + 3

\* The record is whole and synced: memory follows, and the caller is told.
AppendReturns(s) ==
    LET e == appending[s].id
    IN  /\ appending[s].step = "writing" /\ appending[s].written = 3
        /\ mem' = [mem EXCEPT ![s] = Append(@, e)]
        /\ leaf' = [leaf EXCEPT ![s] = e]
        /\ diskLeaf' = [diskLeaf EXCEPT ![s] = e]
        /\ offset' = [offset EXCEPT ![s] = OffsetAfter(s)]
        /\ ident' = [ident EXCEPT ![s] = inode]
        /\ explicit' = [explicit EXCEPT ![s] = FALSE]
        /\ appending' = [appending EXCEPT ![s] = NoAppend]
        /\ lock' = NoStore
        /\ ack' = ack \union {e}
        /\ chosen' = [chosen EXCEPT ![s] = NoChoice]
        /\ UNCHANGED <<file, inode, par, up, branched, stranded, unended, faults>>

\* The exception leaves memory and the leaf as the sync made them (m, l), except that a
\* compaction puts the selection back, wherever the sync has led; news: the sync had found
\* the file changed.
Raise(s, m, l, news) ==
    LET back == appending[s].back
    IN  /\ mem' = [mem EXCEPT ![s] = m]
        /\ leaf' = [leaf EXCEPT ![s] = IF back = <<>> THEN l ELSE back[1]]
        /\ explicit' = [explicit EXCEPT ![s] = IF back = <<>> THEN @ ELSE back[2]]
        /\ chosen' = [chosen EXCEPT ![s] = IF back # <<>> THEN back[3]
                                           ELSE IF news /\ @ # NoChoice THEN Lost ELSE @]
        /\ stranded' = (stranded \/ (news /\ (back # <<>> \/ appending[s].step = "syncing")))
        /\ appending' = [appending EXCEPT ![s] = NoAppend]
        /\ lock' = NoStore
        /\ UNCHANGED <<file, inode, par, up, diskLeaf, offset, ident, ack, branched>>

\* os.write or fsync fails: the caller gets the error, and what was written stays in the
\* file.  (An append that cannot take the lock or read the file changes nothing.)
AppendFails(s) ==
    /\ appending[s].step = "writing" /\ appending[s].written \in Cuts
    /\ faults < MaxFaults
    /\ faults' = faults + 1
    /\ unended' = (unended \/ appending[s].written = 2)
    /\ Raise(s, mem[s], leaf[s], appending[s].news)

\* The sync met a line that does not parse: the append raises, every time,
\* and the store has read the entries before that line (again, each time: its
\* offset stays where it was).
AppendRefused(s) ==
    LET again == MustReload(s)
        read == Entries(IF again THEN file ELSE Suffix(s))
    IN  /\ appending[s].step = "syncing" /\ SyncRaises(s)
        /\ faults < MaxFaults
        /\ faults' = faults + 1
        /\ Raise(s, IF again THEN read ELSE mem[s] \o read,
                    LastOf(read, IF again THEN 0 ELSE leaf[s]), TRUE)
        /\ UNCHANGED unended

\* Mutant: what was read before the recovery failed is appended to what the store had.
RecoveryRepeats(s) ==
    /\ appending[s].step = "syncing" /\ MustReload(s) /\ IncompleteTail(file)
    /\ faults < MaxFaults
    /\ faults' = faults + 1
    /\ Raise(s, mem[s] \o Entries(file), LastOf(Entries(file), 0), TRUE)
    /\ UNCHANGED unended

\* _recover_truncated_tail fails: the tail stays in the file.  The store has read the
\* entries before it, but its offset and its idea of the end of the file are the old ones.
RecoveryFails(s) ==
    /\ appending[s].step = "syncing" /\ MustReload(s) /\ IncompleteTail(file)
    /\ faults < MaxFaults
    /\ faults' = faults + 1
    /\ Raise(s, Entries(file), LastOf(Entries(file), 0), TRUE)
    /\ UNCHANGED unended

\* The process ends, in the middle of a write or anywhere else; the kernel
\* releases its flock.
Dies(s) ==
    /\ up[s]
    /\ appending[s].step = "writing" => appending[s].written \in Cuts
    /\ faults < MaxFaults
    /\ faults' = faults + 1
    /\ unended' = (unended \/ appending[s].written = 2)
    /\ up' = [up EXCEPT ![s] = FALSE]
    /\ lock' = IF lock = s THEN NoStore ELSE lock
    /\ appending' = [appending EXCEPT ![s] = NoAppend]
    /\ mem' = [mem EXCEPT ![s] = <<>>]
    /\ leaf' = [leaf EXCEPT ![s] = 0]
    /\ diskLeaf' = [diskLeaf EXCEPT ![s] = 0]
    /\ offset' = [offset EXCEPT ![s] = 0]
    /\ ident' = [ident EXCEPT ![s] = 0]
    /\ explicit' = [explicit EXCEPT ![s] = FALSE]
    /\ chosen' = [chosen EXCEPT ![s] = NoChoice]
    /\ UNCHANGED <<file, inode, par, ack, branched, stranded>>

----------------------------------------------------------------------------
StoreNext ==
    \E s \in Stores :
        \/ Open(s)
        \/ \E e \in 0..MaxEntries : Branch(s, e)
        \/ AppendBegins(s)
        \/ \E e \in 0..MaxEntries : CompactionBegins(s, e)
        \/ AppendSyncs(s)
        \/ AppendWrites(s)
        \/ AppendReturns(s)
        \/ AppendFails(s)
        \/ AppendRefused(s)
        \/ RecoveryFails(s)
        \/ Dies(s)

StoreSpec == StoreInit /\ [][StoreNext]_storeVars

----------------------------------------------------------------------------
(* Properties.                                                             *)

\* The selection a compaction puts back, if there is one.
Backs == {<<>>} \union ((0..MaxEntries) \X BOOLEAN \X (Lost..MaxEntries))
AppendType == [step : {"idle", "selected", "syncing", "writing"}, selected : 0..MaxEntries,
               follows : BOOLEAN, id : 0..MaxEntries, written : 0..3, news : BOOLEAN,
               back : Backs]

\* The state has its shape; an offset never points past the bytes the
\* records can fill, and an append is in progress exactly in the store that
\* holds the file lock.
StoreTypeOK ==
    /\ file \in Seq(Ids \X (1..3)) /\ Len(file) <= 3 * MaxEntries
    /\ inode \in 0..MaxFaults
    /\ lock \in Stores \union {NoStore}
    /\ par \in Seq(0..MaxEntries) /\ Len(par) <= MaxEntries
    /\ up \in [Stores -> BOOLEAN]
    /\ mem \in [Stores -> Seq(Ids)]
    /\ leaf \in [Stores -> 0..MaxEntries]
    /\ diskLeaf \in [Stores -> 0..MaxEntries]
    /\ offset \in [Stores -> 0..(3 * MaxEntries)]
    /\ ident \in [Stores -> 0..MaxFaults]
    /\ explicit \in [Stores -> BOOLEAN]
    /\ appending \in [Stores -> AppendType]
    /\ \A s \in Stores : (appending[s].step \in {"syncing", "writing"}) = (lock = s)
    /\ ack \subseteq Ids
    /\ chosen \in [Stores -> Lost..MaxEntries]
    /\ branched \in BOOLEAN /\ stranded \in BOOLEAN /\ unended \in BOOLEAN
    /\ faults \in 0..MaxFaults

\* An entry whose append returned can be read back by whoever opens the
\* session, for ever: no other instance's append, no cut write, no recovery
\* of a tail loses it or makes the lines before it unreadable.
NothingLost == ack \subseteq Range(Entries(file))

\* The same, as long as no write was cut exactly between the text of a record
\* and its newline: such a record is read as whole, and the next append
\* continues its line.
AcknowledgedKept == ~unended => NothingLost

\* Under that condition what an open store holds is what the file holds, in
\* the file's order, up to some point: following the suffix, reloading and
\* applying its own records never skip, repeat or reorder an entry.
ViewIsPrefix == ~unended => \A s \in Stores : up[s] => IsPrefix(mem[s], Entries(file))

\* Under that condition the entries of the file form a forest that can be read in one pass: a
\* parent is an entry of the file and comes before its children.  No append
\* builds on an entry that was never written.
ParentBefore ==
    LET es == Entries(file)
    IN  ~unended => \A k \in DOMAIN es : par[es[k]] \in {0} \union Range(SubSeq(es, 1, k - 1))

\* As long as nobody selects a parent, and under the same condition, the instances extend one
\* conversation: each entry continues the one before it in the file, whoever wrote it, also
\* over failed appends, crashes and recoveries.  The exception is what `stranded' records: a
\* compaction that fails after it has found the file changed puts the old leaf back, and a
\* recovery that fails leaves the leaf moved and the idea of the end of the file not; the
\* instance then takes its leaf for a selection, and its next append may fork.
OneConversation ==
    LET es == Entries(file)
    IN  ~branched /\ ~unended /\ ~stranded =>
            \A k \in DOMAIN es : par[es[k]] = IF k = 1 THEN 0 ELSE es[k - 1]

\* The entry appended after branch() (or reset_leaf(), or a compaction's parent_id) is a
\* child of the entry that was selected, whatever other instances appended in between, even
\* if the file had to be reloaded, and also if appends in between failed.  The exception is
\* Lost: an append (other than a compaction) that fails after it has found the file changed
\* takes the selection away, and the next one goes where the reading has left the leaf.
SelectionHonoured ==
    [][\A e \in ack' \ ack :
          chosen[lock] \notin {NoChoice, Lost} => par[e] = chosen[lock]]_storeVars

\* The file and the memory of the stores are sound: the variables have their types, an open
\* store holds a prefix of the file, and parents come before their children.
FileSound ==
    /\ StoreTypeOK
    /\ ViewIsPrefix
    /\ ParentBefore
=============================================================================

---------------------------- MODULE OrphanRepair ----------------------------
(***************************************************************************)
(* repair-fk-orphans (sync/fk_orphan_repair.rs): children of the target    *)
(* that refer to no parent are made the source's rows, or deleted, in      *)
(* locked batches, while the source changes and the stream replays.        *)
(*                                                                         *)
(* A child refers to its parent by key and name, a parent to the one       *)
(* artist by name.  The source cascades a renamed parent to its children   *)
(* without row events for them, which is how the target, where the foreign *)
(* key is absent, comes to have orphans.                                   *)
(***************************************************************************)
EXTENDS Integers, Sequences, FiniteSets

CONSTANTS
  Children, Parents, Names,   \* primary keys of children (numbers) and parents, names
  ArtistNames,                \* names the one artist can have
  BatchSize, Limit,           \* --batch-size and --limit
  MaxEvents                   \* bound on source changes

VARIABLES
  case,       \* the case restores comics parents
  expected,   \* --expected-orphans
  source, target,
  log, pos,   \* source events and how many of them the stream has replayed
  pc, plan,   \* step of the command, keys still to repair
  batch,      \* keys of the current batch still to repair
  locked,     \* the target tables are locked by the command
  work,       \* the command's uncommitted view of the target
  seen,       \* rows read from the source for the current key
  history     \* source states since the tables were locked

vars == <<case, expected, source, target, log, pos, pc, plan, batch, locked, work, seen, history>>

NoChild == [parent |-> "none", name |-> "none"]
NoParent == [name |-> "none", artist |-> "none"]
ChildRows == [parent : Parents, name : Names] \cup {NoChild}
ParentRows == [name : Names, artist : ArtistNames] \cup {NoParent}
Rows == [children : [Children -> ChildRows], parents : [Parents -> ParentRows],
         artist : ArtistNames \cup {"none"}]
NothingSeen == [child |-> NoChild, parent |-> NoParent, artist |-> "none", inserted |-> FALSE]

(* validate_child_parent_relationship *)
Refers(child, parent) == parent # NoParent /\ child.name = parent.name

ParentOf(rows, child) == IF child.parent \in Parents THEN rows.parents[child.parent] ELSE NoParent

(* build_orphan_keys_sql *)
IsOrphan(rows, c) ==
  rows.children[c] # NoChild /\ ~Refers(rows.children[c], ParentOf(rows, rows.children[c]))

(* decode_primary_keys: the orphans, which are taken in ascending order *)
orphan_keys(rows) == {c \in Children : IsOrphan(rows, c)}
First(keys) == CHOOSE c \in keys : \A d \in keys : c <= d

ValidSource(rows) ==
  /\ rows.artist # "none"
  /\ \A p \in Parents : rows.parents[p] # NoParent => rows.parents[p].artist = rows.artist
  /\ \A c \in Children : ~IsOrphan(rows, c)

-----------------------------------------------------------------------------
(* The source, and the stream that replays its events on unlocked tables. *)

command == <<case, expected, pc, plan, batch, locked, work, seen>>

SourceChange(rows, event) ==
  /\ Len(log) < MaxEvents
  /\ source' = rows
  /\ log' = Append(log, event)
  /\ history' = IF history = {} THEN {} ELSE history \cup {rows}
  /\ UNCHANGED <<command, target, pos>>

ChangeChild(c, row) ==
  /\ source.children[c] # row
  /\ row # NoChild => Refers(row, ParentOf(source, row))
  /\ SourceChange([source EXCEPT !.children[c] = row], [table |-> "children", key |-> c, before |-> source.children[c], row |-> row])

ChangeParent(p, row) ==
  /\ source.parents[p] # row
  /\ row # NoParent => row.artist = source.artist
  /\ row = NoParent => \A c \in Children : source.children[c].parent # p
  /\ SourceChange([source EXCEPT !.parents[p] = row,
                     !.children = [c \in Children |-> IF @[c].parent = p THEN [@[c] EXCEPT !.name = row.name]
                                                                         ELSE @[c]]],
                  [table |-> "parents", key |-> p, before |-> source.parents[p], row |-> row])

ChangeArtist(name) ==
  /\ source.artist # name
  /\ SourceChange([source EXCEPT !.artist = name,
                     !.parents = [p \in Parents |-> IF @[p] = NoParent THEN @[p]
                                                    ELSE [@[p] EXCEPT !.artist = name]]],
                  [table |-> "artist", key |-> "artist", before |-> source.artist, row |-> name])

(* An INSERT of a row the target has is ignored, an UPDATE assigns what    *)
(* the source changed.                                                     *)
Replayed(old, event, absent) ==
  CASE event.row = absent -> absent
    [] event.before = absent -> IF old = absent THEN event.row ELSE old
    [] old = absent -> old
    [] OTHER -> [col \in DOMAIN old |-> IF event.before[col] # event.row[col] THEN event.row[col] ELSE old[col]]

StreamReplays ==
  /\ ~locked /\ pos < Len(log)
  /\ LET event == log[pos + 1]
     IN target' = CASE event.table = "children" ->
                         [target EXCEPT !.children[event.key] = Replayed(@, event, NoChild)]
                    [] event.table = "parents" ->
                         [target EXCEPT !.parents[event.key] = Replayed(@, event, NoParent)]
                    [] OTHER -> [target EXCEPT !.artist = IF @ = "none" THEN @ ELSE event.row]
  /\ pos' = pos + 1
  /\ UNCHANGED <<command, source, log, history>>

-----------------------------------------------------------------------------
(* The command.  Each step reads the source once; under its locks the      *)
(* target cannot change.                                                   *)

world == <<case, expected, source, log, pos>>

Goto(step) == pc' = step

(* batch_cleanup_error, or the loss of the command's connection *)
Fail ==
  /\ pc' = "error" /\ locked' = FALSE /\ work' = target /\ seen' = NothingSeen /\ history' = {}
  /\ UNCHANGED <<world, target, plan, batch>>

Plan ==
  /\ pc = "plan"
  /\ LET keys == orphan_keys(target)
     IN IF Cardinality(keys) > Limit \/ Cardinality(keys) # expected
        THEN Fail
        ELSE /\ plan' = keys
             /\ Goto(IF keys = {} THEN "final" ELSE "begin")
             /\ UNCHANGED <<world, target, batch, locked, work, seen, history>>

(* Mutant: the batch runs in a transaction without table locks. *)
BeginUnlocked ==
  /\ pc = "begin"
  /\ work' = target /\ history' = {source}
  /\ batch' = plan /\ plan' = {}
  /\ Goto("row")
  /\ UNCHANGED <<world, target, locked, seen>>

(* begin_batch: LOCK TABLES, which waits for the stream's transaction *)
BeginBatch ==
  /\ pc = "begin"
  /\ locked' = TRUE /\ work' = target /\ history' = {source}
  /\ batch' = {c \in plan : Cardinality({d \in plan : d < c}) < BatchSize}
  /\ plan' = plan \ batch'
  /\ Goto("row")
  /\ UNCHANGED <<world, target, seen>>

NextRow == /\ batch' = batch \ {First(batch)} /\ seen' = NothingSeen
           /\ Goto(IF batch' = {} THEN "commit" ELSE "row")

(* repair_batch up to read_source_child, and delete_target_child *)
CheckRow ==
  /\ pc = "row"
  /\ LET c == First(batch)
     IN CASE ~IsOrphan(work, c) -> NextRow /\ UNCHANGED work
          [] IsOrphan(work, c) /\ source.children[c] = NoChild ->
               /\ work' = [work EXCEPT !.children[c] = NoChild]
               /\ Goto("absent") /\ UNCHANGED <<batch, seen>>
          [] OTHER -> /\ seen' = [seen EXCEPT !.child = source.children[c]]
                      /\ Goto("parent") /\ UNCHANGED <<work, batch>>
  /\ UNCHANGED <<world, target, plan, locked, history>>

(* repair_source_absent, the second read of the source child *)
ConfirmAbsent ==
  /\ pc = "absent"
  /\ IF source.children[First(batch)] # NoChild THEN Fail
     ELSE NextRow /\ UNCHANGED <<world, target, plan, locked, work, history>>

(* reconcile_repair_parent *)
ReadParent ==
  /\ pc = "parent"
  /\ LET parent == ParentOf(source, seen.child)
         there == ParentOf(work, seen.child)
     IN IF ~Refers(seen.child, parent) \/ (~case /\ there.name # parent.name)
        THEN Fail
        ELSE /\ seen' = [seen EXCEPT !.parent = parent]
             /\ Goto(IF case THEN "artist" ELSE "child")
             /\ UNCHANGED <<world, target, plan, batch, locked, work, history>>

(* restore_missing_artist *)
RestoreArtist ==
  /\ pc = "artist"
  /\ LET missing == work.artist = "none"
     IN IF source.artist # seen.parent.artist \/ (~missing /\ work.artist # source.artist)
        THEN Fail
        ELSE /\ work' = [work EXCEPT !.artist = source.artist]
             /\ seen' = [seen EXCEPT !.artist = source.artist, !.inserted = missing]
             /\ Goto("restore")
             /\ UNCHANGED <<world, target, plan, batch, locked, history>>

(* verify_repaired_artist, and restore_target_parent *)
RestoreParent ==
  /\ pc = "restore"
  /\ IF source.artist # seen.artist THEN Fail
     ELSE /\ work' = [work EXCEPT !.parents[seen.child.parent] = seen.parent]
          /\ Goto("child")
          /\ UNCHANGED <<world, target, plan, batch, locked, seen, history>>

(* apply_source_child, and verify_repaired_relationship's first read *)
RepairChild ==
  /\ pc = "child"
  /\ IF source.children[First(batch)] # seen.child THEN Fail
     ELSE /\ work' = [work EXCEPT !.children[First(batch)] = seen.child]
          /\ Goto("verify")
          /\ UNCHANGED <<world, target, plan, batch, locked, seen, history>>

(* verify_repaired_relationship, the source parent again *)
VerifyParent ==
  /\ pc = "verify"
  /\ IF ParentOf(source, seen.child) # seen.parent THEN Fail
     ELSE /\ IF case THEN Goto("verify artist") /\ UNCHANGED <<batch, seen>> ELSE NextRow
          /\ UNCHANGED <<world, target, plan, locked, work, history>>

VerifyArtist ==
  /\ pc = "verify artist"
  /\ IF source.artist # seen.artist THEN Fail
     ELSE NextRow /\ UNCHANGED <<world, target, plan, locked, work, history>>

(* COMMIT before UNLOCK TABLES; its acknowledgement may be lost. *)
CommitBatch ==
  /\ pc = "commit"
  /\ target' = work
  /\ \E acknowledged \in BOOLEAN :
       IF acknowledged THEN Goto("unlock") /\ UNCHANGED locked
                       ELSE Goto("error") /\ locked' = FALSE
  /\ history' = {}
  /\ UNCHANGED <<world, plan, batch, work, seen>>

UnlockBatch ==
  /\ pc = "unlock"
  /\ locked' = FALSE
  /\ Goto(IF plan = {} THEN "final" ELSE "begin")
  /\ UNCHANGED <<world, target, plan, batch, work, seen, history>>

FinalCount ==
  /\ pc = "final"
  /\ Goto(IF orphan_keys(target) = {} THEN "ok" ELSE "error")
  /\ UNCHANGED <<world, target, plan, batch, locked, work, seen, history>>

Disconnected == locked /\ Fail

Init ==
  /\ source \in {rows \in Rows : ValidSource(rows)} /\ target \in Rows
  /\ case \in BOOLEAN /\ expected \in 0 .. Cardinality(Children)
  /\ expected = Cardinality(orphan_keys(target)) \/ expected = 0
  /\ log = <<>> /\ pos = 0
  /\ pc = "plan" /\ plan = {} /\ batch = {} /\ locked = FALSE
  /\ work = target /\ seen = NothingSeen /\ history = {}

Next ==
  \/ \E c \in Children, row \in ChildRows : ChangeChild(c, row)
  \/ \E p \in Parents, row \in ParentRows : ChangeParent(p, row)
  \/ \E name \in ArtistNames : ChangeArtist(name)
  \/ StreamReplays \/ Plan \/ BeginBatch \/ CheckRow \/ ConfirmAbsent \/ ReadParent \/ RestoreArtist
  \/ RestoreParent \/ RepairChild \/ VerifyParent \/ VerifyArtist \/ CommitBatch \/ UnlockBatch
  \/ FinalCount \/ Disconnected

Spec == Init /\ [][Next]_vars

-----------------------------------------------------------------------------

(***************************************************************************)
(* What a batch commits is source-authoritative: each child, parent and    *)
(* artist it changes has a value the source had while the batch's tables   *)
(* were locked, so an event the stream has replayed is never undone by a   *)
(* row read before it.                                                     *)
(***************************************************************************)
CommitStep ==
  CommitBatch =>
    /\ \A c \in Children : target'.children[c] # target.children[c] =>
         \E rows \in history : target'.children[c] = rows.children[c]
    /\ \A p \in Parents : target'.parents[p] # target.parents[p] =>
         \E rows \in history : target'.parents[p] = rows.parents[p]
    /\ target'.artist # target.artist => \E rows \in history : target'.artist = rows.artist

(***************************************************************************)
(* Only orphans are repaired, as they are under the lock and not as they   *)
(* were planned; in the cases that restore parents also children whose     *)
(* parent the source had otherwise while the batch ran, for the batch may  *)
(* have restored it.  Parents change only in those cases, and an artist    *)
(* the target has is left alone.                                           *)
(***************************************************************************)
TargetedStep ==
  CommitBatch =>
    /\ \A c \in Children : target'.children[c] # target.children[c] =>
         \/ IsOrphan(target, c)
         \/ case /\ \E rows \in history :
                     ParentOf(rows, target.children[c]) # ParentOf(target, target.children[c])
    /\ target'.parents # target.parents => case
    /\ target'.artist # target.artist => case /\ target.artist = "none"
=============================================================================

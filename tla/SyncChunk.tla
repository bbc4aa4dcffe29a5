------------------------------ MODULE SyncChunk ------------------------------
(***************************************************************************)
(* The row stage of `sync` for one table: three passes over the primary    *)
(* key (insert missing rows, update divergent ones, delete extras), each   *)
(* in chunks.  A chunk locks the target table, reads a window of the       *)
(* source, makes the target agree with it in one transaction, commits, and *)
(* only then saves its progress on another connection.                     *)
(*                                                                         *)
(* A row is the value of its non-key columns; the values are also the      *)
(* identities of a secondary unique index when UniqueIndex holds.  The     *)
(* table has no foreign keys here, so coordinated owner replacement        *)
(* (sync/fk_transition.rs) has no dependent rows to detach.  The target is *)
(* locked during a chunk, the source never is: every read of the source is *)
(* a step of its own.                                                      *)
(***************************************************************************)
EXTENDS Naturals, FiniteSets

CONSTANTS
  NumKeys,      \* the primary keys are 1..NumKeys, in their order
  Values,       \* what a row can hold
  NoRow,        \* no row with this key
  UniqueIndex,  \* is there a secondary unique index on the values?
  ChunkSize,    \* --chunk-size
  BatchSize,    \* rows per mutation statement
  MaxWrites,    \* bound on the writes of the source's clients
  MaxFaults     \* bound on errors and deaths of the process

ASSUME SyncChunkAssumption ==
  /\ NumKeys \in Nat
  /\ NoRow \notin Values
  /\ UniqueIndex \in BOOLEAN
  /\ ChunkSize \in Nat \ {0}
  /\ BatchSize \in Nat \ {0}
  /\ MaxWrites \in Nat
  /\ MaxFaults \in Nat

Keys == 1..NumKeys
Rows == [Keys -> Values \cup {NoRow}]
Phases == {"insert_missing", "update_divergent", "delete_extras"}
NextPhase ==
  [insert_missing |-> "update_divergent", update_divergent |-> "delete_extras"]

(* The cursor of a pass that has not begun: every key is after it. *)
NoCursor == 0

Stages ==
  {"down",       \* no process
   "load",       \* about to load the progress of the phase
   "locked",     \* holds the WRITE lock, about to read the source
   "compare",    \* has a window of the source
   "mutate",     \* executing strict mutations
   "replace",    \* a duplicate key: owners the source does not have
   "reconcile",  \* a duplicate key: owners the source may have
   "owner",      \* the source's row of an owner has been read
   "commit", "save", "report", "done"}

VARIABLES
  source,         \* rows of the source table
  target,         \* committed rows of the target table
  work,           \* rows as the chunk's transaction sees them
  savedCursor,    \* last_primary_key per phase in the progress table
  savedComplete,  \* complete per phase in the progress table
  rowsComplete,   \* the rows stage of the table is complete
  stage,
  phase,
  cursor,         \* last_primary_key of the chunk's progress
  complete,       \* complete of the chunk's progress
  window,         \* rows read from the source, NoRow outside
  pending,        \* keys of the rows still to be mutated
  conflicts,      \* <<intended, owner>> pairs of the failed statement
  replaced,       \* has an owner of the failed statement been replaced?
  repaired,       \* pairs repaired in this chunk
  verify,         \* intended keys of those pairs
  ownerRow,       \* the source's row of the owner in hand
  touched,        \* keys written at the source since the run began
  writes,
  faults

sides == <<source, touched, writes>>
stored == <<savedCursor, savedComplete, rowsComplete>>
chunk == <<phase, cursor, complete, window>>
repair == <<conflicts, replaced, repaired, verify, ownerRow>>
vars == <<sides, target, work, stored, stage, chunk, pending, repair, faults>>

(***************************************************************************)
(* Rows and statements.                                                    *)
(***************************************************************************)
Present(rows) == { k \in Keys : rows[k] # NoRow }

Unique(rows) ==
  UniqueIndex =>
    \A j, k \in Present(rows) : rows[j] = rows[k] => j = k

After(keys, k) == { j \in keys : j > k }
Lowest(keys, n) == { k \in keys : Cardinality({ j \in keys : j < k }) < n }
Last(keys) == CHOOSE k \in keys : \A j \in keys : j <= k

(* The rows of the source window written over the given rows. *)
Overwrite(rows, keys) == [k \in Keys |-> IF k \in keys THEN window[k] ELSE rows[k]]
Without(rows, keys) == [k \in Keys |-> IF k \in keys THEN NoRow ELSE rows[k]]

(* The rows with another key that own a value. *)
Owners(rows, k, v) ==
  IF UniqueIndex THEN { j \in Present(rows) \ {k} : rows[j] = v } ELSE {}

(* The server changes the rows of a statement in key order and refuses the *)
(* whole statement (1062) at the first value that another row owns.        *)
Refused(rows, batch) ==
  \E k \in batch :
    Owners(Overwrite(rows, { j \in batch : j < k }), k, window[k]) # {}

(* An insert of a key that is there, or an update of one that is not. *)
Misses(rows, batch) ==
  IF phase = "insert_missing" THEN batch \cap Present(rows) # {}
                              ELSE ~ batch \subseteq Present(rows)

(* inspect_unique_owner_conflicts: the owner of each row of the statement. *)
Inspect(rows, batch) ==
  { p \in batch \X Keys : p[2] \in Owners(rows, p[1], window[p[1]]) }

FirstConflict == CHOOSE p \in conflicts : \A q \in conflicts : p[1] <= q[1]

(***************************************************************************)
(* A page of at most ChunkSize rows; the byte budget may end it earlier,   *)
(* never before its first row.                                             *)
(***************************************************************************)
PageSizes(keys) ==
  { n \in 1..ChunkSize : n <= Cardinality(keys) }

(* has_more of a page of n rows read from the rows with the given keys. *)
MoreIsIgnored(keys, n) == FALSE

HasMore(keys, n) == n < Cardinality(keys) \/ n = ChunkSize

NoRepair ==
  /\ conflicts' = {}
  /\ replaced' = FALSE
  /\ repaired' = {}
  /\ verify' = {}
  /\ ownerRow' = NoRow

(* rollback_and_unlock, or the death of the connection: the run ends. *)
Abort ==
  /\ stage' = "down"
  /\ work' = target
  /\ pending' = {}
  /\ NoRepair
  /\ UNCHANGED <<sides, target, stored, chunk, faults>>

(***************************************************************************)
(* run_mysql_sync_phases: a table whose rows stage is complete is not read *)
(* again; otherwise its phases run in order.                               *)
(***************************************************************************)
Start ==
  /\ stage = "down"
  /\ stage' = IF rowsComplete THEN "done" ELSE "load"
  /\ phase' = "insert_missing"
  /\ UNCHANGED <<sides, target, work, stored, cursor, complete, window, pending, repair, faults>>

SkipDeletes ==
  /\ stage = "load"
  /\ savedComplete[phase]
  /\ IF phase = "update_divergent"
       THEN stage' = "report" /\ phase' = phase
       ELSE stage' = "load" /\ phase' = NextPhase[phase]
  /\ UNCHANGED <<sides, target, work, stored, cursor, complete, window, pending, repair, faults>>

(* load_progress and the early return of a phase that is complete. *)
PhaseComplete ==
  /\ stage = "load"
  /\ savedComplete[phase]
  /\ IF phase = "delete_extras"
       THEN stage' = "report" /\ phase' = phase
       ELSE stage' = "load" /\ phase' = NextPhase[phase]
  /\ UNCHANGED <<sides, target, work, stored, cursor, complete, window, pending, repair, faults>>

(* load_progress, then autocommit off and the WRITE lock. *)
PrepareChunk ==
  /\ stage = "load"
  /\ ~ savedComplete[phase]
  /\ stage' = "locked"
  /\ cursor' = savedCursor[phase]
  /\ complete' = FALSE
  /\ NoRepair
  /\ UNCHANGED <<sides, target, work, stored, phase, window, pending, faults>>

(* The window: the next rows of the source after the cursor. *)
ReadSource ==
  /\ stage = "locked"
  /\ LET rest == After(Present(source), cursor)
     IN  /\ rest # {}
         /\ \E n \in PageSizes(rest) :
              window' = [k \in Keys |->
                           IF k \in Lowest(rest, n) THEN source[k] ELSE NoRow]
  /\ stage' = "compare"
  /\ UNCHANGED <<sides, target, work, stored, phase, cursor, complete, pending, repair, faults>>

(* Mutant: the cursor stays before the tail. *)
StayBeforeTail(page) == cursor

(* The cursor after a page of the tail: deleted rows need not be passed. *)
TailCursor(page) ==
  IF phase = "delete_extras" \/ page = {} THEN cursor ELSE Last(page)

(***************************************************************************)
(* apply_target_tail: the source has no row after the cursor.  A page of   *)
(* the target's tail is deleted by the last phase, stepped over by the     *)
(* others; the pass is complete when no page follows.                      *)
(***************************************************************************)
ApplyTargetTail ==
  /\ stage = "locked"
  /\ After(Present(source), cursor) = {}
  /\ LET tail == After(Present(work), cursor)
     IN  \E n \in IF tail = {} THEN {0} ELSE PageSizes(tail) :
           LET page == Lowest(tail, n)
           IN  /\ complete' = ~ HasMore(tail, n)
               /\ cursor' = TailCursor(page)
               /\ work' = IF phase = "delete_extras" THEN Without(work, page) ELSE work
  /\ stage' = "commit"
  /\ UNCHANGED <<sides, target, stored, phase, window, pending, repair, faults>>

(* The target's rows after the cursor and up to the end of the window. *)
TargetRange(end) == { k \in Present(work) : k > cursor /\ k <= end }

(***************************************************************************)
(* reconcile_target_pages: the target's rows up to the end of the window,  *)
(* page by page, under the lock.  Each phase takes its kind of difference. *)
(***************************************************************************)
ReconcileTargetPages ==
  /\ stage = "compare"
  /\ LET wanted == Present(window)
         end    == Last(wanted)
         there  == TargetRange(end)
     IN  /\ cursor' = end
         /\ work' = IF phase = "delete_extras" THEN Without(work, there \ wanted) ELSE work
         /\ pending' =
              CASE phase = "insert_missing" -> wanted \ there
                [] phase = "update_divergent" ->
                     { k \in wanted \cap there : work[k] # window[k] }
                [] OTHER -> {}
  /\ stage' = "mutate"
  /\ UNCHANGED <<sides, target, stored, phase, complete, window, repair, faults>>

(***************************************************************************)
(* try_strict_mutation: the next statement of the pending rows.            *)
(***************************************************************************)
MutateBatch ==
  LET batch == Lowest(pending, BatchSize)
  IN  /\ stage = "mutate"
      /\ pending # {}
      /\ ~ Refused(work, batch)
      /\ ~ Misses(work, batch)
      /\ work' = Overwrite(work, batch)
      /\ pending' = pending \ batch
      /\ UNCHANGED <<sides, target, stored, stage, chunk, repair, faults>>

(* Error 1062 of a statement: the rows that stand in its way are looked up. *)
DuplicateKey ==
  LET batch == Lowest(pending, BatchSize)
  IN  /\ stage = "mutate"
      /\ pending # {}
      /\ Refused(work, batch)
      /\ conflicts' = Inspect(work, batch)
      /\ replaced' = FALSE
      /\ stage' = "replace"
      /\ UNCHANGED <<sides, target, work, stored, chunk, pending, repaired, verify, ownerRow, faults>>

(* require_matched_rows, or a duplicate of PRIMARY. *)
MutationMisses ==
  LET batch == Lowest(pending, BatchSize)
  IN  /\ stage = "mutate"
      /\ pending # {}
      /\ ~ Refused(work, batch)
      /\ Misses(work, batch)
      /\ Abort

(***************************************************************************)
(* replace_source_absent_unique_owner, one conflict at a time: an owner    *)
(* that is not in the source now makes way for the intended row.           *)
(***************************************************************************)
ReplaceOwner ==
  /\ stage = "replace"
  /\ conflicts # {}
  /\ LET p == FirstConflict
     IN  /\ conflicts' = conflicts \ {p}
         /\ IF source[p[2]] = NoRow
              THEN /\ work' = Overwrite(Without(work, {p[2]}), {p[1]})
                   /\ pending' = pending \ {p[1]}
                   /\ replaced' = TRUE
              ELSE UNCHANGED <<work, pending, replaced>>
  /\ UNCHANGED <<sides, target, stored, stage, chunk, repaired, verify, ownerRow, faults>>

(* All conflicts seen: retry the statement, or hand the failure on. *)
ReplaceEnds ==
  /\ stage = "replace"
  /\ conflicts = {}
  /\ IF replaced
       THEN stage' = "mutate" /\ UNCHANGED conflicts
       ELSE stage' = "reconcile" /\ conflicts' = Inspect(work, Lowest(pending, BatchSize))
  /\ UNCHANGED <<sides, target, work, stored, chunk, pending, replaced, repaired, verify, ownerRow, faults>>

(***************************************************************************)
(* reconcile_unique_owner_conflict: the source's row of the owner.  A pair *)
(* met before, or an owner that the source says is right, is an error.     *)
(***************************************************************************)
ReadOwner ==
  /\ stage = "reconcile"
  /\ conflicts # {}
  /\ LET p == FirstConflict
     IN  IF p \in repaired \/ source[p[2]] = window[p[1]]
           THEN Abort
           ELSE /\ repaired' = repaired \cup {p}
                /\ ownerRow' = source[p[2]]
                /\ stage' = "owner"
                /\ UNCHANGED <<sides, target, work, stored, chunk, pending, conflicts, replaced, verify, faults>>

OwnerMovesIn(rows, owner) ==
  IF ownerRow = NoRow
    THEN Without(rows, {owner})
    ELSE [rows EXCEPT ![owner] = ownerRow]

(* The rows after the owner has been deleted or brought to its source row; *)
(* a row that in turn owns that value goes if the source does not have it. *)
OwnerReconciled(rows, owner) ==
  IF ownerRow = NoRow
    THEN Without(rows, {owner})
    ELSE [Without(rows, Owners(rows, owner, ownerRow)) EXCEPT ![owner] = ownerRow]

OwnerRefused(owner) ==
  \/ work[owner] = NoRow
  \/ /\ ownerRow # NoRow
     /\ \E j \in Owners(work, owner, ownerRow) : source[j] # NoRow

ReconcileOwner ==
  /\ stage = "owner"
  /\ LET p     == FirstConflict
         after == OwnerReconciled(work, p[2])
     IN  IF OwnerRefused(p[2]) \/ \E j \in Keys : after[j] = window[p[1]]
           THEN Abort
           ELSE /\ work' = after
                /\ conflicts' = conflicts \ {p}
                /\ verify' = verify \cup {p[1]}
                /\ ownerRow' = NoRow
                /\ stage' = "reconcile"
                /\ UNCHANGED <<sides, target, stored, chunk, pending, replaced, repaired, faults>>

(* Every owner is out of the way: the failed rows are tried again. *)
ReconcileEnds ==
  /\ stage = "reconcile"
  /\ conflicts = {}
  /\ stage' = "mutate"
  /\ UNCHANGED <<sides, target, work, stored, chunk, pending, repair, faults>>

(* verify_rows: what was fought over holds what the source had. *)
VerifyRows ==
  /\ stage = "mutate"
  /\ pending = {}
  /\ IF \E k \in verify : work[k] # window[k]
       THEN Abort
       ELSE stage' = "commit" /\ UNCHANGED <<sides, target, work, stored, chunk, pending, repair, faults>>

Commit ==
  /\ stage = "commit"
  /\ target' = work
  /\ stage' = "save"
  /\ UNCHANGED <<sides, work, stored, chunk, pending, repair, faults>>

(* save_progress_and_unlock *)
SaveProgress ==
  /\ stage = "save"
  /\ savedCursor' = [savedCursor EXCEPT ![phase] = cursor]
  /\ savedComplete' = [savedComplete EXCEPT ![phase] = complete]
  /\ stage' = "load"
  /\ UNCHANGED <<sides, target, work, rowsComplete, chunk, pending, repair, faults>>

(* The total of the phases is saved as the table's completed rows stage. *)
SaveReport ==
  /\ stage = "report"
  /\ rowsComplete' = TRUE
  /\ stage' = "done"
  /\ UNCHANGED <<sides, target, work, savedCursor, savedComplete, chunk, pending, repair, faults>>

(* Any other error, a lost answer to a commit or to a save, a crash. *)
Fault ==
  /\ faults < MaxFaults
  /\ stage \notin {"down", "done"}
  /\ faults' = faults + 1
  /\ stage' = "down"
  /\ work' = target
  /\ pending' = {}
  /\ NoRepair
  /\ UNCHANGED <<sides, target, stored, chunk>>

(* A client of the source commits a row (external). *)
SourceWrite(k, v) ==
  /\ writes < MaxWrites
  /\ v # source[k]
  /\ source' = [source EXCEPT ![k] = v]
  /\ Unique(source')
  /\ touched' = touched \cup {k}
  /\ writes' = writes + 1
  /\ UNCHANGED <<target, work, stored, stage, chunk, pending, repair, faults>>

Init ==
  /\ source \in Rows /\ Unique(source)
  /\ target \in Rows /\ Unique(target)
  /\ work = target
  /\ savedCursor = [p \in Phases |-> NoCursor]
  /\ savedComplete = [p \in Phases |-> FALSE]
  /\ rowsComplete = FALSE
  /\ stage = "down"
  /\ phase = "insert_missing"
  /\ cursor = NoCursor
  /\ complete = FALSE
  /\ window = [k \in Keys |-> NoRow]
  /\ pending = {}
  /\ conflicts = {}
  /\ replaced = FALSE
  /\ repaired = {}
  /\ verify = {}
  /\ ownerRow = NoRow
  /\ touched = {}
  /\ writes = 0
  /\ faults = 0

ChunkStep ==
  \/ PhaseComplete \/ PrepareChunk \/ ReadSource \/ ApplyTargetTail
  \/ ReconcileTargetPages \/ MutateBatch \/ DuplicateKey \/ MutationMisses
  \/ ReplaceOwner \/ ReplaceEnds \/ ReadOwner \/ ReconcileOwner \/ ReconcileEnds
  \/ VerifyRows \/ Commit \/ SaveProgress \/ SaveReport

Next ==
  \/ Start
  \/ ChunkStep
  \/ Fault
  \/ \E k \in Keys, v \in Values \cup {NoRow} : SourceWrite(k, v)

Spec == Init /\ [][Next]_vars
FairSpec == Spec /\ WF_vars(Start) /\ WF_vars(ChunkStep)

(***************************************************************************)
(* Properties.                                                             *)
(***************************************************************************)
(* The state stays in its types; in particular a cursor is the key of a    *)
(* row or none (last_primary_key), however short the pages were.           *)
SyncTypeOK ==
  /\ source \in Rows /\ target \in Rows /\ work \in Rows /\ window \in Rows
  /\ savedCursor \in [Phases -> Keys \cup {NoCursor}]
  /\ savedComplete \in [Phases -> BOOLEAN]
  /\ rowsComplete \in BOOLEAN
  /\ stage \in Stages /\ phase \in Phases
  /\ cursor \in Keys \cup {NoCursor}
  /\ complete \in BOOLEAN /\ replaced \in BOOLEAN
  /\ pending \in SUBSET Keys /\ verify \in SUBSET Keys /\ touched \in SUBSET Keys
  /\ conflicts \in SUBSET (Keys \X Keys) /\ repaired \in SUBSET (Keys \X Keys)
  /\ ownerRow \in Values \cup {NoRow}
  /\ writes \in 0..MaxWrites /\ faults \in 0..MaxFaults

(* Keys that no client of the source has written since the run began. *)
Stable == Keys \ touched

(* What a pass leaves of a source row s and a target row t. *)
SettledRow(p, s, t) ==
  CASE p = "insert_missing" -> s # NoRow => t # NoRow
    [] p = "update_divergent" -> s # NoRow /\ t # NoRow => t = s
    [] p = "delete_extras" -> s = NoRow => t = NoRow

Settled(p, k) == SettledRow(p, source[k], target[k])

(* Saved progress never runs ahead of the committed target: every stable   *)
(* row up to a phase's saved cursor, and every one once the phase is       *)
(* complete, has been settled and stays so, whatever a later chunk moves   *)
(* to resolve a unique conflict and wherever an earlier chunk died between *)
(* its commit and its progress.                                            *)
ProgressIsBehindTarget ==
  \A p \in Phases, k \in Stable :
    (savedComplete[p] \/ k <= savedCursor[p]) => Settled(p, k)

(* A table reported complete equals the source in every row that was not   *)
(* written meanwhile.                                                      *)
CompleteTableConverged ==
  rowsComplete => \A k \in Stable : target[k] = source[k]

(* The committed target never breaks the unique index, although owner      *)
(* replacement writes rows without looking for further owners.             *)
TargetStaysUnique == Unique(target)

(* Every row that owns a value another row needs can go straight to its    *)
(* own source row: no two rows have to change places and no row waits for  *)
(* one that waits itself.                                                  *)
ShiftFree ==
  \A j, k \in Present(source) :
    j # k /\ target[j] = source[k] =>
      \A i \in Owners(target, j, source[j]) : source[i] = NoRow

(* A sync that starts on such tables, of a source that is not written      *)
(* meanwhile, completes after finitely many failures: no chunk is repeated *)
(* for ever and no repair aborts each run anew.                            *)
SyncCompletes == ShiftFree /\ [](touched = {}) => <>rowsComplete

=============================================================================

------------------------------ MODULE MCSyncRun ------------------------------
(***************************************************************************)
(* A behaviour is one of two views of sync.  "run": a parent with two      *)
(* children, named so that table order is not dependency order, an         *)
(* unrelated table, and two workers at most; the second child and the      *)
(* unrelated table have no rows and compete for workers and locks.         *)
(* "chunks": the chunks of one table while the live stream applies the     *)
(* source's changes to it (SyncWithStream); the variables of SyncRun rest. *)
(***************************************************************************)
EXTENDS SyncRun

CONSTANT StreamWrites   \* bound on source writes beside the live stream

MCTables == 1 .. 4
MCForeignKeys == {<<1, 2>>, <<3, 2>>}
MCKeysOf == [t \in MCTables |-> IF t = 2 THEN {1, 2} ELSE IF t = 1 THEN {1} ELSE {}]

VARIABLES
  view,
  chunkSource, chunkTarget, chunkTouched, chunkPending, chunkWindow, chunkWrites, chunkFaults,
  work, savedCursor, savedComplete, rowsComplete, stage, phase, cursor, complete,
  conflicts, replaced, repaired, verify, ownerRow, log, applied, extras

chunkVars ==
  <<chunkSource, chunkTarget, chunkTouched, chunkPending, chunkWindow, chunkWrites, chunkFaults,
    work, savedCursor, savedComplete, rowsComplete, stage, phase, cursor, complete,
    conflicts, replaced, repaired, verify, ownerRow, log, applied, extras>>
mcVars == <<view, vars, chunkVars>>

Live == INSTANCE SyncWithStream WITH
  source <- chunkSource, target <- chunkTarget, touched <- chunkTouched, pending <- chunkPending,
  window <- chunkWindow, writes <- chunkWrites, faults <- chunkFaults,
  NumKeys <- 2, Values <- {"a", "b"}, NoRow <- "none", UniqueIndex <- FALSE, ChunkSize <- 2, BatchSize <- 2,
  MaxWrites <- StreamWrites

RunRests ==
  /\ source = [t \in Tables |-> [k \in KeysOf[t] |-> NoRow]] /\ target = source /\ constrained = FALSE
  /\ Init
ChunksRest ==
  /\ chunkSource = [k \in Live!Keys |-> "none"] /\ chunkTarget = chunkSource
  /\ Live!StreamInit

MCInit ==
  \/ view = "run" /\ ChunksRest /\ Init
  \/ view = "chunks" /\ RunRests /\ Live!StreamInit

MCNext ==
  \/ view = "run" /\ Next /\ UNCHANGED <<view, chunkVars>>
  \/ view = "chunks" /\ Live!StreamNext /\ UNCHANGED <<view, vars>>
  \/ view = "chunks" /\ rowsComplete /\ UNCHANGED mcVars

MCSpec == MCInit /\ [][MCNext]_mcVars

-----------------------------------------------------------------------------

(* Rows that the source had, or neither side had, when the sync began      *)
(* converge although the live stream writes the same table.                *)
LiveRowsConverge == Live!LiveRowsConverge
=============================================================================

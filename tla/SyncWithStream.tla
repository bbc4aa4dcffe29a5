--------------------------- MODULE SyncWithStream ---------------------------
(***************************************************************************)
(* A sync of one table while the live stream goes on applying the source's *)
(* changes to it.  The stream needs the table's lock for each of its       *)
(* transactions, here of one row, so it waits while a chunk holds the      *)
(* WRITE lock; it reads nothing from the target.  Tables without a         *)
(* secondary unique index, rows of one column.                             *)
(***************************************************************************)
EXTENDS SyncChunk, Sequences

VARIABLES
  log,      \* committed changes of the source, in binlog order
  applied,  \* how many of them the stream has applied
  extras    \* keys that only the target had when all began

streamVars == <<log, applied, extras>>

LockAfterRead ==
  stage \in {"mutate", "replace", "reconcile", "owner", "commit", "save"}

(* The stages between LOCK TABLES and UNLOCK TABLES. *)
ChunkLocked ==
  stage \in {"locked", "compare", "mutate", "replace", "reconcile", "owner", "commit", "save"}

(* INSERT, UPDATE and DELETE by primary key.  A duplicate insert is taken  *)
(* for a replay; an update or delete of no row is not noticed.             *)
ApplyRowChange(rows, e) ==
  CASE e.old = NoRow -> IF rows[e.key] = NoRow THEN [rows EXCEPT ![e.key] = e.new] ELSE rows
    [] e.new = NoRow -> [rows EXCEPT ![e.key] = NoRow]
    [] OTHER -> IF rows[e.key] = NoRow THEN rows ELSE [rows EXCEPT ![e.key] = e.new]

(* One source transaction, applied and committed by the stream. *)
StreamStep ==
  /\ applied < Len(log)
  /\ ~ ChunkLocked
  /\ target' = ApplyRowChange(target, log[applied + 1])
  /\ work' = target'
  /\ applied' = applied + 1
  /\ UNCHANGED <<sides, stored, stage, chunk, pending, repair, faults, log, extras>>

LoggedWrite(k, v) ==
  /\ SourceWrite(k, v)
  /\ log' = Append(log, [key |-> k, old |-> source[k], new |-> v])
  /\ UNCHANGED <<applied, extras>>

StreamInit ==
  /\ Init
  /\ log = <<>>
  /\ applied = 0
  /\ extras = Present(target) \ Present(source)

StreamNext ==
  \/ StreamStep
  \/ (Start \/ ChunkStep \/ Fault) /\ UNCHANGED streamVars
  \/ \E k \in Keys, v \in Values \cup {NoRow} : LoggedWrite(k, v)

StreamSpec == StreamInit /\ [][StreamNext]_<<vars, streamVars>>

(* The stream has applied every change and the sync has reported success. *)
Quiet == rowsComplete /\ applied = Len(log)

(* The README's promise of source-authoritative convergence while the live *)
(* stream handles ongoing changes: when both are through, the target is    *)
(* the source.                                                             *)
Converged == Quiet => target = source

(* It holds for every row but those that only the target had at first: the *)
(* stream takes the insert of such a key for a replay, and the passes that *)
(* would have seen the difference may be over.  Every other row converges, *)
(* because a chunk reads the source under the lock and so never writes a   *)
(* row older than one the stream has applied.                              *)
LiveRowsConverge == Quiet => \A k \in Keys \ extras : target[k] = source[k]

=============================================================================

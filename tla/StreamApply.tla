----------------------------- MODULE StreamApply -----------------------------
(***************************************************************************)
(* The live stream's applier: one thread takes the events of the source    *)
(* binlog in order, writes their rows to the target inside a grouped       *)
(* target transaction, and saves the source coordinate it may resume from. *)
(*                                                                         *)
(* A coordinate is the number of events before it: event i starts at i-1   *)
(* and ends at i.  A row event is applied as one step of the target, named *)
(* by its position in the log.  What the handlers of src/live/             *)
(* structured_stream do to one event is split at the points where the      *)
(* target can change, so that a crash may fall between any two of them.    *)
(***************************************************************************)
EXTENDS Naturals, Sequences, FiniteSets

CONSTANTS
  Logs,           \* source binlogs: sequences over EventKind
  GroupSize,      \* --target-transaction-group-size, at least 1
  GroupTimeout,   \* is --target-transaction-group-timeout-ms above zero?
  StopPosition,   \* --stop-position, NoCoordinate when absent
  MaxReconnects,  \* --max-reconnects
  MaxFaults       \* bound on crashes, target errors and lost connections

(***************************************************************************)
(* What an event is to the applier.                                        *)
(*   row       a row event of a replicated table                           *)
(*   ignored   a row event of an ignored table                             *)
(*   xid       the commit of a source transaction                          *)
(*   control   BEGIN, COMMIT or ROLLBACK as a query of the source schema;  *)
(*             COMMIT is how the source ends a non-transactional group     *)
(*   foreign   any other query of another schema                           *)
(*   skip      administrative DDL (GRANT, REVOKE): nothing to replay       *)
(*   raw       DDL that no DDL handler claims: replayed as it stands       *)
(*   dml       statement DML, a breach of the ROW/FULL contract            *)
(*   rotate    the switch to the next binlog file                          *)
(*   other     table map, GTID, annotation, format description             *)
(*   auto      DDL the stream translates (module LiveStream)               *)
(*   manual    DDL without a translator (module LiveStream)                *)
(***************************************************************************)
DdlKind == {"auto", "manual"}
QueryKind == {"control", "foreign", "skip", "raw", "dml"} \cup DdlKind
EventKind == QueryKind \cup {"row", "ignored", "xid", "rotate", "other"}

NoCoordinate == 0

ASSUME StreamApplyAssumption ==
  /\ \A l \in Logs : l \in Seq(EventKind)
  /\ GroupSize \in Nat \ {0}
  /\ GroupTimeout \in BOOLEAN
  /\ StopPosition \in Nat
  /\ MaxReconnects \in Nat
  /\ MaxFaults \in Nat

VARIABLES
  log,          \* the source binlog; it never changes
  pc,           \* where the process is (Stages)
  next,         \* events dispatched: the stream position of this session
  tx,           \* struct TargetTransaction
  rowTxOpen,    \* source_row_transaction_open of StreamRuntime
  serverTx,     \* the target has a transaction open on the stream's connection
  uncommitted,  \* row events written in that transaction
  durable,      \* row events committed on the target
  executed,     \* how often each DDL event has been executed on the target
  ckpt,         \* the row of the stream checkpoint table
  cached,       \* last_checkpoint of MySqlStreamCheckpointStore
  reconnects,   \* transport_reconnects of run_stream_reconnect_loop
  faults        \* failures so far, at most MaxFaults

sourceVars == <<log>>
sessionVars == <<pc, next, tx, rowTxOpen, cached, reconnects>>
targetVars == <<serverTx, uncommitted, durable, executed, ckpt>>
vars == <<sourceVars, sessionVars, targetVars, faults>>

(***************************************************************************)
(* A process is waiting for an event, in the middle of one (apply, finish),*)
(* completing a bounded stop, about to reconnect, dead, or done.  "blocked" *)
(* and DdlStages belong to the DDL handlers of module LiveStream.          *)
(***************************************************************************)
EventStages == {"recv", "apply", "finish", "stop"}
DdlStages == {"ddl", "execute", "verify", "finalize", "checkpoint"}
Stages == EventStages \cup DdlStages \cup {"retry", "blocked", "down", "stopped"}

-----------------------------------------------------------------------------
(* struct TargetTransaction and what it decides. *)

TargetTransaction ==
  [open : BOOLEAN, source_transactions : Nat, timed_out : BOOLEAN, pending : Nat]

ClosedTx ==
  [open |-> FALSE, source_transactions |-> 0, timed_out |-> FALSE,
   pending |-> NoCoordinate]

(* Mutants: the group is flushed one transaction late; its age is not      *)
(* looked at.                                                              *)
FlushOneLate(t, force) ==
  /\ t.source_transactions > 0
  /\ force \/ t.source_transactions > GroupSize \/ t.timed_out
FlushBySizeOnly(t, force) ==
  t.source_transactions > 0 /\ (force \/ GroupSize <= 1 \/ t.source_transactions >= GroupSize)

should_flush(t, force) ==
  /\ t.source_transactions > 0
  /\ \/ force
     \/ GroupSize <= 1
     \/ t.source_transactions >= GroupSize
     \/ t.timed_out

record_source_transaction(t) ==
  IF t.open THEN [t EXCEPT !.source_transactions = @ + 1] ELSE t

(* The resume coordinate of event i, if its kind has one. *)
has_resume_coordinate(kind) == kind \in QueryKind \cup {"xid", "rotate"}

event_can_write_target(kind) == kind \in {"row", "control", "skip", "raw"}

(* Mutant: a query of another schema ends the source transaction. *)
ForeignQueryCommits(kind) == kind \in {"xid", "skip", "raw", "foreign"}

(* EventPolicy::CommitTransaction *)
commits_transaction(kind) == kind \in {"xid", "skip", "raw"}

LeavesRowTxOpen(kind) ==
  \/ kind \in {"row", "ignored"}
  \/ rowTxOpen /\ kind # "xid"

-----------------------------------------------------------------------------
(* Writes to the target. *)

(* lock_validate_and_save_checkpoint accepts only a coordinate that does   *)
(* not precede the stored one.                                             *)
checkpoint_advances(coordinate) == coordinate >= ckpt

(* The rows of the group and its checkpoint commit together.  A refused    *)
(* coordinate would end the process; the guard leaves the step out because *)
(* no reachable group is behind the stored row (TLC would report it as a   *)
(* deadlock).                                                              *)
committed_checkpoint(t) == IF t.pending # NoCoordinate THEN t.pending ELSE ckpt

commit_target_group(t) ==
  /\ checkpoint_advances(committed_checkpoint(t))
  /\ ckpt' = committed_checkpoint(t)
  /\ durable' = durable \cup uncommitted
  /\ uncommitted' = {}
  /\ serverTx' = FALSE
  /\ tx' = ClosedTx

flush_grouped_transaction(t) ==
  IF t.source_transactions = 0
  THEN tx' = t /\ UNCHANGED <<ckpt, durable, uncommitted, serverTx>>
  ELSE commit_target_group(t)

(* ROLLBACK, or the server's answer to a lost connection. *)
DropTargetTransaction ==
  /\ serverTx' = FALSE
  /\ uncommitted' = {}
  /\ tx' = ClosedTx
  /\ UNCHANGED <<durable, executed, ckpt>>

(* The checkpoint store writes on a connection of its own, outside any     *)
(* target transaction, and skips what its cached row already covers.       *)
save_checkpoint_if_advanced(coordinate) ==
  IF coordinate <= cached
  THEN UNCHANGED <<ckpt, cached>>
  ELSE ckpt' = coordinate /\ cached' = coordinate

-----------------------------------------------------------------------------
(* Init: a process just started on an existing checkpoint row. *)

Init ==
  /\ log \in Logs
  /\ pc = "recv"
  /\ next = 0
  /\ tx = ClosedTx
  /\ rowTxOpen = FALSE
  /\ serverTx = FALSE
  /\ uncommitted = {}
  /\ durable = {}
  /\ executed = [i \in 1 .. Len(log) |-> 0]
  /\ ckpt = 0
  /\ cached = 0
  /\ reconnects = 0
  /\ faults = 0

Event == next + 1
Kind == log[Event]

(***************************************************************************)
(* process_stream_event, first part: the bounded stop is decided, then     *)
(* apply_stream_event_transactionally flushes a group that is full or has  *)
(* timed out, and any group before a rotation.                             *)
(***************************************************************************)
PastStopPosition == StopPosition # NoCoordinate /\ Event > StopPosition

Receive ==
  /\ pc = "recv"
  /\ next < Len(log)
  /\ Kind \notin DdlKind
  /\ ~PastStopPosition
  /\ IF should_flush(tx, FALSE) \/ Kind = "rotate"
     THEN flush_grouped_transaction(tx)
     ELSE UNCHANGED <<tx, ckpt, durable, uncommitted, serverTx>>
  /\ pc' = "apply"
  /\ UNCHANGED <<sourceVars, next, rowTxOpen, cached, reconnects, executed, faults>>

(* The stop position cannot be reached any more: roll back and exit. *)
RefuseStop ==
  /\ pc = "recv"
  /\ next < Len(log)
  /\ PastStopPosition
  /\ DropTargetTransaction
  /\ pc' = "down"
  /\ UNCHANGED <<sourceVars, next, rowTxOpen, cached, reconnects, faults>>

(* begin_if_needed *)
OpenedTx == IF event_can_write_target(Kind) THEN [tx EXCEPT !.open = TRUE] ELSE tx
InServerTx == serverTx \/ (event_can_write_target(Kind) /\ ~tx.open)

(***************************************************************************)
(* handle_structured_event.  A row goes into the server's transaction when *)
(* there is one and is autocommitted otherwise; a replayed DDL statement   *)
(* first commits whatever the server's transaction holds.                  *)
(***************************************************************************)
ApplyRow ==
  /\ Kind = "row"
  /\ serverTx' = InServerTx
  /\ IF InServerTx
     THEN uncommitted' = uncommitted \cup {Event} /\ UNCHANGED durable
     ELSE durable' = durable \cup {Event} /\ UNCHANGED uncommitted
  /\ UNCHANGED executed

ReplayRawStatement ==
  /\ Kind = "raw"
  /\ durable' = durable \cup uncommitted
  /\ uncommitted' = {}
  /\ serverTx' = FALSE
  /\ executed' = [executed EXCEPT ![Event] = @ + 1]

PassOver ==
  /\ Kind \in {"ignored", "xid", "control", "foreign", "skip", "rotate", "other"}
  /\ serverTx' = InServerTx
  /\ UNCHANGED <<uncommitted, durable, executed>>

HandleEvent ==
  /\ pc = "apply"
  /\ ApplyRow \/ ReplayRawStatement \/ PassOver
  /\ tx' = OpenedTx
  /\ pc' = "finish"
  /\ UNCHANGED <<sourceVars, next, rowTxOpen, cached, reconnects, ckpt, faults>>

(* Statement DML is refused; so may be a row or a statement the target     *)
(* rejects.  The handler rolls back and the error ends the process.        *)
RejectDml ==
  /\ pc = "apply"
  /\ Kind = "dml"
  /\ DropTargetTransaction
  /\ pc' = "down"
  /\ UNCHANGED <<sourceVars, next, rowTxOpen, cached, reconnects, faults>>

(* save_outcome_checkpoint inside an open target transaction *)
remember_transaction_checkpoint(t) ==
  IF has_resume_coordinate(Kind) THEN [t EXCEPT !.pending = Event] ELSE t

(***************************************************************************)
(* The end of the handler: finish_source_transaction for an event that     *)
(* commits, save_outcome_checkpoint for any other.                         *)
(***************************************************************************)
SaveInGroup ==
  LET recorded == IF commits_transaction(Kind)
                  THEN record_source_transaction(tx) ELSE tx
      t == remember_transaction_checkpoint(recorded)
  IN  /\ tx.open
      /\ IF commits_transaction(Kind) /\ should_flush(t, Kind # "xid")
         THEN commit_target_group(t)
         ELSE tx' = t /\ UNCHANGED <<ckpt, durable, uncommitted, serverTx>>
      /\ UNCHANGED cached

SaveOutsideGroup ==
  /\ ~tx.open
  /\ IF has_resume_coordinate(Kind)
     THEN save_checkpoint_if_advanced(Event)
     ELSE UNCHANGED <<ckpt, cached>>
  /\ UNCHANGED <<tx, durable, uncommitted, serverTx>>

NextStage == IF Event = StopPosition THEN "stop" ELSE "recv"

FinishEvent ==
  /\ pc = "finish"
  /\ SaveInGroup \/ SaveOutsideGroup
  /\ next' = Event
  /\ rowTxOpen' = LeavesRowTxOpen(Kind)
  /\ pc' = NextStage
  /\ UNCHANGED <<sourceVars, reconnects, executed, faults>>

-----------------------------------------------------------------------------
(* Ends of a session. *)

(* Mutant: a bounded run exits without flushing its group. *)
StopWithoutFlush ==
  /\ pc = "stop"
  /\ DropTargetTransaction
  /\ pc' = IF rowTxOpen THEN "down" ELSE "stopped"
  /\ UNCHANGED <<sourceVars, next, rowTxOpen, cached, reconnects, faults>>

(***************************************************************************)
(* complete_bounded_stop: a stop inside a source transaction is refused,   *)
(* otherwise the group is flushed and the process exits; the exit drops    *)
(* whatever the target transaction still holds.                            *)
(***************************************************************************)
CompleteStop ==
  /\ pc = "stop"
  /\ IF rowTxOpen
     THEN DropTargetTransaction /\ pc' = "down"
     ELSE /\ IF tx.source_transactions = 0
             THEN UNCHANGED <<ckpt, durable>>
             ELSE /\ ckpt' = committed_checkpoint(tx)
                  /\ durable' = durable \cup uncommitted
          /\ tx' = ClosedTx
          /\ uncommitted' = {}
          /\ serverTx' = FALSE
          /\ pc' = "stopped"
          /\ UNCHANGED executed
  /\ UNCHANGED <<sourceVars, next, rowTxOpen, cached, reconnects, faults>>

(***************************************************************************)
(* finish_stream: the source ended the stream.  With a stop position that  *)
(* is an error; without one the group is flushed, whatever it holds, and   *)
(* the loop reconnects.                                                    *)
(***************************************************************************)
StreamEnds ==
  /\ pc = "recv"
  /\ faults < MaxFaults
  /\ faults' = faults + 1
  /\ IF StopPosition # NoCoordinate
     THEN DropTargetTransaction /\ pc' = "down"
     ELSE flush_grouped_transaction(tx) /\ pc' = "retry" /\ UNCHANGED executed
  /\ UNCHANGED <<sourceVars, next, rowTxOpen, cached, reconnects>>

(* The reader hands over an error: roll back, then reconnect. *)
SourceError ==
  /\ pc = "recv"
  /\ faults < MaxFaults
  /\ faults' = faults + 1
  /\ DropTargetTransaction
  /\ pc' = "retry"
  /\ UNCHANGED <<sourceVars, next, rowTxOpen, cached, reconnects>>

(***************************************************************************)
(* A new StreamRuntime at the stored checkpoint, with a new connection:    *)
(* what the old connection left open is rolled back by the server.         *)
(***************************************************************************)
StartSession(resume) ==
  /\ pc' = "recv"
  /\ next' = resume
  /\ cached' = resume
  /\ tx' = ClosedTx
  /\ rowTxOpen' = FALSE
  /\ serverTx' = FALSE
  /\ uncommitted' = {}
  /\ UNCHANGED <<sourceVars, durable, executed, ckpt, faults>>

(* Mutant: a reconnection resumes where the process was started instead of *)
(* at the checkpoint.                                                      *)
ReconnectAtStart ==
  /\ pc = "retry"
  /\ reconnects < MaxReconnects
  /\ reconnects' = reconnects + 1
  /\ StartSession(0)

(* run_stream_reconnect_loop, within and past its budget. *)
Reconnect ==
  /\ pc = "retry"
  /\ reconnects < MaxReconnects
  /\ reconnects' = reconnects + 1
  /\ StartSession(ckpt)

GiveUp ==
  /\ pc = "retry"
  /\ reconnects >= MaxReconnects
  /\ pc' = "down"
  /\ DropTargetTransaction
  /\ UNCHANGED <<sourceVars, next, rowTxOpen, cached, reconnects, faults>>

(* The supervisor starts the process again. *)
Restart ==
  /\ pc = "down"
  /\ reconnects' = 0
  /\ StartSession(ckpt)

(***************************************************************************)
(* The process dies, or meets an error that ends it (a failed target       *)
(* statement or commit, a failed checkpoint write), before or after the    *)
(* step it was about to take.  The target rolls the connection back.       *)
(***************************************************************************)
Crash ==
  /\ pc \notin {"down", "stopped"}
  /\ faults < MaxFaults
  /\ faults' = faults + 1
  /\ pc' = "down"
  /\ DropTargetTransaction
  /\ UNCHANGED <<sourceVars, next, rowTxOpen, cached, reconnects>>

-----------------------------------------------------------------------------
(* Time: the age of the group, and the source's heartbeat. *)

GroupTimesOut ==
  /\ GroupTimeout
  /\ tx.open
  /\ ~tx.timed_out
  /\ tx' = [tx EXCEPT !.timed_out = TRUE]
  /\ UNCHANGED <<sourceVars, pc, next, rowTxOpen, cached, reconnects, targetVars, faults>>

(***************************************************************************)
(* An event without a position of its own: all it can do is flush a group  *)
(* that is due, and end a bounded run that already stands at its stop.     *)
(***************************************************************************)
Heartbeat ==
  /\ pc = "recv"
  /\ StopPosition = NoCoordinate \/ next <= StopPosition
  /\ IF should_flush(tx, FALSE)
     THEN flush_grouped_transaction(tx)
     ELSE UNCHANGED <<tx, ckpt, durable, uncommitted, serverTx>>
  /\ pc' = IF StopPosition # NoCoordinate /\ next = StopPosition THEN "stop" ELSE "recv"
  /\ UNCHANGED <<sourceVars, next, rowTxOpen, cached, reconnects, executed, faults>>

-----------------------------------------------------------------------------

EventStep == Receive \/ RefuseStop \/ HandleEvent \/ RejectDml \/ FinishEvent \/ CompleteStop
SessionStep == StreamEnds \/ SourceError \/ Reconnect \/ GiveUp \/ Restart \/ Crash
TimeStep == GroupTimesOut \/ Heartbeat

Next == EventStep \/ SessionStep \/ TimeStep

Spec == Init /\ [][Next]_vars

(***************************************************************************)
(* The stream's only thread goes on whenever it can; the supervisor        *)
(* restarts it; time passes; the source sends a heartbeat every 30 seconds.*)
(* Nothing is assumed of the failures.                                     *)
(***************************************************************************)
Fairness ==
  /\ WF_vars(EventStep)
  /\ WF_vars(Reconnect \/ GiveUp \/ Restart)
  /\ WF_vars(GroupTimesOut)
  /\ WF_vars(Heartbeat)

FairSpec == Spec /\ Fairness

-----------------------------------------------------------------------------
(* Properties. *)

RowsOf(l, n) == {i \in 1 .. Len(l) : i <= n /\ l[i] = "row"}
RowsUpTo(n) == RowsOf(log, n)

TypeOK ==
  /\ log \in Seq(EventKind)
  /\ pc \in Stages
  /\ next \in 0 .. Len(log)
  /\ tx \in TargetTransaction
  /\ rowTxOpen \in BOOLEAN
  /\ serverTx \in BOOLEAN
  /\ uncommitted \subseteq RowsUpTo(Len(log))
  /\ durable \subseteq RowsUpTo(Len(log))
  /\ executed \in [1 .. Len(log) -> Nat]
  /\ ckpt \in Nat
  /\ cached \in Nat
  /\ reconnects \in 0 .. MaxReconnects
  /\ faults \in 0 .. MaxFaults

(* No row is lost: every row event before the stored checkpoint, where the *)
(* stream resumes after any failure, is committed on the target.           *)
NoLoss == RowsUpTo(ckpt) \subseteq durable

(* The committed rows are those of a prefix of the binlog: no row          *)
(* overtakes an earlier one, whatever was flushed, rolled back, committed  *)
(* implicitly by a statement and replayed.                                 *)
DurablePrefix == \A i \in durable : RowsUpTo(i) \subseteq durable

(* The stored checkpoint never moves back, although two connections write  *)
(* it and one of them decides from a cached copy.                          *)
CheckpointMonotone == [][ckpt' >= ckpt]_vars

(* A group that is due is never refused: its checkpoint is not behind the  *)
(* stored row, which lock_validate_and_save_checkpoint would answer by     *)
(* ending the process with the group's rows rolled back.                   *)
GroupNeverRefused ==
  tx.source_transactions > 0 => checkpoint_advances(committed_checkpoint(tx))

(* Exactly once: the committed rows are the rows before the checkpoint, so *)
(* a failure never makes the stream apply a committed row again.           *)
ExactlyOnce == durable = RowsUpTo(ckpt)

(* Two rows belong to one source transaction when nothing that ends one    *)
(* lies between them.                                                      *)
EndsTransaction(kind) == kind \in {"xid", "control", "skip", "raw", "rotate"} \cup DdlKind
SameTransaction(i, j) == \A k \in i .. j - 1 : ~EndsTransaction(log[k])

(* A source transaction is committed on the target as a whole: its rows    *)
(* are all durable or none is (live-stream-reconnect.md, "group complete   *)
(* source transactions").                                                  *)
AtomicSourceTransactions ==
  \A i, j \in RowsUpTo(Len(log)) :
    i < j /\ SameTransaction(i, j) => (i \in durable <=> j \in durable)

(* A bounded run that reports success has committed exactly the rows up to *)
(* its stop position.                                                      *)
StopIsExact == pc = "stopped" => durable = RowsUpTo(StopPosition)

(* A bounded run never commits a row past its stop position, also when it  *)
(* is restarted.                                                           *)
StopIsNeverPassed ==
  StopPosition # NoCoordinate => durable \subseteq RowsUpTo(StopPosition)

(* Every row of a source transaction that the binlog ends with an XID is   *)
(* committed in the end, although nothing but a later event, possibly a    *)
(* heartbeat, flushes a group.                                             *)
Ended(i) == \E j \in i .. Len(log) : log[j] = "xid"
EveryTransactionCommits ==
  <>[](\A i \in RowsUpTo(Len(log)) : Ended(i) => i \in durable)

(* The finished source transactions (an XID ended them) with a row that is *)
(* applied and not committed.                                              *)
FinishedWaiting ==
  {j \in 1 .. next : log[j] = "xid" /\ \E i \in uncommitted : i < j /\ SameTransaction(i, j)}

(* When the applier waits for the source, which may stay quiet for ever,   *)
(* fewer finished transactions than the group size are held back:          *)
(* should_flush counts them right through rollbacks, implicit commits,     *)
(* reconnections and transactions that write nothing.                      *)
GroupIsBounded == pc = "recv" => Cardinality(FinishedWaiting) < GroupSize

(* The stream is a replica that commits the binlog in order and resumes    *)
(* from a position no uncommitted row is behind: grouping, timeouts,       *)
(* implicit commits, reconnections and restarts only decide how far each   *)
(* commit and each save goes (module Replica).                             *)
Promise == INSTANCE Replica WITH rows <- durable, position <- ckpt
IsReplica == Promise!Spec

=============================================================================

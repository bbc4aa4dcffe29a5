---------------------------- MODULE StreamProofs ----------------------------
(***************************************************************************)
(* What the live stream promises, for every binlog, group size, stop       *)
(* position, starting schema and pattern of failures: first StreamApply by *)
(* itself, then with its DDL handlers (LiveStream), then in each way the   *)
(* stream is run.                                                          *)
(***************************************************************************)
EXTENDS LiveStream, FiniteSetTheorems, TLAPS

-----------------------------------------------------------------------------
(***************************************************************************)
(* StreamApply.  The inductive invariant ties the position of the session  *)
(* to what has been written: while a session is active, every row before   *)
(* its position is committed or waits in the open target transaction, and  *)
(* no checkpoint, stored or pending, is ahead of it.  The clauses about    *)
(* DdlStages hold vacuously here; they make the lemmas serve LiveStream    *)
(* too.                                                                    *)
(***************************************************************************)

Active == pc \in EventStages \cup DdlStages

(* The event in hand exists and is of the kind its handler is for; a DDL   *)
(* handler starts by flushing the group.                                   *)
StageInv ==
  /\ pc \in {"apply", "finish"} => next < Len(log) /\ Kind \notin DdlKind
  /\ pc \in DdlStages => next < Len(log) /\ Kind \in DdlKind
  /\ pc \in DdlStages => tx.source_transactions = 0

(* The group: it ends at or before the session's position, a group with a  *)
(* complete source transaction is not behind the stored checkpoint, and a  *)
(* row waits only in an open group.                                        *)
TxInv ==
  /\ tx.pending <= next
  /\ tx.source_transactions > 0 => tx.open
  /\ tx.source_transactions > 0 => tx.pending >= ckpt
  /\ ~tx.open => uncommitted = {}

(* The rows before the position of an active session are on the target.    *)
RowInv ==
  /\ ckpt <= next
  /\ NoLoss
  /\ Active => RowsUpTo(next) \subseteq durable \cup uncommitted
  /\ pc = "finish" /\ Kind = "row" => Event \in durable \cup uncommitted
  /\ pc = "checkpoint" => uncommitted = {}

StreamInv == TypeOK /\ StageInv /\ TxInv /\ RowInv

-----------------------------------------------------------------------------
(* The rows of a binlog. *)

LEMMA RowsMonotone ==
  ASSUME NEW l, NEW m \in Nat, NEW n \in Nat, m <= n
  PROVE  RowsOf(l, m) \subseteq RowsOf(l, n)
  BY DEF RowsOf

LEMMA RowsStep ==
  ASSUME NEW l \in Seq(EventKind), NEW n \in Nat, n < Len(l)
  PROVE  /\ l[n + 1] = "row" => RowsOf(l, n + 1) = RowsOf(l, n) \cup {n + 1}
         /\ l[n + 1] # "row" => RowsOf(l, n + 1) = RowsOf(l, n)
         /\ l[n + 1] = "row" => n + 1 \in RowsOf(l, Len(l))
  BY DEF RowsOf

LEMMA RowsZero ==
  ASSUME NEW l \in Seq(EventKind) PROVE RowsOf(l, 0) = {}
  BY DEF RowsOf

LEMMA ClosedTxFacts ==
  /\ ClosedTx \in TargetTransaction
  /\ ~ClosedTx.open
  /\ ClosedTx.source_transactions = 0
  /\ ClosedTx.pending = 0
  BY DEF ClosedTx, TargetTransaction, NoCoordinate

-----------------------------------------------------------------------------
(***************************************************************************)
(* What a flush leaves true, whether it commits or not.                    *)
(***************************************************************************)
TargetKept ==
  /\ tx' \in TargetTransaction
  /\ serverTx' \in BOOLEAN
  /\ ckpt' \in Nat /\ ckpt' >= ckpt /\ ckpt' <= next
  /\ durable' \cup uncommitted' = durable \cup uncommitted
  /\ durable \subseteq durable'
  /\ RowsUpTo(ckpt') \subseteq durable'
  /\ tx'.pending <= next
  /\ tx'.source_transactions > 0 => tx'.open
  /\ tx'.source_transactions > 0 => tx'.pending >= ckpt'
  /\ ~tx'.open => uncommitted' = {}

LEMMA UnchangedKeeps ==
  ASSUME StreamInv, UNCHANGED <<tx, ckpt, durable, uncommitted, serverTx>>
  PROVE  TargetKept
  BY DEF TargetKept, StreamInv, TypeOK, TxInv, RowInv, NoLoss

LEMMA CommitKeeps ==
  ASSUME StreamInv, Active, commit_target_group(tx)
  PROVE  TargetKept /\ tx' = ClosedTx
<1>1. /\ tx' = ClosedTx
      /\ serverTx' = FALSE
      /\ uncommitted' = {}
      /\ durable' = durable \cup uncommitted
  BY DEF commit_target_group
<1>2. ckpt' \in Nat /\ ckpt' >= ckpt /\ ckpt' <= next
  BY DEF commit_target_group, committed_checkpoint, checkpoint_advances,
         StreamInv, TypeOK, TxInv, RowInv, TargetTransaction
<1>3. RowsUpTo(ckpt') \subseteq RowsUpTo(next)
  BY <1>2, RowsMonotone DEF RowsUpTo, StreamInv, TypeOK
<1>4. RowsUpTo(next) \subseteq durable'
  BY <1>1 DEF StreamInv, RowInv
<1>5. serverTx' \in BOOLEAN
  BY <1>1, Zenon
<1>6. tx' \in TargetTransaction /\ ~tx'.open /\ tx'.source_transactions = 0 /\ tx'.pending = 0
  BY <1>1, ClosedTxFacts
<1>7. tx'.pending <= next
  BY <1>6 DEF StreamInv, TypeOK
<1>8. RowsUpTo(ckpt') \subseteq durable'
  BY <1>3, <1>4
<1>9. /\ durable' \cup uncommitted' = durable \cup uncommitted
      /\ durable \subseteq durable'
  BY <1>1
<1>10. ~(tx'.source_transactions > 0)
  BY <1>6
<1>. QED
  BY <1>1, <1>2, <1>5, <1>6, <1>7, <1>8, <1>9, <1>10 DEF TargetKept

LEMMA FlushKeeps ==
  ASSUME StreamInv, Active, flush_grouped_transaction(tx)
  PROVE  TargetKept /\ tx'.source_transactions = 0
<1>1. CASE tx.source_transactions = 0
  <2>1. tx' = tx /\ UNCHANGED <<ckpt, durable, uncommitted, serverTx>>
    BY <1>1 DEF flush_grouped_transaction
  <2>. QED
    BY <1>1, <2>1, UnchangedKeeps
<1>2. CASE tx.source_transactions # 0
  <2>1. commit_target_group(tx)
    BY <1>2 DEF flush_grouped_transaction
  <2>. QED
    BY <2>1, CommitKeeps, ClosedTxFacts
<1>. QED
  BY <1>1, <1>2

(***************************************************************************)
(* The three ways in which most steps change the state: a flush between    *)
(* two events, a session dropped, and a session started.                   *)
(***************************************************************************)
LEMMA KeptInv ==
  ASSUME StreamInv, Active, TargetKept,
         UNCHANGED <<log, next, rowTxOpen, cached, reconnects, executed>>,
         faults' \in 0 .. MaxFaults,
         pc' \in Stages \ {"finish", "checkpoint"},
         StageInv'
  PROVE  StreamInv'
<1>1. durable' \cup uncommitted' \subseteq RowsUpTo(Len(log))
  BY DEF TargetKept, StreamInv, TypeOK
<1>2. TypeOK'
  BY <1>1 DEF TypeOK, StreamInv, TargetKept, RowsUpTo
<1>3. TxInv'
  BY DEF TxInv, TargetKept
<1>4. (ckpt <= next /\ NoLoss)'
  BY DEF TargetKept, NoLoss, RowsUpTo
<1>5. (Active => RowsUpTo(next) \subseteq durable \cup uncommitted)'
  BY DEF TargetKept, RowsUpTo, StreamInv, RowInv
<1>. QED
  BY <1>2, <1>3, <1>4, <1>5 DEF StreamInv, RowInv

LEMMA DropInv ==
  ASSUME StreamInv, DropTargetTransaction,
         UNCHANGED <<log, next, rowTxOpen, cached, reconnects>>,
         faults' \in 0 .. MaxFaults,
         pc' \in {"retry", "down"}
  PROVE  StreamInv'
<1>1. /\ tx' = ClosedTx
      /\ serverTx' = FALSE
      /\ uncommitted' = {}
      /\ UNCHANGED <<durable, executed, ckpt>>
  BY DEF DropTargetTransaction
<1>2. pc' \in Stages /\ pc' \notin EventStages \cup DdlStages
  BY DEF Stages, EventStages, DdlStages
<1>3. TypeOK'
  BY <1>1, <1>2, ClosedTxFacts, Zenon DEF StreamInv, TypeOK, RowsUpTo
<1>4. StageInv'
  BY <1>2 DEF StageInv, EventStages
<1>5. TxInv'
  BY <1>1, ClosedTxFacts DEF StreamInv, TypeOK, TxInv
<1>6. RowInv'
  BY <1>1, <1>2 DEF StreamInv, RowInv, NoLoss, RowsUpTo, Active, EventStages, DdlStages
<1>. QED
  BY <1>3, <1>4, <1>5, <1>6 DEF StreamInv

LEMMA StartInv ==
  ASSUME StreamInv, StartSession(ckpt), reconnects' \in 0 .. MaxReconnects
  PROVE  StreamInv'
<1>1. /\ tx' = ClosedTx
      /\ serverTx' = FALSE
      /\ rowTxOpen' = FALSE
      /\ uncommitted' = {}
      /\ next' = ckpt /\ cached' = ckpt
      /\ pc' = "recv"
      /\ UNCHANGED <<log, durable, executed, ckpt, faults>>
  BY DEF StartSession, sourceVars
<1>2. ckpt \in 0 .. Len(log)
  BY DEF StreamInv, TypeOK, RowInv
<1>3. TypeOK'
  BY <1>1, <1>2, ClosedTxFacts, Zenon DEF StreamInv, TypeOK, RowsUpTo, Stages, EventStages
<1>4. StageInv'
  BY <1>1 DEF StageInv, DdlStages
<1>5. TxInv'
  BY <1>1, <1>2, ClosedTxFacts DEF TxInv
<1>6. RowInv'
  BY <1>1, <1>2 DEF StreamInv, RowInv, NoLoss, RowsUpTo
<1>. QED
  BY <1>3, <1>4, <1>5, <1>6 DEF StreamInv

-----------------------------------------------------------------------------
(* The invariant holds initially and each action preserves it. *)

LEMMA InitInv == Init => StreamInv
<1> SUFFICES ASSUME Init PROVE StreamInv
  OBVIOUS
<1>1. log \in Seq(EventKind) /\ Len(log) \in Nat
  BY StreamApplyAssumption DEF Init
<1>2. executed \in [1 .. Len(log) -> Nat]
  BY <1>1 DEF Init
<1>3. /\ reconnects \in 0 .. MaxReconnects
      /\ faults \in 0 .. MaxFaults
  BY StreamApplyAssumption DEF Init
<1>4. tx = ClosedTx /\ pc = "recv" /\ rowTxOpen \in BOOLEAN /\ serverTx \in BOOLEAN
  BY Zenon DEF Init
<1>5. TypeOK
  BY <1>1, <1>2, <1>3, <1>4, ClosedTxFacts DEF Init, TypeOK, Stages, EventStages
<1>6. StageInv
  BY <1>4 DEF StageInv, DdlStages
<1>7. TxInv
  BY <1>4, ClosedTxFacts DEF TxInv, Init
<1>8. RowInv
  BY <1>1, <1>4, RowsZero DEF RowInv, NoLoss, RowsUpTo, Init
<1>. QED
  BY <1>5, <1>6, <1>7, <1>8 DEF StreamInv

LEMMA ReceiveInv == StreamInv /\ Receive => StreamInv'
<1> SUFFICES ASSUME StreamInv, Receive PROVE StreamInv'
  OBVIOUS
<1>1. Active
  BY DEF Receive, Active, EventStages
<1>2. TargetKept
  BY <1>1, FlushKeeps, UnchangedKeeps, Zenon DEF Receive
<1>3. StageInv'
  BY DEF Receive, StageInv, Kind, Event, DdlStages, sourceVars
<1>4. pc' \in Stages \ {"finish", "checkpoint"}
  BY DEF Receive, Stages, EventStages
<1>5. /\ UNCHANGED <<log, next, rowTxOpen, cached, reconnects, executed>>
      /\ faults' \in 0 .. MaxFaults
  BY DEF Receive, sourceVars, StreamInv, TypeOK
<1>. QED
  BY <1>1, <1>2, <1>3, <1>4, <1>5, KeptInv

LEMMA HeartbeatInv == StreamInv /\ Heartbeat => StreamInv'
<1> SUFFICES ASSUME StreamInv, Heartbeat PROVE StreamInv'
  OBVIOUS
<1>1. Active
  BY DEF Heartbeat, Active, EventStages
<1>2. TargetKept
  BY <1>1, FlushKeeps, UnchangedKeeps, Zenon DEF Heartbeat
<1>3. pc' \in {"stop", "recv"}
  BY DEF Heartbeat
<1>4. StageInv' /\ pc' \in Stages \ {"finish", "checkpoint"}
  BY <1>3 DEF StageInv, Stages, DdlStages, EventStages
<1>5. /\ UNCHANGED <<log, next, rowTxOpen, cached, reconnects, executed>>
      /\ faults' \in 0 .. MaxFaults
  BY DEF Heartbeat, sourceVars, StreamInv, TypeOK
<1>. QED
  BY <1>1, <1>2, <1>4, <1>5, KeptInv

LEMMA StreamEndsInv == StreamInv /\ StreamEnds => StreamInv'
<1> SUFFICES ASSUME StreamInv, StreamEnds PROVE StreamInv'
  OBVIOUS
<1>1. /\ UNCHANGED <<log, next, rowTxOpen, cached, reconnects>>
      /\ faults' \in 0 .. MaxFaults
  BY StreamApplyAssumption DEF StreamEnds, sourceVars, StreamInv, TypeOK
<1>2. CASE StopPosition # NoCoordinate
  BY <1>1, <1>2, DropInv DEF StreamEnds
<1>3. CASE StopPosition = NoCoordinate
  <2>1. Active
    BY DEF StreamEnds, Active, EventStages
  <2>2. TargetKept
    BY <1>3, <2>1, FlushKeeps DEF StreamEnds
  <2>3. pc' = "retry" /\ UNCHANGED executed
    BY <1>3 DEF StreamEnds
  <2>4. StageInv' /\ pc' \in Stages \ {"finish", "checkpoint"}
    BY <2>3 DEF StageInv, Stages, DdlStages, EventStages
  <2>. QED
    BY <1>1, <2>1, <2>2, <2>3, <2>4, KeptInv
<1>. QED
  BY <1>2, <1>3

LEMMA DroppingInv ==
  StreamInv /\ (RefuseStop \/ RejectDml \/ SourceError \/ GiveUp \/ Crash) => StreamInv'
<1> SUFFICES ASSUME StreamInv, RefuseStop \/ RejectDml \/ SourceError \/ GiveUp \/ Crash
             PROVE  StreamInv'
  OBVIOUS
<1>1. /\ DropTargetTransaction
      /\ UNCHANGED <<log, next, rowTxOpen, cached, reconnects>>
      /\ pc' \in {"retry", "down"}
  BY DEF RefuseStop, RejectDml, SourceError, GiveUp, Crash, sourceVars
<1>2. faults' \in 0 .. MaxFaults
  BY StreamApplyAssumption
     DEF RefuseStop, RejectDml, SourceError, GiveUp, Crash, StreamInv, TypeOK
<1>. QED
  BY <1>1, <1>2, DropInv

LEMMA StartingInv == StreamInv /\ (Reconnect \/ Restart) => StreamInv'
<1> SUFFICES ASSUME StreamInv, Reconnect \/ Restart PROVE StreamInv'
  OBVIOUS
<1>1. StartSession(ckpt)
  BY DEF Reconnect, Restart
<1>2. reconnects' \in 0 .. MaxReconnects
  BY StreamApplyAssumption DEF Reconnect, Restart, StreamInv, TypeOK
<1>. QED
  BY <1>1, <1>2, StartInv

LEMMA GroupTimesOutInv == StreamInv /\ GroupTimesOut => StreamInv'
<1> SUFFICES ASSUME StreamInv, GroupTimesOut PROVE StreamInv'
  OBVIOUS
<1>1. /\ UNCHANGED <<log, pc, next, rowTxOpen, cached, reconnects, faults>>
      /\ UNCHANGED <<serverTx, uncommitted, durable, executed, ckpt>>
  BY DEF GroupTimesOut, sourceVars, targetVars
<1>2. /\ tx' \in TargetTransaction
      /\ tx'.open = tx.open
      /\ tx'.source_transactions = tx.source_transactions
      /\ tx'.pending = tx.pending
  BY Zenon DEF GroupTimesOut, StreamInv, TypeOK, TargetTransaction
<1>3. TypeOK'
  BY <1>1, <1>2 DEF StreamInv, TypeOK, RowsUpTo
<1>4. StageInv' /\ TxInv'
  BY <1>1, <1>2 DEF StreamInv, StageInv, TxInv, Kind, Event
<1>5. RowInv'
  BY <1>1 DEF StreamInv, RowInv, NoLoss, RowsUpTo, Active, Kind, Event
<1>. QED
  BY <1>3, <1>4, <1>5 DEF StreamInv

(* A row lands in the open group, or is committed when the server has no   *)
(* transaction; a replayed statement commits what the group holds.         *)
LEMMA HandleEventInv == StreamInv /\ HandleEvent => StreamInv'
<1> SUFFICES ASSUME StreamInv, HandleEvent PROVE StreamInv'
  OBVIOUS
<1>1. /\ pc = "apply" /\ pc' = "finish"
      /\ UNCHANGED <<log, next, rowTxOpen, cached, reconnects, ckpt, faults>>
      /\ tx' = OpenedTx
  BY DEF HandleEvent, sourceVars
<1>2. /\ next \in Nat /\ next < Len(log)
      /\ log \in Seq(EventKind)
      /\ Kind \notin DdlKind
      /\ tx \in TargetTransaction
      /\ serverTx \in BOOLEAN
      /\ executed \in [1 .. Len(log) -> Nat]
  BY <1>1 DEF StreamInv, StageInv, TypeOK
<1>3. /\ tx' \in TargetTransaction
      /\ tx'.source_transactions = tx.source_transactions
      /\ tx'.pending = tx.pending
      /\ tx.open => tx'.open
      /\ event_can_write_target(Kind) => tx'.open
  BY <1>1, <1>2, Zenon DEF OpenedTx, TargetTransaction
<1>4. InServerTx \in BOOLEAN
  BY <1>2 DEF InServerTx, event_can_write_target
<1>5. Kind = "row" => Event \in RowsUpTo(Len(log))
  BY <1>2, RowsStep DEF RowsUpTo, Kind, Event
<1>6. /\ serverTx' \in BOOLEAN
      /\ executed' \in [1 .. Len(log) -> Nat]
      /\ durable \cup uncommitted \subseteq durable' \cup uncommitted'
      /\ durable' \cup uncommitted' \subseteq RowsUpTo(Len(log))
      /\ durable \subseteq durable'
      /\ Kind = "row" => Event \in durable' \cup uncommitted'
      /\ uncommitted' \subseteq uncommitted \/ tx'.open
  <2>0. durable \cup uncommitted \subseteq RowsUpTo(Len(log))
    BY DEF StreamInv, TypeOK
  <2>1. CASE ApplyRow
    BY <1>2, <1>3, <1>4, <1>5, <2>0, <2>1 DEF ApplyRow, event_can_write_target
  <2>2. CASE ReplayRawStatement
    <3>1. executed' \in [1 .. Len(log) -> Nat]
      BY <1>2, <2>2 DEF ReplayRawStatement, Event
    <3>2. serverTx' \in BOOLEAN
      BY <2>2, Zenon DEF ReplayRawStatement
    <3>3. /\ durable' = durable \cup uncommitted
          /\ uncommitted' = {}
          /\ Kind # "row"
      BY <2>2 DEF ReplayRawStatement
    <3>. QED
      BY <2>0, <3>1, <3>2, <3>3
  <2>3. CASE PassOver
    BY <1>2, <1>4, <2>0, <2>3 DEF PassOver
  <2>. QED
    BY <2>1, <2>2, <2>3 DEF HandleEvent
<1>7. TypeOK'
  BY <1>1, <1>3, <1>6 DEF StreamInv, TypeOK, RowsUpTo, Stages, EventStages
<1>8. StageInv'
  BY <1>1, <1>2 DEF StageInv, Kind, Event, DdlStages
<1>9. TxInv'
  BY <1>1, <1>3, <1>6 DEF StreamInv, TxInv
<1>10. RowInv'
  BY <1>1, <1>6 DEF StreamInv, RowInv, NoLoss, RowsUpTo, Active, EventStages, Kind, Event
<1>. QED
  BY <1>7, <1>8, <1>9, <1>10 DEF StreamInv

(***************************************************************************)
(* The end of an event moves the position past it.  Inside a group its     *)
(* coordinate becomes the pending checkpoint; outside one it is stored,    *)
(* which is sound because no row waits.                                    *)
(***************************************************************************)
LEMMA FinishEventInv == StreamInv /\ FinishEvent => StreamInv'
<1> SUFFICES ASSUME StreamInv, FinishEvent PROVE StreamInv'
  OBVIOUS
<1>1. /\ pc = "finish"
      /\ pc' \in {"recv", "stop"}
      /\ next' = next + 1
      /\ UNCHANGED <<log, reconnects, executed, faults>>
      /\ rowTxOpen' = LeavesRowTxOpen(Kind)
  BY DEF FinishEvent, sourceVars, NextStage, Event
<1>2. /\ next \in Nat /\ next < Len(log)
      /\ log \in Seq(EventKind)
      /\ Len(log) \in Nat
      /\ tx \in TargetTransaction
      /\ ckpt \in Nat /\ cached \in Nat
      /\ ckpt <= next /\ tx.pending <= next
  BY <1>1 DEF StreamInv, StageInv, TypeOK, TxInv, RowInv
<1>3. RowsUpTo(Event) \subseteq durable \cup uncommitted
  BY <1>1, <1>2, RowsStep DEF StreamInv, RowInv, RowsUpTo, Active, EventStages, Kind, Event
<1>4. /\ tx' \in TargetTransaction
      /\ serverTx' \in BOOLEAN
      /\ cached' \in Nat
      /\ ckpt' \in Nat /\ ckpt' <= Event
      /\ durable' \cup uncommitted' = durable \cup uncommitted
      /\ tx'.pending <= Event
      /\ tx'.source_transactions > 0 => tx'.open
      /\ tx'.source_transactions > 0 => tx'.pending >= ckpt'
      /\ ~tx'.open => uncommitted' = {}
      /\ RowsUpTo(ckpt') \subseteq durable'
  <2>1. CASE SaveInGroup
    <3> DEFINE recorded == IF commits_transaction(Kind)
                           THEN record_source_transaction(tx) ELSE tx
               t == remember_transaction_checkpoint(recorded)
    <3>1. /\ tx.open
          /\ cached' = cached
          /\ IF commits_transaction(Kind) /\ should_flush(t, Kind # "xid")
             THEN commit_target_group(t)
             ELSE tx' = t /\ UNCHANGED <<ckpt, durable, uncommitted, serverTx>>
      BY <2>1 DEF SaveInGroup
    <3>2. /\ recorded \in TargetTransaction
          /\ recorded.open
          /\ recorded.pending = tx.pending
          /\ \/ recorded = tx
             \/ has_resume_coordinate(Kind)
      BY <1>2, <3>1 DEF record_source_transaction, TargetTransaction,
                        commits_transaction, has_resume_coordinate, QueryKind
    <3>3. /\ t \in TargetTransaction
          /\ t.open
          /\ t.pending <= Event
          /\ t.source_transactions > 0 => t.pending >= ckpt
      <4>1. CASE has_resume_coordinate(Kind)
        BY <1>2, <3>2, <4>1 DEF remember_transaction_checkpoint, TargetTransaction, Event
      <4>2. CASE ~has_resume_coordinate(Kind)
        <5>1. t = tx
          BY <3>2, <4>2 DEF remember_transaction_checkpoint
        <5>2. tx.pending <= Event
          BY <1>2 DEF Event, TargetTransaction
        <5>. QED
          BY <1>2, <3>1, <5>1, <5>2 DEF StreamInv, TxInv
      <4>. QED
        BY <4>1, <4>2
    <3> HIDE DEF recorded, t
    <3>4. CASE commit_target_group(t)
      <4>1. /\ tx' = ClosedTx
            /\ serverTx' = FALSE
            /\ uncommitted' = {}
            /\ durable' = durable \cup uncommitted
        BY <3>4 DEF commit_target_group
      <4>2. ckpt' \in Nat /\ ckpt' <= Event
        BY <1>2, <3>3, <3>4
           DEF commit_target_group, committed_checkpoint, TargetTransaction, Event
      <4>3. RowsUpTo(ckpt') \subseteq RowsUpTo(Event)
        BY <1>2, <4>2, RowsMonotone DEF RowsUpTo, Event
      <4>4. tx' \in TargetTransaction /\ ~(tx'.source_transactions > 0) /\ tx'.pending = 0
        BY <4>1, ClosedTxFacts
      <4>5. tx'.pending <= Event
        BY <1>2, <4>4 DEF Event
      <4>6. serverTx' \in BOOLEAN
        BY <4>1, Zenon
      <4>7. RowsUpTo(ckpt') \subseteq durable'
        BY <1>3, <4>1, <4>3
      <4>8. durable' \cup uncommitted' = durable \cup uncommitted
        BY <4>1
      <4>. QED
        BY <1>2, <3>1, <4>1, <4>2, <4>4, <4>5, <4>6, <4>7, <4>8
    <3>5. CASE tx' = t /\ UNCHANGED <<ckpt, durable, uncommitted, serverTx>>
      <4>1. ckpt' \in Nat /\ ckpt' <= Event
        BY <1>2, <3>5 DEF Event
      <4>2. serverTx' \in BOOLEAN /\ RowsUpTo(ckpt') \subseteq durable'
        BY <3>5 DEF StreamInv, TypeOK, RowInv, NoLoss
      <4>. QED
        BY <1>2, <3>1, <3>3, <3>5, <4>1, <4>2
    <3>. QED
      BY <3>1, <3>4, <3>5
  <2>2. CASE SaveOutsideGroup
    <3>1. ~tx.open /\ UNCHANGED <<tx, durable, uncommitted, serverTx>>
      BY <2>2 DEF SaveOutsideGroup
    <3>2. /\ ckpt' = ckpt \/ ckpt' = Event
          /\ cached' = cached \/ cached' = Event
      BY <2>2 DEF SaveOutsideGroup, save_checkpoint_if_advanced
    <3>3. uncommitted = {} /\ ~(tx.source_transactions > 0)
      BY <3>1 DEF StreamInv, TxInv
    <3>4. /\ cached' \in Nat
          /\ ckpt' \in Nat /\ ckpt' <= Event
          /\ tx.pending <= Event
      BY <1>2, <3>2 DEF Event, TargetTransaction
    <3>5. RowsUpTo(ckpt') \subseteq durable'
      BY <1>3, <3>1, <3>2, <3>3 DEF StreamInv, RowInv, NoLoss
    <3>6. serverTx' \in BOOLEAN
      BY <3>1 DEF StreamInv, TypeOK
    <3>. QED
      BY <1>2, <3>1, <3>3, <3>4, <3>5, <3>6
  <2>. QED
    BY <2>1, <2>2 DEF FinishEvent
<1>5. rowTxOpen' \in BOOLEAN
  BY <1>1 DEF LeavesRowTxOpen
<1>6. TypeOK'
  <2>1. durable' \cup uncommitted' \subseteq RowsUpTo(Len(log))
    BY <1>4 DEF StreamInv, TypeOK
  <2>2. next' \in 0 .. Len(log)
    BY <1>1, <1>2
  <2>3. pc' \in Stages
    BY <1>1 DEF Stages, EventStages
  <2>. QED
    BY <1>1, <1>4, <1>5, <2>1, <2>2, <2>3 DEF StreamInv, TypeOK, RowsUpTo
<1>7. StageInv'
  BY <1>1 DEF StageInv, DdlStages
<1>8. TxInv'
  BY <1>1, <1>4 DEF TxInv, Event
<1>9. RowInv'
  BY <1>1, <1>3, <1>4 DEF RowInv, NoLoss, RowsUpTo, Event
<1>. QED
  BY <1>6, <1>7, <1>8, <1>9 DEF StreamInv

LEMMA CompleteStopInv == StreamInv /\ CompleteStop => StreamInv'
<1> SUFFICES ASSUME StreamInv, CompleteStop PROVE StreamInv'
  OBVIOUS
<1>1. /\ UNCHANGED <<log, next, rowTxOpen, cached, reconnects, faults>>
      /\ faults' \in 0 .. MaxFaults
      /\ rowTxOpen \in BOOLEAN
  BY DEF CompleteStop, sourceVars, StreamInv, TypeOK
<1>2. CASE rowTxOpen
  BY <1>1, <1>2, DropInv DEF CompleteStop
<1>3. CASE ~rowTxOpen
  <2>1. /\ tx' = ClosedTx
        /\ uncommitted' = {}
        /\ serverTx' = FALSE
        /\ pc' = "stopped"
        /\ UNCHANGED executed
    BY <1>3 DEF CompleteStop
  <2>2. Active
    BY DEF CompleteStop, Active, EventStages
  <2>3. /\ durable \subseteq durable'
        /\ durable' \subseteq RowsUpTo(Len(log))
        /\ ckpt' \in Nat /\ ckpt' <= next
        /\ RowsUpTo(ckpt') \subseteq durable'
    <3>1. CASE tx.source_transactions = 0
      BY <1>3, <3>1 DEF CompleteStop, StreamInv, TypeOK, RowInv, NoLoss
    <3>2. CASE tx.source_transactions # 0
      <4>1. ckpt' = committed_checkpoint(tx) /\ durable' = durable \cup uncommitted
        BY <1>3, <3>2 DEF CompleteStop
      <4>2. ckpt' \in Nat /\ ckpt' <= next
        BY <4>1 DEF committed_checkpoint, StreamInv, TypeOK, TxInv, RowInv, TargetTransaction
      <4>3. RowsUpTo(ckpt') \subseteq RowsUpTo(next)
        BY <4>2, RowsMonotone DEF RowsUpTo, StreamInv, TypeOK
      <4>. QED
        BY <2>2, <4>1, <4>2, <4>3 DEF StreamInv, TypeOK, RowInv
    <3>. QED
      BY <3>1, <3>2
  <2>4. pc' \in Stages /\ serverTx' \in BOOLEAN
    BY <2>1, Zenon DEF Stages
  <2>5. TypeOK'
    BY <1>1, <2>1, <2>3, <2>4, ClosedTxFacts DEF StreamInv, TypeOK, RowsUpTo
  <2>6. StageInv'
    BY <2>1 DEF StageInv, DdlStages
  <2>7. TxInv'
    BY <1>1, <2>1, ClosedTxFacts DEF StreamInv, TypeOK, TxInv
  <2>8. RowInv'
    BY <1>1, <2>1, <2>3 DEF RowInv, NoLoss, RowsUpTo, Active, EventStages, DdlStages
  <2>. QED
    BY <2>5, <2>6, <2>7, <2>8 DEF StreamInv
<1>. QED
  BY <1>1, <1>2, <1>3

(* A step that changes nothing keeps the invariant. *)
LEMMA StutterInv == StreamInv /\ UNCHANGED vars => StreamInv'
<1> SUFFICES ASSUME StreamInv, UNCHANGED vars PROVE StreamInv'
  OBVIOUS
<1>1. /\ UNCHANGED <<log, pc, next, tx, rowTxOpen, cached, reconnects, faults>>
      /\ UNCHANGED <<serverTx, uncommitted, durable, executed, ckpt>>
  BY DEF vars, sourceVars, sessionVars, targetVars
<1>2. TypeOK'
  BY <1>1 DEF StreamInv, TypeOK, RowsUpTo
<1>3. StageInv' /\ TxInv'
  BY <1>1 DEF StreamInv, StageInv, TxInv, Kind, Event
<1>4. RowInv'
  BY <1>1 DEF StreamInv, RowInv, NoLoss, RowsUpTo, Active, Kind, Event
<1>. QED
  BY <1>2, <1>3, <1>4 DEF StreamInv

LEMMA NextInv == StreamInv /\ Next => StreamInv'
  BY ReceiveInv, HandleEventInv, FinishEventInv, CompleteStopInv, DroppingInv,
     StreamEndsInv, StartingInv, GroupTimesOutInv, HeartbeatInv
     DEF Next, EventStep, SessionStep, TimeStep

-----------------------------------------------------------------------------

LEMMA Invariance == Spec => []StreamInv
<1>1. StreamInv /\ [Next]_vars => StreamInv'
  BY NextInv, StutterInv
<1>. QED
  BY InitInv, <1>1, PTL DEF Spec

(* Every variable keeps its type: the session's position stays inside the  *)
(* binlog and only row events are ever written to the target.              *)
THEOREM StreamTypes == Spec => []TypeOK
<1>1. StreamInv => TypeOK
  BY DEF StreamInv
<1>. QED
  BY Invariance, <1>1, PTL

(* Every row before the stored checkpoint is committed on the target, for  *)
(* any binlog, group size and pattern of failures: resuming from the       *)
(* checkpoint never skips a row.                                           *)
THEOREM StreamNoLoss == Spec => []NoLoss
<1>1. StreamInv => NoLoss
  BY DEF StreamInv, RowInv
<1>. QED
  BY Invariance, <1>1, PTL

(* No group with a complete source transaction is ever behind the stored   *)
(* checkpoint, so the commit of a group is never refused for a regression. *)
THEOREM StreamGroupNeverRefused == Spec => []GroupNeverRefused
<1>1. StreamInv => GroupNeverRefused
  BY DEF StreamInv, TypeOK, TxInv, TargetTransaction, GroupNeverRefused,
         committed_checkpoint, checkpoint_advances
<1>. QED
  BY Invariance, <1>1, PTL

LEMMA FinishAdvances == StreamInv /\ FinishEvent => ckpt' >= ckpt
<1> SUFFICES ASSUME StreamInv, FinishEvent PROVE ckpt' >= ckpt
  OBVIOUS
<1>1. ckpt \in Nat /\ next \in Nat /\ ckpt <= next
  BY DEF StreamInv, TypeOK, RowInv
<1>2. CASE SaveInGroup
  BY <1>1, <1>2 DEF SaveInGroup, commit_target_group, checkpoint_advances
<1>3. CASE SaveOutsideGroup
  BY <1>1, <1>3 DEF SaveOutsideGroup, save_checkpoint_if_advanced, Event
<1>. QED
  BY <1>2, <1>3 DEF FinishEvent

LEMMA StreamAdvances == StreamInv /\ Next => ckpt' >= ckpt
<1> SUFFICES ASSUME StreamInv, Next PROVE ckpt' >= ckpt
  OBVIOUS
<1>1. ckpt \in Nat
  BY DEF StreamInv, TypeOK
<1>2. CASE FinishEvent
  BY <1>2, FinishAdvances
<1>3. CASE Receive \/ Heartbeat
  <2>1. flush_grouped_transaction(tx) \/ UNCHANGED ckpt
    BY <1>3, Zenon DEF Receive, Heartbeat
  <2>. QED
    BY <1>1, <2>1 DEF flush_grouped_transaction, commit_target_group, checkpoint_advances
<1>4. CASE StreamEnds
  BY <1>1, <1>4 DEF StreamEnds, flush_grouped_transaction, commit_target_group,
                    checkpoint_advances, DropTargetTransaction
<1>5. CASE CompleteStop
  <2>1. tx.source_transactions # 0 => committed_checkpoint(tx) >= ckpt
    BY DEF StreamInv, TypeOK, TxInv, TargetTransaction, committed_checkpoint
  <2>. QED
    BY <1>1, <1>5, <2>1 DEF CompleteStop, DropTargetTransaction
<1>6. CASE HandleEvent \/ GroupTimesOut
  BY <1>1, <1>6 DEF HandleEvent, GroupTimesOut, targetVars
<1>7. CASE RefuseStop \/ RejectDml \/ SourceError \/ GiveUp \/ Crash
  BY <1>1, <1>7 DEF RefuseStop, RejectDml, SourceError, GiveUp, Crash, DropTargetTransaction
<1>8. CASE Reconnect \/ Restart
  BY <1>1, <1>8 DEF Reconnect, Restart, StartSession
<1>. QED
  BY <1>2, <1>3, <1>4, <1>5, <1>6, <1>7, <1>8 DEF Next, EventStep, SessionStep, TimeStep

(* The stored checkpoint never moves back, although group commits write it *)
(* under a lock and the checkpoint store writes it from a cached copy.     *)
THEOREM StreamCheckpointMonotone == Spec => CheckpointMonotone
<1>1. StreamInv /\ [Next]_vars => [ckpt' >= ckpt]_vars
  BY StreamAdvances
<1>. QED
  BY Invariance, <1>1, PTL DEF Spec, CheckpointMonotone

-----------------------------------------------------------------------------
(***************************************************************************)
(* The committed rows form a prefix.  On top of StreamInv this needs that  *)
(* what waits in the server's transaction continues the committed rows     *)
(* without a gap, and that nothing waits when the server has none.         *)
(***************************************************************************)
PrefixInv ==
  /\ DurablePrefix
  /\ \A i \in durable \cup uncommitted : RowsUpTo(i) \subseteq durable \cup uncommitted
  /\ ~serverTx => uncommitted = {}

(* The server's transaction is left alone, committed, or rolled back. *)
TransactionKept ==
  \/ UNCHANGED <<durable, uncommitted, serverTx>>
  \/ durable' = durable \cup uncommitted /\ uncommitted' = {}
  \/ durable' = durable /\ uncommitted' = {}

LEMMA TransactionKeptPrefix ==
  ASSUME PrefixInv, TransactionKept, log' = log
  PROVE  PrefixInv'
<1>1. CASE UNCHANGED <<durable, uncommitted, serverTx>>
  BY <1>1 DEF PrefixInv, DurablePrefix, RowsUpTo
<1>2. CASE durable' = durable \cup uncommitted /\ uncommitted' = {}
  BY <1>2 DEF PrefixInv, DurablePrefix, RowsUpTo
<1>3. CASE durable' = durable /\ uncommitted' = {}
  BY <1>3 DEF PrefixInv, DurablePrefix, RowsUpTo
<1>. QED
  BY <1>1, <1>2, <1>3 DEF TransactionKept

LEMMA FlushKeepsTransaction ==
  ASSUME flush_grouped_transaction(tx) PROVE TransactionKept
  BY DEF flush_grouped_transaction, commit_target_group, TransactionKept

(* Every step but the application of an event leaves the rows alone. *)
LEMMA OthersKeepTransaction ==
  ASSUME Next, ~HandleEvent PROVE TransactionKept /\ log' = log
<1>1. CASE Receive \/ Heartbeat
  <2>1. \/ flush_grouped_transaction(tx)
        \/ UNCHANGED <<durable, uncommitted, serverTx>>
    BY <1>1, Zenon DEF Receive, Heartbeat
  <2>. QED
    BY <1>1, <2>1, FlushKeepsTransaction, Zenon DEF Receive, Heartbeat, TransactionKept, sourceVars
<1>2. CASE FinishEvent
  BY <1>2 DEF FinishEvent, SaveInGroup, SaveOutsideGroup, commit_target_group,
              TransactionKept, sourceVars
<1>3. CASE StreamEnds
  <2>1. flush_grouped_transaction(tx) \/ DropTargetTransaction
    BY <1>3 DEF StreamEnds
  <2>. QED
    BY <1>3, <2>1, FlushKeepsTransaction
       DEF StreamEnds, DropTargetTransaction, TransactionKept, sourceVars
<1>4. CASE CompleteStop
  BY <1>4 DEF CompleteStop, DropTargetTransaction, TransactionKept, sourceVars
<1>5. CASE RefuseStop \/ RejectDml \/ SourceError \/ GiveUp \/ Crash
  BY <1>5 DEF RefuseStop, RejectDml, SourceError, GiveUp, Crash, DropTargetTransaction,
              TransactionKept, sourceVars
<1>6. CASE Reconnect \/ Restart \/ GroupTimesOut
  BY <1>6 DEF Reconnect, Restart, StartSession, GroupTimesOut, targetVars, sourceVars,
              TransactionKept
<1>. QED
  BY <1>1, <1>2, <1>3, <1>4, <1>5, <1>6 DEF Next, EventStep, SessionStep, TimeStep

LEMMA HandleEventPrefix == StreamInv /\ PrefixInv /\ HandleEvent => PrefixInv'
<1> SUFFICES ASSUME StreamInv, PrefixInv, HandleEvent PROVE PrefixInv'
  OBVIOUS
<1>1. log' = log
  BY DEF HandleEvent, sourceVars
<1>2. CASE ApplyRow
  <2>1. RowsUpTo(Event) \subseteq durable \cup uncommitted \cup {Event}
    BY <1>2, RowsStep
       DEF HandleEvent, ApplyRow, StreamInv, TypeOK, StageInv, RowInv, RowsUpTo, Active,
           EventStages, Kind, Event
  <2>2. CASE InServerTx
    <3>1. uncommitted' = uncommitted \cup {Event} /\ durable' = durable /\ serverTx'
      BY <1>2, <2>2 DEF ApplyRow
    <3>. QED
      BY <1>1, <2>1, <3>1 DEF PrefixInv, DurablePrefix, RowsUpTo
  <2>3. CASE ~InServerTx
    <3>1. uncommitted' = uncommitted /\ durable' = durable \cup {Event}
      BY <1>2, <2>3 DEF ApplyRow
    <3>2. uncommitted = {}
      BY <2>3 DEF InServerTx, PrefixInv
    <3>. QED
      BY <1>1, <2>1, <3>1, <3>2 DEF PrefixInv, DurablePrefix, RowsUpTo
  <2>. QED
    BY <2>2, <2>3
<1>3. CASE ReplayRawStatement
  BY <1>1, <1>3, TransactionKeptPrefix DEF ReplayRawStatement, TransactionKept
<1>4. CASE PassOver
  <2>1. UNCHANGED <<durable, uncommitted>> /\ (serverTx => serverTx')
    BY <1>4, Zenon DEF PassOver, InServerTx
  <2>. QED
    BY <1>1, <2>1 DEF PrefixInv, DurablePrefix, RowsUpTo
<1>. QED
  BY <1>2, <1>3, <1>4 DEF HandleEvent

LEMMA PrefixInvariance == Spec => []PrefixInv
<1>1. Init => PrefixInv
  BY DEF Init, PrefixInv, DurablePrefix
<1>2. StreamInv /\ PrefixInv /\ [Next]_vars => PrefixInv'
  <2> SUFFICES ASSUME StreamInv, PrefixInv, [Next]_vars PROVE PrefixInv'
    OBVIOUS
  <2>1. CASE HandleEvent
    BY <2>1, HandleEventPrefix
  <2>2. CASE Next /\ ~HandleEvent
    BY <2>2, OthersKeepTransaction, TransactionKeptPrefix
  <2>3. CASE UNCHANGED vars
    BY <2>3, TransactionKeptPrefix
       DEF vars, sourceVars, sessionVars, targetVars, TransactionKept
  <2>. QED
    BY <2>1, <2>2, <2>3
<1>. QED
  BY Invariance, <1>1, <1>2, PTL DEF Spec

(* No row is committed ahead of an earlier one, for any binlog and pattern *)
(* of failures: what the target shows is the state of a prefix of the      *)
(* source, also after flushes, rollbacks, implicit commits and replays.    *)
THEOREM StreamDurablePrefix == Spec => []DurablePrefix
<1>1. PrefixInv => DurablePrefix
  BY DEF PrefixInv
<1>. QED
  BY PrefixInvariance, <1>1, PTL

-----------------------------------------------------------------------------
(***************************************************************************)
(* The refinement of Replica.  A commit of the server's transaction is the *)
(* abstract commit of everything up to the event the session has reached:  *)
(* StreamInv has no row before it missing, and WaitInv no row behind it    *)
(* waiting.                                                                *)
(***************************************************************************)
Reached == IF pc = "finish" THEN Event ELSE next

WaitInv == uncommitted \subseteq RowsUpTo(Reached)

LEMMA ReachedFacts ==
  ASSUME StreamInv
  PROVE  /\ Reached \in 0 .. Len(log) /\ Reached \in Nat
         /\ ckpt \in Nat /\ ckpt <= Reached
         /\ Active => RowsUpTo(Reached) \subseteq durable \cup uncommitted
<1>1. /\ log \in Seq(EventKind) /\ Len(log) \in Nat
      /\ next \in 0 .. Len(log) /\ next \in Nat
      /\ ckpt \in Nat /\ ckpt <= next
  BY DEF StreamInv, TypeOK, RowInv
<1>2. CASE pc = "finish"
  <2>1. next < Len(log) /\ Reached = next + 1 /\ Active
    BY <1>2 DEF StreamInv, StageInv, Reached, Event, Active, EventStages
  <2>2. RowsUpTo(next + 1) \subseteq durable \cup uncommitted
    BY <1>1, <1>2, <2>1, RowsStep DEF StreamInv, RowInv, RowsUpTo, Kind, Event
  <2>. QED
    BY <1>1, <2>1, <2>2
<1>3. CASE pc # "finish"
  BY <1>1, <1>3 DEF StreamInv, RowInv, Reached
<1>. QED
  BY <1>2, <1>3

(* Rows only leave the server's transaction while the session goes on. *)
LEMMA WaitKept ==
  ASSUME StreamInv, StreamInv', WaitInv, log' = log,
         uncommitted' \subseteq uncommitted,
         uncommitted' = {} \/ Reached <= Reached'
  PROVE  WaitInv'
<1>1. CASE uncommitted' = {}
  BY <1>1 DEF WaitInv
<1>2. CASE Reached <= Reached'
  <2>0. next \in Nat /\ next' \in Nat
    BY DEF StreamInv, TypeOK
  <2>1. Reached \in Nat
    BY ReachedFacts
  <2>3. Reached' = next' \/ Reached' = next' + 1
    BY Zenon DEF Reached, Event
  <2>4. Reached' \in Nat
    BY <2>0, <2>3
  <2>2. RowsOf(log, Reached) \subseteq RowsOf(log, Reached')
    BY <1>2, <2>1, <2>4, RowsMonotone
  <2>. QED
    BY <2>2 DEF WaitInv, RowsUpTo
<1>. QED
  BY <1>1, <1>2

(* A step that commits nothing is a save of the position, one that commits *)
(* the server's transaction or an autocommitted row is a commit.           *)
LEMMA SaveRefines ==
  ASSUME StreamInv, StreamInv', log' = log, ckpt' >= ckpt, durable' = durable
  PROVE  Promise!Next
<1>1. ckpt' \in 0 .. Len(log)
  BY DEF StreamInv, TypeOK, RowInv
<1>2. RowsOf(log, ckpt') \subseteq durable
  BY DEF StreamInv, RowInv, NoLoss, RowsUpTo
<1>3. Promise!Save(ckpt')
  BY <1>2 DEF Promise!Save, Promise!RowEvents, RowsOf
<1>. QED
  BY <1>1, <1>3 DEF Promise!Next

LEMMA CommitRefines ==
  ASSUME StreamInv, log' = log,
         NEW m \in 0 .. Len(log),
         durable' = durable \cup RowsUpTo(m),
         ckpt' \in ckpt .. m
  PROVE  Promise!Next
<1>1. Promise!Commit(m)
  BY DEF Promise!Commit, Promise!RowEvents, RowsOf, RowsUpTo
<1>. QED
  BY <1>1 DEF Promise!Next

LEMMA ImplicitCommitRefines ==
  ASSUME StreamInv, WaitInv, Active, log' = log,
         durable' = durable \cup uncommitted,
         ckpt' \in Nat, ckpt' >= ckpt, ckpt' <= Reached
  PROVE  Promise!Next
<1>1. Reached \in 0 .. Len(log) /\ ckpt \in Nat /\ Reached \in Nat
  BY ReachedFacts
<1>2. durable' = durable \cup RowsUpTo(Reached)
  BY ReachedFacts DEF WaitInv
<1>3. ckpt' \in ckpt .. Reached
  BY <1>1
<1>. QED
  BY <1>1, <1>2, <1>3, CommitRefines

LEMMA HandleEventRefines ==
  ASSUME StreamInv, StreamInv', PrefixInv, WaitInv, HandleEvent
  PROVE  Promise!Next /\ WaitInv'
<1>1. /\ pc = "apply" /\ pc' = "finish"
      /\ UNCHANGED <<log, next, ckpt>>
  BY DEF HandleEvent, sourceVars
<1>2. /\ next \in Nat /\ next < Len(log) /\ Len(log) \in Nat
      /\ log \in Seq(EventKind)
      /\ ckpt \in Nat /\ ckpt <= next
  BY <1>1 DEF StreamInv, StageInv, TypeOK, RowInv
<1>3. /\ Reached = next /\ Reached' = next + 1
      /\ Active
  BY <1>1 DEF Reached, Event, Active, EventStages
<1>4. RowsUpTo(next) \subseteq RowsUpTo(next + 1)
  BY <1>2, RowsMonotone DEF RowsUpTo
<1>5. CASE ApplyRow
  <2>1. RowsUpTo(next + 1) = RowsUpTo(next) \cup {next + 1}
    BY <1>2, <1>5, RowsStep DEF ApplyRow, RowsUpTo, Kind, Event
  <2>2. CASE InServerTx
    <3>1. uncommitted' = uncommitted \cup {next + 1} /\ durable' = durable
      BY <1>5, <2>2 DEF ApplyRow, Event
    <3>2. WaitInv'
      BY <1>1, <1>3, <2>1, <3>1 DEF WaitInv, RowsUpTo
    <3>. QED
      BY <1>1, <1>2, <3>1, <3>2, SaveRefines
  <2>3. CASE ~InServerTx
    <3>1. uncommitted' = uncommitted /\ durable' = durable \cup {next + 1}
      BY <1>5, <2>3 DEF ApplyRow, Event
    <3>2. uncommitted = {}
      BY <2>3 DEF InServerTx, PrefixInv
    <3>3. RowsUpTo(next) \subseteq durable
      BY <1>3, <3>2 DEF StreamInv, RowInv
    <3>4. durable' = durable \cup RowsUpTo(next + 1)
      BY <2>1, <3>1, <3>3
    <3>5. next + 1 \in 0 .. Len(log) /\ ckpt' \in ckpt .. (next + 1)
      BY <1>1, <1>2
    <3>6. Promise!Next
      BY <1>1, <3>4, <3>5, CommitRefines
    <3>. QED
      BY <3>1, <3>2, <3>6 DEF WaitInv
  <2>. QED
    BY <2>2, <2>3
<1>6. CASE ReplayRawStatement
  <2>1. durable' = durable \cup uncommitted /\ uncommitted' = {}
    BY <1>6 DEF ReplayRawStatement
  <2>. QED
    BY <1>1, <1>2, <1>3, <2>1, ImplicitCommitRefines DEF WaitInv
<1>7. CASE PassOver
  <2>1. UNCHANGED <<durable, uncommitted>>
    BY <1>7 DEF PassOver
  <2>2. WaitInv'
    BY <1>1, <1>3, <1>4, <2>1 DEF WaitInv, RowsUpTo
  <2>. QED
    BY <1>1, <1>2, <2>1, <2>2, SaveRefines
<1>. QED
  BY <1>5, <1>6, <1>7 DEF HandleEvent

(* What the other steps do: the server's transaction is kept, committed    *)
(* while the session is active, or dropped.                                *)
RefiningStep ==
  /\ log' = log
  /\ ckpt' >= ckpt
  /\ \/ durable' = durable /\ uncommitted' = uncommitted /\ Reached <= Reached'
     \/ durable' = durable /\ uncommitted' = {}
     \/ Active /\ durable' = durable \cup uncommitted /\ uncommitted' = {} /\ ckpt' <= Reached

LEMMA RefiningStepRefines ==
  ASSUME StreamInv, StreamInv', WaitInv, RefiningStep
  PROVE  Promise!Next /\ WaitInv'
<1>1. ckpt' \in Nat
  BY DEF StreamInv, TypeOK
<1>2. CASE durable' = durable /\ uncommitted' = uncommitted /\ Reached <= Reached'
  BY <1>2, SaveRefines, WaitKept DEF RefiningStep
<1>3. CASE durable' = durable /\ uncommitted' = {}
  BY <1>3, SaveRefines DEF RefiningStep, WaitInv
<1>4. CASE /\ Active /\ durable' = durable \cup uncommitted /\ uncommitted' = {}
           /\ ckpt' <= Reached
  BY <1>1, <1>4, ImplicitCommitRefines DEF RefiningStep, WaitInv
<1>. QED
  BY <1>2, <1>3, <1>4 DEF RefiningStep

LEMMA OthersRefine ==
  ASSUME StreamInv, StreamInv', Next, ~HandleEvent
  PROVE  RefiningStep
<1>1. log' = log /\ ckpt' >= ckpt
  BY OthersKeepTransaction, StreamAdvances
<1>2. /\ next \in Nat /\ next' \in Nat
      /\ ckpt' <= next'
  BY DEF StreamInv, TypeOK, RowInv
<1>3. CASE Receive \/ Heartbeat
  <2>1. /\ pc = "recv" /\ pc' # "finish" /\ next' = next
        /\ Active
    BY <1>3, Zenon DEF Receive, Heartbeat, Active, EventStages
  <2>2. Reached = next /\ Reached' = next
    BY <2>1 DEF Reached
  <2>3. flush_grouped_transaction(tx) \/ UNCHANGED <<durable, uncommitted>>
    BY <1>3, Zenon DEF Receive, Heartbeat
  <2>4. \/ durable' = durable /\ uncommitted' = uncommitted
        \/ durable' = durable \cup uncommitted /\ uncommitted' = {}
    BY <2>3 DEF flush_grouped_transaction, commit_target_group
  <2>. QED
    BY <1>1, <1>2, <2>1, <2>2, <2>4 DEF RefiningStep
<1>4. CASE FinishEvent
  <2>1. /\ pc = "finish" /\ pc' # "finish" /\ next' = Event
        /\ Active
    BY <1>4 DEF FinishEvent, NextStage, Active, EventStages
  <2>2. Reached = Event /\ Reached' = Event
    BY <2>1 DEF Reached
  <2>3. \/ durable' = durable /\ uncommitted' = uncommitted
        \/ durable' = durable \cup uncommitted /\ uncommitted' = {}
    BY <1>4 DEF FinishEvent, SaveInGroup, SaveOutsideGroup, commit_target_group
  <2>. QED
    BY <1>1, <1>2, <2>1, <2>2, <2>3 DEF RefiningStep
<1>5. CASE StreamEnds
  <2>1. /\ pc = "recv" /\ pc' # "finish" /\ next' = next
        /\ Active
    BY <1>5 DEF StreamEnds, Active, EventStages
  <2>2. Reached = next /\ Reached' = next
    BY <2>1 DEF Reached
  <2>3. flush_grouped_transaction(tx) \/ DropTargetTransaction
    BY <1>5 DEF StreamEnds
  <2>4. \/ durable' = durable /\ uncommitted' = uncommitted
        \/ durable' = durable /\ uncommitted' = {}
        \/ durable' = durable \cup uncommitted /\ uncommitted' = {}
    BY <2>3 DEF flush_grouped_transaction, commit_target_group, DropTargetTransaction
  <2>. QED
    BY <1>1, <1>2, <2>1, <2>2, <2>4 DEF RefiningStep
<1>6. CASE CompleteStop
  <2>1. pc = "stop" /\ next' = next /\ Active /\ Reached = next
    BY <1>6 DEF CompleteStop, Active, EventStages, Reached
  <2>2. \/ durable' = durable /\ uncommitted' = {}
        \/ durable' = durable \cup uncommitted /\ uncommitted' = {}
    BY <1>6 DEF CompleteStop, DropTargetTransaction
  <2>. QED
    BY <1>1, <1>2, <2>1, <2>2 DEF RefiningStep
<1>7. CASE RefuseStop \/ RejectDml \/ SourceError \/ GiveUp \/ Crash \/ Reconnect \/ Restart
  <2>1. durable' = durable /\ uncommitted' = {}
    BY <1>7 DEF RefuseStop, RejectDml, SourceError, GiveUp, Crash, DropTargetTransaction,
                Reconnect, Restart, StartSession
  <2>. QED
    BY <1>1, <2>1 DEF RefiningStep
<1>8. CASE GroupTimesOut
  <2>1. UNCHANGED <<pc, next, durable, uncommitted>>
    BY <1>8 DEF GroupTimesOut, targetVars
  <2>2. Reached' = Reached /\ Reached \in Nat
    BY <1>2, <2>1 DEF Reached, Event
  <2>. QED
    BY <1>1, <2>1, <2>2 DEF RefiningStep
<1>. QED
  BY <1>3, <1>4, <1>5, <1>6, <1>7, <1>8 DEF Next, EventStep, SessionStep, TimeStep

LEMMA StepRefines ==
  ASSUME StreamInv, StreamInv', PrefixInv, WaitInv, [Next]_vars
  PROVE  WaitInv' /\ [Promise!Next]_(Promise!replicaVars)
<1>1. CASE HandleEvent
  BY <1>1, HandleEventRefines
<1>2. CASE Next /\ ~HandleEvent
  BY <1>2, OthersRefine, RefiningStepRefines
<1>3. CASE UNCHANGED vars
  <2>1. UNCHANGED <<log, pc, next, durable, uncommitted, ckpt>>
    BY <1>3 DEF vars, sourceVars, sessionVars, targetVars
  <2>. QED
    BY <2>1 DEF WaitInv, Reached, Event, RowsUpTo, Promise!replicaVars
<1>. QED
  BY <1>1, <1>2, <1>3

(* For every binlog, group size, stop position and pattern of failures the *)
(* stream implements Replica: what it commits is always everything up to   *)
(* some event, and the position it resumes from only moves over committed  *)
(* rows.                                                                   *)
THEOREM StreamIsReplica == Spec => IsReplica
<1>1. Init => WaitInv /\ Promise!Init
  BY DEF Init, WaitInv, Promise!Init
<1>. QED
  BY Invariance, PrefixInvariance, <1>1, StepRefines, PTL DEF Spec, IsReplica, Promise!Spec

-----------------------------------------------------------------------------
(***************************************************************************)
(* LiveStream, with the DDL handlers and every pattern of failures,        *)
(* releases and repairs.  The invariant above is extended with the         *)
(* agreement of three durable things that are written at different         *)
(* moments: the journal, the target's schema, the checkpoint.              *)
(***************************************************************************)

DdlTypes ==
  /\ journal \in [1 .. Len(log) -> DdlReplayStatus]
  /\ evidence \in [1 .. Len(log) -> {"none", "pre", "post"}]
  /\ schema \in [1 .. Len(log) -> {"pre", "post", "other"}]
  /\ upgraded \in BOOLEAN

(* The status of an event says what has been done to the target. *)
StatusInv ==
  \A i \in DdlEvents :
    /\ journal[i] \in {"none", "translation_pending"} => executed[i] = 0
    /\ executed[i] <= 1
    /\ journal[i] \in {"applied", "checkpointed"} => schema[i] = "post"

(* The status of the event in hand at each stage of its handler. *)
HandlerInv ==
  /\ pc = "execute" => journal[Event] = "prepared" /\ executed[Event] = 0
  /\ pc = "verify" => journal[Event] = "prepared"
  /\ pc \in {"finalize", "checkpoint"} => journal[Event] = "applied"

(* The session, the checkpoint and the rows pass an event together. *)
PassInv ==
  \A i \in DdlEvents :
    /\ i <= next => i <= ckpt
    /\ journal[i] = "checkpointed" => i <= ckpt
    /\ i <= ckpt => journal[i] = "checkpointed"
    /\ \A j \in durable \cup uncommitted : i < j => i <= ckpt

LiveInv == StreamInv /\ DdlTypes /\ StatusInv /\ HandlerInv /\ PassInv

-----------------------------------------------------------------------------
(***************************************************************************)
(* What a step of StreamApply does to the state the DDL handlers use.      *)
(***************************************************************************)
StreamFrame ==
  /\ log' = log
  /\ ckpt' >= ckpt
  /\ \A i \in DdlEvents : i <= next' => i <= next \/ i <= ckpt
  /\ \A i \in DdlEvents : executed'[i] = executed[i]
  /\ \A j \in durable' \cup uncommitted' : j \in durable \cup uncommitted \/ j <= next + 1
  /\ \/ pc' \notin DdlStages
     \/ pc' = pc /\ next' = next /\ executed' = executed

LEMMA LogUnchanged == Next => log' = log
  BY Zenon DEF Next, EventStep, SessionStep, TimeStep, Receive, RefuseStop, HandleEvent, RejectDml,
         FinishEvent, CompleteStop, StreamEnds, SourceError, StartSession, Reconnect, GiveUp,
         Restart, Crash, GroupTimesOut, Heartbeat, sourceVars


LEMMA FlushRows ==
  ASSUME flush_grouped_transaction(tx) \/ UNCHANGED <<durable, uncommitted>>
  PROVE  durable' \cup uncommitted' \subseteq durable \cup uncommitted
  BY DEF flush_grouped_transaction, commit_target_group

LEMMA NextRows ==
  ASSUME Next
  PROVE  durable' \cup uncommitted' \subseteq durable \cup uncommitted \cup {Event}
<1>1. CASE HandleEvent
  BY <1>1 DEF HandleEvent, ApplyRow, ReplayRawStatement, PassOver
<1>2. CASE FinishEvent
  BY <1>2 DEF FinishEvent, SaveInGroup, SaveOutsideGroup, commit_target_group
<1>3. CASE Receive \/ Heartbeat \/ StreamEnds
  <2>1. \/ flush_grouped_transaction(tx)
        \/ UNCHANGED <<durable, uncommitted>>
        \/ DropTargetTransaction
    BY <1>3, Zenon DEF Receive, Heartbeat, StreamEnds
  <2>. QED
    BY <2>1, FlushRows DEF DropTargetTransaction
<1>4. CASE CompleteStop
  BY <1>4 DEF CompleteStop, DropTargetTransaction
<1>5. CASE RefuseStop \/ RejectDml \/ SourceError \/ GiveUp \/ Crash
  BY <1>5 DEF RefuseStop, RejectDml, SourceError, GiveUp, Crash, DropTargetTransaction
<1>6. CASE Reconnect \/ Restart \/ GroupTimesOut
  BY <1>6 DEF Reconnect, Restart, StartSession, GroupTimesOut, targetVars
<1>. QED
  BY <1>1, <1>2, <1>3, <1>4, <1>5, <1>6 DEF Next, EventStep, SessionStep, TimeStep

LEMMA NextExecuted ==
  ASSUME StreamInv, Next
  PROVE  \/ executed' = executed
         \/ /\ Kind = "raw"
            /\ executed' = [executed EXCEPT ![Event] = @ + 1]
            /\ pc' = "finish"
<1>1. CASE HandleEvent
  BY <1>1 DEF HandleEvent, ApplyRow, ReplayRawStatement, PassOver
<1>2. CASE ~HandleEvent
  BY Zenon, <1>2 DEF Next, EventStep, SessionStep, TimeStep, Receive, RefuseStop, RejectDml,
         FinishEvent, CompleteStop, StreamEnds, SourceError, StartSession, Reconnect, GiveUp,
         Restart, Crash, GroupTimesOut, Heartbeat, DropTargetTransaction, targetVars
<1>. QED
  BY <1>1, <1>2

LEMMA NextPosition ==
  ASSUME StreamInv, Next
  PROVE  \/ next' = next
         \/ next' = ckpt
         \/ next' = next + 1 /\ Kind \notin DdlKind
<1>1. CASE FinishEvent
  BY <1>1 DEF FinishEvent, StreamInv, StageInv, Event
<1>2. CASE ~FinishEvent
  BY Zenon, <1>2 DEF Next, EventStep, SessionStep, TimeStep, Receive, RefuseStop, RejectDml,
         HandleEvent, CompleteStop, StreamEnds, SourceError, StartSession, Reconnect, GiveUp,
         Restart, Crash, GroupTimesOut, Heartbeat
<1>. QED
  BY <1>1, <1>2

LEMMA NextStages ==
  ASSUME Next
  PROVE  pc' \notin DdlStages \/ (pc' = pc /\ next' = next /\ executed' = executed)
<1>1. CASE GroupTimesOut
  BY <1>1 DEF GroupTimesOut, targetVars
<1>2. CASE ~GroupTimesOut
  BY Zenon, <1>2 DEF Next, EventStep, SessionStep, TimeStep, Receive, RefuseStop, RejectDml,
         HandleEvent, FinishEvent, NextStage, CompleteStop, StreamEnds, SourceError,
         StartSession, Reconnect, GiveUp, Restart, Crash, Heartbeat, DdlStages
<1>. QED
  BY <1>1, <1>2

LEMMA NextKeepsFrame ==
  ASSUME StreamInv, Next
  PROVE  StreamFrame
<1>1. log' = log /\ ckpt' >= ckpt
  BY LogUnchanged, StreamAdvances
<1>2. /\ next \in Nat /\ ckpt \in Nat
      /\ executed \in [1 .. Len(log) -> Nat]
  BY DEF StreamInv, TypeOK
<1>3. \A i \in DdlEvents : i <= next' => i <= next \/ i <= ckpt
  BY <1>2, NextPosition DEF DdlEvents, Kind, Event
<1>4. \A i \in DdlEvents : executed'[i] = executed[i]
  BY <1>2, NextExecuted DEF DdlEvents, Kind, Event, DdlKind
<1>5. \A j \in durable' \cup uncommitted' : j \in durable \cup uncommitted \/ j <= next + 1
  BY <1>2, NextRows DEF Event
<1>. QED
  BY <1>1, <1>3, <1>4, <1>5, NextStages DEF StreamFrame

(* A step of StreamApply keeps what the DDL handlers rely on. *)
LEMMA StreamStepLive ==
  ASSUME LiveInv, Next, UNCHANGED ddlVars
  PROVE  LiveInv'
<1>1. StreamInv' /\ StreamFrame
  BY NextInv, NextKeepsFrame DEF LiveInv
<1>2. /\ UNCHANGED <<journal, evidence, schema, upgraded>>
      /\ log' = log
      /\ DdlEvents' = DdlEvents
  BY <1>1 DEF ddlVars, StreamFrame, DdlEvents
<1>3. DdlTypes'
  BY <1>2 DEF LiveInv, DdlTypes
<1>4. StatusInv'
  BY <1>1, <1>2 DEF LiveInv, StatusInv, StreamFrame
<1>5. HandlerInv'
  BY <1>1, <1>2 DEF LiveInv, HandlerInv, StreamFrame, DdlStages, Event
<1>6. /\ ckpt \in Nat /\ next \in Nat /\ ckpt' \in Nat /\ next' \in Nat
      /\ ckpt' <= next'
      /\ \A i \in DdlEvents : i \in Nat
      /\ durable \cup uncommitted \subseteq Nat
      /\ durable' \cup uncommitted' \subseteq Nat
  BY <1>1 DEF LiveInv, StreamInv, TypeOK, RowInv, DdlEvents, RowsUpTo, RowsOf
<1>7. PassInv'
  BY <1>1, <1>2, <1>6 DEF LiveInv, PassInv, StreamFrame
<1>. QED
  BY <1>1, <1>3, <1>4, <1>5, <1>7 DEF LiveInv

-----------------------------------------------------------------------------
(* The DDL handlers. *)

(* The event in hand is a DDL event of the binlog. *)
LEMMA EventInHand ==
  ASSUME LiveInv, pc \in DdlStages
  PROVE  /\ Event \in DdlEvents
         /\ Event \in 1 .. Len(log)
         /\ ~(Event <= ckpt)
         /\ Active
  BY DEF LiveInv, StreamInv, TypeOK, StageInv, RowInv, DdlEvents, Event, Kind, Active

LEMMA ReceiveDdlLive == LiveInv /\ ReceiveDdl => LiveInv'
<1> SUFFICES ASSUME LiveInv, ReceiveDdl PROVE LiveInv'
  OBVIOUS
<1>1. StreamInv /\ Active
  BY DEF LiveInv, ReceiveDdl, Active, EventStages
<1>2. TargetKept /\ tx'.source_transactions = 0
  BY <1>1, FlushKeeps DEF ReceiveDdl
<1>3. /\ UNCHANGED <<log, next, rowTxOpen, cached, reconnects, executed, faults>>
      /\ UNCHANGED <<journal, evidence, schema, upgraded>>
      /\ pc' = "ddl"
  BY DEF ReceiveDdl, sourceVars, ddlVars
<1>4. StageInv'
  BY <1>2, <1>3 DEF ReceiveDdl, StageInv, DdlStages, Kind, Event
<1>5. pc' \in Stages \ {"finish", "checkpoint"} /\ faults' \in 0 .. MaxFaults
  BY <1>1, <1>3 DEF Stages, DdlStages, StreamInv, TypeOK
<1>6. StreamInv'
  BY <1>1, <1>2, <1>3, <1>4, <1>5, KeptInv
<1>7. DdlEvents' = DdlEvents
  BY <1>3 DEF DdlEvents
<1>8. DdlTypes' /\ StatusInv' /\ HandlerInv'
  BY <1>3, <1>7 DEF LiveInv, DdlTypes, StatusInv, HandlerInv
<1>9. /\ ckpt \in Nat /\ ckpt' \in Nat /\ next \in Nat /\ ckpt' >= ckpt /\ ckpt' <= next
      /\ durable' \cup uncommitted' = durable \cup uncommitted
      /\ \A i \in DdlEvents : i \in Nat
  BY <1>1, <1>2 DEF TargetKept, StreamInv, TypeOK, DdlEvents
<1>10. PassInv'
  BY <1>3, <1>7, <1>9 DEF LiveInv, PassInv
<1>. QED
  BY <1>6, <1>8, <1>10 DEF LiveInv

(***************************************************************************)
(* A step that writes the journal and the evidence of the event in hand,   *)
(* and nothing else on the target.                                         *)
(***************************************************************************)
LEMMA JournalWriteLive ==
  ASSUME LiveInv, pc \in DdlStages,
         NEW status \in DdlReplayStatus \ {"checkpointed"}, NEW stage,
         stage \in {"blocked", "execute", "verify", "finalize"},
         JournalStep(stage),
         journal' = [journal EXCEPT ![Event] = status],
         evidence' \in [1 .. Len(log) -> {"none", "pre", "post"}],
         faults' \in 0 .. MaxFaults,
         status \in {"none", "translation_pending"} => executed[Event] = 0,
         status = "applied" => schema[Event] = "post",
         stage = "execute" => status = "prepared" /\ executed[Event] = 0,
         stage = "verify" => status = "prepared",
         stage = "finalize" => status = "applied"
  PROVE  LiveInv'
<1>1. /\ Event \in DdlEvents
      /\ Event \in 1 .. Len(log)
      /\ ~(Event <= ckpt)
      /\ Active
  BY EventInHand
<1>2. /\ UNCHANGED <<log, next, tx, rowTxOpen, cached, reconnects>>
      /\ UNCHANGED <<serverTx, uncommitted, durable, executed, ckpt>>
      /\ UNCHANGED <<schema, upgraded>>
      /\ pc' = stage
  BY DEF JournalStep, sourceVars, targetVars
<1>3. StreamInv'
  <2>1. StreamInv /\ TargetKept
    BY <1>2, UnchangedKeeps DEF LiveInv
  <2>2. StageInv'
    BY <1>1, <1>2 DEF LiveInv, StreamInv, StageInv, DdlStages, Kind, Event
  <2>3. pc' \in Stages \ {"finish", "checkpoint"}
    BY <1>2 DEF Stages, DdlStages
  <2>. QED
    BY <1>1, <1>2, <2>1, <2>2, <2>3, KeptInv
<1>4. DdlEvents' = DdlEvents /\ Event' = Event
  BY <1>2 DEF DdlEvents, Event
<1>5. journal \in [1 .. Len(log) -> DdlReplayStatus]
  BY DEF LiveInv, DdlTypes
<1>6. /\ journal'[Event] = status
      /\ \A i \in DdlEvents : i # Event => journal'[i] = journal[i]
  BY <1>1, <1>5 DEF DdlEvents
<1>7. DdlTypes'
  BY <1>1, <1>2, <1>5 DEF LiveInv, DdlTypes
<1>8. StatusInv'
  BY <1>2, <1>4, <1>6 DEF LiveInv, StatusInv
<1>9. HandlerInv'
  BY <1>2, <1>4, <1>6 DEF HandlerInv
<1>10. PassInv'
  <2>1. SUFFICES ASSUME NEW i \in DdlEvents
                 PROVE  /\ i <= next => i <= ckpt
                        /\ journal'[i] = "checkpointed" => i <= ckpt
                        /\ i <= ckpt => journal'[i] = "checkpointed"
                        /\ \A j \in durable \cup uncommitted : i < j => i <= ckpt
    BY <1>2, <1>4 DEF PassInv
  <2>2. CASE i = Event
    BY <1>1, <1>6, <2>2 DEF LiveInv, PassInv
  <2>3. CASE i # Event
    BY <1>6, <2>3 DEF LiveInv, PassInv
  <2>. QED
    BY <2>2, <2>3
<1>. QED
  BY <1>3, <1>7, <1>8, <1>9, <1>10 DEF LiveInv

(* The statuses from which each handler sets out are those of HandlerInv   *)
(* and StatusInv.                                                          *)
LEMMA JournalHandlerLive == LiveInv /\ JournalHandler => LiveInv'
<1> SUFFICES ASSUME LiveInv, JournalHandler PROVE LiveInv'
  OBVIOUS
<1>1. pc = "ddl" /\ pc \in DdlStages
  BY DEF JournalHandler, RecordUntranslated, CaptureFails, Prepare, ReconcilePrepared,
         RecoverBlocked, CheckpointOnly, DdlStages
<1>2. Event \in DdlEvents /\ Event \in 1 .. Len(log)
  BY <1>1, EventInHand
<1>3. /\ journal \in [1 .. Len(log) -> DdlReplayStatus]
      /\ evidence \in [1 .. Len(log) -> {"none", "pre", "post"}]
      /\ schema \in [1 .. Len(log) -> {"pre", "post", "other"}]
      /\ faults \in 0 .. MaxFaults
      /\ journal[Event] \in {"none", "translation_pending"} => executed[Event] = 0
      /\ journal[Event] = "applied" => schema[Event] = "post"
  BY <1>2 DEF LiveInv, DdlTypes, StatusInv, StreamInv, TypeOK
<1>4. CASE RecordUntranslated
  BY <1>1, <1>3, <1>4, JournalWriteLive, Zenon DEF RecordUntranslated, SetStatus, DdlReplayStatus
<1>5. CASE CaptureFails
  <2>1. faults' \in 0 .. MaxFaults
    BY <1>3, <1>5, StreamApplyAssumption DEF CaptureFails
  <2>. QED
    BY <1>1, <1>3, <1>5, <2>1, JournalWriteLive, Zenon DEF CaptureFails, SetStatus, DdlReplayStatus
<1>6. CASE Prepare
  <2>1. evidence' \in [1 .. Len(log) -> {"none", "pre", "post"}]
    BY <1>2, <1>3, <1>6 DEF Prepare
  <2>. QED
    BY <1>1, <1>3, <1>6, <2>1, JournalWriteLive, Zenon DEF Prepare, SetStatus, DdlReplayStatus
<1>7. CASE ReconcilePrepared
  <2>1. CASE ProvenApplied(Event)
    BY <1>1, <1>3, <1>7, <2>1, JournalWriteLive, Zenon
       DEF ReconcilePrepared, ProvenApplied, SetStatus, DdlReplayStatus
  <2>2. CASE ~ProvenApplied(Event)
    BY <1>1, <1>3, <1>7, <2>2, JournalWriteLive
       DEF ReconcilePrepared, SetStatus, DdlReplayStatus
  <2>. QED
    BY <2>1, <2>2
<1>8. CASE RecoverBlocked
  <2>1. CASE schema[Event] = "post"
    BY <1>1, <1>3, <1>8, <2>1, JournalWriteLive, Zenon DEF RecoverBlocked, SetStatus, DdlReplayStatus
  <2>2. CASE schema[Event] # "post"
    <3>1. journal' = [journal EXCEPT ![Event] = "blocked"]
      BY <1>2, <1>3, <1>8, <2>2 DEF RecoverBlocked
    <3>. QED
      BY <1>1, <1>3, <1>8, <2>2, <3>1, JournalWriteLive, Zenon DEF RecoverBlocked, DdlReplayStatus
  <2>. QED
    BY <2>1, <2>2
<1>9. CASE CheckpointOnly
  <2>1. journal' = [journal EXCEPT ![Event] = "applied"]
    BY <1>2, <1>3, <1>9 DEF CheckpointOnly
  <2>. QED
    BY <1>1, <1>3, <1>9, <2>1, JournalWriteLive, Zenon DEF CheckpointOnly, DdlReplayStatus
<1>. QED
  BY <1>4, <1>5, <1>6, <1>7, <1>8, <1>9 DEF JournalHandler

LEMMA SuppressLive == LiveInv /\ SuppressConvergedDdl => LiveInv'
<1> SUFFICES ASSUME LiveInv, SuppressConvergedDdl PROVE LiveInv'
  OBVIOUS
<1>1. pc = "execute" /\ pc \in DdlStages
  BY DEF SuppressConvergedDdl, DdlStages
<1>2. Event \in 1 .. Len(log) /\ journal[Event] = "prepared"
  BY <1>1, EventInHand DEF LiveInv, HandlerInv
<1>3. journal' = [journal EXCEPT ![Event] = "prepared"]
  BY <1>2 DEF SuppressConvergedDdl, LiveInv, DdlTypes
<1>4. /\ evidence' \in [1 .. Len(log) -> {"none", "pre", "post"}]
      /\ faults' \in 0 .. MaxFaults
  BY DEF SuppressConvergedDdl, LiveInv, DdlTypes, StreamInv, TypeOK
<1>. QED
  BY <1>1, <1>3, <1>4, JournalWriteLive, Zenon DEF SuppressConvergedDdl, DdlReplayStatus

LEMMA VerifyLive == LiveInv /\ VerifyPostcondition => LiveInv'
<1> SUFFICES ASSUME LiveInv, VerifyPostcondition PROVE LiveInv'
  OBVIOUS
<1>1. pc \in DdlStages
  BY DEF VerifyPostcondition, DdlStages
<1>2. /\ evidence' \in [1 .. Len(log) -> {"none", "pre", "post"}]
      /\ faults' \in 0 .. MaxFaults
  BY DEF VerifyPostcondition, LiveInv, DdlTypes, StreamInv, TypeOK
<1>3. CASE schema[Event] = "post"
  BY <1>1, <1>2, <1>3, JournalWriteLive DEF VerifyPostcondition, SetStatus, DdlReplayStatus
<1>4. CASE schema[Event] # "post"
  BY <1>1, <1>2, <1>4, JournalWriteLive DEF VerifyPostcondition, SetStatus, DdlReplayStatus
<1>. QED
  BY <1>3, <1>4

(* The statement runs once: only a prepared event that this session has    *)
(* just prepared is executed.                                              *)
LEMMA ExecuteLive == LiveInv /\ ExecuteDdl => LiveInv'
<1> SUFFICES ASSUME LiveInv, ExecuteDdl PROVE LiveInv'
  OBVIOUS
<1>1. /\ pc = "execute" /\ pc' = "verify"
      /\ UNCHANGED <<log, next, tx, rowTxOpen, cached, reconnects, ckpt>>
      /\ UNCHANGED <<journal, evidence, upgraded>>
      /\ durable' = durable \cup uncommitted
      /\ uncommitted' = {}
      /\ serverTx' = FALSE
      /\ executed' = [executed EXCEPT ![Event] = @ + 1]
      /\ schema' = [schema EXCEPT ![Event] = "post"] \/ schema' = [schema EXCEPT ![Event] = "other"]
  BY DEF ExecuteDdl, ImplicitCommit, sourceVars
<1>2. faults' \in 0 .. MaxFaults
  BY StreamApplyAssumption DEF ExecuteDdl, LiveInv, StreamInv, TypeOK
<1>3. /\ Event \in DdlEvents
      /\ Event \in 1 .. Len(log)
      /\ journal[Event] = "prepared" /\ executed[Event] = 0
      /\ Active
  BY <1>1, EventInHand DEF LiveInv, HandlerInv, DdlStages
<1>4. StreamInv'
  <2>1. executed' \in [1 .. Len(log) -> Nat]
    BY <1>1, <1>3 DEF LiveInv, StreamInv, TypeOK
  <2>2. pc' \in Stages /\ serverTx' \in BOOLEAN
    BY <1>1, Zenon DEF Stages, DdlStages
  <2>3. TypeOK'
    BY <1>1, <1>2, <2>1, <2>2 DEF LiveInv, StreamInv, TypeOK, RowsUpTo
  <2>4. StageInv' /\ TxInv'
    BY <1>1 DEF LiveInv, StreamInv, StageInv, TxInv, DdlStages, Kind, Event
  <2>5. RowInv'
    BY <1>1, <1>3 DEF LiveInv, StreamInv, RowInv, NoLoss, RowsUpTo
  <2>. QED
    BY <2>3, <2>4, <2>5 DEF StreamInv
<1>5. DdlEvents' = DdlEvents /\ Event' = Event
  BY <1>1 DEF DdlEvents, Event
<1>6. DdlTypes'
  BY <1>1, <1>3, Zenon DEF LiveInv, DdlTypes
<1>7. /\ executed'[Event] = 1
      /\ \A i \in DdlEvents : i # Event => executed'[i] = executed[i] /\ schema'[i] = schema[i]
  BY <1>1, <1>3 DEF LiveInv, StreamInv, TypeOK, DdlTypes, DdlEvents
<1>8. StatusInv'
  BY <1>1, <1>3, <1>5, <1>7 DEF LiveInv, StatusInv
<1>9. HandlerInv'
  BY <1>1, <1>3, <1>5 DEF HandlerInv
<1>10. PassInv'
  BY <1>1, <1>5 DEF LiveInv, PassInv
<1>. QED
  BY <1>4, <1>6, <1>8, <1>9, <1>10 DEF LiveInv

LEMMA BeginFinalizeLive == LiveInv /\ BeginFinalize => LiveInv'
<1> SUFFICES ASSUME LiveInv, BeginFinalize PROVE LiveInv'
  OBVIOUS
<1>1. /\ pc = "finalize" /\ pc' = "checkpoint"
      /\ UNCHANGED <<log, next, tx, rowTxOpen, reconnects, ckpt, executed, faults>>
      /\ UNCHANGED <<journal, evidence, schema, upgraded>>
      /\ cached' = ckpt
      /\ durable' = durable \cup uncommitted
      /\ uncommitted' = {}
      /\ serverTx' = FALSE
  BY DEF BeginFinalize, ImplicitCommit, sourceVars, ddlVars
<1>2. Active
  BY <1>1, EventInHand DEF DdlStages
<1>3. StreamInv'
  <2>1. pc' \in Stages /\ serverTx' \in BOOLEAN
    BY <1>1, Zenon DEF Stages, DdlStages
  <2>2. TypeOK'
    BY <1>1, <2>1 DEF LiveInv, StreamInv, TypeOK, RowsUpTo
  <2>3. StageInv' /\ TxInv'
    BY <1>1 DEF LiveInv, StreamInv, StageInv, TxInv, DdlStages, Kind, Event
  <2>4. RowInv'
    BY <1>1, <1>2 DEF LiveInv, StreamInv, RowInv, NoLoss, RowsUpTo
  <2>. QED
    BY <2>2, <2>3, <2>4 DEF StreamInv
<1>4. DdlEvents' = DdlEvents /\ Event' = Event
  BY <1>1 DEF DdlEvents, Event
<1>5. DdlTypes' /\ StatusInv' /\ HandlerInv'
  BY <1>1, <1>4 DEF LiveInv, DdlTypes, StatusInv, HandlerInv
<1>6. PassInv'
  BY <1>1, <1>4 DEF LiveInv, PassInv
<1>. QED
  BY <1>3, <1>5, <1>6 DEF LiveInv

(* The one step that passes a DDL event: journal, checkpoint and position  *)
(* move together, and no row waits in the target's transaction.            *)
LEMMA FinalizeLive == LiveInv /\ FinalizeDdl => LiveInv'
<1> SUFFICES ASSUME LiveInv, FinalizeDdl PROVE LiveInv'
  OBVIOUS
<1>1. pc = "checkpoint" /\ pc \in DdlStages
  BY DEF FinalizeDdl, DdlStages
<1>2. /\ Event \in DdlEvents
      /\ Event \in 1 .. Len(log)
      /\ ~(Event <= ckpt)
      /\ Active
      /\ journal[Event] = "applied"
      /\ uncommitted = {}
      /\ Kind \in DdlKind
      /\ tx.source_transactions = 0
      /\ next \in Nat /\ ckpt \in Nat /\ ckpt <= next /\ next < Len(log)
      /\ log \in Seq(EventKind) /\ tx \in TargetTransaction /\ tx.pending <= next
  BY <1>1, EventInHand
     DEF LiveInv, HandlerInv, StreamInv, RowInv, StageInv, TxInv, TypeOK
<1>3. /\ UNCHANGED <<log, tx, rowTxOpen, cached, reconnects, serverTx, uncommitted, durable>>
      /\ UNCHANGED <<executed, faults, evidence, schema, upgraded>>
      /\ ckpt' = next + 1
      /\ next' = next + 1
      /\ pc' \in {"stop", "recv"}
  BY DEF FinalizeDdl, sourceVars, NextStage, Event
<1>4. journal' = [journal EXCEPT ![Event] = "checkpointed"]
  BY <1>2 DEF FinalizeDdl
<1>5. StreamInv'
  <2>1. pc' \in Stages
    BY <1>3 DEF Stages, EventStages
  <2>2. next' \in 0 .. Len(log) /\ ckpt' \in Nat
    BY <1>2, <1>3
  <2>3. TypeOK'
    BY <1>3, <2>1, <2>2 DEF LiveInv, StreamInv, TypeOK, RowsUpTo
  <2>4. StageInv'
    BY <1>3 DEF StageInv, DdlStages
  <2>5. tx'.pending <= next' /\ ~(tx'.source_transactions > 0) /\ uncommitted' = {}
    BY <1>2, <1>3 DEF TargetTransaction
  <2>6. TxInv'
    BY <2>5 DEF TxInv
  <2>7. RowsUpTo(next + 1) \subseteq durable
    <3>1. log[next + 1] # "row"
      BY <1>2 DEF Kind, Event, DdlKind
    <3>. QED
      BY <1>2, <3>1, RowsStep DEF LiveInv, StreamInv, RowInv, RowsUpTo
  <2>8. RowInv'
    BY <1>2, <1>3, <2>7 DEF RowInv, NoLoss, RowsUpTo
  <2>. QED
    BY <2>3, <2>4, <2>6, <2>8 DEF StreamInv
<1>6. DdlEvents' = DdlEvents /\ \A i \in DdlEvents : i \in Nat
  BY <1>3 DEF DdlEvents
<1>7. journal \in [1 .. Len(log) -> DdlReplayStatus]
  BY DEF LiveInv, DdlTypes
<1>8. /\ journal'[Event] = "checkpointed"
      /\ \A i \in DdlEvents : i # Event => journal'[i] = journal[i]
  BY <1>2, <1>4, <1>7 DEF DdlEvents
<1>9. DdlTypes'
  BY <1>3, <1>4, <1>7, Zenon DEF LiveInv, DdlTypes, DdlReplayStatus
<1>10. StatusInv'
  BY <1>2, <1>3, <1>6, <1>8 DEF LiveInv, StatusInv
<1>11. HandlerInv'
  BY <1>3 DEF HandlerInv
<1>12. PassInv'
  <2>1. \A j \in durable \cup uncommitted : j \in Nat
    BY DEF LiveInv, StreamInv, TypeOK, RowsUpTo, RowsOf
  <2>2. SUFFICES ASSUME NEW i \in DdlEvents
                 PROVE  /\ i <= next' => i <= ckpt'
                        /\ journal'[i] = "checkpointed" => i <= ckpt'
                        /\ i <= ckpt' => journal'[i] = "checkpointed"
                        /\ \A j \in durable \cup uncommitted : i < j => i <= ckpt'
    BY <1>3, <1>6 DEF PassInv
  <2>3. CASE i = Event
    BY <1>2, <1>3, <1>8, <2>3 DEF Event
  <2>4. CASE i # Event
    BY <1>2, <1>3, <1>6, <1>8, <2>1, <2>4 DEF LiveInv, PassInv, Event
  <2>. QED
    BY <2>3, <2>4
<1>. QED
  BY <1>5, <1>9, <1>10, <1>11, <1>12 DEF LiveInv

(* A barrier retried, a release deployed: the session is dropped. *)
LEMMA SessionLive == LiveInv /\ (RetryBlocked \/ Deploy) => LiveInv'
<1> SUFFICES ASSUME LiveInv, RetryBlocked \/ Deploy PROVE LiveInv'
  OBVIOUS
<1>1. /\ UNCHANGED <<log, durable, executed, ckpt, journal, evidence, schema>>
      /\ uncommitted' = {}
      /\ pc' \in {"recv", "down"}
      /\ next' = next \/ next' = ckpt
  BY DEF RetryBlocked, Deploy, StartSession, DropTargetTransaction, sourceVars, ddlVars
<1>2. upgraded' \in BOOLEAN
  BY Zenon DEF RetryBlocked, Deploy, ddlVars, LiveInv, DdlTypes
<1>3. StreamInv'
  <2>1. CASE RetryBlocked
    <3>1. StreamInv /\ reconnects' \in 0 .. MaxReconnects /\ StartSession(ckpt)
      BY <2>1 DEF RetryBlocked, LiveInv, StreamInv, TypeOK
    <3>. QED
      BY <3>1, StartInv
  <2>2. CASE Deploy
    <3>1. /\ StreamInv
          /\ DropTargetTransaction
          /\ UNCHANGED <<log, next, rowTxOpen, cached, reconnects>>
          /\ faults' \in 0 .. MaxFaults
          /\ pc' \in {"retry", "down"}
      BY <2>2 DEF Deploy, LiveInv, StreamInv, TypeOK, sourceVars
    <3>. QED
      BY <3>1, DropInv
  <2>. QED
    BY <2>1, <2>2
<1>4. DdlEvents' = DdlEvents /\ \A i \in DdlEvents : i \in Nat
  BY <1>1 DEF DdlEvents
<1>5. DdlTypes' /\ StatusInv' /\ HandlerInv'
  BY <1>1, <1>2, <1>4 DEF LiveInv, DdlTypes, StatusInv, HandlerInv
<1>6. PassInv'
  BY <1>1, <1>4 DEF LiveInv, PassInv
<1>. QED
  BY <1>3, <1>5, <1>6 DEF LiveInv

LEMMA RepairLive == LiveInv /\ RepairSchema => LiveInv'
<1> SUFFICES ASSUME LiveInv, RepairSchema PROVE LiveInv'
  OBVIOUS
<1>1. UNCHANGED vars /\ UNCHANGED <<journal, evidence, upgraded>>
  BY DEF RepairSchema
<1>2. StreamInv'
  BY <1>1, StutterInv DEF LiveInv
<1>3. /\ UNCHANGED <<log, pc, next, executed, ckpt, durable, uncommitted>>
  BY <1>1 DEF vars, sourceVars, sessionVars, targetVars
<1>4. DdlEvents' = DdlEvents /\ Event' = Event
  BY <1>3 DEF DdlEvents, Event
<1>5. /\ schema' \in [1 .. Len(log) -> {"pre", "post", "other"}]
      /\ \A i \in DdlEvents : schema[i] = "post" => schema'[i] = "post"
  BY DEF RepairSchema, LiveInv, DdlTypes, DdlEvents
<1>6. DdlTypes' /\ StatusInv' /\ HandlerInv'
  BY <1>1, <1>3, <1>4, <1>5 DEF LiveInv, DdlTypes, StatusInv, HandlerInv
<1>7. PassInv'
  BY <1>1, <1>3, <1>4 DEF LiveInv, PassInv
<1>. QED
  BY <1>2, <1>6, <1>7 DEF LiveInv

-----------------------------------------------------------------------------

LEMMA LiveInitInv == LiveInit => LiveInv
<1> SUFFICES ASSUME LiveInit PROVE LiveInv
  OBVIOUS
<1>1. StreamInv
  BY InitInv DEF LiveInit
<1>2. /\ pc = "recv" /\ next = 0 /\ ckpt = 0
      /\ durable = {} /\ uncommitted = {}
      /\ executed = [i \in 1 .. Len(log) |-> 0]
  BY DEF LiveInit, Init
<1>3. DdlTypes
  BY Zenon DEF LiveInit, DdlTypes, DdlReplayStatus
<1>4. \A i \in DdlEvents : i \in Nat \ {0} /\ journal[i] = "none" /\ executed[i] = 0
  BY <1>2 DEF LiveInit, DdlEvents
<1>5. StatusInv /\ HandlerInv /\ PassInv
  BY <1>2, <1>4 DEF StatusInv, HandlerInv, PassInv
<1>. QED
  BY <1>1, <1>3, <1>5 DEF LiveInv

LEMMA LiveStutter == LiveInv /\ UNCHANGED liveVars => LiveInv'
<1> SUFFICES ASSUME LiveInv, UNCHANGED liveVars PROVE LiveInv'
  OBVIOUS
<1>1. UNCHANGED vars /\ UNCHANGED <<journal, evidence, schema, upgraded>>
  BY DEF liveVars, ddlVars
<1>2. UNCHANGED <<log, pc, next, executed, ckpt, durable, uncommitted>>
  BY <1>1 DEF vars, sourceVars, sessionVars, targetVars
<1>3. StreamInv'
  BY <1>1, StutterInv DEF LiveInv
<1>4. DdlEvents' = DdlEvents /\ Event' = Event
  BY <1>2 DEF DdlEvents, Event
<1>5. DdlTypes' /\ StatusInv' /\ HandlerInv' /\ PassInv'
  BY <1>1, <1>2, <1>4 DEF LiveInv, DdlTypes, StatusInv, HandlerInv, PassInv
<1>. QED
  BY <1>3, <1>5 DEF LiveInv

LEMMA LiveNextInv == LiveInv /\ LiveNext => LiveInv'
<1>1. LiveNext => \/ Next /\ UNCHANGED ddlVars
                  \/ DdlHandler \/ RetryBlocked \/ Deploy \/ RepairSchema
  BY DEF LiveNext, Next, SessionStep, StartStep
<1>. QED
  BY <1>1, StreamStepLive, ReceiveDdlLive, JournalHandlerLive, ExecuteLive, SuppressLive,
     VerifyLive, BeginFinalizeLive, FinalizeLive, SessionLive, RepairLive DEF DdlHandler

LEMMA LiveInvariance == LiveSpec => []LiveInv
<1>1. LiveInv /\ [LiveNext]_liveVars => LiveInv'
  BY LiveNextInv, LiveStutter
<1>. QED
  BY LiveInitInv, <1>1, PTL DEF LiveSpec

(* With the DDL handlers too, every row before the stored checkpoint is    *)
(* committed, although DDL commits the target's transaction implicitly and *)
(* the handlers write the checkpoint themselves.                           *)
THEOREM LiveNoLoss == LiveSpec => []NoLoss
<1>1. LiveInv => NoLoss
  BY DEF LiveInv, StreamInv, RowInv
<1>. QED
  BY LiveInvariance, <1>1, PTL

(* A translated DDL event is executed at most once, whatever crashes,      *)
(* retries, releases and repairs come between its journal writes.          *)
THEOREM LiveDdlAtMostOnce == LiveSpec => []DdlAtMostOnce
<1>1. LiveInv => DdlAtMostOnce
  BY DEF LiveInv, StatusInv, DdlAtMostOnce
<1>. QED
  BY LiveInvariance, <1>1, PTL

(* A DDL event the checkpoint has passed has its expected state on the     *)
(* target.                                                                 *)
THEOREM LivePassedDdlConverged == LiveSpec => []PassedDdlConverged
<1>1. LiveInv => PassedDdlConverged
  <2> SUFFICES ASSUME LiveInv, NEW i \in DdlEvents, ckpt >= i PROVE schema[i] = "post"
    BY DEF PassedDdlConverged
  <2>1. i <= ckpt
    BY DEF LiveInv, StreamInv, TypeOK, DdlEvents
  <2>. QED
    BY <2>1 DEF LiveInv, StatusInv, PassInv
<1>. QED
  BY LiveInvariance, <1>1, PTL

(* Journal and checkpoint agree on which DDL events are done. *)
THEOREM LiveJournalMatchesCheckpoint == LiveSpec => []JournalMatchesCheckpoint
<1>1. LiveInv => JournalMatchesCheckpoint
  <2> SUFFICES ASSUME LiveInv, NEW i \in DdlEvents
               PROVE  journal[i] = "checkpointed" <=> ckpt >= i
    BY DEF JournalMatchesCheckpoint
  <2>1. i <= ckpt <=> ckpt >= i
    BY DEF LiveInv, StreamInv, TypeOK, DdlEvents
  <2>. QED
    BY <2>1 DEF LiveInv, PassInv
<1>. QED
  BY LiveInvariance, <1>1, PTL

(* No row is committed ahead of a DDL event that precedes it in the        *)
(* binlog: the row's table has the schema the row was written under.       *)
THEOREM LiveNoRowOvertakesDdl == LiveSpec => []NoRowOvertakesDdl
<1>1. LiveInv => NoRowOvertakesDdl
  <2> SUFFICES ASSUME LiveInv, NEW i \in DdlEvents, NEW j \in durable, j > i
               PROVE  journal[i] = "checkpointed"
    BY DEF NoRowOvertakesDdl
  <2>1. i < j
    BY DEF LiveInv, StreamInv, TypeOK, DdlEvents, RowsUpTo, RowsOf
  <2>. QED
    BY <2>1 DEF LiveInv, PassInv
<1>. QED
  BY LiveInvariance, <1>1, PTL

(* The startup barrier never shuts the stream out: the checkpoint stays at *)
(* or before the start of every unresolved event.                          *)
THEOREM LiveBarrierNeverOvertaken == LiveSpec => []BarrierNeverOvertaken
<1>1. LiveInv => BarrierNeverOvertaken
  <2> SUFFICES ASSUME LiveInv, NEW i \in DdlEvents, Barrier(i) PROVE ckpt <= i - 1
    BY DEF BarrierNeverOvertaken, enforce_no_overtake
  <2>1. ~(i <= ckpt)
    BY DEF LiveInv, PassInv, Barrier
  <2>. QED
    BY <2>1 DEF LiveInv, StreamInv, TypeOK, DdlEvents
<1>. QED
  BY LiveInvariance, <1>1, PTL

-----------------------------------------------------------------------------
(* The refinement of Replica, with the DDL handlers. *)

DdlStep == DdlHandler \/ RetryBlocked \/ Deploy \/ RepairSchema

LEMMA LiveSteps ==
  ASSUME LiveNext PROVE Next \/ DdlStep
  BY DEF LiveNext, Next, SessionStep, StartStep, DdlStep

(* A DDL step leaves the server's transaction alone, commits it through a  *)
(* flush or implicitly, or drops it with the session.                      *)
LEMMA DdlRefines ==
  ASSUME LiveInv, LiveInv', DdlStep PROVE RefiningStep /\ TransactionKept
<1>1. /\ next \in Nat /\ next' \in Nat /\ ckpt \in Nat /\ ckpt' \in Nat
      /\ ckpt <= next /\ ckpt' <= next'
  BY DEF LiveInv, StreamInv, TypeOK, RowInv
<1>2. CASE ReceiveDdl
  <2>1. /\ log' = log /\ next' = next /\ pc = "recv" /\ pc' = "ddl"
        /\ flush_grouped_transaction(tx)
    BY <1>2 DEF ReceiveDdl, sourceVars
  <2>2. Reached = next /\ Reached' = next /\ Active
    BY <2>1 DEF Reached, Active, EventStages
  <2>3. \/ UNCHANGED <<durable, uncommitted, serverTx, ckpt>>
        \/ durable' = durable \cup uncommitted /\ uncommitted' = {} /\ ckpt' >= ckpt
    BY <2>1 DEF flush_grouped_transaction, commit_target_group, checkpoint_advances
  <2>. QED
    BY <1>1, <2>1, <2>2, <2>3 DEF RefiningStep, TransactionKept
<1>3. CASE JournalHandler \/ SuppressConvergedDdl \/ VerifyPostcondition
  <2>1. /\ pc \in {"ddl", "execute", "verify"} /\ pc' \in {"blocked", "execute", "finalize", "verify"}
        /\ UNCHANGED <<log, next, durable, uncommitted, serverTx, ckpt>>
    BY <1>3 DEF JournalHandler, RecordUntranslated, CaptureFails, Prepare, ReconcilePrepared,
                RecoverBlocked, CheckpointOnly, SuppressConvergedDdl, VerifyPostcondition,
                JournalStep, sourceVars, targetVars
  <2>2. Reached = next /\ Reached' = next
    BY <2>1 DEF Reached
  <2>. QED
    BY <1>1, <2>1, <2>2 DEF RefiningStep, TransactionKept
<1>4. CASE ExecuteDdl \/ BeginFinalize
  <2>1. /\ pc \in {"execute", "finalize"} /\ ImplicitCommit
        /\ UNCHANGED <<log, next, ckpt>>
    BY <1>4 DEF ExecuteDdl, BeginFinalize, sourceVars
  <2>2. Reached = next /\ Active
    BY <2>1 DEF Reached, Active, DdlStages
  <2>. QED
    BY <1>1, <2>1, <2>2 DEF RefiningStep, TransactionKept, ImplicitCommit
<1>5. CASE FinalizeDdl
  <2>1. /\ pc = "checkpoint" /\ ckpt' = next + 1
        /\ UNCHANGED <<log, durable, uncommitted, serverTx>>
    BY <1>5 DEF FinalizeDdl, Event, sourceVars
  <2>2. uncommitted = {}
    BY <2>1 DEF LiveInv, StreamInv, RowInv
  <2>. QED
    BY <1>1, <2>1, <2>2 DEF RefiningStep, TransactionKept
<1>6. CASE RetryBlocked \/ Deploy
  <2>1. UNCHANGED <<log, durable, ckpt>> /\ uncommitted' = {}
    BY <1>6 DEF RetryBlocked, Deploy, StartSession, DropTargetTransaction, sourceVars
  <2>. QED
    BY <1>1, <2>1 DEF RefiningStep, TransactionKept
<1>7. CASE RepairSchema
  <2>1. UNCHANGED <<log, pc, next, durable, uncommitted, serverTx, ckpt>>
    BY <1>7 DEF RepairSchema, vars, sourceVars, sessionVars, targetVars
  <2>2. Reached' = Reached /\ Reached \in Nat
    BY <1>1, <2>1 DEF Reached, Event
  <2>. QED
    BY <1>1, <2>1, <2>2 DEF RefiningStep, TransactionKept
<1>. QED
  BY <1>2, <1>3, <1>4, <1>5, <1>6, <1>7 DEF DdlStep, DdlHandler

LEMMA LiveStepRefines ==
  ASSUME LiveInv, LiveInv', PrefixInv, WaitInv, [LiveNext]_liveVars
  PROVE  PrefixInv' /\ WaitInv' /\ [Promise!Next]_(Promise!replicaVars)
<1>1. StreamInv /\ StreamInv'
  BY DEF LiveInv
<1>2. CASE Next
  <2>1. PrefixInv'
    BY <1>1, <1>2, HandleEventPrefix, OthersKeepTransaction, TransactionKeptPrefix
  <2>. QED
    BY <1>1, <1>2, <2>1, StepRefines
<1>3. CASE DdlStep
  BY <1>1, <1>3, DdlRefines, RefiningStepRefines, TransactionKeptPrefix DEF RefiningStep
<1>4. CASE UNCHANGED liveVars
  <2>1. UNCHANGED vars
    BY <1>4 DEF liveVars
  <2>2. PrefixInv'
    BY <2>1, TransactionKeptPrefix DEF vars, sourceVars, sessionVars, targetVars, TransactionKept
  <2>. QED
    BY <1>1, <2>1, <2>2, StepRefines
<1>. QED
  BY <1>2, <1>3, <1>4, LiveSteps

LEMMA LiveRefinement == LiveSpec => [](PrefixInv /\ WaitInv) /\ IsReplica
<1>1. LiveInit => PrefixInv /\ WaitInv /\ Promise!Init
  BY DEF LiveInit, Init, PrefixInv, DurablePrefix, WaitInv, Promise!Init
<1>. QED
  BY LiveInvariance, <1>1, LiveStepRefines, PTL DEF LiveSpec, IsReplica, Promise!Spec

(* With the DDL handlers too, the stream implements Replica: implicit      *)
(* commits, the handlers' own checkpoints, retries at a barrier, releases  *)
(* and repairs never commit a row out of order or pass one by.             *)
THEOREM LiveIsReplica == LiveSpec => IsReplica
  BY LiveRefinement, PTL

(* The committed rows stay a prefix of the binlog although DDL commits     *)
(* the target's transaction wherever it stands.                            *)
THEOREM LiveDurablePrefix == LiveSpec => []DurablePrefix
<1>1. PrefixInv => DurablePrefix
  BY DEF PrefixInv
<1>. QED
  BY LiveRefinement, <1>1, PTL

(* The types of the whole state, journal and schema included. *)
THEOREM LiveTypes == LiveSpec => []LiveTypeOK
<1>1. LiveInv => LiveTypeOK
  BY DEF LiveInv, StreamInv, DdlTypes, LiveTypeOK
<1>. QED
  BY LiveInvariance, <1>1, PTL

(* The stored checkpoint never moves back, whichever of the row path, the  *)
(* grouped commit and finalize_automatic_ddl_checkpoint writes it.         *)
THEOREM LiveCheckpointMonotone == LiveSpec => CheckpointMonotone
<1>1. ASSUME LiveInv, LiveInv', [LiveNext]_liveVars PROVE [ckpt' >= ckpt]_vars
  <2>1. CASE Next
    BY <1>1, <2>1, StreamAdvances DEF LiveInv
  <2>2. CASE DdlStep
    BY <1>1, <2>2, DdlRefines DEF RefiningStep
  <2>3. CASE UNCHANGED liveVars
    BY <2>3 DEF liveVars
  <2>. QED
    BY <1>1, <2>1, <2>2, <2>3, LiveSteps
<1>. QED
  BY LiveInvariance, <1>1, PTL DEF LiveSpec, CheckpointMonotone

-----------------------------------------------------------------------------
(* The edges of the journal and its evidence. *)

(* An event has no evidence before it is prepared. *)
EvidenceInv ==
  \A i \in DOMAIN evidence : journal[i] \in {"none", "translation_pending"} => evidence[i] = "none"

JournalEdge(i) ==
  /\ journal'[i] # journal[i] => <<journal[i], journal'[i]>> \in JournalEdges
  /\ evidence[i] # "none" => evidence'[i] = evidence[i]
  /\ journal'[i] \in {"none", "translation_pending"} => evidence'[i] = "none"

LEMMA LiveJournalEdge ==
  ASSUME LiveInv, EvidenceInv, [LiveNext]_liveVars,
         NEW i \in 1 .. Len(log)
  PROVE  JournalEdge(i)
<1>1. /\ journal \in [1 .. Len(log) -> DdlReplayStatus]
      /\ evidence \in [1 .. Len(log) -> {"none", "pre", "post"}]
      /\ schema \in [1 .. Len(log) -> {"pre", "post", "other"}]
      /\ journal[i] \in {"none", "translation_pending"} => evidence[i] = "none"
  BY DEF LiveInv, DdlTypes, EvidenceInv
<1>2. CASE UNCHANGED <<journal, evidence>>
  BY <1>1, <1>2 DEF JournalEdge
<1>3. CASE JournalHandler \/ VerifyPostcondition
  <2>1. pc = "verify" => journal[Event] = "prepared"
    BY DEF LiveInv, HandlerInv
  <2>2. CASE RecordUntranslated \/ CaptureFails
    BY <1>1, <2>2 DEF RecordUntranslated, CaptureFails, SetStatus, JournalEdge, JournalEdges
  <2>3. CASE Prepare
    BY <1>1, <2>3 DEF Prepare, SetStatus, JournalEdge, JournalEdges
  <2>4. CASE ReconcilePrepared
    BY <1>1, <2>4 DEF ReconcilePrepared, SetStatus, JournalEdge, JournalEdges
  <2>5. CASE RecoverBlocked \/ CheckpointOnly
    BY <1>1, <2>5 DEF RecoverBlocked, CheckpointOnly, SetStatus, JournalEdge, JournalEdges
  <2>6. CASE VerifyPostcondition
    BY <1>1, <2>1, <2>6 DEF VerifyPostcondition, SetStatus, JournalEdge, JournalEdges
  <2>. QED
    BY <1>3, <2>2, <2>3, <2>4, <2>5, <2>6 DEF JournalHandler
<1>4. CASE FinalizeDdl
  BY <1>1, <1>4 DEF FinalizeDdl, JournalEdge, JournalEdges
<1>5. CASE ~(JournalHandler \/ VerifyPostcondition \/ FinalizeDdl)
  <2>1. UNCHANGED <<journal, evidence>>
    BY <1>5 DEF LiveNext, DdlHandler, ReceiveDdl, ExecuteDdl, SuppressConvergedDdl, JournalStep,
                BeginFinalize, RetryBlocked, Deploy, RepairSchema, ddlVars, liveVars
  <2>. QED
    BY <1>2, <2>1
<1>. QED
  BY <1>3, <1>4, <1>5

LEMMA LiveEdges ==
  ASSUME LiveInv, LiveInv', EvidenceInv, [LiveNext]_liveVars
  PROVE  /\ EvidenceInv'
         /\ \A i \in DOMAIN journal :
              journal'[i] # journal[i] => <<journal[i], journal'[i]>> \in JournalEdges
         /\ \A i \in DOMAIN evidence : evidence[i] # "none" => evidence'[i] = evidence[i]
<1>1. log' = log
  <2>1. CASE Next
    BY <2>1, LogUnchanged
  <2>2. CASE DdlStep
    BY <2>2, DdlRefines DEF RefiningStep
  <2>3. CASE UNCHANGED liveVars
    BY <2>3 DEF liveVars, vars, sourceVars
  <2>. QED
    BY <2>1, <2>2, <2>3, LiveSteps
<1>2. /\ DOMAIN journal = 1 .. Len(log)
      /\ DOMAIN evidence = 1 .. Len(log)
      /\ DOMAIN evidence' = 1 .. Len(log)
  BY <1>1 DEF LiveInv, DdlTypes
<1>3. \A i \in 1 .. Len(log) : JournalEdge(i)
  BY LiveJournalEdge
<1>. QED
  BY <1>2, <1>3, Zenon DEF JournalEdge, EvidenceInv

LEMMA EvidenceInvariance == LiveSpec => []EvidenceInv
<1>1. LiveInit => EvidenceInv
  BY DEF LiveInit, EvidenceInv
<1>. QED
  BY LiveInvariance, <1>1, LiveEdges, PTL DEF LiveSpec

(* The status of a journal entry moves only along the edges its handlers   *)
(* and the table's update guard allow: never out of "checkpointed", never  *)
(* back to "prepared" once the target may have been changed.               *)
THEOREM LiveJournalTransitions == LiveSpec => JournalTransitions
<1>1. ASSUME LiveInv, LiveInv', EvidenceInv, [LiveNext]_liveVars
      PROVE  [\A i \in DOMAIN journal :
                journal'[i] # journal[i] => <<journal[i], journal'[i]>> \in JournalEdges]_liveVars
  BY <1>1, LiveEdges
<1>. QED
  BY LiveInvariance, EvidenceInvariance, <1>1, PTL DEF LiveSpec, JournalTransitions

(* The recorded pre-state, by which a restart tells an executed statement  *)
(* from one that never ran, is never rewritten.                            *)
THEOREM LiveEvidenceImmutable == LiveSpec => EvidenceImmutable
<1>1. ASSUME LiveInv, LiveInv', EvidenceInv, [LiveNext]_liveVars
      PROVE  [\A i \in DOMAIN evidence : evidence[i] # "none" => evidence'[i] = evidence[i]]_liveVars
  BY <1>1, LiveEdges
<1>. QED
  BY LiveInvariance, EvidenceInvariance, <1>1, PTL DEF LiveSpec, EvidenceImmutable

-----------------------------------------------------------------------------
(***************************************************************************)
(* The ways to run the stream: a bounded run stops exactly where it was    *)
(* told to, a run without grouping commits each source transaction as a    *)
(* whole and never again, and a grouped run holds back fewer finished      *)
(* transactions than a group may have.                                     *)
(***************************************************************************)

(***************************************************************************)
(* The bounded run.  Nothing behind the stop position is ever applied, and *)
(* when no source transaction is open every waiting row belongs to one     *)
(* that has been counted: a stop that finds nothing counted has nothing to *)
(* commit.                                                                 *)
(***************************************************************************)
WithinStop ==
  StopPosition # NoCoordinate => durable \cup uncommitted \subseteq RowsUpTo(StopPosition)

UncountedWait == ~rowTxOpen /\ tx.source_transactions = 0 /\ uncommitted # {}

BoundedInv ==
  /\ WithinStop
  /\ pc = "apply" /\ StopPosition # NoCoordinate => Event <= StopPosition
  /\ pc = "stop" => next = StopPosition /\ StopPosition # NoCoordinate
  /\ UncountedWait => pc = "finish" /\ Kind = "row"
  /\ StopIsExact

(* A flush between two events only moves rows from waiting to committed,   *)
(* and leaves nothing uncounted that was not so before.                    *)
LEMMA FlushBounds ==
  ASSUME flush_grouped_transaction(tx) \/ UNCHANGED <<tx, ckpt, durable, uncommitted, serverTx>>
  PROVE  /\ durable' \cup uncommitted' = durable \cup uncommitted
         /\ \/ uncommitted' = {}
            \/ uncommitted' = uncommitted /\ tx'.source_transactions = tx.source_transactions
BY DEF flush_grouped_transaction, commit_target_group

LEMMA BoundedFlush ==
  ASSUME BoundedInv, UNCHANGED <<log, next, rowTxOpen>>, pc = "recv",
         flush_grouped_transaction(tx) \/ UNCHANGED <<tx, ckpt, durable, uncommitted, serverTx>>,
         pc' \in {"recv", "apply", "stop", "retry"},
         pc' = "apply" /\ StopPosition # NoCoordinate => Event <= StopPosition,
         pc' = "stop" => next = StopPosition /\ StopPosition # NoCoordinate
  PROVE  BoundedInv'
<1>1. WithinStop'
  BY FlushBounds DEF BoundedInv, WithinStop, RowsUpTo
<1>2. ~UncountedWait'
  BY FlushBounds DEF BoundedInv, UncountedWait
<1>. QED
  BY <1>1, <1>2 DEF BoundedInv, StopIsExact, Event

(* A session ends or begins with nothing in the server's transaction. *)
LEMMA BoundedEmpty ==
  ASSUME BoundedInv, log' = log, durable' = durable, uncommitted' = {},
         pc' \in {"retry", "down", "recv"}
  PROVE  BoundedInv'
  BY DEF BoundedInv, WithinStop, UncountedWait, StopIsExact, RowsUpTo

LEMMA BoundedQuiet ==
  ASSUME StreamInv, BoundedInv, [Next]_vars, ~HandleEvent, ~FinishEvent, ~CompleteStop
  PROVE  BoundedInv'
<1>1. CASE Receive
  <2>1. Event \in Nat /\ StopPosition \in Nat
    BY StreamApplyAssumption DEF Event, StreamInv, TypeOK
  <2>2. StopPosition # NoCoordinate => Event <= StopPosition
    BY <1>1, <2>1 DEF Receive, PastStopPosition
  <2>. QED
    BY <1>1, <2>2, BoundedFlush, Zenon DEF Receive, sourceVars
<1>2. CASE Heartbeat
  BY <1>2, BoundedFlush, Zenon DEF Heartbeat, sourceVars
<1>3. CASE StreamEnds
  <2>1. CASE StopPosition # NoCoordinate
    BY <1>3, <2>1, BoundedEmpty DEF StreamEnds, DropTargetTransaction, sourceVars
  <2>2. CASE StopPosition = NoCoordinate
    BY <1>3, <2>2, BoundedFlush DEF StreamEnds, sourceVars
  <2>. QED
    BY <2>1, <2>2
<1>4. CASE GroupTimesOut
  <2>1. /\ UNCHANGED <<log, pc, next, rowTxOpen, durable, uncommitted>>
        /\ tx'.source_transactions = tx.source_transactions
    BY <1>4 DEF GroupTimesOut, sourceVars, targetVars, StreamInv, TypeOK, TargetTransaction
  <2>. QED
    BY <2>1 DEF BoundedInv, WithinStop, UncountedWait, StopIsExact, RowsUpTo, Event, Kind
<1>5. CASE UNCHANGED vars
  BY <1>5 DEF BoundedInv, WithinStop, UncountedWait, StopIsExact, RowsUpTo, Event, Kind,
              vars, sourceVars, sessionVars, targetVars
<1>6. CASE RefuseStop \/ RejectDml \/ SourceError \/ GiveUp \/ Crash \/ Reconnect \/ Restart
  <2>1. /\ log' = log /\ durable' = durable /\ uncommitted' = {}
        /\ pc' \in {"retry", "down", "recv"}
    BY <1>6 DEF RefuseStop, RejectDml, SourceError, GiveUp, Crash, DropTargetTransaction,
                Reconnect, Restart, StartSession, sourceVars
  <2>. QED
    BY <2>1, BoundedEmpty
<1>. QED
  BY <1>1, <1>2, <1>3, <1>4, <1>5, <1>6 DEF Next, EventStep, SessionStep, TimeStep

LEMMA BoundedHandles == ASSUME StreamInv, BoundedInv, HandleEvent PROVE BoundedInv'
<1>1. /\ pc = "apply" /\ pc' = "finish"
      /\ UNCHANGED <<log, next, rowTxOpen>>
      /\ tx'.source_transactions = tx.source_transactions
      /\ next \in Nat /\ next < Len(log) /\ log \in Seq(EventKind)
  BY DEF HandleEvent, sourceVars, OpenedTx, StreamInv, TypeOK, StageInv, TargetTransaction
<1>2. Kind' = Kind
  BY <1>1 DEF Kind, Event
<1>3. CASE Kind = "row"
  <2>1. durable' \cup uncommitted' = durable \cup uncommitted \cup {Event}
    BY <1>3 DEF HandleEvent, ApplyRow, ReplayRawStatement, PassOver
  <2>2. StopPosition # NoCoordinate => Event \in RowsUpTo(StopPosition)
    BY <1>1, <1>3, StreamApplyAssumption DEF BoundedInv, RowsUpTo, RowsOf, Kind, Event
  <2>3. WithinStop'
    BY <1>1, <2>1, <2>2 DEF BoundedInv, WithinStop, RowsUpTo
  <2>. QED
    BY <1>1, <1>2, <1>3, <2>3 DEF BoundedInv, StopIsExact
<1>4. CASE Kind # "row"
  <2>1. /\ durable' \cup uncommitted' = durable \cup uncommitted
        /\ uncommitted' \subseteq uncommitted
    BY <1>4 DEF HandleEvent, ApplyRow, ReplayRawStatement, PassOver
  <2>2. WithinStop' /\ ~UncountedWait'
    BY <1>1, <2>1 DEF BoundedInv, WithinStop, UncountedWait, RowsUpTo
  <2>. QED
    BY <1>1, <2>2 DEF BoundedInv, StopIsExact
<1>. QED
  BY <1>3, <1>4

(* The XID that closes the source transaction counts it. *)
LEMMA BoundedFinishes == ASSUME StreamInv, BoundedInv, FinishEvent PROVE BoundedInv'
<1>1. /\ pc = "finish" /\ pc' \in {"recv", "stop"}
      /\ log' = log /\ next' = Event
      /\ pc' = "stop" => Event = StopPosition
      /\ rowTxOpen' = LeavesRowTxOpen(Kind)
      /\ tx \in TargetTransaction
      /\ Event # NoCoordinate
  BY DEF FinishEvent, NextStage, sourceVars, StreamInv, TypeOK, Event, NoCoordinate
<1>2. durable' \cup uncommitted' = durable \cup uncommitted
  BY DEF FinishEvent, SaveInGroup, SaveOutsideGroup, commit_target_group
<1>3. ASSUME UncountedWait' PROVE FALSE
  <2>0. ~rowTxOpen' /\ tx'.source_transactions = 0 /\ uncommitted' # {}
    BY <1>3 DEF UncountedWait
  <2>1. Kind # "row" /\ (Kind = "xid" \/ ~rowTxOpen)
    BY <1>1, <2>0 DEF LeavesRowTxOpen
  <2>2. uncommitted' = uncommitted /\ tx.open
    BY <2>0 DEF FinishEvent, SaveInGroup, SaveOutsideGroup, commit_target_group, StreamInv, TxInv
  <2> DEFINE recorded == IF commits_transaction(Kind) THEN record_source_transaction(tx) ELSE tx
             t == remember_transaction_checkpoint(recorded)
  <2>3. tx' = t
    BY <2>0, <2>2 DEF FinishEvent, SaveInGroup, SaveOutsideGroup, commit_target_group
  <2>4. t.source_transactions = IF commits_transaction(Kind) THEN tx.source_transactions + 1
                                                              ELSE tx.source_transactions
    BY <1>1, <2>2 DEF remember_transaction_checkpoint, record_source_transaction, TargetTransaction
  <2> HIDE DEF t, recorded
  <2>5. ~commits_transaction(Kind) /\ tx.source_transactions = 0
    BY <1>1, <2>0, <2>3, <2>4 DEF TargetTransaction
  <2>6. UncountedWait
    BY <2>0, <2>1, <2>2, <2>5 DEF UncountedWait, commits_transaction
  <2>. QED
    BY <2>1, <2>6 DEF BoundedInv
<1>4. WithinStop'
  BY <1>1, <1>2 DEF BoundedInv, WithinStop, RowsUpTo
<1>. QED
  BY <1>1, <1>3, <1>4 DEF BoundedInv, StopIsExact

LEMMA BoundedStops == ASSUME StreamInv, BoundedInv, CompleteStop PROVE BoundedInv'
<1>1. CASE rowTxOpen
  BY <1>1, BoundedEmpty DEF CompleteStop, DropTargetTransaction, sourceVars
<1>2. CASE ~rowTxOpen
  <2>1. /\ pc = "stop" /\ pc' = "stopped" /\ log' = log /\ uncommitted' = {}
        /\ next = StopPosition /\ StopPosition # NoCoordinate /\ Active
        /\ tx.source_transactions = 0 => durable' = durable
        /\ tx.source_transactions # 0 => durable' = durable \cup uncommitted
    BY <1>2 DEF CompleteStop, sourceVars, BoundedInv, Active, EventStages
  <2>2. durable' = durable \cup uncommitted
    BY <1>2, <2>1 DEF BoundedInv, UncountedWait
  <2>3. durable' = RowsUpTo(StopPosition)
    BY <2>1, <2>2 DEF StreamInv, RowInv, BoundedInv, WithinStop
  <2>. QED
    BY <2>1, <2>3 DEF BoundedInv, WithinStop, UncountedWait, StopIsExact, RowsUpTo
<1>. QED
  BY <1>1, <1>2 DEF StreamInv, TypeOK

LEMMA BoundedInvariance == Spec => []BoundedInv
<1>1. Init => BoundedInv
  BY DEF Init, BoundedInv, WithinStop, UncountedWait, StopIsExact
<1>2. StreamInv /\ BoundedInv /\ [Next]_vars => BoundedInv'
  BY BoundedQuiet, BoundedHandles, BoundedFinishes, BoundedStops
<1>. QED
  BY Invariance, <1>1, <1>2, PTL DEF Spec

(* A bounded run that reports success has committed exactly the rows up to *)
(* --stop-position, wherever it lies and whatever failed before            *)
(* (complete_bounded_stop).                                                *)
THEOREM StreamStopIsExact == Spec => []StopIsExact
<1>1. BoundedInv => StopIsExact
  BY DEF BoundedInv
<1>. QED
  BY BoundedInvariance, <1>1, PTL

(* No row past --stop-position is ever committed, by no session of a run   *)
(* that is restarted (process_stream_event decides the stop first).        *)
THEOREM StreamStopIsNeverPassed == Spec => []StopIsNeverPassed
<1>1. BoundedInv => StopIsNeverPassed
  BY DEF BoundedInv, WithinStop, StopIsNeverPassed
<1>. QED
  BY BoundedInvariance, <1>1, PTL

-----------------------------------------------------------------------------
(***************************************************************************)
(* The run without grouping (--target-transaction-group-size 1), on a      *)
(* binlog without statements that are replayed as they stand: only those   *)
(* commit implicitly.  Then no transaction is ever counted without being   *)
(* committed at once, an open group has the server's transaction, and the  *)
(* checkpoint is never saved between two rows of one source transaction.   *)
(***************************************************************************)
Ungrouped == GroupSize = 1 /\ \A l \in Logs : \A i \in 1 .. Len(l) : l[i] # "raw"

(* Every row up to n belongs to a source transaction that ends by n. *)
WholeUpTo(l, n) ==
  \A i \in RowsOf(l, n) : \E k \in i .. n : EndsTransaction(l[k])

SingleInv ==
  /\ log \in Logs
  /\ tx.source_transactions = 0
  /\ tx.open => serverTx
  /\ durable = RowsUpTo(ckpt)
  /\ WholeUpTo(log, ckpt)
  /\ Active /\ ~tx.open => WholeUpTo(log, next)

(* A binlog becomes whole with an event that ends the transaction, and     *)
(* stays so over an event that is not a row.                               *)
LEMMA WholeEnds ==
  ASSUME NEW l \in Seq(EventKind), NEW n \in Nat, n < Len(l), EndsTransaction(l[n + 1])
  PROVE  WholeUpTo(l, n + 1)
  BY DEF WholeUpTo, RowsOf

LEMMA WholeStays ==
  ASSUME NEW l \in Seq(EventKind), NEW n \in Nat, n < Len(l),
         WholeUpTo(l, n), l[n + 1] # "row"
  PROVE  WholeUpTo(l, n + 1)
<1>1. RowsOf(l, n + 1) = RowsOf(l, n)
  BY RowsStep
<1>2. \A i \in RowsOf(l, n) : i \in Nat /\ i .. n \subseteq i .. n + 1
  BY DEF RowsOf
<1>. QED
  BY <1>1, <1>2 DEF WholeUpTo

(* Nothing is committed: the session goes on with its group, or there is   *)
(* none any more.                                                          *)
LEMMA SingleFrame ==
  ASSUME SingleInv, UNCHANGED <<log, durable, ckpt>>,
         \/ /\ UNCHANGED <<next, serverTx>> /\ Active
            /\ tx'.source_transactions = 0 /\ tx'.open = tx.open
         \/ tx' = ClosedTx /\ (pc' \in {"retry", "down", "stopped"} \/ next' = ckpt)
  PROVE  SingleInv'
<1>1. /\ tx'.source_transactions = 0
      /\ tx'.open => serverTx'
  BY ClosedTxFacts DEF SingleInv
<1>2. ASSUME Active', ~tx'.open PROVE WholeUpTo(log, next')
  BY <1>2, ClosedTxFacts DEF SingleInv, Active, EventStages, DdlStages
<1>. QED
  BY <1>1, <1>2 DEF SingleInv, RowsUpTo

LEMMA SingleQuiet ==
  ASSUME StreamInv, SingleInv, [Next]_vars, ~HandleEvent, ~FinishEvent
  PROVE  SingleInv'
<1>1. CASE Receive \/ Heartbeat
  <2>1. UNCHANGED <<log, next, durable, ckpt, tx, serverTx>> /\ Active
    BY <1>1 DEF Receive, Heartbeat, flush_grouped_transaction, SingleInv, sourceVars, Active,
                EventStages
  <2>. QED
    BY <2>1, SingleFrame DEF SingleInv
<1>2. CASE StreamEnds
  <2>1. CASE StopPosition # NoCoordinate
    BY <1>2, <2>1, SingleFrame DEF StreamEnds, DropTargetTransaction, sourceVars
  <2>2. CASE StopPosition = NoCoordinate
    <3>1. UNCHANGED <<log, next, durable, ckpt, tx, serverTx>> /\ Active
      BY <1>2, <2>2 DEF StreamEnds, flush_grouped_transaction, SingleInv, sourceVars, Active,
                        EventStages
    <3>. QED
      BY <3>1, SingleFrame DEF SingleInv
  <2>. QED
    BY <2>1, <2>2
<1>3. CASE CompleteStop
  BY <1>3, SingleFrame DEF CompleteStop, DropTargetTransaction, SingleInv, sourceVars
<1>4. CASE GroupTimesOut
  <2>1. /\ UNCHANGED <<log, pc, next, durable, ckpt, serverTx>>
        /\ tx'.source_transactions = tx.source_transactions
        /\ tx'.open = tx.open
    BY <1>4, Zenon DEF GroupTimesOut, sourceVars, targetVars, StreamInv, TypeOK, TargetTransaction
  <2>. QED
    BY <2>1 DEF SingleInv, RowsUpTo, Active
<1>5. CASE UNCHANGED vars
  BY <1>5 DEF SingleInv, RowsUpTo, Active, vars, sourceVars, sessionVars, targetVars
<1>6. CASE RefuseStop \/ RejectDml \/ SourceError \/ GiveUp \/ Crash \/ Reconnect \/ Restart
  BY <1>6, SingleFrame
     DEF RefuseStop, RejectDml, SourceError, GiveUp, Crash, DropTargetTransaction,
         Reconnect, Restart, StartSession, sourceVars
<1>. QED
  BY <1>1, <1>2, <1>3, <1>4, <1>5, <1>6 DEF Next, EventStep, SessionStep, TimeStep

LEMMA SingleHandles ==
  ASSUME Ungrouped, StreamInv, SingleInv, HandleEvent PROVE SingleInv'
<1>1. /\ UNCHANGED <<log, next, ckpt>>
      /\ tx' = OpenedTx /\ tx \in TargetTransaction /\ serverTx \in BOOLEAN
      /\ pc = "apply" /\ Active
      /\ next \in Nat /\ next < Len(log) /\ log \in Seq(EventKind)
  BY DEF HandleEvent, sourceVars, StreamInv, TypeOK, StageInv, Active, EventStages
<1>2. Kind # "raw"
  BY <1>1 DEF Ungrouped, SingleInv, Kind, Event
<1>3. /\ tx'.source_transactions = 0
      /\ tx'.open = (tx.open \/ event_can_write_target(Kind))
  BY <1>1, Zenon DEF OpenedTx, TargetTransaction, SingleInv, event_can_write_target
<1>4. durable' = durable /\ serverTx' = InServerTx
  <2>1. Kind = "row" => InServerTx
    BY DEF InServerTx, event_can_write_target, SingleInv
  <2>. QED
    BY <1>2, <2>1 DEF HandleEvent, ApplyRow, ReplayRawStatement, PassOver
<1>5. tx'.open => serverTx'
  BY <1>1, <1>3, <1>4 DEF InServerTx, SingleInv
<1>. QED
  BY <1>1, <1>3, <1>4, <1>5 DEF SingleInv, RowsUpTo

(* An event that ends the transaction commits the group with its own       *)
(* coordinate; one that does not is saved only while no row waits.         *)
LEMMA SingleFinishes ==
  ASSUME Ungrouped, StreamInv, StreamInv', WaitInv, SingleInv, FinishEvent PROVE SingleInv'
<1>1. /\ log' = log /\ next' = next + 1 /\ Event = next + 1
      /\ pc = "finish" /\ Active
      /\ tx \in TargetTransaction
      /\ next \in Nat /\ next < Len(log) /\ log \in Seq(EventKind)
      /\ ckpt \in Nat /\ ckpt <= next
  BY DEF FinishEvent, sourceVars, StreamInv, TypeOK, StageInv, RowInv, Active, EventStages, Event
<1>2. durable \cup uncommitted \subseteq RowsUpTo(Event)
  <2>1. uncommitted \subseteq RowsUpTo(Event)
    BY <1>1 DEF WaitInv, Reached
  <2>2. RowsOf(log, ckpt) \subseteq RowsOf(log, Event)
    BY <1>1, RowsMonotone
  <2>. QED
    BY <2>1, <2>2 DEF SingleInv, RowsUpTo
<1>3. RowsUpTo(Event) \subseteq durable \cup uncommitted
  BY <1>1, ReachedFacts DEF Reached
<1>4. CASE SaveInGroup
  <2> DEFINE recorded == IF commits_transaction(Kind)
                         THEN record_source_transaction(tx) ELSE tx
             t == remember_transaction_checkpoint(recorded)
  <2>1. /\ tx.open
        /\ IF commits_transaction(Kind) /\ should_flush(t, Kind # "xid")
           THEN commit_target_group(t)
           ELSE tx' = t /\ UNCHANGED <<ckpt, durable, uncommitted, serverTx>>
    BY <1>4 DEF SaveInGroup
  <2>2. /\ t.open
        /\ t.source_transactions = IF commits_transaction(Kind) THEN 1 ELSE 0
        /\ has_resume_coordinate(Kind) => t.pending = Event
    BY <1>1, <2>1 DEF remember_transaction_checkpoint, record_source_transaction,
                      TargetTransaction, SingleInv
  <2> HIDE DEF recorded, t
  <2>3. CASE commits_transaction(Kind)
    <3>1. should_flush(t, Kind # "xid")
      BY <2>2, <2>3 DEF should_flush, Ungrouped
    <3>2. has_resume_coordinate(Kind) /\ EndsTransaction(Kind)
      BY <2>3 DEF commits_transaction, has_resume_coordinate, EndsTransaction, QueryKind
    <3>3. /\ durable' = durable \cup uncommitted
          /\ tx' = ClosedTx
          /\ ckpt' = Event
      BY <1>1, <2>1, <2>2, <2>3, <3>1, <3>2
         DEF commit_target_group, committed_checkpoint, NoCoordinate
    <3>4. durable' = RowsOf(log, next + 1)
      BY <1>1, <1>2, <1>3, <3>3 DEF RowsUpTo
    <3>5. WholeUpTo(log, next + 1)
      <4>1. EndsTransaction(log[next + 1])
        BY <1>1, <3>2 DEF Kind
      <4>. QED
        BY <1>1, <4>1, WholeEnds
    <3>. QED
      BY <1>1, <3>3, <3>4, <3>5, ClosedTxFacts DEF SingleInv, RowsUpTo
  <2>4. CASE ~commits_transaction(Kind)
    <3>1. tx' = t /\ UNCHANGED <<ckpt, durable, uncommitted, serverTx>>
      BY <2>1, <2>4
    <3>. QED
      BY <1>1, <2>1, <2>2, <2>4, <3>1 DEF SingleInv, RowsUpTo
  <2>. QED
    BY <2>3, <2>4
<1>5. CASE SaveOutsideGroup
  <2>1. ~tx.open /\ UNCHANGED <<tx, durable, uncommitted, serverTx>>
    BY <1>5 DEF SaveOutsideGroup
  <2>2. ckpt' = ckpt \/ ckpt' = next + 1
    BY <1>1, <1>5 DEF SaveOutsideGroup, save_checkpoint_if_advanced
  <2>3. uncommitted = {} /\ WholeUpTo(log, next)
    BY <1>1, <2>1 DEF StreamInv, TxInv, SingleInv
  <2>4. durable = RowsOf(log, next + 1)
    BY <1>1, <1>2, <1>3, <2>3, Zenon DEF RowsUpTo
  <2>5. WholeUpTo(log, next + 1)
    <3>1. log[next + 1] # "row"
      BY <1>1, <2>3 DEF StreamInv, RowInv, SingleInv, RowsUpTo, RowsOf, Kind
    <3>. QED
      BY <1>1, <2>3, <3>1, WholeStays
  <2>. QED
    BY <1>1, <2>1, <2>2, <2>4, <2>5, Zenon DEF SingleInv, RowsUpTo
<1>. QED
  BY <1>4, <1>5 DEF FinishEvent

LEMMA WaitInvariance == Spec => []WaitInv
<1>1. Init => WaitInv
  BY DEF Init, WaitInv
<1>. QED
  BY Invariance, PrefixInvariance, <1>1, StepRefines, PTL DEF Spec

LEMMA SingleInvariance == ASSUME Ungrouped PROVE Spec => []SingleInv
<1>1. Init => SingleInv
  <2> SUFFICES ASSUME Init PROVE SingleInv
    OBVIOUS
  <2>1. RowsOf(log, 0) = {}
    BY RowsZero, StreamApplyAssumption DEF Init
  <2>. QED
    BY <2>1, ClosedTxFacts DEF Init, SingleInv, RowsUpTo, WholeUpTo
<1>2. StreamInv /\ StreamInv' /\ WaitInv /\ SingleInv /\ [Next]_vars => SingleInv'
  BY SingleQuiet, SingleHandles, SingleFinishes
<1>. QED
  BY Invariance, WaitInvariance, <1>1, <1>2, PTL DEF Spec

(* With a group size of one and no replayed statement, the committed rows  *)
(* are exactly those before the stored checkpoint: no failure makes the    *)
(* stream apply a committed row again.                                     *)
THEOREM StreamExactlyOnce == ASSUME Ungrouped PROVE Spec => []ExactlyOnce
<1>1. SingleInv => ExactlyOnce
  BY DEF SingleInv, ExactlyOnce
<1>. QED
  BY SingleInvariance, <1>1, PTL

(* Such a run commits each source transaction as a whole: of two rows of   *)
(* one transaction never just the first is on the target, wherever the     *)
(* process died and whatever was saved between them.                       *)
THEOREM StreamTransactionsAreWhole == ASSUME Ungrouped PROVE Spec => []AtomicSourceTransactions
<1>1. StreamInv /\ SingleInv => AtomicSourceTransactions
  <2> SUFFICES ASSUME StreamInv, SingleInv,
                      NEW i \in RowsUpTo(Len(log)), NEW j \in RowsUpTo(Len(log)),
                      i < j, SameTransaction(i, j)
               PROVE  i \in durable <=> j \in durable
    BY DEF AtomicSourceTransactions
  <2>1. i \in Nat /\ j \in Nat /\ ckpt \in Nat
    BY DEF RowsUpTo, RowsOf, StreamInv, TypeOK
  <2>2. ASSUME j \in durable PROVE i \in durable
    BY <2>1, <2>2 DEF SingleInv, RowsUpTo, RowsOf
  <2>3. ASSUME i \in durable PROVE j \in durable
    <3>1. PICK k \in i .. ckpt : EndsTransaction(log[k])
      BY <2>3 DEF SingleInv, WholeUpTo, RowsUpTo
    <3>2. ~(k \in i .. j - 1)
      BY <3>1 DEF SameTransaction
    <3>3. j <= ckpt
      BY <2>1, <3>2
    <3>. QED
      BY <3>3 DEF SingleInv, RowsUpTo, RowsOf
  <2>. QED
    BY <2>2, <2>3
<1>. QED
  BY Invariance, SingleInvariance, <1>1, PTL

-----------------------------------------------------------------------------
(***************************************************************************)
(* The group.  Every finished transaction with a waiting row has been      *)
(* counted, and a count that reaches the group size is flushed by the      *)
(* event that brought it there.                                            *)
(***************************************************************************)
FinishedIn(l, n, rows) ==
  {j \in 1 .. n : l[j] = "xid" /\ \E i \in rows : i < j /\ \A k \in i .. j - 1 : ~EndsTransaction(l[k])}

CountInv ==
  /\ Cardinality(FinishedIn(log, next, uncommitted)) <= tx.source_transactions
  /\ tx.source_transactions < GroupSize

LEMMA FinishedFinite ==
  ASSUME NEW l, NEW n \in Nat, NEW rows
  PROVE  /\ IsFiniteSet(FinishedIn(l, n, rows))
         /\ Cardinality(FinishedIn(l, n, rows)) \in Nat
<1>1. IsFiniteSet(1 .. n)
  BY FS_Interval
<1>2. FinishedIn(l, n, rows) \in SUBSET (1 .. n)
  BY DEF FinishedIn
<1>. QED
  BY <1>1, <1>2, FS_Subset, FS_CardinalityType

(* Nothing waits: nothing finished waits. *)
LEMMA FinishedNone ==
  ASSUME NEW l, NEW n \in Nat PROVE Cardinality(FinishedIn(l, n, {})) = 0
<1>1. FinishedIn(l, n, {}) = {}
  BY DEF FinishedIn
<1>. QED
  BY <1>1, FS_EmptySet

(* An event adds at most itself, and only if it is an XID. *)
LEMMA FinishedStep ==
  ASSUME NEW l, NEW n \in Nat, NEW rows
  PROVE  /\ l[n + 1] # "xid" => FinishedIn(l, n + 1, rows) = FinishedIn(l, n, rows)
         /\ Cardinality(FinishedIn(l, n + 1, rows)) <= Cardinality(FinishedIn(l, n, rows)) + 1
<1> DEFINE S == FinishedIn(l, n, rows)
           T == FinishedIn(l, n + 1, rows)
<1>1. /\ T \subseteq S \cup {n + 1}
      /\ l[n + 1] # "xid" => T = S
  BY DEF FinishedIn
<1>2. IsFiniteSet(S) /\ Cardinality(S) \in Nat /\ Cardinality(T) \in Nat
  BY FinishedFinite
<1> HIDE DEF S, T
<1>3. IsFiniteSet(S \cup {n + 1}) /\ Cardinality(S \cup {n + 1}) <= Cardinality(S) + 1
  BY <1>2, FS_AddElement
<1>4. Cardinality(S \cup {n + 1}) \in Nat
  BY <1>3, FS_CardinalityType
<1>5. Cardinality(T) <= Cardinality(S \cup {n + 1})
  BY <1>1, <1>3, FS_Subset
<1>6. Cardinality(T) <= Cardinality(S) + 1
  BY <1>2, <1>3, <1>4, <1>5
<1>. QED
  BY <1>1, <1>6 DEF S, T

(* Whatever empties the server's transaction, and whatever leaves it, the  *)
(* count and the position alone.                                           *)
LEMMA CountKept ==
  ASSUME StreamInv, StreamInv', CountInv, log' = log,
         \/ uncommitted' = {} /\ tx'.source_transactions \in {0, tx.source_transactions}
         \/ /\ UNCHANGED <<next, uncommitted>>
            /\ tx'.source_transactions = tx.source_transactions
  PROVE  CountInv'
<1>1. /\ next' \in Nat /\ tx.source_transactions \in Nat
      /\ GroupSize \in Nat /\ GroupSize > 0
  BY StreamApplyAssumption DEF StreamInv, TypeOK, TargetTransaction
<1>2. CASE UNCHANGED <<next, uncommitted>> /\ tx'.source_transactions = tx.source_transactions
  BY <1>2 DEF CountInv
<1>3. CASE uncommitted' = {} /\ tx'.source_transactions \in {0, tx.source_transactions}
  <2>1. Cardinality(FinishedIn(log, next', {})) = 0
    BY <1>1, FinishedNone
  <2>2. tx'.source_transactions \in Nat /\ tx'.source_transactions < GroupSize
    BY <1>1, <1>3 DEF CountInv
  <2>3. 0 <= tx'.source_transactions
    BY <2>2
  <2>. QED
    BY <1>3, <2>1, <2>2, <2>3 DEF CountInv
<1>. QED
  BY <1>2, <1>3

LEMMA CountQuiet ==
  ASSUME StreamInv, StreamInv', CountInv, [Next]_vars, ~HandleEvent, ~FinishEvent
  PROVE  CountInv'
<1>1. CASE Receive \/ Heartbeat
  <2>1. /\ UNCHANGED <<log, next>>
        /\ flush_grouped_transaction(tx) \/ UNCHANGED <<tx, uncommitted>>
    BY <1>1, Zenon DEF Receive, Heartbeat, sourceVars
  <2>. QED
    BY <2>1, CountKept, ClosedTxFacts DEF flush_grouped_transaction, commit_target_group
<1>2. CASE StreamEnds
  <2>1. /\ UNCHANGED <<log, next>>
        /\ flush_grouped_transaction(tx) \/ DropTargetTransaction
    BY <1>2 DEF StreamEnds, sourceVars
  <2>. QED
    BY <2>1, CountKept, ClosedTxFacts
       DEF flush_grouped_transaction, commit_target_group, DropTargetTransaction
<1>3. CASE CompleteStop
  BY <1>3, CountKept, ClosedTxFacts DEF CompleteStop, DropTargetTransaction, sourceVars
<1>4. CASE GroupTimesOut
  <2>1. UNCHANGED <<log, next, uncommitted>> /\ tx'.source_transactions = tx.source_transactions
    BY <1>4 DEF GroupTimesOut, sourceVars, targetVars, StreamInv, TypeOK, TargetTransaction
  <2>. QED
    BY <2>1, CountKept
<1>5. CASE UNCHANGED vars
  BY <1>5, CountKept DEF vars, sourceVars, sessionVars, targetVars
<1>6. CASE RefuseStop \/ RejectDml \/ SourceError \/ GiveUp \/ Crash \/ Reconnect \/ Restart
  BY <1>6, CountKept, ClosedTxFacts
     DEF RefuseStop, RejectDml, SourceError, GiveUp, Crash, DropTargetTransaction,
         Reconnect, Restart, StartSession, sourceVars
<1>. QED
  BY <1>1, <1>2, <1>3, <1>4, <1>5, <1>6 DEF Next, EventStep, SessionStep, TimeStep

(* A row that is written waits behind every transaction that has finished. *)
LEMMA CountHandles ==
  ASSUME StreamInv, StreamInv', CountInv, HandleEvent PROVE CountInv'
<1>1. /\ UNCHANGED <<log, next>>
      /\ tx'.source_transactions = tx.source_transactions
      /\ next \in Nat
  BY DEF HandleEvent, sourceVars, OpenedTx, StreamInv, TypeOK, TargetTransaction
<1>2. uncommitted' \in {{}, uncommitted, uncommitted \cup {next + 1}}
  BY DEF HandleEvent, ApplyRow, ReplayRawStatement, PassOver, Event
<1>3. FinishedIn(log, next, uncommitted \cup {next + 1}) = FinishedIn(log, next, uncommitted)
  BY <1>1 DEF FinishedIn
<1>4. CASE uncommitted' \in {{}, uncommitted}
  BY <1>1, <1>4, CountKept
<1>5. CASE uncommitted' = uncommitted \cup {next + 1}
  BY <1>1, <1>3, <1>5 DEF CountInv
<1>. QED
  BY <1>2, <1>4, <1>5

LEMMA CountFinishes ==
  ASSUME StreamInv, StreamInv', CountInv, FinishEvent PROVE CountInv'
<1>1. /\ log' = log /\ next' = next + 1 /\ Event = next + 1
      /\ tx \in TargetTransaction /\ next \in Nat
      /\ tx.source_transactions \in Nat /\ GroupSize \in Nat /\ GroupSize > 0
      /\ Cardinality(FinishedIn(log, next, uncommitted)) \in Nat
  BY FinishedFinite, StreamApplyAssumption
     DEF FinishEvent, sourceVars, StreamInv, TypeOK, TargetTransaction, Event
<1>2. CASE SaveInGroup
  <2> DEFINE recorded == IF commits_transaction(Kind)
                         THEN record_source_transaction(tx) ELSE tx
             t == remember_transaction_checkpoint(recorded)
  <2>1. /\ tx.open
        /\ IF commits_transaction(Kind) /\ should_flush(t, Kind # "xid")
           THEN commit_target_group(t)
           ELSE tx' = t /\ UNCHANGED <<ckpt, durable, uncommitted, serverTx>>
    BY <1>2 DEF SaveInGroup
  <2>2. t.source_transactions = IF commits_transaction(Kind) THEN tx.source_transactions + 1
                                                              ELSE tx.source_transactions
    BY <1>1, <2>1 DEF remember_transaction_checkpoint, record_source_transaction,
                      TargetTransaction
  <2> HIDE DEF recorded, t
  <2>3. CASE commit_target_group(t)
    BY <1>1, <2>3, CountKept, ClosedTxFacts DEF commit_target_group
  <2>4. CASE tx' = t /\ UNCHANGED <<ckpt, durable, uncommitted, serverTx>>
                     /\ ~(commits_transaction(Kind) /\ should_flush(t, Kind # "xid"))
    <3>1. CASE commits_transaction(Kind)
      <4>1. t.source_transactions < GroupSize
        BY <1>1, <2>2, <2>4, <3>1 DEF should_flush
      <4>2. Cardinality(FinishedIn(log, next + 1, uncommitted)) <= t.source_transactions
        <5>1. /\ Cardinality(FinishedIn(log, next + 1, uncommitted))
                   <= Cardinality(FinishedIn(log, next, uncommitted)) + 1
              /\ Cardinality(FinishedIn(log, next + 1, uncommitted)) \in Nat
          BY <1>1, FinishedStep, FinishedFinite
        <5>. QED
          BY <1>1, <2>2, <3>1, <5>1 DEF CountInv
      <4>. QED
        BY <1>1, <2>4, <4>1, <4>2 DEF CountInv
    <3>2. CASE ~commits_transaction(Kind)
      <4>1. log[next + 1] # "xid"
        BY <1>1, <3>2 DEF commits_transaction, Kind
      <4>2. FinishedIn(log, next + 1, uncommitted) = FinishedIn(log, next, uncommitted)
        BY <1>1, <4>1, FinishedStep
      <4>. QED
        BY <1>1, <2>2, <2>4, <3>2, <4>2 DEF CountInv
    <3>. QED
      BY <3>1, <3>2
  <2>. QED
    BY <2>1, <2>3, <2>4
<1>3. CASE SaveOutsideGroup
  <2>1. uncommitted' = {} /\ tx' = tx
    BY <1>3 DEF SaveOutsideGroup, StreamInv, TxInv
  <2>. QED
    BY <1>1, <2>1, CountKept
<1>. QED
  BY <1>2, <1>3 DEF FinishEvent

LEMMA CountInit == Init => CountInv
<1> SUFFICES ASSUME Init PROVE CountInv
  OBVIOUS
<1>1. Cardinality(FinishedIn(log, 0, {})) = 0
  BY FinishedNone
<1>. QED
  BY <1>1, ClosedTxFacts, StreamApplyAssumption DEF Init, CountInv

LEMMA CountBounds == StreamInv /\ CountInv => GroupIsBounded
<1> SUFFICES ASSUME StreamInv, CountInv PROVE Cardinality(FinishedWaiting) < GroupSize
  BY DEF GroupIsBounded
<1>1. FinishedWaiting = FinishedIn(log, next, uncommitted)
  BY DEF FinishedWaiting, FinishedIn, SameTransaction
<1>2. /\ Cardinality(FinishedIn(log, next, uncommitted)) \in Nat
      /\ tx.source_transactions \in Nat /\ GroupSize \in Nat
  BY FinishedFinite, StreamApplyAssumption DEF StreamInv, TypeOK, TargetTransaction
<1>. QED
  BY <1>1, <1>2 DEF CountInv

(* Whenever the applier waits for the source, fewer finished transactions  *)
(* than --target-transaction-group-size hold a row back: should_flush is   *)
(* asked with the right count after any rollback, implicit commit and      *)
(* reconnection.                                                           *)
THEOREM StreamGroupIsBounded == Spec => []GroupIsBounded
<1>1. StreamInv /\ StreamInv' /\ CountInv /\ [Next]_vars => CountInv'
  BY CountQuiet, CountHandles, CountFinishes
<1>. QED
  BY Invariance, CountInit, <1>1, CountBounds, PTL DEF Spec

-----------------------------------------------------------------------------
(***************************************************************************)
(* The same with the DDL handlers.  A handler flushes the group first and  *)
(* then writes the journal; its statements commit whatever still waits.    *)
(***************************************************************************)
LEMMA DdlKeeps ==
  ASSUME LiveInv, DdlStep
  PROVE  /\ log' = log
         /\ durable' \cup uncommitted' \subseteq durable \cup uncommitted
         /\ \/ uncommitted' = {} /\ tx'.source_transactions \in {0, tx.source_transactions}
            \/ /\ UNCHANGED <<next, uncommitted, rowTxOpen>>
               /\ tx'.source_transactions = tx.source_transactions
         /\ \/ UNCHANGED vars
            \/ /\ pc' \notin {"apply", "stopped"}
               /\ pc = "finish" => uncommitted' = {}
               /\ pc' = "stop" => next' = StopPosition /\ StopPosition # NoCoordinate
<1>1. CASE ReceiveDdl
  <2>1. /\ UNCHANGED <<log, next, rowTxOpen>> /\ pc = "recv" /\ pc' = "ddl"
        /\ flush_grouped_transaction(tx)
    BY <1>1 DEF ReceiveDdl, sourceVars
  <2>. QED
    BY <2>1, ClosedTxFacts DEF flush_grouped_transaction, commit_target_group
<1>2. CASE JournalHandler \/ SuppressConvergedDdl \/ VerifyPostcondition
  <2>1. /\ pc \in {"ddl", "execute", "verify"} /\ pc' \in {"blocked", "execute", "finalize", "verify"}
        /\ UNCHANGED <<log, next, rowTxOpen, durable, uncommitted, tx>>
    BY <1>2 DEF JournalHandler, RecordUntranslated, CaptureFails, Prepare, ReconcilePrepared,
                RecoverBlocked, CheckpointOnly, SuppressConvergedDdl, VerifyPostcondition,
                JournalStep, sourceVars, targetVars
  <2>. QED
    BY <2>1
<1>3. CASE ExecuteDdl \/ BeginFinalize
  <2>1. /\ pc \in {"execute", "finalize"} /\ pc' \in {"verify", "checkpoint"}
        /\ ImplicitCommit /\ UNCHANGED <<log, tx>>
    BY <1>3 DEF ExecuteDdl, BeginFinalize, sourceVars
  <2>. QED
    BY <2>1 DEF ImplicitCommit
<1>4. CASE FinalizeDdl
  <2>1. /\ pc = "checkpoint" /\ next' = Event /\ pc' = NextStage
        /\ UNCHANGED <<log, durable, uncommitted, tx>>
    BY <1>4 DEF FinalizeDdl, sourceVars
  <2>2. uncommitted = {} /\ Event # NoCoordinate
    BY <2>1 DEF LiveInv, StreamInv, TypeOK, RowInv, Event, NoCoordinate
  <2>. QED
    BY <2>1, <2>2 DEF NextStage
<1>5. CASE RetryBlocked
  BY <1>5, ClosedTxFacts DEF RetryBlocked, StartSession, sourceVars
<1>6. CASE Deploy
  <2>1. UNCHANGED <<log, durable>> /\ uncommitted' = {} /\ tx' = ClosedTx /\ pc' = "down"
    BY <1>6 DEF Deploy, DropTargetTransaction, sourceVars
  <2>. QED
    BY <2>1, ClosedTxFacts
<1>7. CASE RepairSchema
  BY <1>7 DEF RepairSchema, vars, sourceVars, sessionVars, targetVars
<1>. QED
  BY <1>1, <1>2, <1>3, <1>4, <1>5, <1>6, <1>7 DEF DdlStep, DdlHandler

LEMMA LiveBounded == LiveSpec => []BoundedInv
<1>1. LiveInit => BoundedInv
  BY DEF LiveInit, Init, BoundedInv, WithinStop, UncountedWait, StopIsExact
<1>2. ASSUME LiveInv, BoundedInv, [LiveNext]_liveVars PROVE BoundedInv'
  <2>1. StreamInv
    BY <1>2 DEF LiveInv
  <2>2. CASE Next \/ UNCHANGED vars
    BY <1>2, <2>1, <2>2, BoundedQuiet, BoundedHandles, BoundedFinishes, BoundedStops
  <2>3. CASE DdlStep /\ ~UNCHANGED vars
    <3>1. WithinStop'
      BY <1>2, <2>3, DdlKeeps DEF BoundedInv, WithinStop, RowsUpTo
    <3>2. ~UncountedWait'
      BY <1>2, <2>3, DdlKeeps DEF BoundedInv, UncountedWait
    <3>. QED
      BY <1>2, <2>3, <3>1, <3>2, DdlKeeps DEF BoundedInv, StopIsExact
  <2>. QED
    BY <1>2, <2>2, <2>3, LiveSteps DEF liveVars
<1>. QED
  BY LiveInvariance, <1>1, <1>2, PTL DEF LiveSpec

(* The bounded run with DDL events: a handler's checkpoint may be what     *)
(* brings the run to its stop, and success still means exactly the rows up *)
(* to the stop position.                                                   *)
THEOREM LiveStopIsExact == LiveSpec => []StopIsExact
<1>1. BoundedInv => StopIsExact
  BY DEF BoundedInv
<1>. QED
  BY LiveBounded, <1>1, PTL

(* With DDL events too no row past the stop position is committed, not     *)
(* even by the implicit commits of the handlers' statements.               *)
THEOREM LiveStopIsNeverPassed == LiveSpec => []StopIsNeverPassed
<1>1. BoundedInv => StopIsNeverPassed
  BY DEF BoundedInv, WithinStop, StopIsNeverPassed
<1>. QED
  BY LiveBounded, <1>1, PTL

(* The group stays bounded with DDL events, whose handlers commit parts of *)
(* it without the count being told.                                        *)
THEOREM LiveGroupIsBounded == LiveSpec => []GroupIsBounded
<1>1. LiveInit => CountInv
  BY CountInit DEF LiveInit
<1>2. ASSUME LiveInv, LiveInv', CountInv, [LiveNext]_liveVars PROVE CountInv'
  <2>1. StreamInv /\ StreamInv'
    BY <1>2 DEF LiveInv
  <2>2. CASE Next \/ UNCHANGED vars
    BY <1>2, <2>1, <2>2, CountQuiet, CountHandles, CountFinishes
  <2>3. CASE DdlStep
    BY <1>2, <2>1, <2>3, DdlKeeps, CountKept
  <2>. QED
    BY <1>2, <2>2, <2>3, LiveSteps DEF liveVars
<1>3. LiveInv /\ CountInv => GroupIsBounded
  BY CountBounds DEF LiveInv
<1>. QED
  BY LiveInvariance, <1>1, <1>2, <1>3, PTL DEF LiveSpec

=============================================================================

-------------------------- MODULE LostBinlogRecovery --------------------------
(***************************************************************************)
(* The control plane around a stream that cannot go on: the source purged  *)
(* the history its checkpoint names, or a DDL event without a translator   *)
(* bars the way.  recover-lost-binlog copies every table and then moves    *)
(* the checkpoint to the coordinate it captured before; resume- and        *)
(* activate-lost-binlog finish such a recovery; resync-stream bootstraps a *)
(* stream that has no checkpoint.  The stream itself takes part, because   *)
(* all of them share the checkpoint row, the journal barrier and the lease.*)
(*                                                                         *)
(* A coordinate is the number of source events before it.  What an event   *)
(* does to the target is its membership in applied.  The schema stage of a *)
(* sync brings the definitions of its inventory, the copy of a table at    *)
(* least the row changes that precede its first read.                      *)
(***************************************************************************)
EXTENDS Naturals, Sequences, FiniteSets

CONSTANTS
  Tables,        \* tables of the source schema, now or later
  Recoveries,    \* recovery ids an operator may authorize
  MaxEvents,     \* bound on source events
  MaxFaults      \* bound on crashes, lost connections and purges

Barrier == 2                       \* the DDL event no translator claims

ASSUME RecoveryAssumption ==
  /\ IsFiniteSet(Tables) /\ Tables # {} /\ IsFiniteSet(Recoveries)
  /\ Recoveries \cap {"resync", "stream", "nobody"} = {}
  /\ MaxEvents \in Nat /\ MaxEvents >= Barrier
  /\ MaxFaults \in Nat

NoCheckpoint == MaxEvents + 1
Runs == Recoveries \cup {"resync"} \* run ids of unified sync

(***************************************************************************)
(* An event is a row change or an ALTER of a table, its creation, or the   *)
(* statement at the barrier.  An ALTER has a translator.                   *)
(***************************************************************************)
EventKinds == {"row", "alter", "create", "barrier"}
Events == [kind : EventKinds, table : Tables]

VARIABLES
  binlog,       \* sequence of source events; its length is the current coordinate
  purged,       \* no file before this coordinate is in SHOW BINARY LOGS
  applied,      \* source events the target holds, by position
  ckpt,         \* the stream checkpoint row
  barrier,      \* status of the journal row of the barrier event
  records,      \* cdc.stream_recovery_records
  rows,         \* rows stage of cdc.sync_runs and its phases, by run and table
  prereq,       \* prerequisite_schema stage of cdc.sync_runs
  lease,        \* holder of GET_LOCK(cdc-stream:...)
  stream,       \* [pc, pos] of the stream process
  cmd,          \* the command processes, one per run id
  auth,         \* expected_checkpoint of the authorization files, read when the stream stopped
  faults

sourceVars == <<binlog, purged>>
recordVars == <<ckpt, barrier, records>>
syncVars == <<rows, prereq, applied>>
vars == <<sourceVars, recordVars, syncVars, lease, stream, cmd, auth, faults>>

Coordinates == 0 .. MaxEvents
Written == Len(binlog)

TablesOf(log, n) == {log[i].table : i \in {j \in 1 .. n : log[j].kind = "create"}}
SourceTables == TablesOf(binlog, Written)

(* inventory_scope_hash: the definitions of a set of tables, here the      *)
(* positions of the statements that made them.                             *)
inventory_scope(tables) ==
  {i \in 1 .. Written : binlog[i].kind \in {"alter", "create", "barrier"} /\ binlog[i].table \in tables}

RowsOn(t, n) == {i \in 1 .. n : binlog[i].kind = "row" /\ binlog[i].table = t}

-----------------------------------------------------------------------------
(* State of a command: where it is, and the PreparedRecoverySnapshot it    *)
(* works from.                                                             *)

Idle == [pc |-> "idle", kind |-> "none", boundary |-> 0, scope |-> {}, tables |-> {}]
NoRecord ==
  [status |-> "none", old |-> 0, boundary |-> 0, scope |-> {}]

OwnerStatuses == {"prepared", "committed"}

Init ==
  /\ LET t == CHOOSE t \in Tables : TRUE
     IN binlog = << [kind |-> "create", table |-> t], [kind |-> "barrier", table |-> t] >>
  /\ ckpt \in {0, 1, NoCheckpoint}  \* a stream that met the barrier, or none yet
  /\ purged \in 0 .. Barrier
  /\ ckpt = 0 => purged > 0          \* the stream leaves event 1 behind only with its checkpoint
  /\ applied = IF ckpt = 1 THEN {1} ELSE {}
  /\ barrier \in IF ckpt = NoCheckpoint THEN {"none"}
                 ELSE {"translation_pending", "prepared", "blocked"}
  /\ records = [r \in Recoveries |-> NoRecord]
  /\ rows = [r \in Runs |-> [t \in Tables |-> "none"]]
  /\ prereq = [r \in Runs |-> {}]
  /\ lease = "nobody"
  /\ stream = [pc |-> "down", pos |-> 0]
  /\ cmd = [r \in Runs |-> Idle]
  /\ auth = ckpt
  /\ faults = 0

-----------------------------------------------------------------------------
(* The source. *)

SourceEvent ==
  /\ Written < MaxEvents
  /\ \E t \in Tables, k \in {"row", "alter", "create"} :
       /\ (k = "create") <=> t \notin SourceTables
       /\ binlog' = Append(binlog, [kind |-> k, table |-> t])
  /\ UNCHANGED <<purged, recordVars, syncVars, lease, stream, cmd, auth, faults>>

PurgeBinlogs ==
  /\ faults < MaxFaults
  /\ faults' = faults + 1
  /\ \E p \in purged + 1 .. Written : purged' = p
  /\ UNCHANGED <<binlog, recordVars, syncVars, lease, stream, cmd, auth>>

-----------------------------------------------------------------------------
(* The stream.  Its startup takes the lease, gives it back when the        *)
(* journal is validated, reads the checkpoint and takes the lease again    *)
(* with the connection it applies rows on.                                 *)

(* build_barrier_select_sql: a committed recovery supersedes its barrier. *)
BarrierIsActive ==
  /\ barrier \in {"translation_pending", "prepared", "blocked"}
  /\ \A r \in Recoveries : records[r].status # "committed"

Release(holder) == IF lease = holder THEN "nobody" ELSE lease

StreamLoads ==
  /\ stream.pc = "down"
  /\ ckpt # NoCheckpoint
  /\ lease = "nobody"
  /\ stream' = [pc |-> "loaded", pos |-> ckpt]
  /\ UNCHANGED <<sourceVars, recordVars, syncVars, lease, cmd, auth, faults>>

(* A held lease, the barrier or a purged coordinate end the process. *)
StreamInitializes ==
  /\ stream.pc = "loaded"
  /\ IF /\ lease = "nobody"
        /\ BarrierIsActive => stream.pos <= Barrier - 1
        /\ stream.pos >= purged
     THEN stream' = [stream EXCEPT !.pc = "run"] /\ lease' = "stream"
     ELSE stream' = [stream EXCEPT !.pc = "down"] /\ UNCHANGED lease
  /\ UNCHANGED <<sourceVars, recordVars, syncVars, cmd, auth, faults>>

NextEvent == stream.pos + 1
StreamReads == stream.pc = "run" /\ stream.pos < Written

(* Mutant: the stored row is not looked at. *)
AcceptAnyCheckpoint(position) == lease = "stream"

(* lock_validate_and_save_checkpoint and the predecessor check of a DDL    *)
(* event, both on the connection that holds the lease.                     *)
CheckpointAccepts(position) == lease = "stream" /\ ckpt < position

StreamApplies ==
  /\ StreamReads
  /\ binlog[NextEvent].kind # "barrier"
  /\ IF CheckpointAccepts(NextEvent)
     THEN /\ applied' = applied \cup {NextEvent}
          /\ ckpt' = NextEvent
          /\ stream' = [stream EXCEPT !.pos = NextEvent]
          /\ UNCHANGED lease
     ELSE /\ stream' = [stream EXCEPT !.pc = "down"]
          /\ lease' = Release("stream")
          /\ UNCHANGED <<applied, ckpt>>
  /\ UNCHANGED <<sourceVars, barrier, records, rows, prereq, cmd, auth, faults>>

(* DdlBlocked: the session ends, the checkpoint is read, and after a pause *)
(* the next session starts from what was read.  A prepared journal row is  *)
(* first reconciled to blocked.                                            *)
StreamIsBlocked ==
  /\ StreamReads
  /\ binlog[NextEvent].kind = "barrier"
  /\ lease' = Release("stream")
  /\ stream' = [pc |-> "loaded", pos |-> ckpt]
  /\ barrier' = CASE barrier = "none" -> "translation_pending"
                  [] barrier = "prepared" -> "blocked"
                  [] OTHER -> barrier
  /\ UNCHANGED <<sourceVars, ckpt, records, syncVars, cmd, auth, faults>>

(* A release with a translator: the event is applied and checkpointed. *)
StreamPassesBarrier ==
  /\ StreamReads
  /\ binlog[NextEvent].kind = "barrier"
  /\ IF CheckpointAccepts(NextEvent)
     THEN /\ applied' = applied \cup {NextEvent}
          /\ ckpt' = NextEvent
          /\ barrier' = "checkpointed"
          /\ stream' = [stream EXCEPT !.pos = NextEvent]
          /\ UNCHANGED lease
     ELSE /\ stream' = [stream EXCEPT !.pc = "down"]
          /\ lease' = Release("stream")
          /\ UNCHANGED <<applied, ckpt, barrier>>
  /\ UNCHANGED <<sourceVars, records, rows, prereq, cmd, auth, faults>>

(* The process ends, or a source transport error ends its session and the  *)
(* reconnect loop reads the checkpoint for the next one.                   *)
StreamDies ==
  /\ stream.pc # "down"
  /\ faults < MaxFaults
  /\ faults' = faults + 1
  /\ \/ stream' = [stream EXCEPT !.pc = "down"]
     \/ stream.pc = "run" /\ stream' = [pc |-> "loaded", pos |-> ckpt]
  /\ lease' = Release("stream")
  /\ UNCHANGED <<sourceVars, recordVars, syncVars, cmd, auth>>

(* The server drops the connection that holds the lease; its owner finds   *)
(* out only when it uses that connection again.                            *)
LeaseConnectionLost ==
  /\ lease # "nobody"
  /\ faults < MaxFaults
  /\ faults' = faults + 1
  /\ lease' = "nobody"
  /\ UNCHANGED <<sourceVars, recordVars, syncVars, stream, cmd, auth>>

-----------------------------------------------------------------------------
(* The commands. *)

Goto(r, stage) == cmd' = [cmd EXCEPT ![r].pc = stage]

(* Mutant: the connection that holds the lease outlives the command. *)
ExitHoldingLease(r) ==
  /\ cmd' = [cmd EXCEPT ![r] = Idle]
  /\ UNCHANGED lease

(* The command ends, with or without an error. *)
Exit(r) ==
  /\ cmd' = [cmd EXCEPT ![r] = Idle]
  /\ lease' = Release(r)

(* A step of a command that is refused. *)
Refuse(r) == Exit(r) /\ UNCHANGED <<sourceVars, recordVars, syncVars, stream, auth, faults>>

LocalStep == UNCHANGED <<sourceVars, recordVars, syncVars, lease, stream, auth, faults>>

(* acquire_stream_lease comes before anything the command decides. *)
StartCommand(r) ==
  /\ cmd[r].pc = "idle"
  /\ auth # NoCheckpoint
  /\ records[r].status # "committed"
  /\ lease = "nobody"
  /\ lease' = r
  /\ \E k \in {"recover", "resume", "activate"} :
       cmd' = [cmd EXCEPT ![r] = [Idle EXCEPT !.pc = IF k = "recover" THEN "boundary" ELSE "load",
                                             !.kind = k]]
  /\ UNCHANGED <<sourceVars, recordVars, syncVars, stream, auth, faults>>

(* read_binlog_coordinate_and_source_evidence: first the coordinate, then  *)
(* the inventory.                                                          *)
CaptureCoordinate(r) ==
  /\ cmd[r].pc = "boundary"
  /\ cmd' = [cmd EXCEPT ![r].boundary = Written, ![r].pc = "evidence"]
  /\ LocalStep

(* Mutant: the coordinate is read again once the inventory is known. *)
CaptureEvidenceThenCoordinate(r) ==
  /\ cmd[r].pc = "evidence"
  /\ cmd' = [cmd EXCEPT ![r].tables = TablesOf(binlog, cmd[r].boundary),
                        ![r].scope = inventory_scope(TablesOf(binlog, cmd[r].boundary)),
                        ![r].boundary = Written,
                        ![r].pc = "prepare"]
  /\ LocalStep

CaptureEvidence(r) ==
  /\ cmd[r].pc = "evidence"
  /\ cmd' = [cmd EXCEPT ![r].tables = SourceTables,
                        ![r].scope = inventory_scope(SourceTables),
                        ![r].pc = "prepare"]
  /\ LocalStep

(* The locked checkpoint and barrier are the authorized ones; the          *)
(* transaction runs on the connection that holds the lease.                *)
require_expected_recovery_state(r) ==
  /\ lease = r
  /\ ckpt = auth
  /\ barrier \in {"translation_pending", "blocked"}

Owners == {o \in Recoveries : records[o].status # "none"}

(* load_barrier_recovery_owner_for_update prefers a prepared owner. *)
validate_replacement_owner(r, o) ==
  /\ records[o].status = "prepared"
  /\ records[o].old = auth

CanPrepare(r) ==
  /\ require_expected_recovery_state(r)
  /\ cmd[r].boundary > auth
  /\ records[r].status = "none"
  /\ Owners # {} => \E o \in Owners : validate_replacement_owner(r, o)

PreparedRecord(r) ==
  [status |-> "prepared", old |-> auth, boundary |-> cmd[r].boundary, scope |-> cmd[r].scope]

(* Mutant: the replaced owner keeps its record. *)
PrepareBesideOwner(r) ==
  /\ cmd[r].pc = "prepare"
  /\ CanPrepare(r)
  /\ records' = [records EXCEPT ![r] = PreparedRecord(r)]
  /\ Goto(r, "sync")
  /\ UNCHANGED <<sourceVars, ckpt, barrier, syncVars, lease, stream, auth, faults>>

(* insert_prepared_recovery: a prepared owner is abandoned in the same     *)
(* transaction.                                                            *)
PrepareRecord(r) ==
  /\ cmd[r].pc = "prepare"
  /\ CanPrepare(r)
  /\ records' = [o \in Recoveries |->
                   IF o = r THEN PreparedRecord(r)
                   ELSE IF records[o].status = "prepared"
                        THEN [records[o] EXCEPT !.status = "abandoned"]
                        ELSE records[o]]
  /\ Goto(r, "sync")
  /\ UNCHANGED <<sourceVars, ckpt, barrier, syncVars, lease, stream, auth, faults>>

RefusePrepare(r) == cmd[r].pc = "prepare" /\ ~CanPrepare(r) /\ Refuse(r)

(* validate_retained_binlog_boundary *)
Retained(boundary) == boundary >= purged

(* validate_recorded_recovery_tables: the tables that both stages of the   *)
(* run have rows for; the two sets must agree.                             *)
recorded_rows(r) == {t \in Tables : rows[r][t] = "complete"}
RecordedTablesAgree(r) == recorded_rows(r) # {} /\ recorded_rows(r) = prereq[r]

ScopeTables(r) == IF cmd[r].kind = "activate" THEN recorded_rows(r) ELSE SourceTables

(* resume_prepared_recovery, then load_prepared_resume_snapshot or         *)
(* load_prepared_activation_snapshot.                                      *)
CanLoad(r) ==
  /\ require_expected_recovery_state(r)
  /\ records[r].status = "prepared"
  /\ records[r].old = auth
  /\ Retained(records[r].boundary)
  /\ cmd[r].kind = "activate" => RecordedTablesAgree(r)
  /\ records[r].scope = inventory_scope(ScopeTables(r))

LoadPrepared(r) ==
  /\ cmd[r].pc = "load"
  /\ CanLoad(r)
  /\ cmd' = [cmd EXCEPT ![r].boundary = records[r].boundary,
                        ![r].scope = records[r].scope,
                        ![r].tables = ScopeTables(r),
                        ![r].pc = IF cmd[r].kind = "activate" THEN "retained" ELSE "sync"]
  /\ LocalStep

RefuseLoad(r) == cmd[r].pc = "load" /\ ~CanLoad(r) /\ Refuse(r)

-----------------------------------------------------------------------------
(* resync-stream: no lease, no record; the checkpoint row is inserted only *)
(* if there is none.                                                       *)

StartResync ==
  /\ cmd["resync"].pc = "idle"
  /\ barrier = "none"
  /\ cmd' = [cmd EXCEPT !["resync"] = [Idle EXCEPT !.pc = "bootstrap", !.kind = "resync",
                                                   !.boundary = Written]]
  /\ LocalStep

Bootstrap ==
  /\ cmd["resync"].pc = "bootstrap"
  /\ ckpt' = IF ckpt = NoCheckpoint THEN cmd["resync"].boundary ELSE ckpt
  /\ Goto("resync", "inventory")
  /\ UNCHANGED <<sourceVars, barrier, records, syncVars, lease, stream, auth, faults>>

ResyncEvidence ==
  /\ cmd["resync"].pc = "inventory"
  /\ cmd' = [cmd EXCEPT !["resync"].tables = SourceTables,
                        !["resync"].scope = inventory_scope(SourceTables),
                        !["resync"].pc = "sync"]
  /\ LocalStep

-----------------------------------------------------------------------------
(* run_mysql_sync_with_evidence, table by table.  It writes on connections *)
(* of its own, so a lost lease does not stop it.                           *)

Syncing(r) == cmd[r].pc = "sync"

SyncPrerequisites(r) ==
  /\ Syncing(r)
  /\ ~(cmd[r].tables \subseteq prereq[r])
  /\ prereq' = [prereq EXCEPT ![r] = @ \cup cmd[r].tables]
  /\ applied' = applied \cup {i \in cmd[r].scope : binlog[i].table \notin prereq[r]}
  /\ UNCHANGED <<sourceVars, recordVars, rows, lease, stream, cmd, auth, faults>>

(* The phases of a table.  A run that is resumed keeps the cursor it left, *)
(* so what it is sure to bring is what precedes its first read.            *)
CopyRows(r, t) ==
  /\ Syncing(r)
  /\ t \in cmd[r].tables /\ cmd[r].tables \subseteq prereq[r]
  /\ rows[r][t] = "none"
  /\ rows' = [rows EXCEPT ![r][t] = "phases"]
  /\ applied' = applied \cup RowsOn(t, Written)
  /\ UNCHANGED <<sourceVars, recordVars, prereq, lease, stream, cmd, auth, faults>>

PhasesDone(r) == \A t \in cmd[r].tables : rows[r][t] \in {"phases", "complete"}

(* run_mysql_sync_phases saves the rows stage of a table only when the     *)
(* phases of all tables are through.                                       *)
SaveRows(r, t) ==
  /\ Syncing(r)
  /\ PhasesDone(r)
  /\ t \in cmd[r].tables
  /\ rows[r][t] = "phases"
  /\ rows' = [rows EXCEPT ![r][t] = "complete"]
  /\ UNCHANGED <<sourceVars, recordVars, prereq, applied, lease, stream, cmd, auth, faults>>

(* The final constraints stage, and the exact-scope proof of its report. *)
SyncDone(r) ==
  /\ Syncing(r)
  /\ \A t \in cmd[r].tables : rows[r][t] = "complete"
  /\ IF r = "resync" THEN Exit(r) ELSE Goto(r, "retained") /\ UNCHANGED lease
  /\ UNCHANGED <<sourceVars, recordVars, syncVars, stream, auth, faults>>

-----------------------------------------------------------------------------
(* commit_anchored_recovery, and the end of run_activate_lost_binlog. *)

CheckRetained(r) ==
  /\ cmd[r].pc = "retained"
  /\ IF Retained(cmd[r].boundary)
     THEN Goto(r, "scope") /\ LocalStep
     ELSE Refuse(r)

CurrentScope(r) ==
  inventory_scope(IF cmd[r].kind = "activate" THEN cmd[r].tables ELSE SourceTables)

CheckScope(r) ==
  /\ cmd[r].pc = "scope"
  /\ IF CurrentScope(r) = cmd[r].scope
     THEN Goto(r, "commit") /\ LocalStep
     ELSE Refuse(r)

CanCommit(r) ==
  /\ require_expected_recovery_state(r)
  /\ records[r] = PreparedRecord(r)

(* commit_validated_recovery: one transaction. *)
CommitRecovery(r) ==
  /\ cmd[r].pc = "commit"
  /\ CanCommit(r)
  /\ ckpt' = records[r].boundary
  /\ records' = [records EXCEPT ![r].status = "committed"]
  /\ Exit(r)
  /\ UNCHANGED <<sourceVars, barrier, syncVars, stream, auth, faults>>

RefuseCommit(r) == cmd[r].pc = "commit" /\ ~CanCommit(r) /\ Refuse(r)

(* The command dies, or meets an error of a connection. *)
CommandDies(r) ==
  /\ cmd[r].pc # "idle"
  /\ faults < MaxFaults
  /\ faults' = faults + 1
  /\ Exit(r)
  /\ UNCHANGED <<sourceVars, recordVars, syncVars, stream, auth>>

-----------------------------------------------------------------------------

StreamStep ==
  StreamLoads \/ StreamInitializes \/ StreamApplies \/ StreamIsBlocked \/ StreamPassesBarrier

SyncStep(r) ==
  \/ SyncPrerequisites(r)
  \/ \E t \in Tables : CopyRows(r, t) \/ SaveRows(r, t)
  \/ SyncDone(r)

CommandStep(r) ==
  \/ CaptureCoordinate(r) \/ CaptureEvidence(r)
  \/ PrepareRecord(r) \/ RefusePrepare(r) \/ LoadPrepared(r) \/ RefuseLoad(r)
  \/ SyncStep(r)
  \/ CheckRetained(r) \/ CheckScope(r) \/ CommitRecovery(r) \/ RefuseCommit(r)

ResyncStep == Bootstrap \/ ResyncEvidence \/ SyncStep("resync")

Next ==
  \/ SourceEvent \/ PurgeBinlogs
  \/ StreamStep \/ StreamDies \/ LeaseConnectionLost
  \/ \E r \in Recoveries : StartCommand(r) \/ CommandStep(r)
  \/ StartResync \/ ResyncStep
  \/ \E r \in Runs : CommandDies(r)

Spec == Init /\ [][Next]_vars

(***************************************************************************)
(* A command that was started goes on; an operator starts the resume of a  *)
(* prepared recovery again, and some attempt finds the lease free although *)
(* GET_LOCK does not wait.                                                 *)
(***************************************************************************)
ResumeStarts(r) ==
  StartCommand(r) /\ records[r].status = "prepared" /\ cmd'[r].kind = "resume"

Fairness ==
  /\ \A r \in Recoveries : WF_vars(CommandStep(r)) /\ SF_vars(ResumeStarts(r))
  /\ WF_vars(StreamStep)

FairSpec == Spec /\ Fairness

-----------------------------------------------------------------------------

(***************************************************************************)
(* Nothing is lost: every source event the checkpoint has passed is in the *)
(* target, whichever of the stream, a recovery, its resume, an activation  *)
(* or a resync moved the checkpoint there, and whatever purges, schema     *)
(* changes, crashes and lost leases happened on the way.  While a resync   *)
(* is still copying a table, only the events of that table are excused.    *)
(***************************************************************************)
NoChangeLost ==
  ckpt # NoCheckpoint =>
    \A i \in 1 .. ckpt :
      \/ i \in applied
      \/ barrier = "none" /\ rows["resync"][binlog[i].table] = "none"

(***************************************************************************)
(* A barrier has at most one live recovery, so no second command can move  *)
(* the checkpoint past it: not one that was abandoned while its command    *)
(* still runs, nor one whose command lost the lease.                       *)
(***************************************************************************)
OneRecoveryOwnsBarrier ==
  Cardinality({r \in Recoveries : records[r].status \in OwnerStatuses}) <= 1

(***************************************************************************)
(* The checkpoint never moves back: a stream session that read it before   *)
(* a recovery committed finds out before it writes.                        *)
(***************************************************************************)
CheckpointNeverMovesBack == [][ckpt # NoCheckpoint => ckpt' >= ckpt]_vars

(***************************************************************************)
(* A prepared recovery that stays valid (its boundary retained, the scope  *)
(* and the authorized state unchanged) is not prepared for ever: an        *)
(* operator who repeats the resume gets it committed.                      *)
(***************************************************************************)
StillValid(r) ==
  /\ records[r].status = "prepared"
  /\ ckpt = auth
  /\ barrier \in {"translation_pending", "blocked"}
  /\ Retained(records[r].boundary)
  /\ records[r].scope = inventory_scope(SourceTables)

ValidRecoveryCommits == \A r \in Recoveries : []<>~StillValid(r)

=============================================================================

----------------------- MODULE LostBinlogRecoveryProofs -----------------------
(***************************************************************************)
(* What the recovery commands promise together with the stream, for any    *)
(* number of tables, recoveries, source events, crashes, lost leases and   *)
(* purges.  NoChangeLost is not inductive: a commit moves the checkpoint   *)
(* to a boundary that was captured many steps before, perhaps by another   *)
(* process, so the invariant says what the record of a recovery and its    *)
(* sync rows already guarantee about that boundary.                        *)
(***************************************************************************)
EXTENDS LostBinlogRecovery, FiniteSetTheorems, TLAPS

RecoveryStages == {"idle", "boundary", "evidence", "prepare", "load", "sync", "retained", "scope", "commit"}
ResyncStages == {"idle", "bootstrap", "inventory", "sync"}
Proven == {"retained", "scope", "commit"}     \* the sync of the run is complete

Commands ==
  [pc : RecoveryStages \cup ResyncStages,
   kind : {"none", "recover", "resume", "activate", "resync"},
   boundary : Nat, scope : SUBSET Nat, tables : SUBSET Tables]
Records ==
  [status : {"none", "prepared", "committed", "abandoned"},
   old : Nat, boundary : Nat, scope : SUBSET Nat]

RecoveryTypes ==
  /\ binlog \in Seq(Events)
  /\ ckpt \in Coordinates \cup {NoCheckpoint}
  /\ auth \in Coordinates \cup {NoCheckpoint}
  /\ barrier \in {"none", "translation_pending", "prepared", "blocked", "checkpointed"}
  /\ records \in [Recoveries -> Records]
  /\ rows \in [Runs -> [Tables -> {"none", "phases", "complete"}]]
  /\ prereq \in [Runs -> SUBSET Tables]
  /\ stream \in [pc : {"down", "loaded", "run"}, pos : Nat]
  /\ cmd \in [Runs -> Commands]

(* A table is created before anything else happens to it; one event bars   *)
(* the way.                                                                *)
LogInv ==
  /\ Barrier <= Written /\ Written <= MaxEvents
  /\ \A i \in 1 .. Written : \E j \in 1 .. i :
       binlog[j].kind = "create" /\ binlog[j].table = binlog[i].table
  /\ \A i \in 1 .. Written : binlog[i].kind = "barrier" => i = Barrier

(* A session is never ahead of the checkpoint row. *)
PositionInv ==
  /\ ckpt # NoCheckpoint => ckpt <= Written
  /\ stream.pc # "down" => ckpt # NoCheckpoint /\ stream.pos <= ckpt

(* A stream either has a barrier to recover from or is bootstrapped by     *)
(* resync beyond it, never both.                                           *)
ModeInv ==
  /\ barrier = "none" <=> auth = NoCheckpoint
  /\ barrier = "none" =>
       /\ ckpt >= Barrier
       /\ stream.pc # "down" => stream.pos >= Barrier
       /\ \A r \in Recoveries : cmd[r].pc = "idle" /\ records[r].status = "none"
  /\ barrier # "none" => ckpt # NoCheckpoint /\ cmd["resync"].pc = "idle"
  /\ cmd["resync"].pc \in ResyncStages
  /\ \A r \in Recoveries : cmd[r].pc \in RecoveryStages

OwnerInv ==
  \A q, r \in Recoveries :
    records[q].status \in OwnerStatuses /\ records[r].status \in OwnerStatuses => q = r

(* A scope holds every definition up to a boundary. *)
ScopeCovers(scope, boundary) ==
  /\ boundary <= Written
  /\ \A i \in scope : i \in 1 .. Written
  /\ \A i \in 1 .. boundary : binlog[i].kind # "row" => i \in scope

TablesCover(tables, boundary) == \A i \in 1 .. boundary : binlog[i].table \in tables

(* What the durable rows of a run guarantee about the recorded boundary. *)
RecordOk(r) ==
  /\ records[r].status = "none" => prereq[r] = {}
  /\ records[r].status # "none" =>
       /\ records[r].boundary > records[r].old
       /\ ScopeCovers(records[r].scope, records[r].boundary)
       /\ \A i \in 1 .. records[r].boundary :
            binlog[i].kind = "row" /\ rows[r][binlog[i].table] # "none" => i \in applied
  /\ \A i \in records[r].scope : binlog[i].table \in prereq[r] => i \in applied
  /\ \A t \in Tables : rows[r][t] # "none" => t \in prereq[r]

(* What a command holds in memory agrees with its record. *)
CommandOk(r) ==
  /\ cmd[r].pc = "evidence" => cmd[r].boundary <= Written
  /\ cmd[r].pc = "prepare" =>
       /\ ScopeCovers(cmd[r].scope, cmd[r].boundary)
       /\ TablesCover(cmd[r].tables, cmd[r].boundary)
  /\ cmd[r].pc \in Proven \cup {"sync"} =>
       /\ records[r].status # "none"
       /\ cmd[r].boundary = records[r].boundary
       /\ cmd[r].scope = records[r].scope
       /\ TablesCover(cmd[r].tables, cmd[r].boundary)
  /\ cmd[r].pc \in Proven => \A t \in cmd[r].tables : rows[r][t] # "none"

RecordInv == \A r \in Recoveries : RecordOk(r)
CommandInv == \A r \in Recoveries : CommandOk(r)

(* The same for resync, whose boundary is the checkpoint itself. *)
ResyncCommandInv ==
  /\ cmd["resync"].pc = "bootstrap" =>
       Barrier <= cmd["resync"].boundary /\ cmd["resync"].boundary <= Written
  /\ cmd["resync"].pc \in {"inventory", "sync"} => ckpt # NoCheckpoint
  /\ cmd["resync"].pc = "sync" =>
       \A i \in 1 .. ckpt : binlog[i].kind # "row" => i \in applied \/ i \in cmd["resync"].scope

CheckpointInv ==
  /\ \A t \in Tables : rows["resync"][t] # "none" => t \in prereq["resync"]
  /\ prereq["resync"] # {} => ckpt # NoCheckpoint
  /\ ckpt # NoCheckpoint =>
       \A i \in 1 .. ckpt :
         \/ i \in applied
         \/ binlog[i].kind = "row" /\ rows["resync"][binlog[i].table] = "none" /\ barrier = "none"
         \/ binlog[i].table \notin prereq["resync"] /\ barrier = "none"

RecoveryInv ==
  /\ RecoveryTypes /\ LogInv /\ PositionInv /\ ModeInv
  /\ OwnerInv /\ RecordInv /\ CommandInv /\ ResyncCommandInv /\ CheckpointInv

-----------------------------------------------------------------------------
(***************************************************************************)
(* Steps that move one process and leave everything durable alone.         *)
(***************************************************************************)

LEMMA InitRecovery == Init => RecoveryInv
  <1> SUFFICES ASSUME Init PROVE RecoveryInv
    OBVIOUS
  <1> USE RecoveryAssumption DEF Barrier, NoCheckpoint, Coordinates
  <1> DEFINE t0 == CHOOSE t \in Tables : TRUE
  <1>1. t0 \in Tables
    OBVIOUS
  <1>2. binlog = << [kind |-> "create", table |-> t0], [kind |-> "barrier", table |-> t0] >>
    BY DEF Init
  <1> HIDE DEF t0
  <1>3. /\ binlog \in Seq(Events) /\ Len(binlog) = 2
        /\ binlog[1] = [kind |-> "create", table |-> t0]
        /\ binlog[2] = [kind |-> "barrier", table |-> t0]
    BY <1>1, <1>2 DEF Events, EventKinds
  <1>4. RecoveryTypes
    BY <1>3 DEF Init, RecoveryTypes, Commands, Records, NoRecord, Idle, RecoveryStages, ResyncStages
  <1>5. LogInv
    <2>1. \A i \in 1 .. 2 : i = 1 \/ i = 2
      OBVIOUS
    <2> QED
      BY <1>3, <2>1 DEF LogInv, Written
  <1>6. PositionInv /\ ModeInv
    BY <1>3 DEF Init, PositionInv, ModeInv, Written, Idle, NoRecord, Runs, RecoveryStages, ResyncStages
  <1>7. OwnerInv /\ RecordInv /\ CommandInv /\ ResyncCommandInv
    BY DEF Init, OwnerInv, RecordInv, RecordOk, CommandInv, CommandOk, ResyncCommandInv, NoRecord, Idle,
           Runs, OwnerStatuses, Proven
  <1>8. CheckpointInv
    BY DEF Init, CheckpointInv, Runs
  <1> QED
    BY <1>4, <1>5, <1>6, <1>7, <1>8 DEF RecoveryInv

(* A step of a session or of the source's retention. *)
LEMMA SessionMoves ==
  ASSUME RecoveryInv, UNCHANGED <<binlog, recordVars, syncVars, cmd, auth>>,
         stream' \in [pc : {"down", "loaded", "run"}, pos : Nat],
         stream'.pc # "down" =>
           ckpt # NoCheckpoint /\ stream'.pos <= ckpt /\ (barrier = "none" => stream'.pos >= Barrier)
  PROVE  RecoveryInv'
  <1> USE DEF RecoveryInv, recordVars, syncVars
  <1>1. RecoveryTypes' /\ LogInv' /\ PositionInv' /\ ModeInv'
    BY DEF RecoveryTypes, LogInv, PositionInv, ModeInv, Written
  <1>2. OwnerInv' /\ RecordInv' /\ CommandInv'
    BY DEF OwnerInv, RecordInv, RecordOk, CommandInv, CommandOk, ScopeCovers, TablesCover, Written
  <1>3. ResyncCommandInv' /\ CheckpointInv'
    BY DEF ResyncCommandInv, CheckpointInv, Written
  <1> QED
    BY <1>1, <1>2, <1>3

(* A step of one command that only changes what it holds in memory. *)
LEMMA CommandMoves ==
  ASSUME RecoveryInv, UNCHANGED <<binlog, recordVars, syncVars, stream, auth>>,
         NEW r \in Runs,
         cmd' \in [Runs -> Commands],
         \A q \in Runs \ {r} : cmd'[q] = cmd[q],
         r # "resync" => /\ cmd'[r].pc \in RecoveryStages
                         /\ barrier = "none" => cmd'[r].pc = "idle"
                         /\ CommandOk(r)',
         r = "resync" => /\ cmd'[r].pc \in ResyncStages
                         /\ barrier # "none" => cmd'[r].pc = "idle"
                         /\ ResyncCommandInv'
  PROVE  RecoveryInv'
  <1> USE DEF RecoveryInv, recordVars, syncVars
  <1>0. "resync" \notin Recoveries
    BY RecoveryAssumption
  <1>1. RecoveryTypes' /\ LogInv' /\ PositionInv'
    BY DEF RecoveryTypes, LogInv, PositionInv, Written
  <1>2. ModeInv'
    BY <1>0 DEF ModeInv, Runs
  <1>3. OwnerInv' /\ RecordInv' /\ CheckpointInv'
    BY DEF OwnerInv, RecordInv, RecordOk, CheckpointInv, ScopeCovers, Written
  <1>4. CommandInv'
    <2> SUFFICES ASSUME NEW q \in Recoveries PROVE CommandOk(q)'
      BY DEF CommandInv
    <2>1. CASE q = r
      BY <1>0, <2>1
    <2>2. CASE q # r
      BY <2>2 DEF CommandInv, CommandOk, ScopeCovers, TablesCover, Written, Runs
    <2> QED
      BY <2>1, <2>2
  <1>5. ResyncCommandInv'
    <2>1. CASE r # "resync"
      BY <2>1 DEF ResyncCommandInv, Written, Runs
    <2> QED
      BY <2>1
  <1> QED
    BY <1>1, <1>2, <1>3, <1>4, <1>5

-----------------------------------------------------------------------------
(***************************************************************************)
(* The source, and the stream.                                             *)
(***************************************************************************)

LEMMA SourceEventKeeps == RecoveryInv /\ SourceEvent => RecoveryInv'
  <1> SUFFICES ASSUME RecoveryInv, SourceEvent PROVE RecoveryInv'
    OBVIOUS
  <1> USE DEF RecoveryInv, recordVars, syncVars
  <1>1. PICK t \in Tables, k \in {"row", "alter", "create"} :
          /\ (k = "create") <=> t \notin SourceTables
          /\ binlog' = Append(binlog, [kind |-> k, table |-> t])
    BY DEF SourceEvent
  <1>2. UNCHANGED <<purged, recordVars, syncVars, lease, stream, cmd, auth, faults>> /\ Written < MaxEvents
    BY DEF SourceEvent
  <1>3. /\ binlog' \in Seq(Events) /\ Written \in Nat /\ Written' = Written + 1
        /\ \A i \in 1 .. Written : binlog'[i] = binlog[i]
        /\ binlog'[Written + 1] = [kind |-> k, table |-> t]
    BY <1>1 DEF RecoveryTypes, Events, EventKinds, Written
  <1>4. RecoveryTypes'
    BY <1>2, <1>3 DEF RecoveryTypes
  <1>5. LogInv'
    <2>1. Barrier <= Written' /\ Written' <= MaxEvents
      BY <1>2, <1>3, RecoveryAssumption DEF LogInv, Barrier
    <2>2. ASSUME NEW i \in 1 .. Written'
          PROVE  \E j \in 1 .. i : binlog'[j].kind = "create" /\ binlog'[j].table = binlog'[i].table
      <3>1. CASE i \in 1 .. Written
        <4>1. PICK j \in 1 .. i : binlog[j].kind = "create" /\ binlog[j].table = binlog[i].table
          BY <3>1 DEF LogInv
        <4>2. j \in 1 .. Written
          BY <3>1, <1>3
        <4> QED
          BY <3>1, <4>1, <4>2, <1>3
      <3>2. CASE i = Written + 1 /\ k = "create"
        BY <3>2, <1>3
      <3>3. CASE i = Written + 1 /\ k # "create"
        <4>1. PICK j \in 1 .. Written : binlog[j].kind = "create" /\ binlog[j].table = t
          BY <3>3, <1>1 DEF SourceTables, TablesOf
        <4> QED
          BY <3>3, <4>1, <1>3
      <3> QED
        BY <1>3, <3>1, <3>2, <3>3
    <2>3. ASSUME NEW i \in 1 .. Written', binlog'[i].kind = "barrier" PROVE i = Barrier
      BY <1>3, <2>3 DEF LogInv
    <2> QED
      BY <2>1, <2>2, <2>3 DEF LogInv
  <1>6. PositionInv' /\ ModeInv' /\ OwnerInv'
    BY <1>2, <1>3, RecoveryAssumption DEF PositionInv, ModeInv, OwnerInv, RecoveryTypes, Coordinates, NoCheckpoint
  <1>7. \A n \in Nat : n <= Written => \A i \in 1 .. n : binlog'[i] = binlog[i]
    BY <1>3
  <1>9. RecordInv'
    <2> SUFFICES ASSUME NEW r \in Recoveries PROVE RecordOk(r)'
      BY DEF RecordInv
    <2>0. RecordOk(r) /\ records[r] \in Records /\ prereq[r] \in SUBSET Tables
      BY DEF RecordInv, RecoveryTypes, Runs
    <2>1. CASE records[r].status = "none"
      BY <2>0, <2>1, <1>2 DEF RecordOk
    <2>2. CASE records[r].status # "none"
      <3>1. \A i \in records[r].scope : binlog'[i] = binlog[i]
        BY <2>0, <2>2, <1>3 DEF RecordOk, ScopeCovers
      <3>2. \A i \in 1 .. records[r].boundary : binlog'[i] = binlog[i]
        BY <2>0, <2>2, <1>7 DEF RecordOk, ScopeCovers, Records
      <3>3. records[r].boundary \in Nat
        BY <2>0 DEF Records
      <3>4. ScopeCovers(records[r].scope, records[r].boundary)'
        BY <2>0, <2>2, <1>2, <1>3, <3>1, <3>2, <3>3 DEF RecordOk, ScopeCovers
      <3> QED
        BY <2>0, <2>2, <3>1, <3>2, <3>4, <1>2 DEF RecordOk
    <2> QED
      BY <2>1, <2>2
  <1>10. CommandInv'
    <2> SUFFICES ASSUME NEW r \in Recoveries PROVE CommandOk(r)'
      BY DEF CommandInv
    <2>1. /\ CommandOk(r) /\ cmd[r] \in Commands /\ UNCHANGED <<cmd, records, rows>>
          /\ records[r].status # "none" => records[r].boundary <= Written
      BY <1>2 DEF RecordInv, RecordOk, ScopeCovers, CommandInv, RecoveryTypes, Runs
    <2>2. cmd[r].boundary \in Nat
      BY <2>1 DEF Commands
    <2>3. cmd[r].boundary <= Written => \A i \in 1 .. cmd[r].boundary : binlog'[i] = binlog[i]
      BY <1>7, <2>2
    <2>4. CASE cmd[r].pc \in {"evidence", "prepare"}
      BY <1>3, <2>1, <2>2, <2>3, <2>4, SMTT(30) DEF CommandOk, ScopeCovers, TablesCover, Proven
    <2>5. CASE cmd[r].pc \notin {"evidence", "prepare"}
      BY <2>1, <2>3, <2>5 DEF CommandOk, TablesCover
    <2> QED
      BY <2>4, <2>5
  <1>11. ResyncCommandInv' /\ CheckpointInv'
    <2>1. ckpt # NoCheckpoint => \A i \in 1 .. ckpt : binlog'[i] = binlog[i]
      BY <1>3, RecoveryAssumption DEF PositionInv, RecoveryTypes, Coordinates, NoCheckpoint
    <2>2. cmd["resync"].boundary \in Nat
      BY DEF RecoveryTypes, Commands, Runs
    <2>3. ResyncCommandInv'
      BY <1>2, <1>3, <2>1, <2>2 DEF ResyncCommandInv
    <2>4. CheckpointInv'
      BY <1>2, <2>1 DEF CheckpointInv
    <2> QED
      BY <2>3, <2>4
  <1> QED
    BY <1>4, <1>5, <1>6, <1>9, <1>10, <1>11

LEMMA SessionKeeps ==
  RecoveryInv /\ (PurgeBinlogs \/ StreamLoads \/ StreamInitializes \/ StreamDies \/ LeaseConnectionLost)
    => RecoveryInv'
  <1> SUFFICES ASSUME RecoveryInv,
                      PurgeBinlogs \/ StreamLoads \/ StreamInitializes \/ StreamDies \/ LeaseConnectionLost
               PROVE  RecoveryInv'
    OBVIOUS
  <1> USE RecoveryAssumption DEF sourceVars
  <1>1. UNCHANGED <<binlog, recordVars, syncVars, cmd, auth>>
    BY DEF PurgeBinlogs, StreamLoads, StreamInitializes, StreamDies, LeaseConnectionLost
  <1>2. stream \in [pc : {"down", "loaded", "run"}, pos : Nat] /\ ckpt \in Nat
    BY DEF RecoveryInv, RecoveryTypes, Coordinates, NoCheckpoint
  <1>3. /\ stream.pc # "down" => ckpt # NoCheckpoint /\ stream.pos <= ckpt
        /\ barrier = "none" => ckpt >= Barrier /\ (stream.pc # "down" => stream.pos >= Barrier)
    BY DEF RecoveryInv, PositionInv, ModeInv
  <1>4. \/ stream' = stream
        \/ stream' = [stream EXCEPT !.pc = "down"]
        \/ stream.pc = "loaded" /\ stream' = [stream EXCEPT !.pc = "run"]
        \/ stream' = [pc |-> "loaded", pos |-> ckpt] /\ ckpt # NoCheckpoint
    BY <1>2, <1>3 DEF PurgeBinlogs, StreamLoads, StreamInitializes, StreamDies, LeaseConnectionLost
  <1>5. /\ stream' \in [pc : {"down", "loaded", "run"}, pos : Nat]
        /\ stream'.pc # "down" =>
             ckpt # NoCheckpoint /\ stream'.pos <= ckpt /\ (barrier = "none" => stream'.pos >= Barrier)
    BY <1>2, <1>3, <1>4 DEF Barrier
  <1> QED
    BY <1>1, <1>5, SessionMoves

(* An event applied with its checkpoint: the session was at the checkpoint *)
(* row, so exactly one event is passed.                                    *)
LEMMA StreamAdvances ==
  ASSUME RecoveryInv, UNCHANGED <<binlog, records, rows, prereq, cmd, auth>>,
         StreamReads, CheckpointAccepts(NextEvent),
         applied' = applied \cup {NextEvent},
         ckpt' = NextEvent,
         stream' = [stream EXCEPT !.pos = NextEvent],
         barrier' = barrier \/ (barrier # "none" /\ barrier' = "checkpointed")
  PROVE  RecoveryInv'
  <1> USE DEF RecoveryInv
  <1>1. /\ ckpt \in Nat /\ stream \in [pc : {"down", "loaded", "run"}, pos : Nat]
        /\ stream.pc = "run" /\ stream.pos < Written /\ Written \in Nat /\ Written <= MaxEvents
        /\ MaxEvents \in Nat
    BY RecoveryAssumption DEF RecoveryTypes, StreamReads, Coordinates, NoCheckpoint, LogInv, Written
  <1>2. ckpt # NoCheckpoint /\ stream.pos = ckpt
    BY <1>1 DEF CheckpointAccepts, NextEvent, PositionInv
  <1>3. ckpt' = ckpt + 1 /\ ckpt' \in Coordinates /\ ckpt' # NoCheckpoint /\ ckpt' <= Written
    BY <1>1, <1>2 DEF NextEvent, Coordinates, NoCheckpoint
  <1>4. stream' \in [pc : {"down", "loaded", "run"}, pos : Nat] /\ stream'.pos = ckpt'
    BY <1>1, <1>2, <1>3 DEF NextEvent
  <1>5. RecoveryTypes' /\ LogInv'
    BY <1>3, <1>4 DEF RecoveryTypes, LogInv, Written
  <1>6. PositionInv' /\ ModeInv'
    BY <1>1, <1>2, <1>3, <1>4 DEF PositionInv, ModeInv, Written, Barrier
  <1>7. OwnerInv' /\ RecordInv' /\ CommandInv'
    BY DEF OwnerInv, RecordInv, RecordOk, CommandInv, CommandOk, ScopeCovers, TablesCover, Written
  <1>8. \A i \in 1 .. ckpt' : i \in 1 .. ckpt \/ i = NextEvent
    BY <1>1, <1>2, <1>3 DEF NextEvent
  <1>9. ResyncCommandInv'
    BY <1>2, <1>3, <1>8 DEF ResyncCommandInv, Written
  <1>10. CheckpointInv'
    BY <1>2, <1>3, <1>8 DEF CheckpointInv
  <1> QED
    BY <1>5, <1>6, <1>7, <1>9, <1>10

LEMMA ApplyingKeeps == RecoveryInv /\ (StreamApplies \/ StreamPassesBarrier) => RecoveryInv'
  <1> SUFFICES ASSUME RecoveryInv, StreamApplies \/ StreamPassesBarrier PROVE RecoveryInv'
    OBVIOUS
  <1>1. UNCHANGED <<binlog, records, rows, prereq, cmd, auth>> /\ StreamReads
    BY DEF StreamApplies, StreamPassesBarrier, sourceVars
  <1>2. stream \in [pc : {"down", "loaded", "run"}, pos : Nat] /\ stream.pc = "run"
    BY <1>1 DEF RecoveryInv, RecoveryTypes, StreamReads
  <1>3. CASE CheckpointAccepts(NextEvent)
    <2>1. binlog[NextEvent].kind = "barrier" => barrier # "none"
      <3>1. NextEvent \in 1 .. Written
        BY <1>1, <1>2 DEF RecoveryInv, RecoveryTypes, NextEvent, StreamReads, Written
      <3>2. binlog[NextEvent].kind = "barrier" => NextEvent = Barrier
        BY <3>1 DEF RecoveryInv, LogInv
      <3> QED
        BY <1>2, <3>2 DEF RecoveryInv, ModeInv, NextEvent, Barrier
    <2>2. /\ applied' = applied \cup {NextEvent}
          /\ ckpt' = NextEvent
          /\ stream' = [stream EXCEPT !.pos = NextEvent]
          /\ barrier' = barrier \/ (barrier # "none" /\ barrier' = "checkpointed")
      BY <1>3, <2>1 DEF StreamApplies, StreamPassesBarrier
    <2> QED
      BY <1>1, <1>3, <2>2, StreamAdvances
  <1>4. CASE ~CheckpointAccepts(NextEvent)
    <2>1. stream' = [stream EXCEPT !.pc = "down"] /\ UNCHANGED <<applied, ckpt, barrier>>
      BY <1>4 DEF StreamApplies, StreamPassesBarrier
    <2>2. UNCHANGED <<binlog, recordVars, syncVars, cmd, auth>>
      BY <1>1, <2>1 DEF recordVars, syncVars
    <2>3. stream' \in [pc : {"down", "loaded", "run"}, pos : Nat] /\ stream'.pc = "down"
      BY <1>2, <2>1
    <2> QED
      BY <2>2, <2>3, SessionMoves
  <1> QED
    BY <1>3, <1>4

LEMMA BlockedKeeps == RecoveryInv /\ StreamIsBlocked => RecoveryInv'
  <1> SUFFICES ASSUME RecoveryInv, StreamIsBlocked PROVE RecoveryInv'
    OBVIOUS
  <1> USE DEF RecoveryInv
  <1>1. /\ stream \in [pc : {"down", "loaded", "run"}, pos : Nat] /\ stream.pc = "run"
        /\ ckpt \in Coordinates \cup {NoCheckpoint}
        /\ NextEvent \in 1 .. Written
        /\ UNCHANGED <<binlog, ckpt, records, rows, prereq, applied, cmd, auth>>
    BY DEF RecoveryTypes, StreamIsBlocked, StreamReads, NextEvent, Written, sourceVars, syncVars
  <1>2. ckpt # NoCheckpoint /\ ckpt \in Nat
    BY <1>1 DEF PositionInv, Coordinates
  <1>3. barrier # "none"
    <2>1. NextEvent = Barrier
      BY <1>1 DEF LogInv, StreamIsBlocked
    <2> QED
      BY <1>1, <2>1 DEF ModeInv, NextEvent, Barrier
  <1>4. barrier' # "none" /\ barrier' \in {"none", "translation_pending", "prepared", "blocked", "checkpointed"}
    BY <1>3 DEF StreamIsBlocked, RecoveryTypes
  <1>5. stream' = [pc |-> "loaded", pos |-> ckpt]
    BY DEF StreamIsBlocked
  <1>6. RecoveryTypes' /\ LogInv'
    BY <1>1, <1>2, <1>4, <1>5 DEF RecoveryTypes, LogInv, Written
  <1>7. PositionInv' /\ ModeInv'
    BY <1>1, <1>2, <1>3, <1>4, <1>5 DEF PositionInv, ModeInv, Written
  <1>8. OwnerInv' /\ RecordInv' /\ CommandInv'
    BY <1>1 DEF OwnerInv, RecordInv, RecordOk, CommandInv, CommandOk, ScopeCovers, TablesCover, Written
  <1>9. ResyncCommandInv' /\ CheckpointInv'
    BY <1>1, <1>3, <1>4 DEF ResyncCommandInv, CheckpointInv, Written
  <1> QED
    BY <1>6, <1>7, <1>8, <1>9

-----------------------------------------------------------------------------
(***************************************************************************)
(* The commands: steps in memory.                                          *)
(***************************************************************************)

LEMMA CommandFacts ==
  ASSUME RecoveryInv
  PROVE  /\ cmd \in [Runs -> Commands] /\ "resync" \in Runs /\ "resync" \notin Recoveries
         /\ \A r \in Recoveries :
              /\ r \in Runs /\ cmd[r] \in Commands /\ CommandOk(r) /\ RecordOk(r)
              /\ records[r] \in Records /\ cmd[r].pc \in RecoveryStages
              /\ cmd[r].pc # "idle" => barrier # "none"
  BY RecoveryAssumption DEF RecoveryInv, RecoveryTypes, CommandInv, RecordInv, ModeInv, Runs

LEMMA ExitKeeps ==
  ASSUME RecoveryInv, NEW r \in Runs, Exit(r), UNCHANGED <<binlog, recordVars, syncVars, stream, auth>>
  PROVE  RecoveryInv'
  <1>1. cmd \in [Runs -> Commands] /\ cmd' = [cmd EXCEPT ![r] = Idle]
    BY CommandFacts DEF Exit
  <1>2. Idle \in Commands /\ Idle.pc = "idle" /\ "idle" \in RecoveryStages \cap ResyncStages
    BY DEF Idle, Commands, RecoveryStages, ResyncStages
  <1>3. cmd' \in [Runs -> Commands] /\ cmd'[r].pc = "idle" /\ \A q \in Runs \ {r} : cmd'[q] = cmd[q]
    BY <1>1, <1>2
  <1>4. CommandOk(r)'
    BY <1>3 DEF CommandOk, Proven
  <1>5. r = "resync" => ResyncCommandInv'
    BY <1>3 DEF ResyncCommandInv
  <1> QED
    BY <1>2, <1>3, <1>4, <1>5, CommandMoves

LEMMA RefusingKeeps ==
  ASSUME RecoveryInv, NEW r \in Recoveries,
         RefusePrepare(r) \/ RefuseLoad(r) \/ RefuseCommit(r)
  PROVE  RecoveryInv'
  BY ExitKeeps, CommandFacts DEF RefusePrepare, RefuseLoad, RefuseCommit, Refuse, sourceVars

LEMMA DyingKeeps == RecoveryInv /\ (\E r \in Runs : CommandDies(r)) => RecoveryInv'
  BY ExitKeeps DEF CommandDies, sourceVars

(* The source's tables and definitions, as a command reads them, cover     *)
(* every coordinate up to now.                                             *)
LEMMA InventoryCovers ==
  ASSUME RecoveryInv, NEW n \in Nat, n <= Written
  PROVE  /\ SourceTables \in SUBSET Tables
         /\ inventory_scope(SourceTables) \in SUBSET Nat
         /\ ScopeCovers(inventory_scope(SourceTables), n)
         /\ TablesCover(SourceTables, n)
  <1> USE DEF RecoveryInv
  <1>1. binlog \in Seq(Events) /\ Written \in Nat /\ \A i \in 1 .. Written : binlog[i] \in Events
    BY DEF RecoveryTypes, Written
  <1>2. SourceTables \in SUBSET Tables
    BY <1>1 DEF SourceTables, TablesOf, Events
  <1>3. ASSUME NEW i \in 1 .. Written PROVE binlog[i].table \in SourceTables
    <2>1. PICK j \in 1 .. i : binlog[j].kind = "create" /\ binlog[j].table = binlog[i].table
      BY DEF LogInv
    <2>2. j \in 1 .. Written
      BY <1>1
    <2> QED
      BY <2>1, <2>2 DEF SourceTables, TablesOf
  <1>4. inventory_scope(SourceTables) = {i \in 1 .. Written : binlog[i].kind # "row"}
    BY <1>1, <1>3 DEF inventory_scope, Events, EventKinds
  <1>5. \A i \in 1 .. n : i \in 1 .. Written
    BY <1>1
  <1> QED
    BY <1>1, <1>2, <1>3, <1>4, <1>5 DEF ScopeCovers, TablesCover

LEMMA StartingKeeps == ASSUME RecoveryInv, NEW r \in Recoveries, StartCommand(r) PROVE RecoveryInv'
  <1>1. PICK k \in {"recover", "resume", "activate"} :
          cmd' = [cmd EXCEPT ![r] = [Idle EXCEPT !.pc = IF k = "recover" THEN "boundary" ELSE "load",
                                                 !.kind = k]]
    BY Zenon DEF StartCommand
  <1> DEFINE c == [Idle EXCEPT !.pc = IF k = "recover" THEN "boundary" ELSE "load", !.kind = k]
  <1>2. c \in Commands /\ c.pc \in {"boundary", "load"}
    BY Zenon DEF Idle, Commands, RecoveryStages
  <1> HIDE DEF c
  <1>3. /\ cmd' \in [Runs -> Commands] /\ cmd'[r] = c /\ r \in Runs /\ r # "resync"
        /\ \A q \in Runs \ {r} : cmd'[q] = cmd[q]
    BY <1>1, <1>2, CommandFacts DEF c
  <1>4. CommandOk(r)' /\ cmd'[r].pc \in RecoveryStages
    BY <1>2, <1>3 DEF CommandOk, Proven, RecoveryStages
  <1>5. barrier # "none" /\ UNCHANGED <<binlog, recordVars, syncVars, stream, auth>>
    BY DEF StartCommand, RecoveryInv, ModeInv, sourceVars
  <1> QED
    BY <1>3, <1>4, <1>5, CommandMoves

LEMMA CapturingKeeps ==
  ASSUME RecoveryInv, NEW r \in Recoveries, CaptureCoordinate(r) \/ CaptureEvidence(r)
  PROVE  RecoveryInv'
  <1>1. /\ cmd \in [Runs -> Commands] /\ cmd[r] \in Commands /\ r \in Runs /\ r # "resync"
        /\ CommandOk(r) /\ cmd[r].pc # "idle" /\ barrier # "none"
        /\ Written \in Nat
        /\ UNCHANGED <<binlog, recordVars, syncVars, stream, auth>>
    BY CommandFacts DEF CaptureCoordinate, CaptureEvidence, LocalStep, sourceVars, RecoveryInv,
                        RecoveryTypes, Written
  <1>2. CASE CaptureCoordinate(r)
    <2> DEFINE c == [cmd[r] EXCEPT !.boundary = Written, !.pc = "evidence"]
    <2>1. cmd' = [cmd EXCEPT ![r] = c]
      BY <1>1, <1>2, Zenon DEF CaptureCoordinate
    <2>2. c \in Commands /\ c.pc = "evidence" /\ c.boundary = Written
      BY <1>1, Zenon DEF Commands, RecoveryStages
    <2> HIDE DEF c
    <2>3. /\ cmd' \in [Runs -> Commands] /\ cmd'[r] = c
          /\ \A q \in Runs \ {r} : cmd'[q] = cmd[q]
      BY <1>1, <2>1, <2>2
    <2>4. CommandOk(r)' /\ cmd'[r].pc \in RecoveryStages
      BY <1>1, <2>2, <2>3 DEF CommandOk, Proven, RecoveryStages, Written
    <2> QED
      BY <1>1, <2>3, <2>4, CommandMoves
  <1>3. CASE CaptureEvidence(r)
    <2> DEFINE c == [cmd[r] EXCEPT !.tables = SourceTables, !.scope = inventory_scope(SourceTables),
                                   !.pc = "prepare"]
    <2>1. cmd' = [cmd EXCEPT ![r] = c]
      BY <1>1, <1>3, Zenon DEF CaptureEvidence
    <2>2. cmd[r].boundary \in Nat /\ cmd[r].boundary <= Written
      BY <1>1, <1>3 DEF CaptureEvidence, CommandOk, Commands
    <2>3. /\ SourceTables \in SUBSET Tables /\ inventory_scope(SourceTables) \in SUBSET Nat
          /\ ScopeCovers(inventory_scope(SourceTables), cmd[r].boundary)
          /\ TablesCover(SourceTables, cmd[r].boundary)
      BY <2>2, InventoryCovers
    <2>4. /\ c \in Commands /\ c.pc = "prepare" /\ c.boundary = cmd[r].boundary
          /\ c.scope = inventory_scope(SourceTables) /\ c.tables = SourceTables
      BY <1>1, <2>3, Zenon DEF Commands, RecoveryStages
    <2> HIDE DEF c
    <2>5. /\ cmd' \in [Runs -> Commands] /\ cmd'[r] = c
          /\ \A q \in Runs \ {r} : cmd'[q] = cmd[q]
      BY <1>1, <2>1, <2>4
    <2>6. ScopeCovers(cmd[r].scope, cmd[r].boundary)' /\ TablesCover(cmd[r].tables, cmd[r].boundary)'
      BY <1>1, <2>3, <2>4, <2>5 DEF ScopeCovers, TablesCover, Written
    <2>7. CommandOk(r)' /\ cmd'[r].pc \in RecoveryStages
      BY <2>4, <2>5, <2>6 DEF CommandOk, Proven, RecoveryStages
    <2> QED
      BY <1>1, <2>5, <2>7, CommandMoves
  <1> QED
    BY <1>2, <1>3

(* A resume takes over the recorded boundary; an activation also infers    *)
(* from the recorded scope that its tables are all there were.             *)
LEMMA LoadingKeeps == ASSUME RecoveryInv, NEW r \in Recoveries, LoadPrepared(r) PROVE RecoveryInv'
  <1>1. /\ cmd \in [Runs -> Commands] /\ cmd[r] \in Commands /\ r \in Runs /\ r # "resync"
        /\ RecordOk(r) /\ records[r] \in Records /\ barrier # "none"
        /\ CanLoad(r) /\ records[r].status = "prepared"
        /\ UNCHANGED <<binlog, recordVars, syncVars, stream, auth>>
    BY CommandFacts DEF LoadPrepared, CanLoad, LocalStep, sourceVars
  <1>2. /\ records[r].boundary \in Nat /\ records[r].scope \in SUBSET Nat
        /\ ScopeCovers(records[r].scope, records[r].boundary) /\ records[r].boundary <= Written
    BY <1>1 DEF RecordOk, Records, ScopeCovers
  <1>3. ScopeTables(r) \in SUBSET Tables
    BY <1>2, InventoryCovers DEF ScopeTables, recorded_rows
  <1>4. TablesCover(ScopeTables(r), records[r].boundary)
    <2>1. CASE cmd[r].kind # "activate"
      BY <2>1, <1>2, InventoryCovers DEF ScopeTables
    <2>2. CASE cmd[r].kind = "activate"
      <3> SUFFICES ASSUME NEW i \in 1 .. records[r].boundary PROVE binlog[i].table \in recorded_rows(r)
        BY <2>2 DEF TablesCover, ScopeTables
      <3>1. i \in 1 .. Written
        BY <1>2 DEF RecoveryInv, RecoveryTypes, Written
      <3>2. PICK j \in 1 .. i : binlog[j].kind = "create" /\ binlog[j].table = binlog[i].table
        BY <3>1 DEF RecoveryInv, LogInv
      <3>3. j \in records[r].scope
        BY <1>2, <3>2 DEF ScopeCovers
      <3>4. records[r].scope = inventory_scope(recorded_rows(r))
        BY <1>1, <2>2 DEF CanLoad, ScopeTables
      <3> QED
        BY <3>2, <3>3, <3>4 DEF inventory_scope
    <2> QED
      BY <2>1, <2>2
  <1> DEFINE c == [cmd[r] EXCEPT !.boundary = records[r].boundary, !.scope = records[r].scope,
                                 !.tables = ScopeTables(r),
                                 !.pc = IF cmd[r].kind = "activate" THEN "retained" ELSE "sync"]
  <1>5. cmd' = [cmd EXCEPT ![r] = c]
    BY <1>1, Zenon DEF LoadPrepared
  <1>6. /\ c \in Commands /\ c.boundary = records[r].boundary /\ c.scope = records[r].scope
        /\ c.tables = ScopeTables(r)
        /\ c.pc = IF cmd[r].kind = "activate" THEN "retained" ELSE "sync"
    BY <1>1, <1>2, <1>3, Zenon DEF Commands, RecoveryStages, ResyncStages
  <1> HIDE DEF c
  <1>7. /\ cmd' \in [Runs -> Commands] /\ cmd'[r] = c
        /\ \A q \in Runs \ {r} : cmd'[q] = cmd[q]
    BY <1>1, <1>5, <1>6
  <1>8. cmd[r].kind = "activate" => \A t \in ScopeTables(r) : rows[r][t] # "none"
    BY DEF ScopeTables, recorded_rows
  <1>9. TablesCover(cmd[r].tables, cmd[r].boundary)'
    BY <1>1, <1>4, <1>6, <1>7 DEF TablesCover
  <1>10. CommandOk(r)' /\ cmd'[r].pc \in RecoveryStages
    BY <1>1, <1>6, <1>7, <1>8, <1>9 DEF CommandOk, Proven, RecoveryStages, recordVars, syncVars
  <1> QED
    BY <1>1, <1>7, <1>10, CommandMoves

LEMMA GoingOnKeeps ==
  ASSUME RecoveryInv, NEW r \in Recoveries, NEW stage \in Proven, Goto(r, stage),
         cmd[r].pc \in Proven \cup {"sync"},
         \A t \in cmd[r].tables : rows[r][t] # "none",
         UNCHANGED <<binlog, recordVars, syncVars, stream, auth>>
  PROVE  RecoveryInv'
  <1>1. /\ cmd \in [Runs -> Commands] /\ cmd[r] \in Commands /\ r \in Runs /\ r # "resync"
        /\ CommandOk(r) /\ barrier # "none"
    BY CommandFacts DEF Proven
  <1>2. stage \in RecoveryStages
    BY DEF Proven, RecoveryStages
  <1> DEFINE c == [cmd[r] EXCEPT !.pc = stage]
  <1>3. cmd' = [cmd EXCEPT ![r] = c]
    BY <1>1 DEF Goto
  <1>4. /\ c \in Commands /\ c.pc = stage /\ c.boundary = cmd[r].boundary
        /\ c.scope = cmd[r].scope /\ c.tables = cmd[r].tables
    BY <1>1, <1>2 DEF Commands
  <1> HIDE DEF c
  <1>5. /\ cmd' \in [Runs -> Commands] /\ cmd'[r] = c
        /\ \A q \in Runs \ {r} : cmd'[q] = cmd[q]
    BY <1>1, <1>3, <1>4
  <1>6. CommandOk(r)'
    BY <1>1, <1>4, <1>5 DEF CommandOk, TablesCover, Proven, recordVars, syncVars
  <1> QED
    BY <1>1, <1>2, <1>4, <1>5, <1>6, CommandMoves

LEMMA CheckingKeeps ==
  ASSUME RecoveryInv, NEW r \in Recoveries, CheckRetained(r) \/ CheckScope(r)
  PROVE  RecoveryInv'
  <1>1. cmd[r].pc \in Proven /\ r \in Runs /\ UNCHANGED <<binlog, recordVars, syncVars, stream, auth>>
    BY CommandFacts DEF CheckRetained, CheckScope, Proven, LocalStep, Refuse, sourceVars
  <1>2. \A t \in cmd[r].tables : rows[r][t] # "none"
    BY <1>1, CommandFacts DEF CommandOk
  <1>3. Exit(r) \/ \E stage \in Proven : Goto(r, stage)
    BY DEF CheckRetained, CheckScope, Proven, Refuse
  <1> QED
    BY <1>1, <1>2, <1>3, ExitKeeps, GoingOnKeeps

LEMMA SyncDoneKeeps == ASSUME RecoveryInv, NEW r \in Runs, SyncDone(r) PROVE RecoveryInv'
  <1>1. UNCHANGED <<binlog, recordVars, syncVars, stream, auth>>
    BY DEF SyncDone, sourceVars
  <1>2. CASE r = "resync"
    BY <1>1, <1>2, ExitKeeps DEF SyncDone
  <1>3. CASE r # "resync"
    <2>1. r \in Recoveries /\ cmd[r].pc = "sync" /\ Goto(r, "retained")
      BY <1>3 DEF SyncDone, Syncing, Runs
    <2>2. \A t \in cmd[r].tables : rows[r][t] # "none"
      BY DEF SyncDone
    <2> QED
      BY <1>1, <2>1, <2>2, GoingOnKeeps DEF Proven
  <1> QED
    BY <1>2, <1>3

LEMMA StartResyncKeeps == RecoveryInv /\ (StartResync \/ ResyncEvidence) => RecoveryInv'
  <1> SUFFICES ASSUME RecoveryInv, StartResync \/ ResyncEvidence PROVE RecoveryInv'
    OBVIOUS
  <1>1. /\ cmd \in [Runs -> Commands] /\ "resync" \in Runs /\ cmd["resync"] \in Commands
        /\ UNCHANGED <<binlog, recordVars, syncVars, stream, auth>>
        /\ Written \in Nat /\ Barrier <= Written
    BY CommandFacts DEF StartResync, ResyncEvidence, LocalStep, sourceVars, RecoveryInv, RecoveryTypes,
                        LogInv, Written
  <1>2. CASE StartResync
    <2> DEFINE d == [Idle EXCEPT !.pc = "bootstrap", !.kind = "resync", !.boundary = Written]
    <2>1. cmd' = [cmd EXCEPT !["resync"] = d] /\ barrier = "none"
      BY <1>2 DEF StartResync
    <2>2. d \in Commands /\ d.pc = "bootstrap" /\ d.boundary = Written
      BY <1>1, Zenon DEF Idle, Commands, ResyncStages
    <2> HIDE DEF d
    <2>3. /\ cmd' \in [Runs -> Commands] /\ cmd'["resync"] = d
          /\ \A q \in Runs \ {"resync"} : cmd'[q] = cmd[q]
      BY <1>1, <2>1, <2>2
    <2>4. ResyncCommandInv' /\ cmd'["resync"].pc \in ResyncStages
      BY <1>1, <2>2, <2>3 DEF ResyncCommandInv, ResyncStages, Written
    <2> QED
      BY <1>1, <2>1, <2>3, <2>4, CommandMoves
  <1>3. CASE ResyncEvidence
    <2> DEFINE d == [cmd["resync"] EXCEPT !.tables = SourceTables, !.scope = inventory_scope(SourceTables),
                                          !.pc = "sync"]
    <2>1. cmd' = [cmd EXCEPT !["resync"] = d]
      BY <1>1, <1>3, Zenon DEF ResyncEvidence
    <2>2. barrier = "none" /\ ckpt # NoCheckpoint /\ ckpt \in Nat /\ ckpt <= Written
      BY <1>3 DEF ResyncEvidence, RecoveryInv, ModeInv, ResyncCommandInv, PositionInv, RecoveryTypes, Coordinates
    <2>3. /\ SourceTables \in SUBSET Tables /\ inventory_scope(SourceTables) \in SUBSET Nat
          /\ ScopeCovers(inventory_scope(SourceTables), ckpt)
      BY <2>2, InventoryCovers
    <2>4. d \in Commands /\ d.pc = "sync" /\ d.scope = inventory_scope(SourceTables)
      BY <1>1, <2>3, Zenon DEF Commands, ResyncStages
    <2> HIDE DEF d
    <2>5. /\ cmd' \in [Runs -> Commands] /\ cmd'["resync"] = d
          /\ \A q \in Runs \ {"resync"} : cmd'[q] = cmd[q]
      BY <1>1, <2>1, <2>4
    <2>6. ResyncCommandInv' /\ cmd'["resync"].pc \in ResyncStages
      BY <1>1, <2>2, <2>3, <2>4, <2>5 DEF ResyncCommandInv, ResyncStages, ScopeCovers, recordVars, syncVars
    <2> QED
      BY <1>1, <2>2, <2>5, <2>6, CommandMoves
  <1> QED
    BY <1>2, <1>3

-----------------------------------------------------------------------------
(***************************************************************************)
(* The commands: transactions on the control tables, and the sync.         *)
(***************************************************************************)

LEMMA LogFacts ==
  ASSUME RecoveryInv
  PROVE  Written \in Nat /\ \A i \in 1 .. Written : binlog[i].table \in Tables
  <1>1. binlog \in Seq(Events) /\ Written = Len(binlog)
    BY DEF RecoveryInv, RecoveryTypes, Written
  <1>2. \A i \in 1 .. Len(binlog) : binlog[i] \in Events
    BY <1>1
  <1> QED
    BY <1>1, <1>2 DEF Events

(* The boundary is recorded with the scope that was read after it. *)
LEMMA PreparingKeeps == ASSUME RecoveryInv, NEW r \in Recoveries, PrepareRecord(r) PROVE RecoveryInv'
  <1>1. /\ cmd \in [Runs -> Commands] /\ cmd[r] \in Commands /\ r \in Runs /\ r # "resync"
        /\ CommandOk(r) /\ RecordOk(r) /\ barrier # "none" /\ cmd[r].pc = "prepare"
        /\ CanPrepare(r) /\ "resync" \in Runs /\ "resync" \notin Recoveries
        /\ UNCHANGED <<binlog, ckpt, barrier, rows, prereq, applied, stream, auth>>
    BY CommandFacts DEF PrepareRecord, sourceVars, syncVars
  <1>2. /\ records \in [Recoveries -> Records] /\ auth \in Nat
        /\ cmd[r].boundary \in Nat /\ cmd[r].scope \in SUBSET Nat
    BY <1>1, RecoveryAssumption DEF RecoveryInv, RecoveryTypes, Coordinates, NoCheckpoint, Commands
  <1> DEFINE p == PreparedRecord(r)
             c == [cmd[r] EXCEPT !.pc = "sync"]
  <1>3. /\ p \in Records /\ p.status = "prepared" /\ p.old = auth
        /\ p.boundary = cmd[r].boundary /\ p.scope = cmd[r].scope
    BY <1>2 DEF PreparedRecord, Records
  <1>4. /\ c \in Commands /\ c.pc = "sync" /\ c.boundary = cmd[r].boundary
        /\ c.scope = cmd[r].scope /\ c.tables = cmd[r].tables
    BY <1>1 DEF Commands, RecoveryStages, ResyncStages
  <1>5. cmd' = [cmd EXCEPT ![r] = c]
    BY <1>1 DEF PrepareRecord, Goto
  <1>6. /\ records' \in [Recoveries -> Records] /\ records'[r] = p
        /\ \A q \in Recoveries \ {r} :
             /\ records'[q].boundary = records[q].boundary /\ records'[q].old = records[q].old
             /\ records'[q].scope = records[q].scope
             /\ records'[q].status = IF records[q].status = "prepared" THEN "abandoned"
                                                                      ELSE records[q].status
    <2> HIDE DEF p
    <2>1. records' = [o \in Recoveries |->
                       IF o = r THEN p
                       ELSE IF records[o].status = "prepared"
                            THEN [records[o] EXCEPT !.status = "abandoned"]
                            ELSE records[o]]
      BY DEF PrepareRecord, p
    <2>2. ASSUME NEW q \in Recoveries
          PROVE  /\ [records[q] EXCEPT !.status = "abandoned"] \in Records
                 /\ [records[q] EXCEPT !.status = "abandoned"].status = "abandoned"
                 /\ [records[q] EXCEPT !.status = "abandoned"].boundary = records[q].boundary
                 /\ [records[q] EXCEPT !.status = "abandoned"].old = records[q].old
                 /\ [records[q] EXCEPT !.status = "abandoned"].scope = records[q].scope
      BY <1>2 DEF Records
    <2> QED
      BY <1>2, <1>3, <2>1, <2>2
  <1> HIDE DEF p, c
  <1>7. /\ cmd' \in [Runs -> Commands] /\ cmd'[r] = c
        /\ \A q \in Runs \ {r} : cmd'[q] = cmd[q]
    BY <1>1, <1>4, <1>5
  <1>8. RecoveryTypes' /\ LogInv' /\ PositionInv'
    BY <1>1, <1>6, <1>7 DEF RecoveryInv, RecoveryTypes, LogInv, PositionInv, Written
  <1>9. ModeInv'
    BY <1>1, <1>4, <1>7 DEF RecoveryInv, ModeInv, Runs, RecoveryStages
  <1>10. OwnerInv'
    <2>1. \A q \in Recoveries \ {r} : records[q].status # "committed"
      <3> SUFFICES ASSUME NEW q \in Recoveries \ {r}, records[q].status = "committed" PROVE FALSE
        OBVIOUS
      <3>1. PICK o \in Owners : records[o].status = "prepared"
        BY <1>1 DEF CanPrepare, Owners, validate_replacement_owner
      <3>2. o = q
        BY <3>1 DEF RecoveryInv, OwnerInv, OwnerStatuses, Owners
      <3> QED
        BY <3>1, <3>2
    <2>2. \A q \in Recoveries \ {r} : records'[q].status \notin OwnerStatuses
      BY <1>2, <1>6, <2>1 DEF OwnerStatuses
    <2> QED
      BY <2>2 DEF OwnerInv
  <1>11. RecordInv'
    <2> SUFFICES ASSUME NEW q \in Recoveries PROVE RecordOk(q)'
      BY DEF RecordInv
    <2>1. CASE q = r
      <3>1. prereq[r] = {} /\ \A t \in Tables : rows[r][t] = "none"
        BY <1>1 DEF CanPrepare, RecordOk
      <3>2. cmd[r].boundary > auth /\ ScopeCovers(cmd[r].scope, cmd[r].boundary)
        BY <1>1 DEF CanPrepare, CommandOk
      <3>3. ScopeCovers(records[r].scope, records[r].boundary)'
        BY <1>1, <1>3, <1>6, <3>2 DEF ScopeCovers, Written
      <3>4. \A i \in 1 .. cmd[r].boundary : binlog[i].table \in Tables
        BY <1>2, <3>2, LogFacts DEF ScopeCovers
      <3> QED
        BY <1>1, <1>3, <1>6, <2>1, <3>1, <3>2, <3>3, <3>4 DEF RecordOk
    <2>2. CASE q # r
      BY <1>1, <1>6, <2>2, CommandFacts, SMTT(30) DEF RecordOk, ScopeCovers, Written
    <2> QED
      BY <2>1, <2>2
  <1>12. CommandInv'
    <2> SUFFICES ASSUME NEW q \in Recoveries PROVE CommandOk(q)'
      BY DEF CommandInv
    <2>1. CASE q = r
      <3>1. TablesCover(cmd[r].tables, cmd[r].boundary)'
        BY <1>1, <1>4, <1>7 DEF CommandOk, TablesCover
      <3> QED
        BY <1>3, <1>4, <1>6, <1>7, <2>1, <3>1 DEF CommandOk, Proven
    <2>2. CASE q # r
      BY <1>1, <1>6, <1>7, <2>2, CommandFacts, SMTT(30) DEF CommandOk, ScopeCovers, TablesCover, Written
    <2> QED
      BY <2>1, <2>2
  <1>13. ResyncCommandInv' /\ CheckpointInv'
    BY <1>1, <1>7 DEF RecoveryInv, ResyncCommandInv, CheckpointInv, Written
  <1> QED
    BY <1>8, <1>9, <1>10, <1>11, <1>12, <1>13 DEF RecoveryInv

(* The commit: what the rows of the run guarantee is all of the boundary. *)
LEMMA BoundaryApplied ==
  ASSUME RecoveryInv, NEW r \in Recoveries, cmd[r].pc \in Proven
  PROVE  \A i \in 1 .. records[r].boundary : i \in applied
  <1> SUFFICES ASSUME NEW i \in 1 .. records[r].boundary PROVE i \in applied
    OBVIOUS
  <1>1. /\ CommandOk(r) /\ RecordOk(r) /\ records[r] \in Records
        /\ records[r].status # "none" /\ records[r].boundary <= Written
    BY CommandFacts DEF CommandOk, RecordOk, ScopeCovers
  <1>2. binlog[i].table \in cmd[r].tables /\ rows[r][binlog[i].table] # "none"
    BY <1>1 DEF CommandOk, TablesCover
  <1>3. binlog[i].table \in Tables
    BY <1>1, LogFacts DEF Records
  <1>4. CASE binlog[i].kind = "row"
    BY <1>1, <1>2, <1>4 DEF RecordOk
  <1>5. CASE binlog[i].kind # "row"
    BY <1>1, <1>2, <1>3, <1>5 DEF RecordOk, ScopeCovers
  <1> QED
    BY <1>4, <1>5

LEMMA CommittingKeeps == ASSUME RecoveryInv, NEW r \in Recoveries, CommitRecovery(r) PROVE RecoveryInv'
  <1>1. /\ cmd \in [Runs -> Commands] /\ r \in Runs /\ r # "resync"
        /\ CommandOk(r) /\ RecordOk(r) /\ barrier # "none" /\ cmd[r].pc = "commit"
        /\ CanCommit(r) /\ "resync" \in Runs /\ "resync" \notin Recoveries
        /\ UNCHANGED <<binlog, barrier, rows, prereq, applied, stream, auth>>
        /\ ckpt' = records[r].boundary /\ Exit(r)
        /\ records' = [records EXCEPT ![r].status = "committed"]
    BY CommandFacts DEF CommitRecovery, sourceVars, syncVars
  <1>2. /\ records \in [Recoveries -> Records] /\ records[r] \in Records /\ auth \in Nat /\ MaxEvents \in Nat
        /\ Written \in Nat /\ Written <= MaxEvents /\ ckpt \in Nat
    BY <1>1, RecoveryAssumption
       DEF RecoveryInv, RecoveryTypes, Coordinates, NoCheckpoint, LogInv, Written
  <1>3. /\ records[r].status = "prepared" /\ records[r].old = auth /\ ckpt = auth
        /\ records[r].boundary \in Nat
    BY <1>1, <1>2 DEF CanCommit, PreparedRecord, require_expected_recovery_state, Records
  <1>4. /\ ckpt' > ckpt /\ ckpt' <= Written /\ ckpt' \in Coordinates /\ ckpt' # NoCheckpoint
    BY <1>1, <1>2, <1>3 DEF RecordOk, ScopeCovers, Records, Coordinates, NoCheckpoint
  <1>5. /\ records' \in [Recoveries -> Records] /\ records'[r].status = "committed"
        /\ records'[r].boundary = records[r].boundary /\ records'[r].old = records[r].old
        /\ records'[r].scope = records[r].scope
        /\ \A q \in Recoveries \ {r} : records'[q] = records[q]
    <2> DEFINE p == [records[r] EXCEPT !.status = "committed"]
    <2>1. records' = [records EXCEPT ![r] = p]
      BY <1>1, <1>2
    <2>2. /\ p \in Records /\ p.status = "committed" /\ p.boundary = records[r].boundary
          /\ p.old = records[r].old /\ p.scope = records[r].scope
      BY <1>2 DEF Records
    <2> HIDE DEF p
    <2> QED
      BY <1>2, <2>1, <2>2
  <1>6. /\ cmd' \in [Runs -> Commands] /\ cmd'[r].pc = "idle"
        /\ \A q \in Runs \ {r} : cmd'[q] = cmd[q]
    BY <1>1 DEF Exit, Idle, Commands, RecoveryStages, ResyncStages
  <1>7. RecoveryTypes' /\ LogInv'
    BY <1>1, <1>4, <1>5, <1>6 DEF RecoveryInv, RecoveryTypes, LogInv, Written
  <1>8. PositionInv'
    <2>1. stream.pos \in Nat
      BY DEF RecoveryInv, RecoveryTypes
    <2> QED
      BY <1>1, <1>2, <1>3, <1>4, <2>1 DEF RecoveryInv, PositionInv, Written
  <1>9. ModeInv'
    BY <1>1, <1>4, <1>6 DEF RecoveryInv, ModeInv, Runs, RecoveryStages
  <1>10. OwnerInv'
    BY <1>3, <1>5 DEF RecoveryInv, OwnerInv, OwnerStatuses
  <1>11. RecordInv'
    <2> SUFFICES ASSUME NEW q \in Recoveries PROVE RecordOk(q)'
      BY DEF RecordInv
    <2>1. CASE q = r
      BY <1>1, <1>3, <1>5, <2>1 DEF RecordOk, ScopeCovers, Written
    <2>2. CASE q # r
      BY <1>1, <1>5, <2>2, CommandFacts DEF RecordOk, ScopeCovers, Written
    <2> QED
      BY <2>1, <2>2
  <1>12. CommandInv'
    <2> SUFFICES ASSUME NEW q \in Recoveries PROVE CommandOk(q)'
      BY DEF CommandInv
    <2>1. CASE q = r
      BY <1>6, <2>1 DEF CommandOk, Proven
    <2>2. CASE q # r
      BY <1>1, <1>5, <1>6, <2>2, CommandFacts DEF CommandOk, ScopeCovers, TablesCover, Written
    <2> QED
      BY <2>1, <2>2
  <1>13. ResyncCommandInv'
    BY <1>1, <1>6 DEF RecoveryInv, ModeInv, ResyncCommandInv
  <1>14. CheckpointInv'
    <2>1. \A i \in 1 .. ckpt' : i \in applied'
      BY <1>1, BoundaryApplied DEF Proven
    <2> QED
      BY <1>1, <1>4, <2>1 DEF RecoveryInv, CheckpointInv
  <1> QED
    BY <1>7, <1>8, <1>9, <1>10, <1>11, <1>12, <1>13, <1>14 DEF RecoveryInv

LEMMA BootstrapKeeps == RecoveryInv /\ Bootstrap => RecoveryInv'
  <1> SUFFICES ASSUME RecoveryInv, Bootstrap PROVE RecoveryInv'
    OBVIOUS
  <1> DEFINE c == [cmd["resync"] EXCEPT !.pc = "inventory"]
  <1>1. /\ cmd \in [Runs -> Commands] /\ "resync" \in Runs /\ "resync" \notin Recoveries
        /\ cmd["resync"] \in Commands /\ cmd["resync"].pc = "bootstrap" /\ barrier = "none"
        /\ UNCHANGED <<binlog, barrier, records, rows, prereq, applied, stream, auth>>
        /\ ckpt' = IF ckpt = NoCheckpoint THEN cmd["resync"].boundary ELSE ckpt
        /\ cmd' = [cmd EXCEPT !["resync"].pc = "inventory"]
    BY CommandFacts DEF Bootstrap, Goto, sourceVars, syncVars, RecoveryInv, ModeInv
  <1>2. /\ MaxEvents \in Nat /\ Written \in Nat /\ Written <= MaxEvents /\ ckpt \in Nat
        /\ cmd["resync"].boundary \in Nat /\ Barrier <= cmd["resync"].boundary
        /\ cmd["resync"].boundary <= Written /\ cmd["resync"].boundary # NoCheckpoint
        /\ ckpt >= Barrier
    BY <1>1, RecoveryAssumption
       DEF RecoveryInv, RecoveryTypes, Coordinates, NoCheckpoint, LogInv, Written, ResyncCommandInv,
           Commands, ModeInv
  <1>3. c \in Commands /\ c.pc = "inventory" /\ cmd' = [cmd EXCEPT !["resync"] = c]
    BY <1>1 DEF Commands, ResyncStages
  <1> HIDE DEF c
  <1>4. /\ cmd' \in [Runs -> Commands] /\ cmd'["resync"] = c
        /\ \A q \in Runs \ {"resync"} : cmd'[q] = cmd[q]
    BY <1>1, <1>3
  <1>5. ckpt' \in Coordinates /\ ckpt' # NoCheckpoint /\ ckpt' >= Barrier /\ ckpt' <= Written
    BY <1>1, <1>2 DEF RecoveryInv, RecoveryTypes, PositionInv, Coordinates, Barrier
  <1>6. RecoveryTypes' /\ LogInv'
    BY <1>1, <1>4, <1>5 DEF RecoveryInv, RecoveryTypes, LogInv, Written
  <1>7. PositionInv' /\ ModeInv'
    BY <1>1, <1>3, <1>4, <1>5 DEF RecoveryInv, PositionInv, ModeInv, Runs, ResyncStages, Written
  <1>8. OwnerInv' /\ RecordInv' /\ CommandInv'
    BY <1>1, <1>4 DEF RecoveryInv, OwnerInv, RecordInv, RecordOk, CommandInv, CommandOk, ScopeCovers,
                      TablesCover, Written, Runs
  <1>9. ResyncCommandInv'
    BY <1>3, <1>4, <1>5 DEF ResyncCommandInv
  <1>10. CheckpointInv'
    <2>1. CASE ckpt = NoCheckpoint
      <3>1. prereq["resync"] = {}
        BY <2>1 DEF RecoveryInv, CheckpointInv
      <3> QED
        BY <1>1, <1>5, <3>1 DEF RecoveryInv, CheckpointInv
    <2>2. CASE ckpt # NoCheckpoint
      BY <1>1, <2>2 DEF RecoveryInv, CheckpointInv
    <2> QED
      BY <2>1, <2>2
  <1> QED
    BY <1>6, <1>7, <1>8, <1>9, <1>10 DEF RecoveryInv

(* A step of a sync only adds to the target and to the rows of its run. *)
LEMMA SyncFrame ==
  ASSUME RecoveryInv, NEW r \in Runs,
         UNCHANGED <<binlog, recordVars, stream, cmd, auth>>,
         applied \subseteq applied',
         rows' \in [Runs -> [Tables -> {"none", "phases", "complete"}]],
         prereq' \in [Runs -> SUBSET Tables],
         \A q \in Runs \ {r} : rows'[q] = rows[q] /\ prereq'[q] = prereq[q],
         \A t \in Tables : rows[r][t] # "none" => rows'[r][t] # "none",
         r # "resync" => RecordOk(r)',
         r = "resync" => CheckpointInv'
  PROVE  RecoveryInv'
  <1> USE DEF recordVars
  <1>1. RecoveryTypes' /\ LogInv' /\ PositionInv' /\ ModeInv' /\ OwnerInv'
    BY DEF RecoveryInv, RecoveryTypes, LogInv, PositionInv, ModeInv, OwnerInv, Written
  <1>2. RecordInv'
    <2> SUFFICES ASSUME NEW q \in Recoveries PROVE RecordOk(q)'
      BY DEF RecordInv
    <2>1. CASE q = r
      BY <2>1, CommandFacts
    <2>2. CASE q # r
      BY <2>2, CommandFacts, SMTT(30) DEF RecordOk, ScopeCovers, Written
    <2> QED
      BY <2>1, <2>2
  <1>3. CommandInv'
    <2> SUFFICES ASSUME NEW q \in Recoveries PROVE CommandOk(q)'
      BY DEF CommandInv
    <2>1. \A t \in Tables : rows[q][t] # "none" => rows'[q][t] # "none"
      BY CommandFacts
    <2>2. CommandOk(q) /\ cmd[q].tables \subseteq Tables
      BY CommandFacts DEF Commands
    <2> QED
      BY <2>1, <2>2 DEF CommandOk, ScopeCovers, TablesCover, Written
  <1>4. ResyncCommandInv'
    BY DEF RecoveryInv, ResyncCommandInv, Written
  <1>5. CheckpointInv'
    <2>1. CASE r # "resync"
      BY <2>1, CommandFacts DEF RecoveryInv, CheckpointInv
    <2> QED
      BY <2>1
  <1> QED
    BY <1>1, <1>2, <1>3, <1>4, <1>5 DEF RecoveryInv

LEMMA PrerequisitesKeep == ASSUME RecoveryInv, NEW r \in Runs, SyncPrerequisites(r) PROVE RecoveryInv'
  <1>1. /\ rows \in [Runs -> [Tables -> {"none", "phases", "complete"}]]
        /\ prereq \in [Runs -> SUBSET Tables] /\ cmd[r] \in Commands /\ cmd[r].pc = "sync"
        /\ cmd[r].tables \subseteq Tables
        /\ UNCHANGED <<binlog, recordVars, rows, stream, cmd, auth>>
        /\ prereq' = [prereq EXCEPT ![r] = @ \cup cmd[r].tables]
        /\ applied' = applied \cup {i \in cmd[r].scope : binlog[i].table \notin prereq[r]}
    BY DEF RecoveryInv, RecoveryTypes, SyncPrerequisites, Syncing, sourceVars, Commands
  <1>2. /\ prereq' \in [Runs -> SUBSET Tables] /\ prereq'[r] = prereq[r] \cup cmd[r].tables
        /\ \A q \in Runs \ {r} : prereq'[q] = prereq[q]
        /\ applied \subseteq applied'
    BY <1>1
  <1>3. r # "resync" => RecordOk(r)'
    <2> SUFFICES ASSUME r \in Recoveries PROVE RecordOk(r)'
      BY DEF Runs
    <2>1. RecordOk(r) /\ records[r].status # "none" /\ cmd[r].scope = records[r].scope
      BY <1>1, CommandFacts DEF CommandOk
    <2> QED
      BY <1>1, <1>2, <2>1 DEF RecordOk, ScopeCovers, Written, recordVars
  <1>4. r = "resync" => CheckpointInv'
    <2> SUFFICES ASSUME r = "resync" PROVE CheckpointInv'
      OBVIOUS
    <2>1. /\ ckpt # NoCheckpoint /\ UNCHANGED <<ckpt, barrier>>
          /\ \A i \in 1 .. ckpt : binlog[i].kind # "row" => i \in applied \/ i \in cmd[r].scope
      BY <1>1 DEF RecoveryInv, ResyncCommandInv, recordVars
    <2>2. ASSUME NEW i \in 1 .. ckpt
          PROVE  \/ i \in applied'
                 \/ binlog[i].kind = "row" /\ rows[r][binlog[i].table] = "none" /\ barrier = "none"
                 \/ binlog[i].table \notin prereq'[r] /\ barrier = "none"
      <3>1. CASE i \in applied
        BY <1>2, <3>1
      <3>2. CASE binlog[i].kind = "row" /\ i \notin applied
        <4>1. /\ i \in 1 .. Written /\ binlog[i].table \in Tables
          BY <2>1, LogFacts DEF RecoveryInv, PositionInv, RecoveryTypes, Coordinates
        <4> QED
          BY <2>1, <3>2, <4>1 DEF RecoveryInv, CheckpointInv
      <3>3. CASE binlog[i].kind # "row" /\ i \notin applied
        BY <1>1, <1>2, <2>1, <3>3 DEF RecoveryInv, CheckpointInv
      <3> QED
        BY <3>1, <3>2, <3>3
    <2> QED
      BY <1>1, <1>2, <2>1, <2>2 DEF RecoveryInv, CheckpointInv
  <1> QED
    BY <1>1, <1>2, <1>3, <1>4, SyncFrame

LEMMA CopyingKeeps ==
  ASSUME RecoveryInv, NEW r \in Runs, NEW t \in Tables, CopyRows(r, t) \/ SaveRows(r, t)
  PROVE  RecoveryInv'
  <1>1. /\ rows \in [Runs -> [Tables -> {"none", "phases", "complete"}]]
        /\ prereq \in [Runs -> SUBSET Tables] /\ cmd[r] \in Commands /\ cmd[r].pc = "sync"
        /\ UNCHANGED <<binlog, recordVars, prereq, stream, cmd, auth>>
    BY DEF RecoveryInv, RecoveryTypes, CopyRows, SaveRows, Syncing, sourceVars
  <1>2. PICK status \in {"phases", "complete"} : rows' = [rows EXCEPT ![r][t] = status]
    BY DEF CopyRows, SaveRows
  <1>3. /\ rows' \in [Runs -> [Tables -> {"none", "phases", "complete"}]]
        /\ \A q \in Runs \ {r} : rows'[q] = rows[q]
        /\ rows'[r][t] # "none" /\ \A u \in Tables \ {t} : rows'[r][u] = rows[r][u]
    BY <1>1, <1>2
  <1>4. t \in prereq[r]
    <2>1. CASE CopyRows(r, t)
      BY <2>1 DEF CopyRows
    <2>2. CASE SaveRows(r, t)
      BY <2>2, CommandFacts DEF SaveRows, RecordOk, RecoveryInv, CheckpointInv, Runs
    <2> QED
      BY <2>1, <2>2
  <1>5. applied \subseteq applied'
    BY DEF CopyRows, SaveRows
  <1>6. rows[r][t] = "none" => RowsOn(t, Written) \subseteq applied'
    BY DEF CopyRows, SaveRows
  <1>7. r # "resync" => RecordOk(r)'
    <2> SUFFICES ASSUME r \in Recoveries PROVE RecordOk(r)'
      BY DEF Runs
    <2>1. /\ RecordOk(r) /\ records[r].status # "none" /\ records[r].boundary \in Nat
          /\ records[r].boundary <= Written /\ Written \in Nat
      BY <1>1, CommandFacts, LogFacts DEF CommandOk, RecordOk, ScopeCovers, Records
    <2>2. ASSUME NEW i \in 1 .. records[r].boundary, binlog[i].kind = "row",
                 rows'[r][binlog[i].table] # "none"
          PROVE  i \in applied'
      <3>1. i \in 1 .. Written /\ binlog[i].table \in Tables
        BY <2>1, LogFacts
      <3>2. CASE rows[r][binlog[i].table] # "none"
        BY <1>5, <2>1, <2>2, <3>2 DEF RecordOk
      <3>3. CASE rows[r][binlog[i].table] = "none"
        BY <1>3, <1>6, <2>2, <3>1, <3>3 DEF RowsOn
      <3> QED
        BY <3>2, <3>3
    <2>3. \A u \in Tables : rows'[r][u] # "none" => u \in prereq[r]
      BY <1>3, <1>4, <2>1 DEF RecordOk
    <2>4. ScopeCovers(records[r].scope, records[r].boundary)'
      BY <1>1, <2>1 DEF RecordOk, ScopeCovers, Written, recordVars
    <2> QED
      BY <1>1, <1>5, <2>1, <2>2, <2>3, <2>4 DEF RecordOk, recordVars
  <1>8. r = "resync" => CheckpointInv'
    <2> SUFFICES ASSUME r = "resync" PROVE CheckpointInv'
      OBVIOUS
    <2>1. /\ ckpt # NoCheckpoint /\ UNCHANGED <<ckpt, barrier>>
      BY <1>1 DEF RecoveryInv, ResyncCommandInv, recordVars
    <2>2. ASSUME NEW i \in 1 .. ckpt
          PROVE  \/ i \in applied'
                 \/ binlog[i].kind = "row" /\ rows'[r][binlog[i].table] = "none" /\ barrier = "none"
                 \/ binlog[i].table \notin prereq[r] /\ barrier = "none"
      <3>1. i \in 1 .. Written /\ binlog[i].table \in Tables
        BY <2>1, LogFacts DEF RecoveryInv, PositionInv, RecoveryTypes, Coordinates
      <3>2. CASE binlog[i].kind = "row" /\ rows[r][binlog[i].table] = "none" /\ binlog[i].table = t
        BY <1>6, <3>1, <3>2 DEF RowsOn
      <3>3. CASE ~(binlog[i].kind = "row" /\ rows[r][binlog[i].table] = "none" /\ binlog[i].table = t)
        BY <1>3, <1>5, <2>1, <3>1, <3>3 DEF RecoveryInv, CheckpointInv
      <3> QED
        BY <3>2, <3>3
    <2>3. \A u \in Tables : rows'[r][u] # "none" => u \in prereq[r]
      BY <1>3, <1>4 DEF RecoveryInv, CheckpointInv
    <2> QED
      BY <1>1, <2>1, <2>2, <2>3 DEF RecoveryInv, CheckpointInv
  <1>9. \A u \in Tables : rows[r][u] # "none" => rows'[r][u] # "none"
    BY <1>3
  <1> QED
    BY <1>1, <1>3, <1>5, <1>7, <1>8, <1>9, SyncFrame

-----------------------------------------------------------------------------
(***************************************************************************)
(* The theorems.                                                           *)
(***************************************************************************)

LEMMA RecoveryStutters == RecoveryInv /\ UNCHANGED vars => RecoveryInv'
  <1> SUFFICES ASSUME RecoveryInv, UNCHANGED vars PROVE RecoveryInv'
    OBVIOUS
  <1>1. UNCHANGED <<binlog, recordVars, syncVars, cmd, auth, stream>>
    BY DEF vars, sourceVars
  <1>2. /\ stream \in [pc : {"down", "loaded", "run"}, pos : Nat]
        /\ stream.pc # "down" =>
             ckpt # NoCheckpoint /\ stream.pos <= ckpt /\ (barrier = "none" => stream.pos >= Barrier)
    BY DEF RecoveryInv, RecoveryTypes, PositionInv, ModeInv
  <1> QED
    BY <1>1, <1>2, SessionMoves

LEMMA SyncStepKeeps == ASSUME RecoveryInv, NEW r \in Runs, SyncStep(r) PROVE RecoveryInv'
  BY PrerequisitesKeep, CopyingKeeps, SyncDoneKeeps DEF SyncStep

LEMMA CommandStepKeeps == ASSUME RecoveryInv, NEW r \in Recoveries, CommandStep(r) PROVE RecoveryInv'
  BY CapturingKeeps, PreparingKeeps, RefusingKeeps, LoadingKeeps, SyncStepKeeps, CheckingKeeps,
     CommittingKeeps DEF CommandStep, Runs

LEMMA RecoveryNext == RecoveryInv /\ Next => RecoveryInv'
  <1> SUFFICES ASSUME RecoveryInv, Next PROVE RecoveryInv'
    OBVIOUS
  <1>1. CASE SourceEvent
    BY <1>1, SourceEventKeeps
  <1>2. CASE PurgeBinlogs \/ StreamStep \/ StreamDies \/ LeaseConnectionLost
    BY <1>2, SessionKeeps, ApplyingKeeps, BlockedKeeps DEF StreamStep
  <1>3. CASE \E r \in Recoveries : StartCommand(r) \/ CommandStep(r)
    BY <1>3, StartingKeeps, CommandStepKeeps
  <1>4. CASE StartResync \/ ResyncStep
    BY <1>4, StartResyncKeeps, BootstrapKeeps, SyncStepKeeps DEF ResyncStep, Runs
  <1>5. CASE \E r \in Runs : CommandDies(r)
    BY <1>5, DyingKeeps
  <1> QED
    BY <1>1, <1>2, <1>3, <1>4, <1>5 DEF Next

LEMMA RecoveryInvariance == Spec => []RecoveryInv
  BY InitRecovery, RecoveryNext, RecoveryStutters, PTL DEF Spec

(***************************************************************************)
(* Whatever moves the checkpoint row (the stream, a recovery, its resume,  *)
(* an activation, a resync), the target holds every source event the row   *)
(* has passed; only tables a resync has still to copy are excused.  For    *)
(* any tables, recoveries, events, purges, crashes and lost leases.        *)
(***************************************************************************)
THEOREM RecoveryLosesNothing == Spec => []NoChangeLost
  <1>1. RecoveryInv => NoChangeLost
    <2> SUFFICES ASSUME RecoveryInv, ckpt # NoCheckpoint, NEW i \in 1 .. ckpt
                 PROVE  i \in applied \/ (barrier = "none" /\ rows["resync"][binlog[i].table] = "none")
      BY DEF NoChangeLost
    <2>1. i \in 1 .. Written /\ binlog[i].table \in Tables
      BY LogFacts DEF RecoveryInv, PositionInv, RecoveryTypes, Coordinates
    <2> QED
      BY <2>1 DEF RecoveryInv, CheckpointInv
  <1> QED
    BY <1>1, RecoveryInvariance, PTL

(***************************************************************************)
(* At most one recovery of the barrier is prepared or committed: the       *)
(* transaction that prepares a recovery abandons the prepared owner and is *)
(* refused beside a committed one.                                         *)
(***************************************************************************)
THEOREM RecoveryHasOneOwner == Spec => []OneRecoveryOwnsBarrier
  <1>1. RecoveryInv => OneRecoveryOwnsBarrier
    <2> SUFFICES ASSUME RecoveryInv PROVE OneRecoveryOwnsBarrier
      OBVIOUS
    <2> DEFINE live == {r \in Recoveries : records[r].status \in OwnerStatuses}
    <2>1. CASE live = {}
      <3>1. Cardinality(live) = 0
        BY <2>1, FS_EmptySet
      <3> QED
        BY <3>1 DEF OneRecoveryOwnsBarrier
    <2>2. CASE live # {}
      <3>1. PICK o : o \in live
        BY <2>2
      <3>2. live = {o}
        BY <3>1 DEF RecoveryInv, OwnerInv
      <3>3. Cardinality(live) = 1
        BY <3>2, FS_Singleton, Zenon
      <3> QED
        BY <3>3 DEF OneRecoveryOwnsBarrier
    <2> QED
      BY <2>1, <2>2
  <1> QED
    BY <1>1, RecoveryInvariance, PTL

(***************************************************************************)
(* The checkpoint row never moves back: a recovery commits a boundary      *)
(* beyond the authorized checkpoint it has just read under lock, and the   *)
(* stream compares the row before it writes.                               *)
(***************************************************************************)
THEOREM RecoveryMovesForward == Spec => CheckpointNeverMovesBack
  <1>1. RecoveryInv /\ [Next]_vars => [ckpt # NoCheckpoint => ckpt' >= ckpt]_vars
    <2> SUFFICES ASSUME RecoveryInv, [Next]_vars, ckpt # NoCheckpoint PROVE ckpt' >= ckpt
      OBVIOUS
    <2>1. ckpt \in Nat
      BY DEF RecoveryInv, RecoveryTypes, Coordinates
    <2>2. CASE UNCHANGED ckpt
      BY <2>1, <2>2
    <2>3. CASE StreamApplies \/ StreamPassesBarrier
      <3>1. ckpt' = ckpt \/ (ckpt < NextEvent /\ ckpt' = NextEvent)
        BY <2>3 DEF StreamApplies, StreamPassesBarrier, CheckpointAccepts
      <3>2. NextEvent \in Nat
        BY DEF NextEvent, RecoveryInv, RecoveryTypes
      <3> QED
        BY <2>1, <3>1, <3>2
    <2>4. ASSUME NEW r \in Recoveries, CommitRecovery(r) PROVE ckpt' >= ckpt
      <3>1. /\ ckpt' = records[r].boundary /\ ckpt = records[r].old
            /\ records[r].status = "prepared"
        BY <2>4 DEF CommitRecovery, CanCommit, PreparedRecord, require_expected_recovery_state
      <3>2. records[r].boundary > records[r].old /\ records[r].boundary \in Nat
        BY <3>1, CommandFacts DEF RecordOk, Records
      <3> QED
        BY <2>1, <3>1, <3>2
    <2>5. CASE Bootstrap
      BY <2>1, <2>5 DEF Bootstrap
    <2>6. \/ UNCHANGED ckpt
          \/ StreamApplies \/ StreamPassesBarrier \/ Bootstrap
          \/ \E r \in Recoveries : CommitRecovery(r)
      BY Zenon DEF vars, recordVars, Next, SourceEvent, PurgeBinlogs, StreamStep, StreamLoads,
             StreamInitializes, StreamIsBlocked, StreamDies, LeaseConnectionLost, StartCommand,
             CommandStep, CaptureCoordinate, CaptureEvidence, PrepareRecord, RefusePrepare, LoadPrepared,
             RefuseLoad, SyncStep, SyncPrerequisites, CopyRows, SaveRows, SyncDone, CheckRetained,
             CheckScope, RefuseCommit, Refuse, LocalStep, StartResync, ResyncStep, ResyncEvidence,
             CommandDies
    <2> QED
      BY <2>2, <2>3, <2>4, <2>5, <2>6
  <1> QED
    BY <1>1, RecoveryInvariance, PTL DEF Spec, CheckpointNeverMovesBack

=============================================================================

------------------------------- MODULE SyncRun -------------------------------
(***************************************************************************)
(* One run of unified sync over several tables: the durable schema stages  *)
(* (sync/orchestrate.rs), the row phases in dependency order               *)
(* (sync/phased_run.rs), the workers of a batch (sync/run.rs) and the      *)
(* progress they leave for the next attempt of the same run id.            *)
(*                                                                         *)
(* A table is a number, as in DependencyOrder.  A row is the key that it   *)
(* references in each parent of its table, Null if it references none; the *)
(* phase of a table is one locked chunk (SyncChunk has the many).          *)
(***************************************************************************)
EXTENDS DependencyOrder

CONSTANTS
  Tables,        \* selected tables
  ForeignKeys,   \* <<child, parent>>
  KeysOf,        \* the primary keys of each table
  NoRow,         \* in place of a row that is not there
  Parallelism,   \* --parallelism
  MaxFaults,     \* bound on crashes and failed statements
  MaxWrites      \* bound on source writes during the run

Null == 0
Phases == <<"insert_missing", "update_divergent", "delete_extras">>
Stages == {"prerequisite_schema", "final_constraints"}

Parents(t) == {k[2] : k \in {f \in ForeignKeys : f[1] = t}}
Row(t) ==
  {row \in [Parents(t) -> {Null} \cup UNION {KeysOf[p] : p \in Parents(t)}] :
     \A p \in Parents(t) : row[p] \in {Null} \cup KeysOf[p]}
TableRows(t) == [KeysOf[t] -> Row(t) \cup {NoRow}]
Present(rows) == {k \in DOMAIN rows : rows[k] # NoRow}

(* validate_selected_tables *)
ASSUME SyncRunAssumption ==
  /\ Tables \subseteq Nat /\ IsFiniteSet(Tables) /\ Tables # {}
  /\ \A k \in ForeignKeys : k[1] \in Tables /\ k[2] \in Tables
  /\ Parallelism \in Nat \ {0}
  /\ plan_dependency_batches(Tables, ForeignKeys, "parent_first", Parallelism).ok

VARIABLES
  source, target,  \* rows of both sides, by table
  constrained,     \* the target has the foreign keys
  touched,         \* rows <<table, key>> that the source changed since the run began
  stageStatus,     \* cdc.sync_runs of the two schema stages, by stage and table
  phaseDone,       \* complete rows <<phase, table>> of cdc.sync_runs_phases
  rowsDone,        \* tables whose rows stage is complete in cdc.sync_runs
  pc,              \* where the coordinator is
  pending,         \* tables of load_row_work without a complete rows stage
  plan,            \* the batches of each direction, over the pending tables
  at,              \* <<phase index, batch index>>
  worker,          \* state of the worker of each table of the batch
  window,          \* the source rows a worker read under its lock
  faults, writes

sides == <<source, target, constrained, touched>>
saved == <<stageStatus, phaseDone, rowsDone>>
control == <<pc, pending, plan, at, worker, window>>
vars == <<sides, saved, control, faults, writes>>

(* The foreign keys hold among the rows of one side. *)
Consistent(side) ==
  \A t \in Tables : \A k \in Present(side[t]) :
    \A p \in Parents(t) : side[t][k][p] # Null => side[p][side[t][k][p]] # NoRow

-----------------------------------------------------------------------------
(* Schema stages. *)

(* incomplete_stage_tables *)
Incomplete(stage) == {t \in Tables : stageStatus[stage][t] # "complete"}

StageOf == [prereq |-> "prerequisite_schema", final |-> "final_constraints"]
InStage == pc \in DOMAIN StageOf

(* In table order. *)
First(tables) == CHOOSE t \in tables : \A u \in tables : t <= u

StartRun ==
  /\ pc = "idle"
  /\ pc' = "prereq"
  /\ UNCHANGED <<sides, saved, pending, plan, at, worker, window, faults, writes>>

(* run_durable_schema_stage: nothing to do when every table is complete,   *)
(* otherwise the incomplete ones are running.                              *)
BeginStage ==
  /\ InStage
  /\ LET stage == StageOf[pc]
     IN IF Incomplete(stage) = {}
        THEN /\ pc' = IF pc = "prereq" THEN "load" ELSE "done"
             /\ UNCHANGED stageStatus
        ELSE /\ stageStatus' = [stageStatus EXCEPT ![stage] =
                  [t \in Tables |-> IF t \in Incomplete(stage) THEN "running" ELSE @[t]]]
             /\ pc' = IF pc = "prereq" THEN "prereq_action" ELSE "final_action"
  /\ UNCHANGED <<sides, phaseDone, rowsDone, pending, plan, at, worker, window, faults, writes>>

(* run_schema_stage: the prerequisite stage leaves rows alone, the final   *)
(* stage adds the foreign keys, which MySQL refuses over an orphan.        *)
RunStageAction ==
  /\ \/ pc = "prereq_action" /\ pc' = "prereq_save" /\ UNCHANGED <<constrained, stageStatus>>
     \/ /\ pc = "final_action"
        /\ IF Consistent(target)
           THEN pc' = "final_save" /\ constrained' = TRUE /\ UNCHANGED stageStatus
           ELSE /\ pc' = "idle"
                /\ stageStatus' = [stageStatus EXCEPT !["final_constraints"] =
                     [t \in Tables |-> IF @[t] = "complete" THEN "complete" ELSE "error"]]
                /\ UNCHANGED constrained
  /\ UNCHANGED <<source, target, touched, phaseDone, rowsDone, pending, plan, at, worker, window,
                 faults, writes>>

(* persist_schema_stage_result: one table at a time. *)
SaveStage ==
  /\ pc \in {"prereq_save", "final_save"}
  /\ LET stage == IF pc = "prereq_save" THEN "prerequisite_schema" ELSE "final_constraints"
     IN IF Incomplete(stage) = {}
        THEN /\ pc' = IF pc = "prereq_save" THEN "load" ELSE "done"
             /\ UNCHANGED stageStatus
        ELSE /\ stageStatus' = [stageStatus EXCEPT ![stage][First(Incomplete(stage))] = "complete"]
             /\ UNCHANGED pc
  /\ UNCHANGED <<sides, phaseDone, rowsDone, pending, plan, at, worker, window, faults, writes>>

-----------------------------------------------------------------------------
(* Row phases. *)

DirectionOf(phase) == IF phase = "delete_extras" THEN "child_first" ELSE "parent_first"

(* load_row_work, and the plans at the head of run_pending_phases. *)
LoadRowWork ==
  /\ pc = "load"
  /\ pending' = Tables \ rowsDone
  /\ plan' = [p \in 1 .. 3 |->
       plan_dependency_batches(pending', ForeignKeys, DirectionOf(Phases[p]), Parallelism).batches]
  /\ at' = <<1, 1>>
  /\ pc' = IF rowsDone = Tables THEN "final" ELSE "rows"
  /\ UNCHANGED <<sides, saved, worker, window, faults, writes>>

Phase == Phases[at[1]]
Batches == plan[at[1]]
Batch == Batches[at[2]]

Component == [t \in Tables |-> selected_fk_component(ForeignKeys, Tables, t)]

Locked(t) == \E u \in Component[t] \ {t} : worker[u] = "locked"

(* A phase that an earlier attempt completed is not run again. *)
SkipPhase(t) ==
  /\ pc = "rows" /\ t \in Batch
  /\ worker[t] = "idle"
  /\ <<Phase, t>> \in phaseDone
  /\ worker' = [worker EXCEPT ![t] = "joined"]
  /\ UNCHANGED <<sides, saved, pc, pending, plan, at, window, faults, writes>>

(* The component of the table is locked on the target, then the source is  *)
(* read.                                                                   *)
LockAndRead(t) ==
  /\ pc = "rows" /\ t \in Batch
  /\ worker[t] = "idle"
  /\ <<Phase, t>> \notin phaseDone
  /\ ~Locked(t)
  /\ worker' = [worker EXCEPT ![t] = "locked"]
  /\ window' = [window EXCEPT ![t] = source[t]]
  /\ UNCHANGED <<sides, saved, pc, pending, plan, at, faults, writes>>

(* read_missing_parents *)
MissingParents(t, row) ==
  {<<p, row[p]>> : p \in {q \in Parents(t) : row[q] # Null /\ target[q][row[q]] = NoRow}}

Missing == UNION {{<<p, k>> : k \in KeysOf[p] \ Present(target[p])} : p \in Tables}
InSource(found) == {m \in found : source[m[1]][m[2]] # NoRow}

(* ensure_required_parents: the missing parents of the rows, and theirs,   *)
(* as the source has them now.                                             *)
MissingAncestors(parents) ==
  Repeat([found \in SUBSET Missing |->
            found \cup UNION {MissingParents(m[1], source[m[1]][m[2]]) : m \in InSource(found)}],
         parents)[Cardinality(Tables)]

RequiredBy(t, keys) == MissingAncestors(UNION {MissingParents(t, window[t][k]) : k \in keys})

Write(side, t, keys, rows) ==
  [side EXCEPT ![t] = [k \in KeysOf[t] |-> IF k \in keys THEN rows[k] ELSE @[k]]]

WithAncestors(side, missing) ==
  [t \in Tables |-> [k \in KeysOf[t] |-> IF <<t, k>> \in missing THEN source[t][k] ELSE side[t][k]]]

(* What the phase does to the target.  MySQL refuses a row whose parent is *)
(* missing and the delete of a row that is referenced; only an insert      *)
(* repairs its parents, and only from rows the source still has.           *)
InsertMissing(t) ==
  LET keys == Present(window[t]) \ Present(target[t])
      missing == IF constrained THEN RequiredBy(t, keys) ELSE {}
  IN [ok |-> \A m \in missing : source[m[1]][m[2]] # NoRow,
      target |-> Write(WithAncestors(target, missing), t, keys, window[t])]

(* Mutant: rows that are there are taken to be equal. *)
UpdateNothing(t) == [ok |-> TRUE, target |-> target]

UpdateDivergent(t) ==
  LET keys == {k \in Present(window[t]) \cap Present(target[t]) : window[t][k] # target[t][k]}
      new == Write(target, t, keys, window[t])
  IN [ok |-> constrained => Consistent(new), target |-> new]

DeleteExtras(t) ==
  LET keys == Present(target[t]) \ Present(window[t])
      new == Write(target, t, keys, window[t])
  IN [ok |-> constrained => Consistent(new), target |-> new]

PhaseResult(t) ==
  CASE Phase = "insert_missing" -> InsertMissing(t)
    [] Phase = "update_divergent" -> UpdateDivergent(t)
    [] Phase = "delete_extras" -> DeleteExtras(t)

ApplyAndCommit(t) ==
  /\ worker[t] = "locked"
  /\ PhaseResult(t).ok
  /\ target' = PhaseResult(t).target
  /\ worker' = [worker EXCEPT ![t] = "committed"]
  /\ UNCHANGED <<source, constrained, touched, saved, pc, pending, plan, at, window, faults, writes>>

StatementRefused(t) ==
  /\ worker[t] = "locked"
  /\ ~PhaseResult(t).ok
  /\ worker' = [worker EXCEPT ![t] = "refused"]
  /\ UNCHANGED <<sides, saved, pc, pending, plan, at, window, faults, writes>>

SavePhase(t) ==
  /\ worker[t] = "committed"
  /\ phaseDone' = phaseDone \cup {<<Phase, t>>}
  /\ worker' = [worker EXCEPT ![t] = "joined"]
  /\ UNCHANGED <<sides, stageStatus, rowsDone, pc, pending, plan, at, window, faults, writes>>

(* A worker thread fails or panics; its transaction is rolled back and its *)
(* connection gives up the lock.                                           *)
WorkerFails(t) ==
  /\ worker[t] \in {"locked", "committed"}
  /\ faults < MaxFaults
  /\ faults' = faults + 1
  /\ worker' = [worker EXCEPT ![t] = "failed"]
  /\ UNCHANGED <<sides, saved, pc, pending, plan, at, window, writes>>

AllIdle == [t \in Tables |-> "idle"]
NoWindow == [t \in Tables |-> [k \in KeysOf[t] |-> NoRow]]

(* Mutant: the last phase is left out. *)
JoinBatchOfTwoPhases ==
  /\ pc = "rows"
  /\ \A t \in Batch : worker[t] \in {"joined", "failed", "refused"}
  /\ worker' = AllIdle /\ window' = NoWindow
  /\ IF \E t \in Batch : worker[t] # "joined"
     THEN pc' = "idle" /\ UNCHANGED at
     ELSE \/ at[2] < Len(Batches) /\ at' = <<at[1], at[2] + 1>> /\ UNCHANGED pc
          \/ at[2] = Len(Batches) /\ at[1] < 2 /\ at' = <<at[1] + 1, 1>> /\ UNCHANGED pc
          \/ at = <<2, Len(Batches)>> /\ pc' = "save_rows" /\ UNCHANGED at
  /\ UNCHANGED <<sides, saved, pending, plan, faults, writes>>

(* run_sync_tables_bounded joins every worker of the batch; then an error  *)
(* ends the run, otherwise the next batch or the next phase follows.       *)
JoinBatch ==
  /\ pc = "rows"
  /\ \A t \in Batch : worker[t] \in {"joined", "failed", "refused"}
  /\ worker' = AllIdle /\ window' = NoWindow
  /\ IF \E t \in Batch : worker[t] # "joined"
     THEN pc' = "idle" /\ UNCHANGED at
     ELSE \/ at[2] < Len(Batches) /\ at' = <<at[1], at[2] + 1>> /\ UNCHANGED pc
          \/ at[2] = Len(Batches) /\ at[1] < 3 /\ at' = <<at[1] + 1, 1>> /\ UNCHANGED pc
          \/ at = <<3, Len(Batches)>> /\ pc' = "save_rows" /\ UNCHANGED at
  /\ UNCHANGED <<sides, saved, pending, plan, faults, writes>>

(* The rows stage of the pending tables, in table order. *)
SaveRows ==
  /\ pc = "save_rows"
  /\ IF pending \subseteq rowsDone
     THEN pc' = "final" /\ UNCHANGED rowsDone
     ELSE rowsDone' = rowsDone \cup {First(pending \ rowsDone)} /\ UNCHANGED pc
  /\ UNCHANGED <<sides, stageStatus, phaseDone, pending, plan, at, worker, window, faults, writes>>

-----------------------------------------------------------------------------

(* The process dies; what it saved and committed stays. *)
Crash ==
  /\ pc \notin {"idle", "done"}
  /\ faults < MaxFaults
  /\ faults' = faults + 1
  /\ pc' = "idle"
  /\ worker' = AllIdle /\ window' = NoWindow
  /\ UNCHANGED <<sides, saved, pending, plan, at, writes>>

SourceWrite ==
  /\ pc # "done"
  /\ writes < MaxWrites
  /\ writes' = writes + 1
  /\ \E t \in Tables : \E k \in KeysOf[t] : \E v \in (Row(t) \cup {NoRow}) \ {source[t][k]} :
       /\ source' = [source EXCEPT ![t][k] = v]
       /\ touched' = touched \cup {<<t, k>>}
  /\ Consistent(source')
  /\ UNCHANGED <<target, constrained, saved, control, faults>>

Init ==
  /\ source \in [Tables -> UNION {TableRows(t) : t \in Tables}]
  /\ \A t \in Tables : source[t] \in TableRows(t)
  /\ Consistent(source)
  /\ target \in [Tables -> UNION {TableRows(t) : t \in Tables}]
  /\ \A t \in Tables : target[t] \in TableRows(t)
  /\ constrained \in BOOLEAN
  /\ constrained => Consistent(target)
  /\ touched = {}
  /\ stageStatus = [s \in Stages |-> [t \in Tables |-> "none"]]
  /\ phaseDone = {} /\ rowsDone = {}
  /\ pc = "idle" /\ pending = {} /\ plan = <<>> /\ at = <<1, 1>>
  /\ worker = AllIdle
  /\ window = NoWindow
  /\ faults = 0 /\ writes = 0

WorkerStep(t) ==
  SkipPhase(t) \/ LockAndRead(t) \/ ApplyAndCommit(t) \/ StatementRefused(t) \/ SavePhase(t)

RunStep ==
  \/ StartRun \/ BeginStage \/ RunStageAction \/ SaveStage
  \/ LoadRowWork \/ JoinBatch \/ SaveRows
  \/ \E t \in Tables : WorkerStep(t)

Next ==
  \/ RunStep
  \/ \E t \in Tables : WorkerFails(t)
  \/ Crash \/ SourceWrite
  \/ pc = "done" /\ UNCHANGED vars

Spec == Init /\ [][Next]_vars

-----------------------------------------------------------------------------

(***************************************************************************)
(* Phases and tables keep their order across failed workers, crashes and   *)
(* attempts: a phase of a table is recorded complete only when the earlier *)
(* phases of all tables are, and when the same phase is for its parents    *)
(* (inserts, updates) or its children (deletes).                           *)
(***************************************************************************)
PhasesInOrder ==
  \A i \in 1 .. 3, t \in Tables : <<Phases[i], t>> \in phaseDone =>
    /\ \A j \in 1 .. i - 1, u \in Tables : <<Phases[j], u>> \in phaseDone
    /\ \A k \in ForeignKeys :
         /\ i < 3 /\ k[1] = t => <<Phases[i], k[2]>> \in phaseDone
         /\ i = 3 /\ k[2] = t => <<Phases[i], k[1]>> \in phaseDone

(***************************************************************************)
(* Constraints are touched only over converged rows: when the final stage  *)
(* has begun for any table, every table has its prerequisites and all its  *)
(* rows, and a row the source left alone is the same on both sides.        *)
(***************************************************************************)
FinalStageAfterRows ==
  (\E t \in Tables : stageStatus["final_constraints"][t] # "none") =>
    /\ rowsDone = Tables
    /\ Incomplete("prerequisite_schema") = {}
    /\ \A t \in Tables : \A k \in KeysOf[t] :
         <<t, k>> \notin touched => target[t][k] = source[t][k]

(***************************************************************************)
(* Phases and tables keep their order across workers, crashes and          *)
(* attempts, and constraints come after the rows of every table.           *)
(***************************************************************************)
StagesInOrder == PhasesInOrder /\ FinalStageAfterRows

(***************************************************************************)
(* A run over a quiet source is stopped by faults only: no statement of a  *)
(* phase is refused by a foreign key, whether the constraints are there    *)
(* from the start or not, and the final stage finds no orphan.             *)
(***************************************************************************)
QuietRunIsNeverRefused ==
  touched = {} => \A t \in Tables :
    worker[t] # "refused" /\ stageStatus["final_constraints"][t] # "error"

=============================================================================

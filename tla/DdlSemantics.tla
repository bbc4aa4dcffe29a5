---------------------------- MODULE DdlSemantics ----------------------------
(***************************************************************************)
(* One streamed DDL statement, from its translation to its verification    *)
(* (live/ddl_semantics.rs, the evidence part of canonical.rs and           *)
(* prepare_and_execute_automatic_ddl): read the target and render the SQL, *)
(* capture the state found and the state expected, prepare the journal,    *)
(* run the SQL, observe.  What statements are and how they are translated  *)
(* is a parameter here; AlterTable is what the runs give for it.           *)
(*                                                                         *)
(* A database is [table, routines]: one table and the spellings of one     *)
(* procedure and one trigger.  A statement is [kind, clauses, options,     *)
(* name].  One inventory read is one step; two reads that must agree are   *)
(* two, and another client of the target, the source and a crash come in   *)
(* between.                                                                *)
(***************************************************************************)
EXTENDS Naturals

CONSTANTS Bases,          \* databases both sides start from
          StatementsOn(_),\* statements the source can run on one of them
          Strays(_),      \* what another client may leave of a target table
          MaxStrays, MaxCrashes

(* From AlterTable: the servers, the inventory and the translation. *)
CONSTANTS SourceRun(_, _), TargetRun(_, _, _),
          target_snapshot(_, _), validate_json_alias_checks(_, _),
          supports_ddl_transformation(_), NeedsTarget(_), transform_sql(_, _),
          translated_alter_table_post_state(_, _), translated_index_post_state(_, _)

VARIABLES stmt,      \* the DDL event
          event,     \* the source right after it (ghost)
          source,    \* [db, at]: the source now, so many events later
          target,    \* the target now
          pc,        \* where the handler is
          read,      \* [target, at, source]: what earlier reads returned
          sql,       \* rendered statement: clauses, or the routine to drop
          evidence,  \* [pre, post, sql]
          journal,   \* replay journal status of the event
          found,     \* target when the evidence was captured (ghost)
          strays, crashes,
          ran        \* the SQL took effect (ghost)
vars == <<stmt, event, source, target, pc, read, sql, evidence, journal, found, strays, crashes, ran>>
world == <<stmt, event, source, target, strays, crashes>>

NoSql == [ok |-> TRUE, t |-> <<>>]
NoEvidence == [pre |-> "none", post |-> "none"]

TableKinds == {"alter", "create_index", "drop_index"}
RoutineKinds == {"drop_procedure", "drop_trigger", "source_only_procedure"}

-----------------------------------------------------------------------------
canonical_table_structure_state(snapshot) == snapshot.table
canonical_routine_state(snapshot, s) == snapshot.routines \cap {s.name}
canonical_operation_state(snapshot, s) ==
  IF s.kind \in RoutineKinds
  THEN [routine |-> canonical_routine_state(snapshot, s)]
  ELSE [table |-> canonical_table_structure_state(snapshot)]

validate_target_snapshot_consistency(before, after) == before = after

(* Mutant: only the coordinate before the read is compared. *)
FenceBeforeRead(before, after) == before = 0

validate_source_snapshot_coordinate(before, after) == before = 0 /\ after = before

-----------------------------------------------------------------------------
(* Evidence: build_semantic_evidence. *)

(* The state expected, if the statement explains one.  Renames IF EXISTS   *)
(* have no model of their own: they expect the source's.                   *)
canonical_post_state(snapshot, from, s) ==
  LET Expect(r) == [ok |-> r.ok, t |-> [table |-> r.t]]
  IN IF s.kind = "alter" THEN Expect(translated_alter_table_post_state(snapshot.table, s.clauses))
     ELSE IF s.kind \in TableKinds THEN Expect(translated_index_post_state(snapshot.table, s))
     ELSE IF s.kind \in {"drop_procedure", "drop_trigger"} THEN [ok |-> TRUE, t |-> [routine |-> {}]]
     ELSE [ok |-> TRUE, t |-> canonical_operation_state(from, s)]

build_semantic_evidence(snapshot, from, s) ==
  LET post == canonical_post_state(snapshot, from, s)
      there == s.kind = "source_only_procedure" /\ canonical_routine_state(snapshot, s) # {}
  IN [ok |-> post.ok /\ ~there, t |-> [pre |-> canonical_operation_state(snapshot, s), post |-> post.t]]

-----------------------------------------------------------------------------
Unread == [target |-> <<>>, at |-> 0, source |-> <<>>]

Init ==
  /\ \E db \in Bases : \E s \in StatementsOn(db) : \E run \in {SourceRun(db, s)} :
       /\ run.ok
       /\ supports_ddl_transformation(s)
       /\ stmt = s
       /\ event = run.t
       /\ source = [db |-> run.t, at |-> 0]
       /\ target = IF s.kind = "source_only_procedure" THEN [db EXCEPT !.routines = {}] ELSE db
  /\ pc = "transform"
  /\ read = Unread
  /\ sql = NoSql
  /\ evidence = NoEvidence
  /\ journal = "none"
  /\ found = <<>>
  /\ strays = 0 /\ crashes = 0
  /\ ran = FALSE

(* An error before the journal is prepared leaves it translation_pending;  *)
(* one after it stops the stream, and the next session reconciles.         *)
Pending == pc' = "stopped" /\ journal' = "translation_pending"

(* transform_sql_mode with two equal reads of the target where the         *)
(* rendering depends on it, or with one.                                   *)
ReadForTransform ==
  /\ pc = "transform" /\ stmt.kind = "alter" /\ NeedsTarget(stmt)
  /\ read' = [read EXCEPT !.target = target_snapshot(target, stmt)]
  /\ pc' = "retransform"
  /\ UNCHANGED <<world, sql, evidence, journal, found, ran>>

Transform ==
  /\ \/ pc = "transform" /\ ~(stmt.kind = "alter" /\ NeedsTarget(stmt))
     \/ pc = "retransform"
  /\ \E now \in {target_snapshot(target, stmt)} : \E out \in {transform_sql(now, stmt)} :
        IF (pc = "retransform" => validate_target_snapshot_consistency(read.target, now)) /\ out.ok
        THEN sql' = out /\ pc' = "capture" /\ UNCHANGED journal
        ELSE Pending /\ UNCHANGED sql
  /\ read' = Unread
  /\ UNCHANGED <<world, evidence, found, ran>>

ReadForCapture ==
  /\ pc = "capture"
  /\ read' = [read EXCEPT !.target = target_snapshot(target, stmt)]
  /\ pc' = IF stmt.kind = "rename_if_exists" THEN "fence" ELSE "recapture"
  /\ UNCHANGED <<world, sql, evidence, journal, found, ran>>

(* capture_source_evidence: the source's coordinate, its schema, and its   *)
(* coordinate again, which must both be the end of the event.              *)
ReadCoordinate ==
  /\ pc = "fence"
  /\ read' = [read EXCEPT !.at = source.at]
  /\ pc' = "source"
  /\ UNCHANGED <<world, sql, evidence, journal, found, ran>>
ReadSource ==
  /\ pc = "source"
  /\ read' = [read EXCEPT !.source = target_snapshot(source.db, stmt)]
  /\ pc' = "refence"
  /\ UNCHANGED <<world, sql, evidence, journal, found, ran>>
ReadCoordinateAgain ==
  /\ pc = "refence"
  /\ IF validate_source_snapshot_coordinate(read.at, source.at)
     THEN pc' = "recapture" /\ UNCHANGED <<journal, read>>
     ELSE Pending /\ read' = Unread
  /\ UNCHANGED <<world, sql, evidence, found, ran>>

Capture ==
  /\ pc = "recapture"
  /\ \E now \in {target_snapshot(target, stmt)} :
     \E captured \in {build_semantic_evidence(read.target, IF stmt.kind = "rename_if_exists" THEN read.source ELSE now, stmt)} :
        IF validate_target_snapshot_consistency(read.target, now) /\ captured.ok
        THEN /\ evidence' = captured.t /\ found' = target
             /\ pc' = "prepare" /\ UNCHANGED journal
        ELSE Pending /\ UNCHANGED <<evidence, found>>
  /\ read' = Unread
  /\ UNCHANGED <<world, sql, ran>>

(* suppress_target_sql_for_converged_state, then journal.prepare. *)
Prepare ==
  /\ pc = "prepare"
  /\ sql' = IF evidence.pre = evidence.post THEN NoSql ELSE sql
  /\ journal' = "prepared"
  /\ pc' = "execute"
  /\ UNCHANGED <<world, read, evidence, found, ran>>

Execute ==
  /\ pc = "execute"
  /\ IF sql.t = <<>> THEN pc' = "observe" /\ UNCHANGED <<target, ran>>
     ELSE \E run \in {TargetRun(target, stmt, sql.t)} :
            IF run.ok THEN target' = run.t /\ ran' = TRUE /\ pc' = "observe"
            ELSE pc' = "restart" /\ UNCHANGED <<target, ran>>
  /\ UNCHANGED <<stmt, event, source, strays, crashes, read, sql, evidence, journal, found>>

(* observe_operation reads the target twice; verify_automatic_ddl_         *)
(* postcondition and, after a restart, reconcile_prepared judge it.        *)
ReadForObserve ==
  /\ pc \in {"observe", "reconcile"}
  /\ read' = [read EXCEPT !.target = target_snapshot(target, stmt)]
  /\ pc' = IF pc = "observe" THEN "verify" ELSE "decide"
  /\ UNCHANGED <<world, sql, evidence, journal, found, ran>>

Proven(observed) ==
  observed = evidence.post /\ (pc = "decide" => evidence.pre # evidence.post)

Judge ==
  /\ pc \in {"verify", "decide"}
  /\ LET now == target_snapshot(target, stmt)
     IN IF ~validate_target_snapshot_consistency(read.target, now) \/ ~validate_json_alias_checks(target, stmt)
        THEN pc' = "restart" /\ UNCHANGED journal
        ELSE IF Proven(canonical_operation_state(now, stmt))
        THEN pc' = "done" /\ journal' = "applied"
        ELSE pc' = "stopped" /\ journal' = "blocked"
  /\ read' = Unread
  /\ UNCHANGED <<world, sql, evidence, found, ran>>

(* A new session reads the journal's status: prepared is reconciled, and a *)
(* translation that was pending is tried again.                            *)
Restart ==
  /\ \/ pc = "restart" /\ UNCHANGED crashes
     \/ pc \notin {"done", "restart"} /\ journal # "blocked" /\ crashes < MaxCrashes /\ crashes' = crashes + 1
  /\ pc' = IF journal = "prepared" THEN "reconcile" ELSE "transform"
  /\ read' = Unread
  /\ sql' = NoSql
  /\ evidence' = IF journal = "prepared" THEN evidence ELSE NoEvidence
  /\ UNCHANGED <<stmt, event, source, target, strays, journal, found, ran>>

(* Another client changes the target's table; the source goes on. *)
Stray ==
  /\ strays < MaxStrays /\ pc # "done"
  /\ \E t \in Strays(target.table) \ {target.table} : target' = [target EXCEPT !.table = t]
  /\ strays' = strays + 1
  /\ UNCHANGED <<stmt, event, source, pc, read, sql, evidence, journal, found, crashes, ran>>
SourceMovesOn ==
  /\ source.at = 0 /\ stmt.kind = "rename_if_exists" /\ pc # "done"
  /\ \E t \in Strays(source.db.table) \ {source.db.table} :
       source' = [db |-> [source.db EXCEPT !.table = t], at |-> 1]
  /\ UNCHANGED <<stmt, event, target, pc, read, sql, evidence, journal, found, strays, crashes, ran>>

Finished == pc \in {"done", "stopped"} /\ UNCHANGED vars

Next ==
  \/ ReadForTransform \/ Transform \/ ReadForCapture \/ ReadCoordinate \/ ReadSource \/ ReadCoordinateAgain
  \/ Capture \/ Prepare \/ Execute \/ ReadForObserve \/ Judge \/ Restart \/ Stray \/ SourceMovesOn \/ Finished

Spec == Init /\ [][Next]_vars

-----------------------------------------------------------------------------
Seen(db) == target_snapshot(db, stmt)

(* A statement that is recorded as applied, on a target nobody else        *)
(* changed, has left exactly the source's table: columns, order, keys,     *)
(* checks, the NULL default that no inventory shows, and the values its    *)
(* backfill gave to old rows; and the routine it drops is gone.            *)
(* (prepare_and_execute_automatic_ddl, fold_new_column_defaults,           *)
(* render_target_column_default)                                           *)
ReplayMatchesSource ==
  journal = "applied" /\ strays = 0 /\ stmt.kind # "source_only_procedure" => target = event

(* SQL that MySQL accepted on a target nobody else changed leaves the      *)
(* state that the evidence expects: a schema change is never made and then *)
(* blocked as unexplained, also when the process dies in between.          *)
(* (translated_alter_table_post_state, translated_index_post_state)        *)
ExpectedStateIsReached == ran /\ strays = 0 => journal # "blocked"

(* Whatever other clients and restarts do, a statement recorded as applied *)
(* where its evidence expects a change has turned the table that the       *)
(* evidence found into the table that the source's statement makes of it.  *)
(* (capture_translated_evidence, verify_automatic_ddl_postcondition,       *)
(* reconcile_prepared)                                                     *)
AppliedIsTheStatement ==
  journal = "applied" /\ stmt.kind \in TableKinds /\ evidence.pre # evidence.post
    => \E run \in {SourceRun(found, stmt)} : run.ok /\ Seen(target) = Seen(run.t)

(* Evidence taken from the source is the schema right after the event,     *)
(* also while the source goes on.  (validate_source_snapshot_coordinate)   *)
SourceEvidenceIsTheEvents ==
  stmt.kind = "rename_if_exists" /\ pc \in {"prepare", "execute"} => evidence.post = [table |-> Seen(event).table]

(* What the statement explains of the database that its evidence found. *)
Explained ==
  build_semantic_evidence(Seen(found), Seen(IF stmt.kind = "rename_if_exists" THEN event ELSE found), stmt)

(* Whatever other clients, the source and restarts do, a statement that is *)
(* recorded as applied has left the target in the state that the statement *)
(* explains of one state of the target, found by two equal reads, and of   *)
(* the source right after the event where it expects the source's.         *)
(* (capture_translated_evidence, journal.prepare, reconcile_prepared)      *)
AppliedIsExpected ==
  journal = "applied" =>
    Explained.ok /\ evidence = Explained.t /\ canonical_operation_state(Seen(target), stmt) = evidence.post

(* The handler changes the target at most once, however often it is        *)
(* restarted, and only with the evidence of the change in the journal.     *)
(* (prepare_and_execute_automatic_ddl, reconcile_prepared)                 *)
RunsOnceUnderJournal ==
  [][target' # target /\ strays' = strays
       => ~ran /\ ran' /\ journal = "prepared" /\ Explained.ok /\ evidence = Explained.t]_vars

(* A guarded drop of an index that is absent is left out, and never drops  *)
(* the index that the same statement adds.  (render_alter_table_with_target)*)
AbsentGuardedDropIsOmitted ==
  journal = "applied" /\ strays = 0 => target.table.idx = event.table.idx

=============================================================================

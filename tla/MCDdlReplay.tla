---------------------------- MODULE MCDdlReplay ----------------------------
(***************************************************************************)
(* The pure algorithms, and the replay of one DDL statement: a behaviour   *)
(* either computes an algorithm or runs DdlSemantics, with the translation *)
(* of AlterTable, on a statement of DdlCases.                              *)
(***************************************************************************)
EXTENDS MCAlgorithms

CONSTANTS MaxStrays, MaxCrashes

VARIABLES stmt, event, source, target, pc, read, sql, evidence, journal, found, strays, crashes, ran
ddlVars == <<stmt, event, source, target, pc, read, sql, evidence, journal, found, strays, crashes, ran>>
mcVars == <<vars, ddlVars>>

Cases == INSTANCE DdlCases WITH Spelling <- "p"
Ddl == INSTANCE DdlSemantics WITH
  Bases <- Cases!MCBases, StatementsOn <- Cases!MCStatements, Strays <- Cases!MCStrays,
  SourceRun <- Cases!SourceRun, TargetRun <- Cases!TargetRun,
  target_snapshot <- Cases!target_snapshot, validate_json_alias_checks <- Cases!validate_json_alias_checks,
  supports_ddl_transformation <- Cases!supports_ddl_transformation,
  NeedsTarget <- Cases!NeedsTarget, transform_sql <- Cases!transform_sql,
  translated_alter_table_post_state <- Cases!translated_alter_table_post_state,
  translated_index_post_state <- Cases!translated_index_post_state

StatementRun == [algorithm |-> "none"]   \* the input of a behaviour that replays a statement
NoStatement ==
  /\ stmt = 0 /\ event = 0 /\ source = 0 /\ target = 0 /\ pc = "none" /\ read = 0 /\ sql = 0 /\ evidence = 0
  /\ journal = "none" /\ found = 0 /\ strays = 0 /\ crashes = 0 /\ ran = FALSE
Replays == input = StatementRun

MCInit ==
  \/ Init /\ NoStatement
  \/ input = StatementRun /\ output = Pending /\ done = FALSE /\ Ddl!Init

(* An algorithm ends; a statement must never get stuck. *)
Computed == done /\ UNCHANGED mcVars

MCNext ==
  \/ ~Replays /\ Next /\ UNCHANGED ddlVars
  \/ Computed
  \/ Replays /\ Ddl!Next /\ UNCHANGED vars

MCSpec == MCInit /\ [][MCNext]_mcVars

-----------------------------------------------------------------------------

(* A statement recorded as applied has made the source's table. *)
AppliedStatementMatchesSource == Replays => Ddl!ReplayMatchesSource

(* SQL that MySQL accepted is not blocked as unexplained. *)
AcceptedStatementIsExplained == Replays => Ddl!ExpectedStateIsReached

(* With other clients and the source at work, applied still means that the *)
(* statement ran and left what its evidence expects, and evidence read     *)
(* from the source is the state right after the event.                     *)
AppliedOnCurrentEvidence ==
  Replays => Ddl!AppliedIsTheStatement /\ Ddl!AppliedIsExpected /\ Ddl!SourceEvidenceIsTheEvents

(* A coordinated FK repair leaves what it should, and gives up only where  *)
(* it has to.                                                              *)
FkRepairIsExact == FkRepairSound /\ FkRepairSucceeds

(* A conversion that sync-schema lets pass keeps every value, and a column *)
(* that was converged compares equal from then on.                         *)
ConversionsAreSound == ConversionsLoseNothing /\ ConvergedColumnsAreEqual

(* A catalog has every table that can be synced, and only such tables and  *)
(* columns.                                                                *)
CatalogsAreSound == CatalogIsComplete /\ CompatibleColumnsHold

(* CREATE, DROP, RENAME and TRUNCATE TABLE, numeric defaults and CHECKs    *)
(* are on the target what they are on the source, and are reported as the  *)
(* journal expects them.                                                   *)
TablesReplaySource ==
  LifecycleSound /\ DefaultsAreReportedText /\ CheckMeansTheSame /\ CreateReplaysSource
=============================================================================

----------------------------- MODULE MCRowReplay -----------------------------
(***************************************************************************)
(* A behaviour is one of two views of row replay.  "rows": users and       *)
(* payments with their repairs (RowReplay).  "columns": one table that     *)
(* gains two columns before its last one and then loses one, while its     *)
(* rows are replayed (RowSchema); the variables of the other view rest.    *)
(***************************************************************************)
EXTENDS RowReplay, TLC

CONSTANTS SchemaEvents, MaxRestarts

VARIABLES
  view, version, schemaSource, schemaLog, schemaTarget, rows, schemaPos, mapped, cache, registry,
  ignored, skipped, restarts

schemaVars ==
  <<version, schemaSource, schemaLog, schemaTarget, rows, schemaPos, mapped, cache, registry,
    ignored, skipped, restarts>>
mcVars == <<view, vars, schemaVars>>

Schema == INSTANCE RowSchema WITH
  source <- schemaSource, log <- schemaLog, target <- schemaTarget, pos <- schemaPos,
  Versions <- << <<"a">>, <<"x", "y", "a">>, <<"x", "a">> >>,
  Keys <- {1}, Ids <- {1}, MaxEvents <- SchemaEvents

RowsRest == source = EmptyRows /\ target = EmptyRows /\ Init
SchemaRests == schemaSource = [k \in {1} |-> <<>>] /\ Schema!Init

MCInit ==
  \/ view = "rows" /\ SchemaRests /\ Init
  \/ view = "columns" /\ RowsRest /\ Schema!Init

MCNext ==
  \/ view = "rows" /\ Next /\ UNCHANGED <<view, schemaVars>>
  \/ view = "columns" /\ Schema!Next /\ UNCHANGED <<view, vars>>

MCSpec == MCInit /\ [][MCNext]_mcVars

Symmetry == Permutations(UserIds) \cup Permutations(Names)

-----------------------------------------------------------------------------

(* Values reach the columns they belong to, and a change is skipped only   *)
(* where the target's table was ahead of it.                               *)
RowsKeepTheirColumns == Schema!RowsKeepTheirColumns
=============================================================================

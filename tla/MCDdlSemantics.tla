--------------------------- MODULE MCDdlSemantics ---------------------------
(* DdlSemantics alone, with the translation of AlterTable, on statements   *)
(* that both add and drop an index.                                        *)
EXTENDS DdlCases

CONSTANTS MaxStrays, MaxCrashes

VARIABLES stmt, event, source, target, pc, read, sql, evidence, journal, found, strays, crashes, ran

INSTANCE DdlSemantics WITH
  Bases <- MCBases, StatementsOn <- SameIndexStatements, Strays <- MCStrays
=============================================================================

------------------------ MODULE MCLostBinlogRecovery ------------------------
(* Two tables, one of them there from the start, and two recovery ids, so  *)
(* that one recovery can replace the other.                                *)
EXTENDS LostBinlogRecovery

CONSTANTS t1, t2, r1, r2

MCTables == {t1, t2}
MCRecoveries == {r1, r2}

=============================================================================

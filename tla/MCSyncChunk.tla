----------------------------- MODULE MCSyncChunk -----------------------------
(* Row values for SyncChunk: as many as there are keys, so that rows can   *)
(* own each other's values and change places.                              *)
EXTENDS SyncChunk

CONSTANTS a, b, c

MCValues == {a, b, c}
=============================================================================

------------------------------- MODULE Replica -------------------------------
(***************************************************************************)
(* What the live stream promises, whatever groups, statements, failures    *)
(* and restarts it meets: the target is a replica of the source that       *)
(* commits the rows of the binlog in order, and a position to resume from  *)
(* that only moves forward and never passes a row that is not committed.   *)
(* Rows past the position may be committed; a restart applies them again.  *)
(***************************************************************************)
EXTENDS Naturals, Sequences

CONSTANT Logs

VARIABLES
  log,       \* the source binlog
  rows,      \* row events committed on the target
  position   \* where a new session of the stream resumes

replicaVars == <<log, rows, position>>

RowEvents(l, n) == {i \in 1 .. Len(l) : i <= n /\ l[i] = "row"}

Init ==
  /\ log \in Logs
  /\ rows = {}
  /\ position = 0

(* Everything up to m is committed; the position moves to m or less far. *)
Commit(m) ==
  /\ rows' = rows \cup RowEvents(log, m)
  /\ position' \in position .. m
  /\ UNCHANGED log

(* The position moves over events whose rows are all committed. *)
Save(n) ==
  /\ n >= position
  /\ RowEvents(log, n) \subseteq rows
  /\ position' = n
  /\ UNCHANGED <<log, rows>>

Next == \E n \in 0 .. Len(log) : Commit(n) \/ Save(n)

Spec == Init /\ [][Next]_replicaVars
=============================================================================

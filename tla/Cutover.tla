------------------------------- MODULE Cutover -------------------------------
(***************************************************************************)
(* The cutover workflow (cutover.rs) and its validation (validation.rs):   *)
(* writes stop, the stream's lag drains, both sides are compared, the      *)
(* endpoint moves to the target and writes resume.  The write controller,  *)
(* the drainer, the endpoint switch and the readers are external; each may *)
(* fail, before or after it took effect.                                   *)
(***************************************************************************)
EXTENDS Integers, Sequences, FiniteSets

CONSTANTS
  Keys,             \* primary keys, numbers
  Values,           \* row values; 0 is no row
  SampleSize,       \* checksum_sample_size
  DivergenceLimit,  \* divergence_limit
  MaxLag,           \* max_allowed_lag_events
  MaxEvents         \* bound on writes of the application

VARIABLES
  source, target,
  log, pos,         \* writes to the source, and how many the stream applied
  quarantined,      \* events the stream skipped
  writes,           \* the application may write
  endpoint,         \* where it writes
  pc,               \* step of run_cutover
  result            \* "none", "ok" or the error

vars == <<source, target, log, pos, quarantined, writes, endpoint, pc, result>>

Rows == [Keys -> Values \cup {0}]
cutover == <<pc, result>>

-----------------------------------------------------------------------------
(* validation.rs *)

count_rows(rows) == Cardinality({k \in Keys : rows[k] # 0})

(* read_rows: the first `limit` rows by primary key *)
read_rows(rows, limit) ==
  LET ids == {k \in Keys : rows[k] # 0}
  IN [k \in {id \in ids : Cardinality({j \in ids : j < id}) < limit} |-> rows[k]]

(* compare_rows: missing on either side, or different *)
compare_rows(left, right) ==
  {k \in DOMAIN left \cup DOMAIN right :
     k \notin DOMAIN left \/ k \notin DOMAIN right \/ left[k] # right[k]}

(* sampled_checksums: the reader picks the samples; a checksum is a        *)
(* sample's rows.                                                          *)
compare_checksum_samples == compare_rows(read_rows(source, SampleSize), read_rows(target, SampleSize))

(* CutoverValidationReport::passed; validate_cutover reads the source, no  *)
(* longer written, and the target, which a stream that lags still changes: *)
(* one step for all the reads when MaxLag = 0.                             *)
ValidationPassed ==
  /\ count_rows(source) = count_rows(target)
  /\ compare_checksum_samples = {}
  /\ compare_rows(read_rows(source, DivergenceLimit), read_rows(target, DivergenceLimit)) = {}

-----------------------------------------------------------------------------
(* The application and the stream *)

Write(k, row) ==
  /\ writes /\ Len(log) < MaxEvents
  /\ IF endpoint = "source"
     THEN /\ source[k] # row
          /\ source' = [source EXCEPT ![k] = row] /\ log' = Append(log, [key |-> k, row |-> row])
          /\ UNCHANGED target
     ELSE /\ target[k] # row
          /\ target' = [target EXCEPT ![k] = row] /\ UNCHANGED <<source, log>>
  /\ UNCHANGED <<pos, quarantined, writes, endpoint, cutover>>

StreamApplies ==
  /\ pos < Len(log) /\ pos' = pos + 1
  /\ \E skip \in BOOLEAN :
       IF skip THEN quarantined' = quarantined + 1 /\ UNCHANGED target
       ELSE /\ target' = [target EXCEPT ![log[pos + 1].key] = log[pos + 1].row]
            /\ UNCHANGED quarantined
  /\ UNCHANGED <<source, log, writes, endpoint, cutover>>

-----------------------------------------------------------------------------
(* run_cutover *)

Stays == UNCHANGED <<source, target, log, pos, quarantined>>

StopWrites ==
  /\ pc = "start" /\ Stays /\ UNCHANGED endpoint
  /\ \/ writes' = FALSE /\ pc' = "drain" /\ UNCHANGED result
     \/ writes' \in BOOLEAN /\ pc' = "end" /\ result' = "StopWrites"

(* Mutant: the lag that is left is not compared with the plan's threshold. *)
DrainAnyLag ==
  /\ pc = "drain" /\ Stays /\ UNCHANGED <<writes, endpoint>>
  /\ IF quarantined = 0
     THEN pc' = "validate" /\ UNCHANGED result
     ELSE pc' = "resume after failure" /\ result' = "LagNotDrained"

(* drain_lag: the drainer reports the lag that is left. *)
DrainLag ==
  /\ pc = "drain" /\ Stays /\ UNCHANGED <<writes, endpoint>>
  /\ IF Len(log) - pos <= MaxLag /\ quarantined = 0
     THEN pc' = "validate" /\ UNCHANGED result
     ELSE pc' = "resume after failure" /\ result' = "LagNotDrained"

DrainFails ==
  /\ pc = "drain" /\ Stays /\ UNCHANGED <<writes, endpoint>>
  /\ pc' = "resume after failure" /\ result' = "DrainLag"

(* validate_cutover; a reader may fail. *)
Validate ==
  /\ pc = "validate" /\ Stays /\ UNCHANGED <<writes, endpoint>>
  /\ \/ ValidationPassed /\ pc' = "switch" /\ UNCHANGED result
     \/ ~ValidationPassed /\ pc' = "resume after failure" /\ result' = "ValidationGate"
     \/ pc' = "resume after failure" /\ result' = "Validation"

SwitchEndpoint ==
  /\ pc = "switch" /\ Stays /\ UNCHANGED writes
  /\ \/ endpoint' = "target" /\ pc' = "resume" /\ UNCHANGED result
     \/ /\ endpoint' \in {"source", "target"}
        /\ pc' = "resume after failure" /\ result' = "SwitchEndpoint"

ResumeWrites ==
  /\ pc = "resume" /\ Stays /\ UNCHANGED endpoint
  /\ \/ writes' = TRUE /\ pc' = "end" /\ result' = "ok"
     \/ writes' \in BOOLEAN /\ pc' = "resume after failure" /\ result' = "ResumeWrites"

(* resume_after_failure *)
ResumeAfterFailure ==
  /\ pc = "resume after failure" /\ Stays /\ UNCHANGED endpoint
  /\ pc' = "end"
  /\ \/ writes' = TRUE /\ UNCHANGED result
     \/ writes' \in BOOLEAN /\ result' = "ResumeAfterFailure"

Init ==
  /\ source \in Rows /\ target \in Rows
  /\ log = <<>> /\ pos = 0 /\ quarantined = 0
  /\ writes = TRUE /\ endpoint = "source" /\ pc = "start" /\ result = "none"

Next ==
  \/ \E k \in Keys, row \in Values \cup {0} : Write(k, row)
  \/ StreamApplies \/ StopWrites \/ DrainLag \/ DrainFails \/ Validate \/ SwitchEndpoint \/ ResumeWrites
  \/ ResumeAfterFailure

Spec == Init /\ [][Next]_vars

-----------------------------------------------------------------------------

(***************************************************************************)
(* The application moves to a target that has all of its writes, and that  *)
(* no event still on its way will overwrite: a write followed by one that  *)
(* undoes it leaves both sides equal while both are pending, so it takes   *)
(* the lag gate and the comparison together.  The limits cover the tables  *)
(* and the lag threshold is zero, as in the plans the tests build.         *)
(***************************************************************************)
SwitchStep ==
  endpoint = "source" /\ endpoint' = "target" => target = source /\ pos = Len(log)

(***************************************************************************)
(* However the cutover ends, the application may write again, unless the   *)
(* write controller itself failed.                                         *)
(***************************************************************************)
WritesComeBack ==
  pc = "end" => writes \/ result \in {"StopWrites", "ResumeAfterFailure"}
=============================================================================

-------------------------- MODULE ConflictResolution --------------------------
(***************************************************************************)
(* Targeted conflict resolution (targeted_conflict_resolution.rs) over the *)
(* ledger of row conflicts (conflict_ledger/): the unresolved conflicts of *)
(* one source and table are closed once their rows, and the parents those  *)
(* refer to, are seen equal on both sides.  The reads come in batches from *)
(* two servers that keep changing, and each conflict is closed by an       *)
(* UPDATE of its own.                                                      *)
(***************************************************************************)
EXTENDS Integers, FiniteSets

CONSTANTS
  Keys,          \* primary keys of comics_releases_views
  Utms,          \* primary keys of utms
  Conflicts,     \* conflicts: <<source identity, key, binlog event>>
  Me,            \* --source-identity
  BatchSize,     \* --batch-size
  MaxChanges     \* bound on changes of the two databases

VARIABLES
  source, target,    \* [children, utms] of both sides
  ledger,            \* conflict -> "none", "unresolved" or "resolved"
  pc,                \* step of the command
  keys,              \* primary keys read from the ledger
  read,              \* keys and rows read so far in this step
  evidence,          \* completed reads
  todo,              \* keys whose conflicts are still to be closed
  past,              \* states both sides have had since the command started
  changes

vars == <<source, target, ledger, pc, keys, read, evidence, todo, past, changes>>

NoRow == [val |-> 0, utm |-> "none"]
Children == [val : {1, 2}, utm : Utms \cup {"NULL"}] \cup {NoRow}
Rows == [children : [Keys -> Children], utms : [Utms -> 0 .. 1]]   \* 0 is no utms row
Mine(k) == {c \in Conflicts : c[1] = Me /\ c[2] = k}
NoEvidence == [source |-> {}, target |-> {}, sourceUtms |-> {}, targetUtms |-> {}]
NothingRead == [keys |-> {}, rows |-> {}]

-----------------------------------------------------------------------------
(* Reads *)

(* unresolved_primary_keys is scoped to the source identity, and has a     *)
(* row's key once for each of its conflicts.                               *)
unresolved_primary_keys == {c \in Conflicts : c[1] = Me /\ ledger[c] = "unresolved"}

validate_primary_keys(conflicts) == \A c, d \in conflicts : c[2] = d[2] => c = d

Steps == {"source", "target", "sourceUtms", "targetUtms"}
After(step) ==
  CASE step = "source" -> "target" [] step = "target" -> "sourceUtms" [] step = "sourceUtms" -> "targetUtms"
    [] step = "targetUtms" -> "resolve"

(* The table that a step reads, and the rows that a batch of keys finds *)
TableOf(step, src, tgt) ==
  CASE step = "source" -> src.children [] step = "target" -> tgt.children
    [] step = "sourceUtms" -> src.utms [] step = "targetUtms" -> tgt.utms
Absent(step) == IF step \in {"source", "target"} THEN NoRow ELSE 0
Found(step, batch) ==
  LET table == TableOf(step, source, target)
  IN {[key |-> k, row |-> table[k]] : k \in {k \in batch : table[k] # Absent(step)}}

KeysIn(rows) == {r.key : r \in rows}

(* Mutant: rows are equal when the keys found on both sides are. *)
KeysEqual(expected, sourceRows, targetRows) == KeysIn(sourceRows) = expected /\ KeysIn(targetRows) = expected

(* validate_equal_rows: every expected key on both sides, with equal rows *)
validate_equal_rows(expected, sourceRows, targetRows) ==
  KeysIn(sourceRows) = expected /\ KeysIn(targetRows) = expected /\ sourceRows = targetRows

referenced_parent_keys(children) == {r.row.utm : r \in children} \ {"NULL"}

KeysOf(step) == IF step \in {"source", "target"} THEN keys ELSE referenced_parent_keys(evidence.source)

-----------------------------------------------------------------------------
(* The databases; the stream repairs rows or replays old ones. *)

Change(side) ==
  /\ changes < MaxChanges /\ changes' = changes + 1
  /\ \/ /\ side = "source" /\ source' \in {[source EXCEPT !.children[k] = row] : k \in Keys, row \in Children}
        /\ UNCHANGED target
     \/ /\ side = "target" /\ target' \in {[target EXCEPT !.children[k] = row] : k \in Keys, row \in Children}
        /\ UNCHANGED source
     \/ /\ side = "target" /\ target' \in {[target EXCEPT !.utms[u] = 1 - @] : u \in Utms}
        /\ UNCHANGED source
  /\ past' = IF pc = "start" THEN past ELSE past \cup {[source |-> source', target |-> target']}
  /\ UNCHANGED <<ledger, pc, keys, read, evidence, todo>>

-----------------------------------------------------------------------------
(* The command *)

Start ==
  /\ pc = "start"
  /\ keys' = {c[2] : c \in unresolved_primary_keys}
  /\ past' = {[source |-> source, target |-> target]}
  /\ pc' = IF validate_primary_keys(unresolved_primary_keys) THEN "source" ELSE "error"
  /\ read' = NothingRead
  /\ UNCHANGED <<source, target, ledger, evidence, todo, changes>>

(* read_batched_children and read_batched_parents: one query per batch.    *)
(* Keys are in the order of their text, which is left open.                *)
ReadBatch(step) ==
  /\ pc = step
  /\ LET unread == KeysOf(step) \ read.keys
     IN \E batch \in SUBSET unread \ {{}} :
          /\ Cardinality(batch) = BatchSize \/ (batch = unread /\ Cardinality(batch) < BatchSize)
          /\ read' = [keys |-> read.keys \cup batch, rows |-> read.rows \cup Found(step, batch)]
  /\ UNCHANGED <<source, target, ledger, pc, keys, evidence, todo, past, changes>>

(* The last batch of a step; the second side of a pair is compared. *)
FinishRead(step) ==
  /\ pc = step
  /\ KeysOf(step) \subseteq read.keys
  /\ evidence' = [evidence EXCEPT ![step] = read.rows] /\ read' = NothingRead
  /\ LET equal == CASE step = "target" -> validate_equal_rows(keys, evidence.source, read.rows)
                    [] step = "targetUtms" -> validate_equal_rows(KeysOf(step), evidence.sourceUtms, read.rows)
                    [] OTHER -> TRUE
     IN pc' = IF equal THEN After(step) ELSE "error"
  /\ todo' = keys
  /\ UNCHANGED <<source, target, ledger, keys, past, changes>>

(* resolve_if_equal: the UPDATE is scoped to the table and primary key. *)
Resolve ==
  /\ pc = "resolve"
  /\ \E k \in todo :
       /\ ledger' = [c \in Conflicts |-> IF c[2] = k /\ ledger[c] = "unresolved" THEN "resolved" ELSE ledger[c]]
       /\ todo' = todo \ {k}
  /\ UNCHANGED <<source, target, pc, keys, read, evidence, past, changes>>

Finish ==
  /\ pc = "resolve" /\ todo = {}
  /\ pc' = "ok"
  /\ UNCHANGED <<source, target, ledger, keys, read, evidence, todo, past, changes>>

Crash ==
  /\ pc \notin {"start", "ok", "error"}
  /\ pc' = "error"
  /\ UNCHANGED <<source, target, ledger, keys, read, evidence, todo, past, changes>>

(* The command is run again. *)
Again ==
  /\ pc = "error"
  /\ pc' = "start" /\ keys' = {} /\ read' = NothingRead /\ evidence' = NoEvidence /\ todo' = {} /\ past' = {}
  /\ UNCHANGED <<source, target, ledger, changes>>

Init ==
  /\ source \in {rows \in Rows : /\ \A u \in Utms : rows.utms[u] = 1
                                 /\ \A k \in Keys : rows.children[k] # NoRow}
  /\ target \in {rows \in Rows : \E k \in Keys : [rows EXCEPT !.children[k] = source.children[k]] = source \/ rows = source}
  /\ ledger \in [Conflicts -> {"none", "unresolved"}]
  /\ pc = "start" /\ keys = {} /\ read = NothingRead /\ evidence = NoEvidence /\ todo = {}
  /\ past = {} /\ changes = 0

Next ==
  \/ \E side \in {"source", "target"} : Change(side)
  \/ Start \/ (\E step \in Steps : ReadBatch(step) \/ FinishRead(step))
  \/ Resolve \/ Finish \/ Crash \/ Again

Spec == Init /\ [][Next]_vars

-----------------------------------------------------------------------------

(***************************************************************************)
(* A conflict is closed on evidence: while the command ran, the target had *)
(* the row that the source had, and the utms row it refers to.  The reads  *)
(* of the two sides are not one snapshot, so this is all that can be said. *)
(***************************************************************************)
EvidenceStep ==
  \A k \in Keys : (\E c \in Mine(k) : ledger[c] = "unresolved" /\ ledger'[c] = "resolved") =>
    \E s, t \in past :
      /\ s.source.children[k] # NoRow
      /\ t.target.children[k] = s.source.children[k]
      /\ s.source.children[k].utm \in Utms =>
           \E v \in past : v.target.utms[s.source.children[k].utm] = 1

(***************************************************************************)
(* A run that reports success leaves no conflict of the rows it examined   *)
(* open, whichever of the conflicts of a row it read and whatever earlier  *)
(* runs that crashed between two UPDATEs had closed.                       *)
(***************************************************************************)
ExaminedAreResolved ==
  pc = "ok" => \A k \in keys : \A c \in Mine(k) : ledger[c] # "unresolved"
=============================================================================

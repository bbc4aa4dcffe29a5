--------------------------- MODULE DependencyOrder ---------------------------
(***************************************************************************)
(* The order in which the row phases of unified sync visit the selected    *)
(* tables (sync/dependency_order.rs), and the tables that one worker locks *)
(* (sync/component_locks.rs).  A foreign key is a pair <<child, parent>>   *)
(* of table names, given as numbers so that they have the order of the     *)
(* BTreeSets; keys to another schema are left out by the caller's edges.   *)
(***************************************************************************)
EXTENDS Naturals, Sequences, FiniteSets

(* What a loop holds after each of its turns. *)
Repeat(turn, start) ==
  LET held[n \in Nat] == IF n = 0 THEN start ELSE turn[held[n - 1]]
  IN held

(* add_dependencies: what has to come before what, among the selected. *)
SelectedKeys(keys, selected) == {k \in keys : k[1] \in selected /\ k[2] \in selected}

Before(keys, selected, direction) ==
  {IF direction = "parent_first" THEN <<k[2], k[1]>> ELSE <<k[1], k[2]>> :
     k \in SelectedKeys(keys, selected)}

FirstN(set, n) == {x \in set : Cardinality({y \in set : y < x}) < n}

ReadyTables(before, done, selected) ==
  {t \in selected \ done : \A e \in before : e[2] = t => e[1] \in done}

(* schedule_batches: each turn takes the first ready tables, while there   *)
(* are any.                                                                *)
Scheduled(before, selected, parallelism) ==
  Repeat([done \in SUBSET selected |->
            done \cup FirstN(ReadyTables(before, done, selected), parallelism)], {})

schedule_batches(before, selected, parallelism) ==
  LET done == Scheduled(before, selected, parallelism)
  IN [n \in {m \in 1 .. Cardinality(selected) : done[m] # done[m - 1]} |-> done[n] \ done[n - 1]]

Planned(batches) == UNION {batches[n] : n \in DOMAIN batches}

(* A self-dependency and a cycle leave tables without a place. *)
plan_dependency_batches(selected, keys, direction, parallelism) ==
  LET batches == schedule_batches(Before(keys, selected, direction), selected, parallelism)
  IN IF /\ parallelism > 0
        /\ \A k \in SelectedKeys(keys, selected) : k[1] # k[2]
        /\ Planned(batches) = selected
     THEN [ok |-> TRUE, batches |-> batches]
     ELSE [ok |-> FALSE, batches |-> <<>>]

-----------------------------------------------------------------------------

(* build_fk_neighbors *)
Neighbors(keys, t) == {u \in UNION {{k[1], k[2]} : k \in keys} : <<t, u>> \in keys \/ <<u, t>> \in keys}

(* The worklist of selected_fk_component: unselected tables stop it. *)
selected_fk_component(keys, selected, table) ==
  Repeat([visited \in SUBSET selected |->
            visited \cup (UNION {Neighbors(keys, t) : t \in visited} \cap selected)],
         {table})[Cardinality(selected)]

=============================================================================

----------------------------- MODULE SchemaSync -----------------------------
(***************************************************************************)
(* The schema stages of a sync run (sync_schema.rs): the prerequisite      *)
(* stage converges columns and keys and drops obsolete constraints, the    *)
(* final stage, after the rows, adds the constraints that are missing.     *)
(* Each stage reads the target once, plans, drops constraints on all       *)
(* tables, and then executes the rest on parallel workers, parents first.  *)
(*                                                                         *)
(* A schema is a record of tables, indexes, foreign keys and checks.  A    *)
(* column has a name and a definition; only column "x" holds data that a   *)
(* conversion could lose.  A statement names the one object it is about    *)
(* and its prerequisite objects.                                           *)
(***************************************************************************)
EXTENDS ColumnConversion, FiniteSetsExt

CONSTANTS
  Tables,        \* selected tables, a sequence in inventory order
  Sources,       \* source schemas
  Targets(_),    \* target schemas that a run over a source may meet
  Data(_),       \* data that a target schema may hold
  Values,        \* all values of column x
  Parallelism,
  MaxFaults,     \* bound on failures that are not the plan's
  MaxRuns        \* bound on the runs of the command

VARIABLES
  source, target,
  data,          \* values in column x of each target table
  stage, pc,
  plans,         \* table -> plan of the current stage
  status,        \* table -> state of its worker
  left, failed,  \* table -> statements still to execute, failed objects
  complete,      \* stages this run id has completed
  blocked,       \* the run has met a conversion that its preflight refused
  pinned,        \* the plan drops an index before foreign keys can do without
  faulted,       \* the run has met a fault
  lost,          \* a conversion has changed data
  runs, faults

vars == <<source, target, data, stage, pc, plans, status, left, failed, complete, blocked, pinned, faulted, lost, runs, faults>>

TableSet == Range(Tables)
Has(schema, t) == t \in DOMAIN schema.tables
IndexesOf(schema, t) == {i \in schema.indexes : i.table = t}
KeysOf(schema, t) == {k \in schema.fks : k.table = t}
ChecksOf(schema, t) == {c \in schema.checks : c.table = t}
ColumnsOf(schema, t) == schema.tables[t].columns
ColumnNames(columns) == {columns[i].name : i \in DOMAIN columns}
ColumnNamed(columns, n) == columns[CHOOSE i \in DOMAIN columns : columns[i].name = n]
Position(columns, n) == CHOOSE i \in DOMAIN columns : columns[i].name = n

-----------------------------------------------------------------------------
(* Names and expectations *)

(* target_constraint_name: a name is a sequence of parts. *)
target_constraint_name(t, name) == IF Len(name) > 1 /\ name[1] = t THEN name ELSE <<t>> \o name

target_foreign_key(k) == [k EXCEPT !.name = target_constraint_name(k.table, k.name)]
target_check(c) == [c EXCEPT !.name = target_constraint_name(c.table, c.name)]

Covers(columns, required) == Len(columns) >= Len(required) /\ SubSeq(columns, 1, Len(required)) = required

standard_parent_key_exists(schema, t, columns) ==
  \/ Has(schema, t) /\ Covers(schema.tables[t].pk, columns)
  \/ \E i \in IndexesOf(schema, t) : i.unique /\ Covers(i.columns, columns)

synthesized_parent_indexes(schema) ==
  {[table |-> k.parent, name |-> <<"uq_cdc">> \o k.pcolumns, unique |-> TRUE, columns |-> k.pcolumns]
   : k \in {f \in schema.fks : ~standard_parent_key_exists(schema, f.parent, f.pcolumns)}}

expected_target_inventory(schema) ==
  [schema EXCEPT !.fks = {target_foreign_key(k) : k \in @},
                 !.indexes = @ \cup synthesized_parent_indexes(schema)]

(* columns_equal includes the ordinal position *)
SameColumn(cs, ct, n) ==
  Position(cs, n) = Position(ct, n) /\ columns_equal(ColumnNamed(cs, n).def, ColumnNamed(ct, n).def)

foreign_keys_equal(a, b) == a = [b EXCEPT !.rule = a.rule]
canonical_foreign_keys_semantically_equal(a, b) == a = [b EXCEPT !.name = a.name]
check_constraints_semantically_equal(a, b) == a = [b EXCEPT !.name = a.name]
index_definitions_equal(a, b) == a = [b EXCEPT !.name = a.name]

(* Mutant: a preflight that fails does not hold the column back. *)
BlockedOnAnswer(src, tgt, values, t, errors) ==
  {n \in ColumnNames(ColumnsOf(src, t)) \cap ColumnNames(ColumnsOf(tgt, t)) :
     LET a == ColumnNamed(ColumnsOf(src, t), n).def
         b == ColumnNamed(ColumnsOf(tgt, t), n).def
     IN /\ t \notin errors /\ column_change_requires_data_preflight(a, b)
        /\ CoercionBlockers(a, b, IF n = "x" THEN values[t] ELSE {}) # {}}

(* The columns whose preflight does not pass; errors is the set of tables  *)
(* whose inspection fails.                                                 *)
BlockedColumns(src, tgt, values, t, errors) ==
  {n \in ColumnNames(ColumnsOf(src, t)) \cap ColumnNames(ColumnsOf(tgt, t)) :
     LET a == ColumnNamed(ColumnsOf(src, t), n).def
         b == ColumnNamed(ColumnsOf(tgt, t), n).def
     IN /\ column_change_requires_data_preflight(a, b)
        /\ t \in errors \/ CoercionBlockers(a, b, IF n = "x" THEN values[t] ELSE {}) # {}}

-----------------------------------------------------------------------------
(* The plan of a table *)

Statement(phase, op, object, what, pre) ==
  [phase |-> phase, op |-> op, object |-> object, what |-> what, pre |-> pre]

Drops == {"drop index", "drop pk", "drop column", "drop fk", "drop check"}
is_drop_statement(s) == s.op \in Drops
is_constraint_drop_statement(s) == s.phase = "constraints" /\ is_drop_statement(s)
key_drop_precedes_columns(s) == is_drop_statement(s) /\ s.pre = {}

TableObject(t) == <<"table", t>>
ColumnObject(t, n) == <<"column", t, n>>
IndexObject(i) == <<"index", i.table, i.name>>
KeyObject(k) == <<"foreign_key", k.table, k.name>>
CheckObject(c) == <<"check", c.table, c.name>>
column_prerequisites(t, columns) == {ColumnObject(t, columns[i]) : i \in DOMAIN columns}

index_prerequisites(src, t, columns) ==
  {<<"primary_key", t>> : x \in {y \in {t} : Has(src, t) /\ src.tables[t].pk = columns}}
  \cup {IndexObject(i) : i \in {j \in IndexesOf(src, t) : Covers(j.columns, columns)}}

foreign_key_prerequisites(src, k) ==
  column_prerequisites(k.table, k.columns) \cup index_prerequisites(src, k.table, k.columns)
  \cup {TableObject(k.parent)}
  \cup column_prerequisites(k.parent, k.pcolumns) \cup index_prerequisites(src, k.parent, k.pcolumns)

(* Mutant: an old index is dropped before its renamed replacement exists. *)
NoReplacement(old, src, tgt) == {}

(* renamed_index_replacement *)
renamed_index_replacement(old, src, tgt) ==
  IF \E i \in IndexesOf(src, old.table) : i.name = old.name THEN {}
  ELSE {i \in IndexesOf(src, old.table) :
          /\ index_definitions_equal(i, old)
          /\ \A j \in IndexesOf(tgt, old.table) : j.name # i.name}

plan_keys(src, tgt, t) ==
  LET goes == IndexesOf(tgt, t) \ IndexesOf(src, t)
      comes == IndexesOf(src, t) \ IndexesOf(tgt, t)
      renamed == {i \in goes : renamed_index_replacement(i, src, tgt) # {}}
      drop(i) == Statement("keys", "drop index", IndexObject(i), i,
                           {IndexObject(CHOOSE r \in renamed_index_replacement(i, src, tgt) : TRUE) : x \in renamed \cap {i}})
      create(i) == Statement("keys", "create index", IndexObject(i), i,
                             column_prerequisites(t, i.columns)
                             \cup {IndexObject(j) : j \in {g \in goes : g.name = i.name}})
      statements(f(_), set) == LET list == SetToSeq(set) IN [n \in 1 .. Len(list) |-> f(list[n])]
      old == tgt.tables[t].pk
      new == src.tables[t].pk
      pk == (IF old = new \/ old = <<>> THEN <<>>
             ELSE <<Statement("keys", "drop pk", <<"primary_key", t>>, [table |-> t], {})>>)
            \o (IF old = new \/ new = <<>> THEN <<>>
                ELSE <<Statement("keys", "add pk", <<"primary_key", t>>, [table |-> t, columns |-> new],
                                 column_prerequisites(t, new))>>)
  IN statements(drop, goes \ renamed) \o pk \o statements(create, comes) \o statements(drop, renamed)

target_column_drop_prerequisites(tgt, t, n) ==
  {IndexObject(i) : i \in {j \in IndexesOf(tgt, t) : n \in Range(j.columns)}}
  \cup {KeyObject(k) : k \in {f \in KeysOf(tgt, t) : n \in Range(f.columns)}}

DropColumns(src, tgt, t) ==
  LET gone == SelectSeq(Reverse(ColumnsOf(tgt, t)), LAMBDA c : c.name \notin ColumnNames(ColumnsOf(src, t)))
  IN [n \in 1 .. Len(gone) |-> Statement("columns", "drop column", ColumnObject(t, gone[n].name),
                                         [table |-> t, name |-> gone[n].name],
                                         target_column_drop_prerequisites(tgt, t, gone[n].name))]

column_position(cs, n) == IF Position(cs, n) = 1 THEN "FIRST" ELSE cs[Position(cs, n) - 1].name

Rendered(c) == [c EXCEPT !.def = render_column(@)]

(* ADD or MODIFY COLUMN, each after the previous column of the source *)
ConvergeColumns(src, tgt, t, refused) ==
  LET cs == ColumnsOf(src, t)
      ct == ColumnsOf(tgt, t)
      differs(c) == /\ c.name \notin refused
                    /\ c.name \notin ColumnNames(ct) \/ ~SameColumn(cs, ct, c.name)
      list == SelectSeq(cs, differs)
  IN [n \in 1 .. Len(list) |->
        Statement("columns", IF list[n].name \in ColumnNames(ct) THEN "modify column" ELSE "add column",
                  ColumnObject(t, list[n].name), [table |-> t, column |-> Rendered(list[n]), after |-> column_position(cs, list[n].name)],
                  {ColumnObject(t, c.name) : c \in {d \in Range(list) : d.name = column_position(cs, list[n].name)}})]

Options(src, tgt, t) ==
  IF src.tables[t].options = tgt.tables[t].options THEN <<>>
  ELSE <<Statement("columns", "options", <<"options", t>>, [table |-> t, options |-> src.tables[t].options], {})>>

render_create_table(src, t) ==
  Statement("create", "create table", TableObject(t),
            [table |-> t, indexes |-> IndexesOf(src, t),
             definition |-> [src.tables[t] EXCEPT !.columns = [i \in DOMAIN @ |-> Rendered(@[i])]]], {})

Filter(list, test(_), wanted) == SelectSeq(list, LAMBDA s : test(s) = wanted)

(* plan_table without its foreign keys, which the canonical plan replaces; *)
(* refused is the set of columns whose preflight did not pass.             *)
plan_table(src, tgt, t, refused) ==
  IF ~Has(tgt, t)
  THEN <<render_create_table(src, t)>>
  ELSE LET keys == plan_keys(src, tgt, t)
       IN Options(src, tgt, t) \o Filter(keys, key_drop_precedes_columns, TRUE)
          \o DropColumns(src, tgt, t) \o ConvergeColumns(src, tgt, t, refused)
          \o Filter(keys, key_drop_precedes_columns, FALSE)

(* append_canonical_foreign_key_plan *)
plan_canonical_foreign_keys(src, tgt, t) ==
  [drops |-> {k \in KeysOf(tgt, t) : \A s \in KeysOf(src, t) : ~canonical_foreign_keys_semantically_equal(s, k)},
   adds |-> {s \in KeysOf(src, t) : \A k \in KeysOf(tgt, t) : ~canonical_foreign_keys_semantically_equal(s, k)}]

(* append_check_constraint_plan *)
plan_checks(src, tgt, t) ==
  LET expected == {target_check(c) : c \in ChecksOf(src, t)}
  IN [drops |-> {c \in ChecksOf(tgt, t) : \A s \in expected : ~check_constraints_semantically_equal(s, c)},
      adds |-> {s \in expected : \A c \in ChecksOf(tgt, t) : ~check_constraints_semantically_equal(s, c)}]

(* The drops of foreign keys that the inventory's plan, by name, would make *)
same_table_foreign_key_drop_prerequisites(src, tgt, t) ==
  {KeyObject(k) : k \in {f \in KeysOf(tgt, t) : \A s \in KeysOf(src, t) : ~foreign_keys_equal(s, f)}}

AllStatements(src, tgt, t, refused) ==
  LET keys == plan_canonical_foreign_keys(src, tgt, t)
      checks == plan_checks(src, tgt, t)
      dropKey(k) == Statement("constraints", "drop fk", KeyObject(k), k, {})
      addKey(k) == Statement("constraints", "add fk", KeyObject(k), k, foreign_key_prerequisites(src, k))
      dropCheck(c) == Statement("constraints", "drop check", CheckObject(c), c, {})
      addCheck(c) == Statement("constraints", "add check", CheckObject(c), c,
                               {ColumnObject(t, c.column)} \cup same_table_foreign_key_drop_prerequisites(src, tgt, t))
  IN SetToSeq({dropKey(k) : k \in keys.drops}) \o SetToSeq({dropCheck(c) : c \in checks.drops})
     \o plan_table(src, tgt, t, refused)
     \o SetToSeq({addCheck(c) : c \in checks.adds}) \o SetToSeq({addKey(k) : k \in keys.adds})

Dependencies(src, t) == {k.parent : k \in KeysOf(src, t)} \ {t}

(* dependency_order: the tables that no cycle of dependencies keeps out *)
RECURSIVE Ordered(_, _)
Ordered(src, done) ==
  LET ready == {t \in TableSet \ done : Dependencies(src, t) \cap TableSet \subseteq done}
  IN IF ready = {} THEN done ELSE Ordered(src, done \cup ready)

(* plan_schema_convergence with the constraint plans *)
plan_schema_convergence(tgt, errors) ==
  LET src == expected_target_inventory(source)
  IN [t \in TableSet |->
        IF t \notin Ordered(src, {})
        THEN [status |-> "Failed", blockers |-> {"cycle"}, deps |-> {}, statements |-> <<>>]
        ELSE LET refused == IF Has(tgt, t) THEN BlockedColumns(src, tgt, data, t, errors) ELSE {}
             IN [status |-> "Planned", blockers |-> refused, deps |-> Dependencies(src, t),
                 statements |-> AllStatements(src, tgt, t, refused)]]

(* What plan_sync_prerequisite_schema and plan_sync_final_constraints keep *)
Retain(kind, statements) ==
  SelectSeq(statements, LAMBDA s : IF kind = "prerequisite"
                                   THEN s.phase # "constraints" \/ is_constraint_drop_statement(s)
                                   ELSE s.phase = "constraints")

reject_final_nonconstraint_drift(plan) ==
  \E t \in TableSet : plan[t].blockers # {} \/ \E i \in DOMAIN plan[t].statements : plan[t].statements[i].phase # "constraints"
-----------------------------------------------------------------------------
(* MySQL (external): whether it accepts a statement, and what it does *)

Needed(schema, t) ==
  {k.columns : k \in KeysOf(schema, t)} \cup {k.pcolumns : k \in {f \in schema.fks : f.parent = t}}
Supported(schema, t) ==
  \A columns \in Needed(schema, t) :
    \/ Covers(schema.tables[t].pk, columns)
    \/ \E i \in IndexesOf(schema, t) : Covers(i.columns, columns)

InsertColumn(columns, c, after) ==
  LET at == IF after = "FIRST" THEN 0 ELSE Position(columns, after)
  IN SubSeq(columns, 1, at) \o <<c>> \o SubSeq(columns, at + 1, Len(columns))
WithoutColumn(columns, n) == SelectSeq(columns, LAMBDA c : c.name # n)
Without(list, n) == SelectSeq(list, LAMBDA m : m # n)

Accepts(schema, values, s) ==
  LET w == s.what
      t == w.table
      present(names) == Range(names) \subseteq ColumnNames(ColumnsOf(schema, t))
  IN IF s.op = "create table" THEN ~Has(schema, t)
     ELSE /\ Has(schema, t)
          /\ CASE s.op = "options" -> TRUE
               [] s.op = "drop fk" -> w \in schema.fks
               [] s.op = "drop check" -> w \in schema.checks
               [] s.op = "drop index" -> w \in schema.indexes /\ Supported([schema EXCEPT !.indexes = @ \ {w}], t)
               [] s.op = "drop pk" -> schema.tables[t].pk # <<>> /\ Supported([schema EXCEPT !.tables[t].pk = <<>>], t)
               [] s.op = "add pk" -> schema.tables[t].pk = <<>> /\ present(w.columns)
               [] s.op = "create index" -> present(w.columns) /\ \A i \in IndexesOf(schema, t) : i.name # w.name
               [] s.op = "drop column" ->
                    /\ w.name \in ColumnNames(ColumnsOf(schema, t))
                    /\ \A columns \in Needed(schema, t) : w.name \notin Range(columns)
                    /\ \A c \in ChecksOf(schema, t) : c.column # w.name
               [] s.op = "add column" ->
                    /\ w.column.name \notin ColumnNames(ColumnsOf(schema, t))
                    /\ w.after = "FIRST" \/ w.after \in ColumnNames(ColumnsOf(schema, t))
               [] s.op = "modify column" ->
                    /\ w.column.name \in ColumnNames(ColumnsOf(schema, t))
                    /\ w.after = "FIRST" \/ w.after \in ColumnNames(ColumnsOf(schema, t))
                    /\ w.column.name = "x" /\ ~w.column.def.null => Null \notin values[t]
               [] s.op = "add fk" ->
                    /\ \A k \in schema.fks : k.name # w.name
                    /\ present(w.columns) /\ Has(schema, w.parent)
                    /\ standard_parent_key_exists(schema, w.parent, w.pcolumns)
               [] s.op = "add check" ->
                    present(<<w.column>>) /\ \A c \in schema.checks : c.name # w.name

Printed(c) == [c EXCEPT !.def = MySqlPrints(@)]

Executed(schema, s) ==
  LET w == s.what
      t == w.table
  IN CASE s.op = "create table" ->
            [schema EXCEPT !.tables = [u \in DOMAIN @ \cup {t} |-> 
                                         IF u = t THEN [w.definition EXCEPT !.columns = [i \in DOMAIN @ |-> Printed(@[i])]] ELSE @[u]],
                           !.indexes = @ \cup w.indexes]
       [] s.op = "options" -> [schema EXCEPT !.tables[t].options = w.options]
       [] s.op = "drop fk" -> [schema EXCEPT !.fks = @ \ {w}]
       [] s.op = "drop check" -> [schema EXCEPT !.checks = @ \ {w}]
       [] s.op = "drop index" -> [schema EXCEPT !.indexes = @ \ {w}]
       [] s.op = "create index" -> [schema EXCEPT !.indexes = @ \cup {w}]
       [] s.op = "drop pk" -> [schema EXCEPT !.tables[t].pk = <<>>]
       [] s.op = "add pk" -> [schema EXCEPT !.tables[t].pk = w.columns]
       [] s.op = "drop column" ->
            [schema EXCEPT !.tables[t].columns = WithoutColumn(@, w.name),
                           !.tables[t].pk = Without(@, w.name),
                           !.indexes = {i \in {IF j.table = t THEN [j EXCEPT !.columns = Without(@, w.name)] ELSE j : j \in @}
                                        : i.columns # <<>>}]
       [] s.op = "add column" -> [schema EXCEPT !.tables[t].columns = InsertColumn(@, Printed(w.column), w.after)]
       [] s.op = "modify column" ->
            [schema EXCEPT !.tables[t].columns = InsertColumn(WithoutColumn(@, w.column.name), Printed(w.column), w.after)]
       [] s.op = "add fk" -> [schema EXCEPT !.fks = @ \cup {w}]
       [] s.op = "add check" -> [schema EXCEPT !.checks = @ \cup {w}]

Loses(schema, values, s) ==
  /\ s.op = "modify column" /\ s.what.column.name = "x"
  /\ \E v \in values[s.what.table] : ~Preserves(s.what.column.def, ColumnNamed(ColumnsOf(schema, s.what.table), "x").def, v)
(* Ghost: the plan drops indexes that foreign keys which stay need, before *)
(* it creates others for them.  Only an index whose name is free in the    *)
(* source, and which the source has under a name that is free in the       *)
(* target, is replaced first.                                              *)
PlanPins(schema) ==
  LET src == expected_target_inventory(source)
      kept == {k \in schema.fks : \E s \in src.fks : canonical_foreign_keys_semantically_equal(s, k)}
      replaced(i) == /\ \A s \in IndexesOf(src, i.table) : s.name # i.name
                     /\ \E s \in src.indexes :
                          index_definitions_equal(s, i) /\ \A j \in IndexesOf(schema, i.table) : j.name # s.name
      first == {i \in schema.indexes \ src.indexes : ~replaced(i)}
  IN \E t \in DOMAIN schema.tables : ~Supported([schema EXCEPT !.indexes = @ \ first, !.fks = kept], t)

-----------------------------------------------------------------------------
(* The run *)

Working == {"active", "failing"}
Reported == {"Converged", "Failed", "Skipped"}
Earlier(t, u) == (CHOOSE i \in DOMAIN Tables : Tables[i] = t) < (CHOOSE i \in DOMAIN Tables : Tables[i] = u)

Init ==
  /\ source \in Sources
  /\ target \in Targets(source)
  /\ data \in Data(target)
  /\ stage = "prerequisite" /\ pc = "plan"
  /\ plans = <<>> /\ status = <<>> /\ left = <<>> /\ failed = <<>>
  /\ complete = {} /\ blocked = FALSE /\ pinned = FALSE /\ faulted = FALSE /\ lost = FALSE
  /\ runs = 1 /\ faults = 0

(* split_constraint_drop_plan: the statements of one of the two passes *)
Pass(statements, drops) == Filter(statements, is_constraint_drop_statement, drops)

StartPass(plan, drops) ==
  /\ status' = [t \in TableSet |-> "pending"]
  /\ left' = [t \in TableSet |-> Pass(plan[t].statements, drops)]
  /\ failed' = [t \in TableSet |-> {ColumnObject(t, n) : n \in plan[t].blockers}]

(* run_sync_schema_stage: read the target, plan, and execute *)
PlanStage(errors) ==
  LET plan == plan_schema_convergence(target, errors)
      kept == [t \in TableSet |-> [plan[t] EXCEPT !.statements = Retain(stage, @)]]
  IN /\ pc = "plan"
     /\ errors # {} => faults < MaxFaults
     /\ faults' = faults + (IF errors = {} THEN 0 ELSE 1)
     /\ faulted' = (faulted \/ errors # {})
     /\ blocked' = (blocked \/ \E t \in TableSet : plan[t].blockers # {})
     /\ pinned' = PlanPins(target)
     /\ IF stage = "final" /\ reject_final_nonconstraint_drift(plan)
        THEN pc' = "failed" /\ UNCHANGED <<plans, status, left, failed>>
        ELSE pc' = "drops" /\ plans' = kept /\ StartPass(kept, TRUE)
     /\ UNCHANGED <<source, target, data, stage, complete, lost, runs>>

Dependency(t) == IF pc = "drops" THEN {} ELSE plans[t].deps \cap TableSet

Ready(t) ==
  /\ status[t] = "pending"
  /\ plans[t].status = "Failed" \/ \A d \in Dependency(t) : status[d] \in Reported

failed_dependencies(t) == {d \in Dependency(t) : status[d] \in {"Failed", "Skipped"}}

(* connect_and_execute_schema_table, up to the first statement *)
StartTable(t, refused) ==
  /\ pc \in {"drops", "rest"} /\ Ready(t)
  /\ \A u \in TableSet : Earlier(u, t) => ~Ready(u)
  /\ Cardinality({u \in TableSet : status[u] \in Working}) < Parallelism
  /\ LET connects == failed_dependencies(t) = {} /\ plans[t].status # "Failed" /\ left[t] # <<>>
     IN /\ refused => connects /\ faults < MaxFaults
        /\ status' = [status EXCEPT ![t] =
                        CASE failed_dependencies(t) # {} -> "Skipped"
                          [] failed_dependencies(t) = {} /\ (plans[t].status = "Failed" \/ refused) -> "Failed"
                          [] connects /\ ~refused -> "active"
                          [] OTHER -> "Converged"]
  /\ faults' = faults + (IF refused THEN 1 ELSE 0)
  /\ faulted' = (faulted \/ refused)
  /\ UNCHANGED <<source, target, data, stage, pc, plans, left, failed, complete, blocked, pinned, lost, runs>>

failed_statement_prerequisites(s, objects) == s.pre \cap objects

(* execute_table_statements, one statement.  A fault is an error that is   *)
(* not the statement's: "before" MySQL executes it, or "after" it has.     *)
ExecuteStatement(t, fault) ==
  LET s == Head(left[t])
      runnable == failed_statement_prerequisites(s, failed[t]) = {}
      done == runnable /\ fault # "before" /\ Accepts(target, data, s)
  IN /\ pc \in {"drops", "rest"} /\ status[t] \in Working /\ left[t] # <<>>
     /\ fault # "none" => runnable /\ faults < MaxFaults
     /\ faults' = faults + (IF fault = "none" THEN 0 ELSE 1)
     /\ faulted' = (faulted \/ fault # "none")
     /\ left' = [left EXCEPT ![t] = Tail(@)]
     /\ target' = IF done THEN Executed(target, s) ELSE target
     /\ lost' = (lost \/ (done /\ Loses(target, data, s)))
     /\ data' = IF done /\ s.op = "add column" /\ s.what.column.name = "x" /\ data[t] # {}
                THEN [data EXCEPT ![t] = {IF s.what.column.def.null THEN Null ELSE Value(0)}] ELSE data
     /\ IF done /\ fault = "none" THEN UNCHANGED <<status, failed>>
        ELSE /\ status' = [status EXCEPT ![t] = "failing"]
             /\ failed' = [failed EXCEPT ![t] = @ \cup {s.object}]
     /\ UNCHANGED <<source, stage, pc, plans, complete, blocked, pinned, runs>>

FinishTable(t) ==
  /\ pc \in {"drops", "rest"} /\ status[t] \in Working /\ left[t] = <<>>
  /\ status' = [status EXCEPT ![t] = IF @ = "active" THEN "Converged" ELSE "Failed"]
  /\ UNCHANGED <<source, target, data, stage, pc, plans, left, failed, complete, blocked, pinned, faulted, lost, runs, faults>>

AllReported == pc \in {"drops", "rest"} /\ \A t \in TableSet : status[t] \in Reported

(* apply_constraint_drop_failures *)
EndDrops ==
  /\ pc = "drops" /\ AllReported
  /\ plans' = [t \in TableSet |-> IF status[t] = "Converged" THEN plans[t] ELSE [plans[t] EXCEPT !.status = "Failed"]]
  /\ pc' = "rest" /\ StartPass(plans, FALSE)
  /\ UNCHANGED <<source, target, data, stage, complete, blocked, pinned, faulted, lost, runs, faults>>

(* execute_sync_schema_stage: the stage is complete when every table is *)
EndStage ==
  /\ pc = "rest" /\ AllReported
  /\ IF \A t \in TableSet : status[t] = "Converged"
     THEN complete' = complete \cup {stage} /\ pc' = (IF stage = "final" THEN "ok" ELSE "rows")
     ELSE pc' = "failed" /\ UNCHANGED complete
  /\ plans' = <<>> /\ status' = <<>> /\ left' = <<>> /\ failed' = <<>>
  /\ UNCHANGED <<source, target, data, stage, blocked, pinned, faulted, lost, runs, faults>>

(* The row phases, between the stages: the target has the source's rows. *)
CopyRows ==
  LET holds(schema, t) == IF "x" \in ColumnNames(ColumnsOf(schema, t))
                          THEN {v \in Values : Holds(ColumnNamed(ColumnsOf(schema, t), "x").def, v)} ELSE {}
  IN /\ pc = "rows"
     /\ data' = [t \in TableSet |-> holds(source, t) \cap holds(target, t)]
     /\ pc' = "plan" /\ stage' = "final"
     /\ UNCHANGED <<source, target, plans, status, left, failed, complete, blocked, pinned, faulted, lost, runs, faults>>

(* The command is run again, with the run id it had or with a new one. *)
Rerun(resume) ==
  /\ pc = "failed" /\ runs < MaxRuns
  /\ runs' = runs + 1
  /\ complete' = IF resume THEN complete ELSE {}
  /\ stage' = IF "prerequisite" \in complete' THEN "final" ELSE "prerequisite"
  /\ blocked' = (resume /\ blocked) /\ faulted' = FALSE
  /\ pc' = "plan"
  /\ plans' = <<>> /\ status' = <<>> /\ left' = <<>> /\ failed' = <<>>
  /\ UNCHANGED <<source, target, data, pinned, lost, faults>>

Terminated == (pc = "ok" \/ (pc = "failed" /\ runs = MaxRuns)) /\ UNCHANGED vars

Next ==
  \/ \E errors \in SUBSET TableSet : PlanStage(errors)
  \/ \E t \in TableSet : \/ \E refused \in BOOLEAN : StartTable(t, refused)
                         \/ \E fault \in {"none", "before", "after"} : ExecuteStatement(t, fault)
                         \/ FinishTable(t)
  \/ EndDrops \/ EndStage \/ CopyRows
  \/ \E resume \in BOOLEAN : Rerun(resume)
  \/ Terminated

Spec == Init /\ [][Next]_vars

-----------------------------------------------------------------------------
(* Properties *)

(* What a converged target is: the source's tables, with the unique parent *)
(* keys that MySQL wants, compared as the stages compare them.             *)
Converged(schema) ==
  LET src == expected_target_inventory(source)
  IN \A t \in TableSet :
       /\ Has(schema, t)
       /\ ColumnNames(ColumnsOf(schema, t)) = ColumnNames(ColumnsOf(src, t))
       /\ \A n \in ColumnNames(ColumnsOf(src, t)) : SameColumn(ColumnsOf(src, t), ColumnsOf(schema, t), n)
       /\ schema.tables[t].pk = src.tables[t].pk /\ schema.tables[t].options = src.tables[t].options
       /\ IndexesOf(schema, t) = IndexesOf(src, t)
       /\ {[k EXCEPT !.name = <<>>] : k \in KeysOf(schema, t)} = {[k EXCEPT !.name = <<>>] : k \in KeysOf(src, t)}
       /\ {[c EXCEPT !.name = <<>>] : c \in ChecksOf(schema, t)} = {[c EXCEPT !.name = <<>>] : c \in ChecksOf(src, t)}

(***************************************************************************)
(* A run that completes its final stage has converged every selected       *)
(* table, whatever failed and was run again before: completion follows     *)
(* the execution of the plans, and nothing looks at the target again.      *)
(***************************************************************************)
CompletedRunIsConverged == pc = "ok" => Converged(target)

Cyclic == Ordered(expected_target_inventory(source), {}) # TableSet

(***************************************************************************)
(* A run that meets no fault, no refused conversion, no cycle of tables    *)
(* and no pinned index succeeds: the statements come in an order in which  *)
(* MySQL accepts every one, on any drift and on what failed runs left      *)
(* behind (plan_table, execute_sync_schema_stage_plan).                    *)
(***************************************************************************)
FaultFreeRunConverges ==
  pc = "failed" => faulted \/ blocked \/ Cyclic \/ pinned

(***************************************************************************)
(* A constraint of the target that the source has is never dropped, under  *)
(* whatever name: its rows stay checked during the whole run               *)
(* (append_canonical_foreign_key_plan, append_check_constraint_plan).      *)
(***************************************************************************)
MatchingConstraintsStep ==
  LET src == expected_target_inventory(source)
  IN /\ \A k \in target.fks \ target'.fks : \A s \in src.fks : ~canonical_foreign_keys_semantically_equal(s, k)
     /\ \A c \in target.checks \ target'.checks : \A s \in src.checks : ~check_constraints_semantically_equal(s, c)

(***************************************************************************)
(* No statement of a stage changes a value that the target holds: a        *)
(* narrowing is executed only when no row stands in its way, also after a  *)
(* preflight that could not be run (plan_table, preflights).               *)
(***************************************************************************)
NoValueIsLost == ~lost
=============================================================================

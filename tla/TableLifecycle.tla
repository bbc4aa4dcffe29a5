--------------------------- MODULE TableLifecycle ---------------------------
(***************************************************************************)
(* DROP, RENAME and TRUNCATE TABLE as the live stream replays them         *)
(* (src/live/ddl_semantics/table_operations.rs): the statement is parsed,  *)
(* the target state it must lead to is computed from a snapshot before it  *)
(* runs, and the state observed afterwards has to be that one.             *)
(*                                                                         *)
(* A snapshot is [tables, indexes, fks, triggers, views].  tables maps the *)
(* name of a table to its engine, row count and AUTO_INCREMENT counter (0  *)
(* for a table without one).  A foreign key's name is <<t, n>> for the     *)
(* generated name t_ibfk_n, and <<"", n>> for any other.                   *)
(***************************************************************************)
EXTENDS Naturals, FiniteSets, Functions

Refused == [ok |-> FALSE, state |-> {}]
Reached(state) == [ok |-> TRUE, state |-> state]

(* One unqualified pair of plain names, without active comments. *)
parse(operation) == operation.form = "plain"

affected_tables(operation) ==
  IF operation.kind = "rename" THEN {operation.name, operation.to} ELSE {operation.name}

related_metadata(snapshot, names) ==
  [indexes |-> {i \in snapshot.indexes : i.table \in names},
   fks |-> {k \in snapshot.fks : k.table \in names \/ k.refs \in names},
   triggers |-> {g \in snapshot.triggers : g.table \in names}]

table_definition_runtime(snapshot, name) ==
  IF name \in DOMAIN snapshot.tables THEN {snapshot.tables[name]} ELSE {}

observe(snapshot, operation) ==
  LET names == affected_tables(operation)
  IN [tables |-> [n \in names |-> table_definition_runtime(snapshot, n)],
      related |-> related_metadata(snapshot, names)]

-----------------------------------------------------------------------------
(* The expected state *)

validate_source_table(snapshot, name) == snapshot.tables[name].engine = "InnoDB"

no_external_references(snapshot, name) ==
  \A k \in snapshot.fks : k.refs = name => k.table = name

drop_table(snapshot, name) ==
  IF ~no_external_references(snapshot, name) THEN Refused
  ELSE Reached([snapshot EXCEPT !.tables = Restrict(@, DOMAIN @ \ {name}),
                                !.indexes = {i \in @ : i.table # name},
                                !.fks = {k \in @ : k.table # name},
                                !.triggers = {g \in @ : g.table # name}])

truncate_table(snapshot, name) ==
  IF ~no_external_references(snapshot, name) THEN Refused
  ELSE Reached([snapshot EXCEPT !.tables[name].rows = 0,
                                !.tables[name].auto = IF @ = 0 THEN 0 ELSE 1])

(* The other tables' references keep the old name. *)
RenameOwnMetadata(snapshot, old, new) ==
  LET moved(t) == IF t = old THEN new ELSE t
      own(k) == IF k.table = old THEN [k EXCEPT !.table = new, !.name[1] = moved(@)] ELSE k
  IN [snapshot EXCEPT !.indexes = {[i EXCEPT !.table = moved(@)] : i \in @},
                      !.triggers = {[g EXCEPT !.table = moved(@)] : g \in @},
                      !.fks = {own(k) : k \in @}]

rename_dependent_metadata(snapshot, old, new) ==
  LET moved(t) == IF t = old THEN new ELSE t
      own(k) == IF k.table = old THEN [k EXCEPT !.table = new, !.name[1] = moved(@)] ELSE k
  IN [snapshot EXCEPT !.indexes = {[i EXCEPT !.table = moved(@)] : i \in @},
                      !.triggers = {[g EXCEPT !.table = moved(@)] : g \in @},
                      !.fks = {[own(k) EXCEPT !.refs = moved(@)] : k \in @}]

MoveTable(tables, old, new) ==
  [n \in (DOMAIN tables \ {old}) \cup {new} |-> IF n = new THEN tables[old] ELSE tables[n]]

rename_table(snapshot, old, new) ==
  IF new \in DOMAIN snapshot.tables \cup snapshot.views THEN Refused
  ELSE Reached(rename_dependent_metadata([snapshot EXCEPT !.tables = MoveTable(@, old, new)], old, new))

apply_operation(snapshot, operation) ==
  CASE operation.kind = "drop" -> drop_table(snapshot, operation.name)
    [] operation.kind = "rename" -> rename_table(snapshot, operation.name, operation.to)
    [] operation.kind = "truncate" -> truncate_table(snapshot, operation.name)

(* expected, before it is cut down to what observe shows of it *)
Expected(target, operation) ==
  IF ~parse(operation) THEN Refused
  ELSE IF operation.name \notin DOMAIN target.tables
       THEN IF operation.kind = "drop" /\ operation.guard THEN Reached(target) ELSE Refused
  ELSE IF ~validate_source_table(target, operation.name) THEN Refused
  ELSE apply_operation(target, operation)

expected(target, operation) ==
  LET whole == Expected(target, operation)
  IN IF whole.ok THEN Reached(observe(whole.state, operation)) ELSE Refused

-----------------------------------------------------------------------------
(* The target server: InnoDB gives the generated foreign key names the new *)
(* table's name, keeps names unique in the schema, and protects parents.   *)

render(operation) == [kind |-> operation.kind, name |-> operation.name, to |-> operation.to, guard |-> operation.guard]

MySqlRename(database, old, new) ==
  LET Now(t) == IF t = old THEN new ELSE t
      Renamed(k) == [table |-> Now(k.table), refs |-> Now(k.refs),
                     name |-> IF k.table = old /\ k.name[1] = old THEN <<new, k.name[2]>> ELSE k.name]
      keys == {Renamed(k) : k \in database.fks}
  IN IF \/ new \in DOMAIN database.tables \cup database.views
        \/ Cardinality({k.name : k \in keys}) # Cardinality(database.fks)
     THEN Refused
     ELSE Reached([tables |-> [n \in {Now(t) : t \in DOMAIN database.tables} |->
                                 database.tables[CHOOSE t \in DOMAIN database.tables : Now(t) = n]],
                   indexes |-> {[i EXCEPT !.table = Now(@)] : i \in database.indexes},
                   fks |-> keys,
                   triggers |-> {[g EXCEPT !.table = Now(@)] : g \in database.triggers},
                   views |-> database.views])

MySqlRuns(database, statement) ==
  LET t == statement.name
      protected == \E k \in database.fks : k.refs = t /\ k.table # t
  IN IF t \notin DOMAIN database.tables
     THEN IF statement.kind = "drop" /\ statement.guard THEN Reached(database) ELSE Refused
     ELSE CASE statement.kind = "rename" -> MySqlRename(database, t, statement.to)
            [] statement.kind = "drop" ->
                 IF protected THEN Refused
                 ELSE Reached([tables |-> [n \in DOMAIN database.tables \ {t} |-> database.tables[n]],
                               indexes |-> {i \in database.indexes : i.table # t},
                               fks |-> {k \in database.fks : k.table # t},
                               triggers |-> {g \in database.triggers : g.table # t},
                               views |-> database.views])
            [] statement.kind = "truncate" ->
                 IF protected THEN Refused
                 ELSE Reached([database EXCEPT !.tables[t] = [@ EXCEPT !.rows = 0, !.auto = IF @ > 0 THEN 1 ELSE 0]])
=============================================================================

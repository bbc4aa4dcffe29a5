----------------------------- MODULE CreateTable -----------------------------
(***************************************************************************)
(* CREATE TABLE as the live stream replays it: the statement is parsed     *)
(* (src/live/ddl_semantics/transform/observed_create.rs), its default      *)
(* collation resolved from what the event and the target say, rendered for *)
(* MySQL, and the table MySQL has to report computed beforehand            *)
(* (src/live/ddl_semantics/canonical.rs).                                  *)
(*                                                                         *)
(* A column as written is [name, type, enc, null, default, auto, update,   *)
(* primary, ref]: enc is its collation or "", null and default what it     *)
(* says of them or "", ref the column that a stored expression compares,   *)
(* with a string if ref is a string column.  The type stands for a family  *)
(* of types; sizes, literals and expressions are kept as they are.         *)
(***************************************************************************)
EXTENDS Naturals, Sequences, SequencesExt, FiniteSets

Unparsed == [ok |-> FALSE]
NoEvidence == [ok |-> FALSE]

is_character_type(type) == type \in {"varchar", "text"}
Names(seq) == {seq[i].name : i \in DOMAIN seq}
HasDuplicates(seq) == \E i, j \in DOMAIN seq : i # j /\ seq[i] = seq[j]

(* The parser's conditions on one column definition *)
column_encoding(c) == c.enc # "" => is_character_type(c.type)
column_default(c) ==
  CASE c.default = "" -> TRUE
    [] c.default = "null" -> c.null # "not null"
    [] c.default = "now" -> c.type = "timestamp"
    [] c.default = "number" -> c.type = "int"
    [] c.default = "string" -> is_character_type(c.type)
SaysNull(c) == c.null = "null" \/ c.default = "null"
auto_increment(c) == c.auto => c.type = "int" /\ ~SaysNull(c)
on_update(c) == c.update => c.type = "timestamp"
inline_primary(c) == c.primary => ~SaysNull(c)
generated(c) == c.ref # "" => c.type = "int" /\ c.null = "" /\ c.default = "" /\ ~c.auto /\ ~c.update /\ ~c.primary

column_admitted(c) ==
  /\ column_encoding(c) /\ column_default(c) /\ auto_increment(c)
  /\ on_update(c) /\ inline_primary(c) /\ generated(c)

(* The JSON alias becomes LONGTEXT with a JSON_VALID check of its own name. *)
column(c) ==
  [name |-> c.name, type |-> IF c.type = "json" THEN "text" ELSE c.type,
   coll |-> IF c.type = "json" THEN "utf8mb4_bin" ELSE c.enc,
   null |-> c.null # "not null" /\ ~c.auto /\ ~c.primary,
   default |-> c.default, auto |-> c.auto, update |-> c.update, ref |-> c.ref]

JsonChecks(columns) ==
  LET json == SelectSeq(columns, LAMBDA c : c.type = "json")
  IN [i \in DOMAIN json |-> [name |-> json[i].name, on |-> json[i].name, kind |-> "json_valid"]]

primary_key(statement) ==
  LET inline == SelectSeq(statement.columns, LAMBDA c : c.primary)
  IN IF statement.pk # <<>> THEN statement.pk ELSE [i \in DOMAIN inline |-> inline[i].name]
PrimaryKeys(statement) ==
  Len(SelectSeq(statement.columns, LAMBDA c : c.primary)) + (IF statement.pk = <<>> THEN 0 ELSE 1)

validate_definitions(columns, pk, indexes, checks) ==
  LET keys == <<pk>> \o [i \in DOMAIN indexes |-> indexes[i].columns]
  IN /\ Cardinality(Names(columns)) = Len(columns)
     /\ Cardinality(Names(indexes)) = Len(indexes)
     /\ Cardinality(Names(checks)) = Len(checks)
     /\ \A i \in DOMAIN keys : ~HasDuplicates(keys[i]) /\ Range(keys[i]) \subseteq Names(columns)
     /\ \A i \in DOMAIN checks : checks[i].on \in Names(columns)

(* A stored expression reads an ordinary string or integer column. *)
bind_generated_create_references(columns) ==
  \A i \in DOMAIN columns : columns[i].ref # "" =>
    \E j \in DOMAIN columns :
      columns[j].name = columns[i].ref /\ columns[j].ref = "" /\ ~columns[j].auto /\ columns[j].type \in {"varchar", "int"}

validate_foreign_keys(fks, columns, pk, indexes) ==
  /\ Cardinality(Names(fks)) = Len(fks)
  /\ \A i \in DOMAIN fks :
       /\ fks[i].column \in Names(columns)
       /\ \E key \in {pk} \cup {indexes[j].columns : j \in DOMAIN indexes} : IsPrefix(<<fks[i].column>>, key)

CharsetOf(collation) == IF collation = "utf8mb3_general_ci" THEN "utf8mb3" ELSE "utf8mb4"
table_options(statement) ==
  /\ statement.charset = "utf8mb3" => statement.collation # ""
  /\ statement.charset # "" /\ statement.collation # "" => CharsetOf(statement.collation) = statement.charset

mark_primary_key(columns, pk) ==
  [i \in DOMAIN columns |-> [columns[i] EXCEPT !.null = @ /\ columns[i].name \notin Range(pk)]]

parse_with_mode(statement) ==
  LET columns == [i \in DOMAIN statement.columns |-> column(statement.columns[i])]
      pk == primary_key(statement)
      checks == JsonChecks(statement.columns) \o statement.checks
  IN IF /\ \A i \in DOMAIN columns : column_admitted(statement.columns[i])
        /\ PrimaryKeys(statement) = 1
        /\ table_options(statement)
        /\ bind_generated_create_references(columns)
        /\ validate_definitions(columns, pk, statement.indexes, checks)
        /\ validate_foreign_keys(statement.fks, columns, pk, statement.indexes)
     THEN [ok |-> TRUE, name |-> statement.name, columns |-> mark_primary_key(columns, pk), pk |-> pk,
           indexes |-> statement.indexes, checks |-> checks, fks |-> statement.fks,
           charset |-> IF statement.collation = "" THEN statement.charset ELSE CharsetOf(statement.collation),
           collation |-> statement.collation]
     ELSE Unparsed

-----------------------------------------------------------------------------
(* The default collation, the rendered statement and the expected table.   *)
(* A context is [source, target, override]: the default collation of the   *)
(* two databases, and the one that utf8mb4 stood for when the event ran.   *)

canonical_collation(c) == IF c = "utf8mb4_uca1400_ai_ci" THEN "utf8mb4_0900_ai_ci" ELSE c

resolve_defaults(ast, context) ==
  CASE ast.charset = "" -> context.target
    [] ast.charset # "" /\ ast.collation = "" -> canonical_collation(context.override)
    [] OTHER -> ast.collation

render_default(c) == IF c.default = "string" /\ c.type = "text" THEN "(string)" ELSE c.default
render_create_column(c) == [c EXCEPT !.default = render_default(c)]

(* A JSON alias check goes without a name. *)
render_create_check_constraint(check) ==
  IF check.kind = "json_valid" /\ check.name = check.on THEN [check EXCEPT !.name = ""] ELSE check

transform_fixture_create_table_with_defaults(ast, collation) ==
  [name |-> ast.name,
   columns |-> [i \in DOMAIN ast.columns |-> render_create_column(ast.columns[i])],
   pk |-> ast.pk, indexes |-> ast.indexes, fks |-> ast.fks, collation |-> collation,
   checks |-> [i \in DOMAIN ast.checks |-> render_create_check_constraint(ast.checks[i])]]

expected_create_column_default(default) ==
  CASE default \in {"", "null"} -> [value |-> "", generated |-> FALSE]
    [] default = "now" -> [value |-> "now", generated |-> TRUE]
    [] default = "(string)" -> [value |-> "string", generated |-> TRUE]
    [] OTHER -> [value |-> default, generated |-> FALSE]

expected_create_column_extra(c, generated_default) ==
  CASE c.auto -> {"auto_increment"}
    [] ~c.auto /\ c.ref # "" -> {"stored generated"}
    [] OTHER -> (IF generated_default THEN {"default_generated"} ELSE {}) \cup (IF c.update THEN {"on update"} ELSE {})

column_default_encoding(type, collation) == IF is_character_type(type) THEN collation ELSE ""

ExpectedColumn(c, collation) ==
  LET default == expected_create_column_default(render_default(c))
  IN [name |-> c.name, type |-> c.type, null |-> c.null, default |-> default.value, ref |-> c.ref,
      extra |-> expected_create_column_extra(c, default.generated),
      coll |-> IF c.coll # "" THEN c.coll ELSE column_default_encoding(c.type, collation)]

expected_create_table_post_state(ast, collation) ==
  [columns |-> [i \in DOMAIN ast.columns |-> ExpectedColumn(ast.columns[i], collation)],
   pk |-> ast.pk, indexes |-> Range(ast.indexes), fks |-> Range(ast.fks), collation |-> collation]

(* capture_query_evidence: the table must not exist on the target. *)
capture_query_evidence(statement, context, tables) ==
  LET ast == parse_with_mode(statement)
      collation == resolve_defaults(ast, context)
  IN IF ~ast.ok THEN NoEvidence
     ELSE IF statement.name \in tables \/ (ast.charset # "" /\ ast.charset # CharsetOf(collation)) THEN NoEvidence
     ELSE [ok |-> TRUE, sql |-> transform_fixture_create_table_with_defaults(ast, collation),
           post |-> expected_create_table_post_state(ast, collation)]

-----------------------------------------------------------------------------
(* The servers.  A table is the reported one, with its checks as pairs of  *)
(* kind and column.                                                        *)

KeyNames(s) == Range(s.pk) \cup {s.columns[i].name : i \in {j \in DOMAIN s.columns : s.columns[j].primary}}
BadDefault(c) ==
  \/ c.default = "null" /\ c.null = "not null"
  \/ c.default = "now" /\ c.type # "timestamp"
  \/ c.default = "number" /\ c.type \notin {"int", "varchar", "text"}
  \/ c.auto /\ c.default # ""

(* MariaDB takes the statement at its word, makes key columns NOT NULL and *)
(* gives JSON columns their check.                                         *)
MariaDbCreates(s, context) ==
  LET keys == KeyNames(s)
      collation == IF s.collation # "" THEN s.collation ELSE IF s.charset # "" THEN context.override ELSE context.source
      made(c) == [name |-> c.name, type |-> IF c.type = "json" THEN "text" ELSE c.type,
                  null |-> c.null # "not null" /\ c.name \notin keys /\ ~c.auto,
                  default |-> IF c.default = "null" THEN "" ELSE c.default, auto |-> c.auto, update |-> c.update,
                  ref |-> c.ref,
                  coll |-> CASE c.type = "json" -> "utf8mb4_bin" [] c.enc # "" -> c.enc
                             [] OTHER -> IF c.type \in {"varchar", "text"} THEN collation ELSE ""]
      leads == {s.columns[i].name : i \in {j \in DOMAIN s.columns : s.columns[j].primary}}
               \cup {Head(k) : k \in ({s.pk} \cup {s.indexes[i].columns : i \in DOMAIN s.indexes}) \ {<<>>}}
  IN [ok |-> \A i \in DOMAIN s.columns :
               LET c == s.columns[i]
               IN ~BadDefault(c) /\ (c.auto => c.name \in leads) /\ (c.default = "null" => c.name \notin keys),
      columns |-> [i \in DOMAIN s.columns |-> made(s.columns[i])],
      pk |-> primary_key(s), indexes |-> Range(s.indexes), fks |-> Range(s.fks), collation |-> collation,
      checks |-> {<<k.kind, k.on>> : k \in Range(s.checks)}
                 \cup {<<"json_valid", s.columns[i].name>> : i \in {j \in DOMAIN s.columns : s.columns[j].type = "json"}}]

(* MySQL knows no UCA 14.0.0 collations, takes no NULL in a primary key    *)
(* and no literal default for TEXT, and keeps CHECK names unique in the    *)
(* schema.                                                                 *)
MySqlCreates(sql, checkNames) ==
  LET named == SelectSeq(sql.checks, LAMBDA k : k.name # "")
      made(c) == [name |-> c.name, type |-> c.type, null |-> c.null, ref |-> c.ref,
                  default |-> CASE c.default = "null" -> "" [] c.default = "(string)" -> "string" [] OTHER -> c.default,
                  extra |-> {x \in {"auto_increment", "stored generated", "default_generated", "on update"} :
                               \/ x = "auto_increment" /\ c.auto
                               \/ x = "stored generated" /\ c.ref # ""
                               \/ x = "default_generated" /\ c.default \in {"now", "(string)"}
                               \/ x = "on update" /\ c.update},
                  coll |-> IF c.type \notin {"varchar", "text"} THEN "" ELSE IF c.coll = "" THEN sql.collation ELSE c.coll]
      columns == [i \in DOMAIN sql.columns |-> made(sql.columns[i])]
  IN [ok |-> /\ \A i \in DOMAIN columns :
                  /\ columns[i].coll # "utf8mb4_uca1400_ai_ci"
                  /\ columns[i].name \in Range(sql.pk) => ~columns[i].null
                  /\ ~columns[i].null => sql.columns[i].default # "null"
                  /\ columns[i].type = "text" => sql.columns[i].default # "string"
             /\ sql.collation # "utf8mb4_uca1400_ai_ci"
             /\ {named[i].name : i \in DOMAIN named} \cap checkNames = {},
      columns |-> columns, pk |-> sql.pk, indexes |-> Range(sql.indexes), fks |-> Range(sql.fks),
      collation |-> sql.collation, checks |-> {<<k.kind, k.on>> : k \in Range(sql.checks)}]
=============================================================================

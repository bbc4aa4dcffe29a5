---------------------------- MODULE MCAlgorithms ----------------------------
(***************************************************************************)
(* The pure algorithms of the repository on every input of a small set.    *)
(* A behaviour picks an algorithm and an input, and computes the output.   *)
(***************************************************************************)
EXTENDS FkTransition, ColumnConversion, FiniteSets, TLC

VARIABLES input, output, done
vars == <<input, output, done>>

Pending == [ok |-> FALSE, rows |-> <<>>]

-----------------------------------------------------------------------------
(* Foreign key transitions over the triangle 1 <- 2, 1 <- 3, 2 <- 3. *)

MCFkTables == 1 .. 3
MCFkKeys == <<{1, 2}, {1}, {1}>>
MCFkCodes == <<{"a", "b"}, {"a", "b"}, {"a"}>>
MCFkParents == <<{}, {1}, {1, 2}>>

FkSides ==
  LET sides == {a @@ b @@ c : a \in [{1} \X FkKeys[1] -> FkRowsOf(1)],
                              b \in [{2} \X FkKeys[2] -> FkRowsOf(2)],
                              c \in [{3} \X FkKeys[3] -> FkRowsOf(3)]}
  IN {s \in sides : FkValid(s)}

(* The rows a failed statement of a sync phase can leave to repair: an     *)
(* update refused by its dependents (1451), an insert without its parents  *)
(* (1452), and a row whose unique code another key owns (1062).            *)
FkRoots(source, target, algorithm) ==
  CASE algorithm = "fk_update" ->
         {<<x, x>> : x \in {y \in FkPresent(source) \cap FkPresent(target) :
                             changed(target, y, source[y]) /\ read_keys(target, y) # {}}}
    [] algorithm = "fk_insert" ->
         {<<x, x>> : x \in {y \in FkPresent(source) \ FkPresent(target) :
                             missing_parents(target, y[1], source[y]) # {}}}
    [] algorithm = "fk_owner" ->
         {<<o, x>> \in FkPlaces \X FkPlaces :
            /\ x # o /\ x \in FkPresent(source)
            /\ o \in Holders(target, x[1], source[x].code)}

FkInputs ==
  UNION {[algorithm : {a}, source : {s}, target : {t}, roots : FkRoots(s, t, a)]
         : s \in FkSides, t \in FkSides, a \in {"fk_update", "fk_insert", "fk_owner"}}

FkUpdateCase ==
  /\ input.algorithm = "fk_update"
  /\ output' = repair_restricted_update(input.source, input.target, input.roots[2])
FkInsertCase ==
  /\ input.algorithm = "fk_insert"
  /\ output' = AndThen(repair_insert_prerequisites(input.source, input.target, input.roots[2]),
                       LAMBDA r : FkInsert(r, input.roots[2], input.source[input.roots[2]]))
FkOwnerCase ==
  /\ input.algorithm = "fk_owner"
  /\ output' = replace_source_absent_unique_owner(input.source, input.target,
                                                  input.roots[1], input.roots[2])

FkDone == done /\ input.algorithm \in {"fk_update", "fk_insert", "fk_owner"}
FkTaken ==
  CASE input.algorithm = "fk_update" -> discover(input.target, input.roots[1], input.source[input.roots[1]])
    [] input.algorithm = "fk_insert" -> {}
    [] input.algorithm = "fk_owner" -> discover(input.target, input.roots[1], FkNoRow)

(***************************************************************************)
(* A coordinated repair that succeeds leaves every foreign key and unique  *)
(* index intact, the row it was for and all the rows that depended on the  *)
(* changed or deleted row as the source has them, and changes any other    *)
(* row only to the source's row (transition, replace_source_absent_owner,  *)
(* ensure_required_parents).                                               *)
(***************************************************************************)
FkRepairSound ==
  FkDone /\ output.ok =>
    LET taken == {input.roots[1], input.roots[2]} \cup FkTaken
    IN /\ FkValid(output.rows)
       /\ \A x \in taken : output.rows[x] = input.source[x]
       /\ \A x \in FkPlaces \ taken : output.rows[x] \in {input.target[x], input.source[x]}

(* The insert repair may have to change a parent whose old dependents need *)
(* the very row being inserted; it then gives up with a "prerequisite      *)
(* cycle", although no table refers to itself.                             *)
ChangesAParent ==
  input.algorithm = "fk_insert" /\ \E x \in FkPresent(input.source) \cap FkPresent(input.target) :
    changed(input.target, x, input.source[x]) /\ read_keys(input.target, x) # {}

(***************************************************************************)
(* A repair is never refused when the source's rows fit into the target:   *)
(* if no target row but a source-absent owner holds a unique value of      *)
(* another source row, the deletes, updates and inserts come in an order   *)
(* that never runs into a foreign key.                                     *)
(***************************************************************************)
FkRepairSucceeds ==
  LET gone == {x \in {input.roots[1]} : input.algorithm = "fk_owner" /\ input.source[x] = FkNoRow}
      fits == \A x \in FkPresent(input.source) : \A y \in FkPresent(input.target) \ gone :
                x[1] = y[1] /\ input.source[x].code = input.target[y].code => x = y
  IN FkDone /\ fits /\ ~ChangesAParent => output.ok

-----------------------------------------------------------------------------
(* Column definitions *)

Column(type, null, coll, default, extra, gen) ==
  [type |-> type, null |-> null, coll |-> coll, default |-> default, extra |-> extra, gen |-> gen, comment |-> ""]

Labels == {<<"a">>, <<"a", "b">>, <<"b", "a">>, <<"a", "c", "b">>}
ConvertedTypes ==
  {Integer(r, u, 0) : r \in 1 .. 3, u \in BOOLEAN}
  \cup {Decimal(p, s) : p \in 1 .. 3, s \in 0 .. 1}
  \cup {Enum(l) : l \in Labels} \cup {Plain(k) : k \in {"json", "longtext", "timestamp", "datetime"}}
ConvertedColumns ==
  {Column(t, n, "binary", <<>>, {}, <<>>) : t \in ConvertedTypes, n \in BOOLEAN}
  \cup {Column(Varchar(l), n, c, <<>>, {}, g) :
           l \in 1 .. 3, n \in BOOLEAN, c \in {"utf8mb4_uca1400_ai_ci", "utf8mb4_0900_ai_ci", "latin1"}, g \in {<<>>, <<"y">>}}

ValuesOf(c) ==
  {Null, Value(0)} \cup
  (CASE c.type.kind \in {"int", "varchar"} -> {Value(v) : v \in -8 .. 15}
     [] c.type.kind = "decimal" -> {Value(v) : v \in {-9990, -999, -95, -90, -9, 5, 9, 90, 99, 100, 999, 9990}}
     [] c.type.kind = "enum" -> {Value(v) : v \in 1 .. 3}
     [] c.type.kind = "datetime" -> {Value(1)}
     [] OTHER -> {})

ConversionInputs ==
  UNION {[algorithm : {"convert"}, source : {a}, target : {b}, roots : {v \in ValuesOf(b) : Holds(b, v)}]
         : a \in ConvertedColumns, b \in ConvertedColumns}

ConvertCase ==
  /\ input.algorithm = "convert"
  /\ output' = [ok |-> \/ ~column_change_requires_data_preflight(input.source, input.target)
                       \/ CoercionBlockers(input.source, input.target, {input.roots}) = {},
                rows |-> <<>>]

(***************************************************************************)
(* "Preflight existing target data before every potentially lossy column   *)
(* conversion" (docs/specs/sync-schema.md:51): a column is only converted  *)
(* when its new definition holds every value the table has, as it is       *)
(* (column_change_requires_data_preflight, coercion_blocker_predicate).    *)
(***************************************************************************)
EveryConversionLosesNothing ==
  input.algorithm = "convert" /\ output.ok => Preserves(input.source, input.target, input.roots)

(* The conversions that pass unseen: DATETIME into TIMESTAMP, and an enum  *)
(* whose labels change when its column also becomes NOT NULL, for which    *)
(* only the NULLs are counted.                                             *)
Unseen(a, b) ==
  \/ a.type.kind = "timestamp" /\ b.type.kind = "datetime"
  \/ a.type.kind = "enum" /\ b.type.kind = "enum" /\ b.null /\ ~a.null

(***************************************************************************)
(* Every other conversion is safe: no integer leaves its range, no decimal *)
(* is rounded, no string is cut, no NULL is refused and no enum label is   *)
(* dropped by a conversion that the preflight let pass.                    *)
(***************************************************************************)
ConversionsLoseNothing ==
  input.algorithm = "convert" => Unseen(input.source, input.target) \/ EveryConversionLosesNothing

(* Columns as MariaDB reports them, with a comment only where the rendered *)
(* definition keeps it: on a generated column it is lost.                  *)
PrintedColumns ==
  {[Column(t, FALSE, c, d, e, <<>>) EXCEPT !.comment = m] :
     t \in {Integer(2, FALSE, 0), Integer(2, FALSE, 11), Integer(2, TRUE, 11)},
     c \in {"utf8mb4_uca1400_ai_ci", "utf8mb4_uca1400_as_cs"}, m \in {"", "about"},
     d \in {<<>>, <<"null", "">>, <<"quoted", "a">>, <<"bare", "a">>, <<"quoted", "A">>, <<"now", "()">>},
     e \in {{}, {"on update current_timestamp()"}}}
  \cup {Column(t, TRUE, c, <<>>, {"stored generated"}, g) :
           t \in {Integer(2, FALSE, 0), Integer(2, FALSE, 11)},
           c \in {"utf8mb4_uca1400_ai_ci", "latin1"}, g \in {<<"y">>, <<"z">>, <<"_utf8mb4", "z">>}}

PrintInputs == [algorithm : {"print"}, source : PrintedColumns, target : PrintedColumns, roots : {Null}]

PrintCase ==
  /\ input.algorithm = "print"
  /\ output' = [ok |-> columns_equal(input.source, MySqlPrints(render_column(input.target))), rows |-> <<>>]

(* What a definition means: the column MySQL makes of it, without the      *)
(* charset introducers, which are not part of the value.                   *)
Meaning(c) ==
  LET made == MySqlPrints(render_column(c))
  IN [made EXCEPT !.gen = SelectSeq(@, LAMBDA w : w # "_utf8mb4")]

(***************************************************************************)
(* A column of the source equals what MySQL reports of a target column     *)
(* that was made for a source column exactly when the two mean the same: a *)
(* converged table plans nothing, and no real difference is taken for one  *)
(* of spelling (render_column, observed_target_column).                    *)
(***************************************************************************)
ConvergedColumnsAreEqual ==
  input.algorithm = "print" /\ done =>
    (output.ok <=> Meaning(input.source) = Meaning(input.target))

-----------------------------------------------------------------------------
(* Table lifecycle statements on a database with tables a and b, names c   *)
(* and v free or taken by a view, and keys between and within the tables.  *)

Lifecycle == INSTANCE TableLifecycle

LifecycleKeys ==
  {[table |-> t, refs |-> r, name |-> n] : t \in {"a", "b"}, r \in {"a", "b"},
                                           n \in {<<"a", 1>>, <<"b", 1>>, <<"c", 1>>, <<"", 1>>}}
LifecycleTables ==
  UNION {[names -> [engine : {"InnoDB", "MyISAM"}, rows : {0, 2}, auto : {0, 1, 3}]]
         : names \in {{"a"}, {"a", "b"}}}
LifecycleDatabases ==
  {[tables |-> tables, indexes |-> {[table |-> t, name |-> "i"] : t \in DOMAIN tables},
    fks |-> fks, triggers |-> {[table |-> "a", name |-> "g"]}, views |-> {"v"}]
   : tables \in {f \in LifecycleTables : "b" \in DOMAIN f => f["b"].rows = 2 /\ f["b"].engine = "InnoDB" /\ f["b"].auto = 0},
     fks \in {set \in SUBSET LifecycleKeys : Cardinality(set) <= 2 /\ \A j, k \in set : j.name = k.name => j = k}}
LifecycleOperations ==
  [kind : {"drop", "rename", "truncate"}, name : {"a", "d"}, to : {"b", "c", "v"}, guard : BOOLEAN, form : {"plain", "qualified"}]
LifecycleInputs ==
  UNION {[algorithm : {"lifecycle"}, source : {{}}, target : {d}, roots : LifecycleOperations]
         : d \in {e \in LifecycleDatabases : \A k \in e.fks : {k.table, k.refs} \subseteq DOMAIN e.tables}}

LifecycleCase ==
  /\ input.algorithm = "lifecycle"
  /\ output' = Lifecycle!expected(input.target, input.roots)

(***************************************************************************)
(* A DROP, RENAME or TRUNCATE that the stream admits leads exactly to the  *)
(* state computed before it ran, foreign keys of other tables and their    *)
(* generated names included; it is left out only when it would change      *)
(* nothing; and MySQL only refuses it for a foreign key name that is taken *)
(* (expected, observe, rename_dependent_metadata).                         *)
(***************************************************************************)
LifecycleSound ==
  input.algorithm = "lifecycle" /\ output.ok =>
    LET after == Lifecycle!MySqlRuns(input.target, Lifecycle!render(input.roots))
    IN /\ after.ok => Lifecycle!observe(after.state, input.roots) = output.state
       /\ output.state = Lifecycle!observe(input.target, input.roots) => after.ok /\ after.state = input.target
       /\ ~after.ok => \E j, k \in input.target.fks :
                         /\ j.table = input.roots.name /\ j.name[1] = input.roots.name
                         /\ k.name = <<input.roots.to, j.name[2]>>

-----------------------------------------------------------------------------
(* Numeric column types and defaults of streamed DDL *)

Types == INSTANCE ColumnTypes

NumericTypes ==
  [kind : {"tinyint", "bool"}, params : {<<>>, <<0>>, <<3>>, <<3, 1>>}, sign : {"", "signed", "unsigned"}]
  \cup [kind : {"decimal", "numeric"}, sign : {"", "unsigned"},
        params : {<<>>, <<0>>, <<1>>, <<2>>, <<2, 1>>, <<2, 2>>, <<3, 1>>, <<1, 2>>, <<3, 2, 1>>}]
OtherTypes ==
  [kind : {"integer", "float", "char", "varchar", "datetime", "text", "json", "bit"}, sign : {"", "unsigned"},
   params : {<<>>, <<0>>, <<3>>, <<6>>, <<7>>, <<256>>}]
DigitSequences(digits, n) == UNION {[1 .. k -> digits] : k \in 0 .. n}
Literals ==
  [sign : {"", "+", "-"}, whole : DigitSequences({0, 1, 2, 5, 6, 7, 8}, 3) \ {<<>>}, point : {FALSE}, fraction : {<<>>}]
  \cup [sign : {"", "-"}, whole : DigitSequences({0, 7}, 2) \ {<<>>}, point : {TRUE},
         fraction : DigitSequences({0, 5}, 3) \ {<<>>}]
AnyLiteral == [sign |-> "", whole |-> <<1>>, point |-> FALSE, fraction |-> <<>>]
TypeInputs ==
  [algorithm : {"type"}, source : NumericTypes, target : Literals, roots : {<<>>}]
  \cup [algorithm : {"type"}, source : OtherTypes, target : {AnyLiteral}, roots : {<<>>}]

TypeCase ==
  /\ input.algorithm = "type"
  /\ LET type == Types!parse_column_type(input.source)
     IN output' = [type |-> type,
                   text |-> IF type.ok /\ type.data \in {"tinyint", "decimal"}
                           THEN Types!normalize_numeric_default(type, input.target) ELSE Types!NoDefault]

(***************************************************************************)
(* A type that is admitted is the type MariaDB gave the column, and a      *)
(* numeric default is admitted as the very text MySQL will report for its  *)
(* value, and only refused when it is no value of the column or, for an    *)
(* integer, has a decimal point (parse_column_type,                        *)
(* normalize_numeric_default).                                             *)
(***************************************************************************)
DefaultsAreReportedText ==
  input.algorithm = "type" /\ done /\ output.type.ok =>
    LET type == Types!MariaDbType(input.source)
        numeric == type.data \in {"tinyint", "decimal"}
        reported == Types!MySqlReportsDefault(type, input.target)
    IN /\ output.type = type
       /\ numeric => output.text = reported \/ (type.data = "tinyint" /\ input.target.point /\ ~output.text.ok)

-----------------------------------------------------------------------------
(* CHECK constraints: comparisons a and b, an IS NULL test n, operators    *)
(* between them, and parentheses around any part                           *)

Checks == INSTANCE CheckPredicate WITH Comparisons <- {"a", "b"}, NullTests <- {"n"}

Grouped(texts) == texts \cup {<<"(">> \o x \o <<")">> : x \in texts}
Joined(left, right) == {x \o <<o>> \o y : x \in left, y \in right, o \in {"AND", "OR", "="}}
CheckAtoms == Grouped({<<"a">>, <<"b">>, <<"n">>})
CheckPairs == Grouped(Joined(CheckAtoms, CheckAtoms))
CheckTexts == CheckAtoms \cup CheckPairs \cup Joined(CheckPairs, CheckAtoms) \cup Joined(CheckAtoms, CheckPairs)
CheckInputs == [algorithm : {"check"}, source : CheckTexts, target : {<<>>}, roots : {<<>>}]

CheckCase == input.algorithm = "check" /\ output' = Checks!parse_named_check(input.source)

(***************************************************************************)
(* A CHECK constraint that is admitted means what it meant on the source,  *)
(* in three-valued logic, both as parsed and as rendered for MySQL; and    *)
(* the rendered clause has the structure of the source's, except that a    *)
(* disjunct which is an OR of its own loses its grouping                   *)
(* (parse_named_check, render_predicate, canonical_check_expression).      *)
(***************************************************************************)
CheckMeansTheSame ==
  input.algorithm = "check" /\ done /\ output.ok =>
    LET rendered == Checks!render_check_constraint(output.tree)
    IN /\ \A a, b \in 0 .. 2, n \in {0, 2} :
            LET env == [x \in {"a", "b", "n"} |-> CASE x = "a" -> a [] x = "b" -> b [] OTHER -> n]
                value == Checks!SqlValue(input.source, env)
            IN /\ Checks!TreeValue(Checks!Structure(output.tree), env) = value
               /\ Checks!SqlValue(rendered, env) = value
       /\ (\A i \in DOMAIN output.tree : output.tree[i][1] # "or") =>
            Checks!canonical_check_expression(rendered) = Checks!canonical_check_expression(input.source)

-----------------------------------------------------------------------------
(* CREATE TABLE t with columns id and c: every definition of c under every *)
(* primary key, and the keys, checks and options of the table.             *)

Create == INSTANCE CreateTable

Def(name, type, enc, null, default, auto, update, primary, ref) ==
  [name |-> name, type |-> type, enc |-> enc, null |-> null, default |-> default,
   auto |-> auto, update |-> update, primary |-> primary, ref |-> ref]
Statement(columns, pk, indexes, checks, fks, charset, collation) ==
  [name |-> "t", columns |-> columns, pk |-> pk, indexes |-> indexes, checks |-> checks, fks |-> fks,
   charset |-> charset, collation |-> collation]
IdDefs ==
  {Def("id", "int", "", "", "", auto, FALSE, primary, "") : auto \in BOOLEAN, primary \in BOOLEAN}
  \cup {Def("id", "varchar", "", null, "", FALSE, FALSE, FALSE, "") : null \in {"", "null", "not null"}}
CDefs ==
  {Def("c", type, enc, null, default, auto, update, FALSE, ref) :
     type \in {"int", "varchar", "text", "json", "timestamp"}, enc \in {"", "utf8mb4_bin", "utf8mb4_uca1400_ai_ci"},
     null \in {"", "null", "not null"}, default \in {"", "null", "now", "number", "string"},
     auto \in {FALSE}, update \in BOOLEAN, ref \in {"", "id"}}
ColumnStatements ==
  {Statement(<<id, c>>, pk, <<>>, <<>>, <<>>, "utf8mb4", "") :
     id \in IdDefs, c \in CDefs, pk \in {<<>>, <<"id">>, <<"id", "c">>, <<"c">>}}
KeyC == [name |-> "k", unique |-> FALSE, columns |-> <<"c">>]
FkC == [name |-> "f", column |-> "c", parent |-> "p", rule |-> "CASCADE"]
CheckOf(name, on) == [name |-> name, on |-> on, kind |-> "in"]
TableStatements ==
  {Statement(<<Def("id", "int", "", "", "", auto, FALSE, FALSE, ""), Def("c", type, "", null, "", FALSE, FALSE, FALSE, "")>>,
             <<"id">>, indexes, checks, fks, charset, collation) :
     auto \in BOOLEAN, type \in {"int", "text", "json", "varchar"}, null \in {"", "not null"},
     indexes \in {<<>>, <<KeyC>>, <<KeyC, [KeyC EXCEPT !.columns = <<"id", "c">>]>>, <<[KeyC EXCEPT !.columns = <<"id", "c">>]>>},
     checks \in {<<>>, <<CheckOf("q", "c")>>, <<CheckOf("c", "id")>>, <<CheckOf("q", "x")>>},
     fks \in {<<>>, <<FkC>>}, charset \in {"", "utf8mb4", "utf8mb3"},
     collation \in {"", "utf8mb4_general_ci", "utf8mb4_uca1400_ai_ci", "utf8mb3_general_ci"}}
Contexts ==
  {[source |-> s, target |-> Create!canonical_collation(s), override |-> o] :
     s \in {"utf8mb4_general_ci", "utf8mb3_general_ci"}, o \in {"utf8mb4_general_ci", "utf8mb4_uca1400_ai_ci"}}
CreateInputs ==
  [algorithm : {"create"}, source : ColumnStatements, target : {c \in Contexts : c.source = "utf8mb4_general_ci"}, roots : {{}}]
  \cup [algorithm : {"create"}, source : TableStatements, target : Contexts, roots : {{}, {"q"}}]

CreateCase ==
  input.algorithm = "create" /\ output' = Create!capture_query_evidence(input.source, input.target, {})

(* What two reports of a table say alike, whichever server they are from *)
TableMeaning(t) ==
  [columns |-> [i \in DOMAIN t.columns |->
                  LET c == t.columns[i]
                  IN [name |-> c.name, type |-> c.type, null |-> c.null, default |-> c.default, ref |-> c.ref,
                      coll |-> Create!canonical_collation(c.coll)]],
   pk |-> t.pk, indexes |-> t.indexes, fks |-> t.fks, checks |-> t.checks,
   collation |-> Create!canonical_collation(t.collation)]

(***************************************************************************)
(* A replayed CREATE TABLE makes the table that the source made, where the *)
(* databases have the same default collation: nullability of key columns,  *)
(* defaults, collations and JSON checks included; MySQL reports of it what *)
(* the journal expects; and MySQL only refuses it for the name of a CHECK  *)
(* constraint that another table has, or for a UCA 14.0.0 collation that   *)
(* the statement names (parse_with_mode, capture_query_evidence,           *)
(* expected_create_table_post_state).                                      *)
(***************************************************************************)
CreateReplaysSource ==
  input.algorithm = "create" /\ done /\ output.ok =>
    LET source == Create!MariaDbCreates(input.source, input.target)
        table == Create!MySqlCreates(output.sql, input.roots)
        named == {input.source.collation} \cup {input.source.columns[i].enc : i \in DOMAIN input.source.columns}
    IN source.ok =>
         /\ table.ok =>
              /\ TableMeaning(table) = TableMeaning(source)
              /\ output.post = [columns |-> table.columns, pk |-> table.pk, indexes |-> table.indexes,
                                fks |-> table.fks, collation |-> table.collation]
         /\ table.ok \/ "utf8mb4_uca1400_ai_ci" \in named
                     \/ \E i \in DOMAIN input.source.checks : input.source.checks[i].name \in input.roots

-----------------------------------------------------------------------------
(* Statements of sync-schema and their validator *)

Generated == INSTANCE GeneratedDdl

PlannedColumns ==
  {[name |-> name, type |-> t[1], parameters |-> t[2], textual |-> t[3], generated |-> gen, nullable |-> null,
    default |-> default, extra |-> extra, comment |-> comment] :
     name \in {"a", "KEY", "COMMENT"}, gen \in BOOLEAN, null \in BOOLEAN,
     t \in {<<"BIGINT", <<>>, FALSE>>, <<"DECIMAL", <<"(", "10", ",", "3", ")">>, FALSE>>, <<"BIT", <<"(", "3", ")">>, FALSE>>,
            <<"VARCHAR", <<"(", "64", ")">>, TRUE>>, <<"ENUM", <<"(", "<string>", ",", "<string>", ")">>, TRUE>>,
            <<"SET", <<"(", "<string>", ")">>, TRUE>>, <<"DATETIME", <<"(", "3", ")">>, FALSE>>},
     default \in {"none", "null", "text", "bit", "current_timestamp(3)"},
     extra \in {"", "auto_increment", "on update"}, comment \in BOOLEAN}
PlannedKeys ==
  [name : {"k", "PRIMARY"}, columns : {<<"a">>, <<"a", "KEY">>}, unique : BOOLEAN, visible : BOOLEAN, comment : BOOLEAN,
   type : {"BTREE", "HASH"}]
PlannedFks == [name : {"f"}, columns : {<<"a">>, <<"a", "KEY">>}, schema : {"none", "other"}, parent : {"p", "KEY"}]
PlannedTable(columns, pk, indexes, fks, collated) ==
  [name |-> "t", columns |-> columns, primary_key |-> pk, indexes |-> indexes, foreign_keys |-> fks, collated |-> collated]
SomeColumn == [name |-> "a", type |-> "BIGINT", parameters |-> <<>>, textual |-> FALSE, generated |-> FALSE,
               nullable |-> FALSE, default |-> "none", extra |-> "", comment |-> FALSE]
PlannedTables ==
  {PlannedTable(<<c, SomeColumn>>, <<"a">>, <<>>, <<>>, TRUE) : c \in PlannedColumns}
  \cup {PlannedTable(<<SomeColumn, [SomeColumn EXCEPT !.name = name]>>, pk, indexes, fks, collated) :
           name \in {"INDEX", "UNIQUE", "PRIMARY", "CONSTRAINT", "b"}, pk \in {<<>>, <<"a">>, <<"a", "b">>},
           indexes \in {<<>>} \cup {<<k>> : k \in PlannedKeys}, fks \in {<<>>} \cup {<<k>> : k \in PlannedFks},
           collated \in BOOLEAN}
Rules == {"CASCADE", "RESTRICT", "SET NULL", "NO ACTION"}
OtherAlters ==
  {Generated!primary_key_statement("t", <<"a", "KEY">>), Generated!add_check("t", "q")}
  \cup {Generated!render_canonical_foreign_key("t", k, u, d) : k \in PlannedFks, u \in Rules, d \in Rules}
  \cup Generated!DropStatements("t", "f")
GeneratedInput(object, of, how) ==
  [algorithm |-> "generated", source |-> object, target |-> of, roots |-> how]

GeneratedCase ==
  /\ input.algorithm = "generated"
  /\ LET sql == CASE input.source = "table" -> Generated!render_create_table(input.target)
                  [] input.source = "column" ->
                       Generated!column_statement("t", input.target, input.roots[1], input.roots[2])
                  [] input.source = "other" -> input.target
     IN output' = [ok |-> Generated!validate_generated_schema_ddl(sql), rows |-> <<>>]

(* The validator reads b'0' as two tokens and knows no SET type; and in a  *)
(* CREATE TABLE it takes a column for the keyword that it is named after.  *)
ColumnRefused(c) == c.type = "SET" \/ (c.default = "bit" /\ ~c.generated)
TableRefused(t) ==
  \/ \E i \in DOMAIN t.columns : \/ ColumnRefused(t.columns[i])
                                \/ t.columns[i].name \in {"KEY", "INDEX", "UNIQUE", "PRIMARY", "CONSTRAINT"}
  \/ \E i \in DOMAIN t.indexes : t.indexes[i].type # "BTREE"

(***************************************************************************)
(* The validator admits every table, column, key and constraint that       *)
(* sync-schema renders, so that no plan fails on its own text, except a    *)
(* bit default, a SET column, an index that is no BTREE and, in a CREATE   *)
(* TABLE, a column named like a clause (validate_generated_schema_ddl,     *)
(* render_create_table, render_column).                                    *)
(***************************************************************************)
PlannedDdlAdmitted ==
  input.algorithm = "generated" /\ done =>
    output.ok = CASE input.source = "table" -> ~TableRefused(input.target)
                  [] input.source = "column" -> ~ColumnRefused(input.target)
                  [] input.source = "other" -> TRUE

-----------------------------------------------------------------------------
(* Binlog coordinates: with two digits to the base three, file 9 is the    *)
(* first whose number needs a third digit, as file 1000000 is the first    *)
(* that needs a seventh.                                                   *)

Coordinates == INSTANCE BinlogCoordinate WITH Radix <- 3, Width <- 2

CoordinateInputs ==
  {[algorithm |-> "coordinate", source |-> {}, target |-> {}, roots |-> <<a, b>>] :
     a \in (1 .. 12) \X (1 .. 3), b \in (1 .. 12) \X (1 .. 3)}
Coordinate(c) == [file |-> Coordinates!FileName(c[1]), position |-> c[2]]

CoordinateCase ==
  /\ input.algorithm = "coordinate"
  /\ LET left == Coordinate(input.roots[1])
         right == Coordinate(input.roots[2])
     IN output' = [before |-> Coordinates!binlog_coordinate_is_before(left, right),
                   saves |-> Coordinates!ensure_coordinate_advances(left, right),
                   follows |-> Coordinates!ensure_automatic_ddl_checkpoint_predecessor(left, right),
                   recovers |-> Coordinates!source_coordinate_advances(left, right)]

(***************************************************************************)
(* The checks that let a checkpoint be saved, a DDL event be finalized and *)
(* a recovery move the checkpoint all follow the order of the source's     *)
(* coordinates; the stream's checks do so only as long as the numbers of   *)
(* both files have the same number of digits, and a stream that reaches    *)
(* the first file with one digit more refuses to leave the file before it  *)
(* (binlog_coordinate_is_before, source_coordinate_advances).              *)
(***************************************************************************)
CoordinatesFollowTheSource ==
  input.algorithm = "coordinate" /\ done =>
    LET a == input.roots[1]
        b == input.roots[2]
        earlier == a[1] < b[1] \/ (a[1] = b[1] /\ a[2] < b[2])
    IN /\ output.recovers = earlier
       /\ (a[1] < 9 <=> b[1] < 9) =>
            /\ output.before = earlier
            /\ output.saves = (earlier \/ a = b)
            /\ output.follows = (earlier \/ a = b)
       /\ a[1] = 8 /\ b[1] = 9 => ~output.saves /\ ~output.follows

-----------------------------------------------------------------------------
(* Catalogs of three tables, each present and fit on both sides or flawed  *)
(* in one way, under every set of foreign keys; a key to an earlier table  *)
(* is the source's, another the target's alone.  And pairs of columns.     *)

Catalog == INSTANCE TableCatalog

CatalogColumn(name, type, unsigned, cap, null, coll) ==
  [name |-> name, generated |-> FALSE, null |-> null, type |-> type, unsigned |-> unsigned, cap |-> cap,
   charset |-> IF coll = "none" THEN "none" ELSE "utf8mb4", coll |-> coll]
CatalogTable(n, flaw) ==
  [name |-> n, base |-> flaw # "view", pk |-> IF flaw = "no key" THEN <<>> ELSE <<"id">>, charset |-> "utf8mb4",
   cols |-> <<CatalogColumn("id", "int", FALSE, 0, FALSE, "none"),
              [CatalogColumn("c", "int", FALSE, 0, flaw # "strict", "none") EXCEPT !.generated = flaw = "generated"]>>]

(* A flaw of the source's table, or of the target's. *)
SourceFlaws == {"no key", "generated", "view"}
TargetFlaws == {"strict", "gone"}
CatalogFlaws == {"fit", "absent"} \cup SourceFlaws \cup TargetFlaws
CatalogSource(flaws, keys) ==
  [tables |-> {CatalogTable(n, IF flaws[n] \in SourceFlaws THEN flaws[n] ELSE "fit") : n \in {m \in 1 .. 3 : flaws[m] # "absent"}},
   keys |-> {k \in keys : k.parent <= k.table}]
CatalogTarget(flaws, keys) ==
  [tables |-> {CatalogTable(n, IF flaws[n] \in TargetFlaws \cup {"generated"} THEN flaws[n] ELSE "fit") :
                 n \in {m \in 1 .. 3 : flaws[m] # "gone"}},
   keys |-> {k \in keys : k.parent > k.table}]
CatalogKey(edge) == [table |-> edge[1], parent |-> edge[2], local |-> edge[2] # 4]

CatalogInputs ==
  [algorithm : {"catalog"}, source : [1 .. 3 -> CatalogFlaws],
   target : {{CatalogKey(e) : e \in edges} :
               edges \in SUBSET ({<<1, 2>>, <<2, 1>>, <<2, 3>>, <<3, 1>>, <<3, 3>>, <<1, 4>>})},
   roots : {<<>>}]
CatalogColumns ==
  {CatalogColumn("c", type, unsigned, 0, null, "none") :
     type \in {"tinyint", "int", "bigint"}, unsigned \in BOOLEAN, null \in BOOLEAN}
  \cup {CatalogColumn("c", type, FALSE, cap, null, coll) :
          type \in {"varchar", "decimal"}, cap \in {1, 2}, null \in BOOLEAN,
          coll \in {"utf8mb4_uca1400_ai_ci", "utf8mb4_0900_ai_ci", "utf8mb4_bin"}}
ColumnInputs == [algorithm : {"column"}, source : CatalogColumns, target : CatalogColumns, roots : {<<>>}]

CatalogRows == [n \in 1 .. 3 |-> 3 - n]
CatalogCase ==
  /\ input.algorithm = "catalog"
  /\ LET source == CatalogSource(input.source, input.target)
         Run(catalogs) == [catalogs |-> catalogs, plan |-> Catalog!run_sync_catalog(catalogs.syncable, source, 2)]
     IN output' = Run(Catalog!build_catalogs(source, CatalogTarget(input.source, input.target), CatalogRows))
ColumnCase ==
  /\ input.algorithm = "column"
  /\ output' = [ok |-> Catalog!column_type_is_compatible(input.source, input.target)]

(* The values of a column, with integers of 2 bits for every rank. *)
ColumnHolds(c, v) ==
  CASE v = <<"null">> -> c.null
    [] v[1] = "int" -> /\ Catalog!integer_rank(c.type) > 0
                       /\ LET top == 4 ^ Catalog!integer_rank(c.type)
                          IN IF c.unsigned THEN v[2] \in 0 .. top - 1 ELSE v[2] \in -(top \div 2) .. (top \div 2) - 1
    [] OTHER -> c.type = v[1] /\ v[2] <= c.cap
ColumnValues ==
  {<<"null">>} \cup {<<"int", v>> : v \in {-512, -128, -2, -1, 0, 1, 2, 3, 4, 127, 128, 255, 256, 511, 1023}}
  \cup {<<type, length>> : type \in {"varchar", "decimal"}, length \in 0 .. 2}

(***************************************************************************)
(* The syncable catalog is the largest set of fit tables that has every    *)
(* parent, of either side, of its tables; every other base table of the    *)
(* source is in the other catalog with a reason.  sync-catalog plans such  *)
(* a catalog in full unless its tables refer to each other or to           *)
(* themselves in a circle, which it refuses.  And a column that is taken   *)
(* for compatible holds every value of the source's column                 *)
(* (build_catalogs, propagate_non_syncable_dependencies, validate_catalog, *)
(* column_type_is_compatible).                                             *)
(***************************************************************************)
CatalogIsComplete ==
  input.algorithm = "catalog" /\ done =>
    LET fit == {n \in 1 .. 3 : input.source[n] = "fit" /\ ~\E k \in input.target : k.table = n /\ ~k.local}
        ParentsOf(n) == {k.parent : k \in {x \in input.target : x.table = n}} \ {n}
        closed == {s \in SUBSET fit : \A n \in s : ParentsOf(n) \subseteq s}
        bases == {n \in 1 .. 3 : input.source[n] \notin {"absent", "view"}}
        syncable == {e.name : e \in Range(output.catalogs.syncable)}
        circle == \E s \in SUBSET syncable \ {{}} : \A n \in s : ParentsOf(n) \cap s # {}
        own == \E k \in input.target : k.table \in syncable /\ k.parent = k.table
    IN /\ syncable = UNION closed
       /\ {e[1] : e \in output.catalogs.non_syncable} = bases \ syncable
       /\ output.plan.ok = ~(circle \/ own)
       /\ output.plan.ok => UNION Range(output.plan.batches) = syncable
CompatibleColumnsHold ==
  input.algorithm = "column" /\ done /\ output.ok =>
    \A v \in ColumnValues : ColumnHolds(input.source, v) => ColumnHolds(input.target, v)

Init ==
  /\ output = Pending /\ done = FALSE
  /\ \/ input \in FkInputs
     \/ input \in ConversionInputs
     \/ input \in PrintInputs
     \/ input \in LifecycleInputs
     \/ input \in TypeInputs
     \/ input \in CheckInputs
     \/ input \in CreateInputs
     \/ \E t \in PlannedTables : input = GeneratedInput("table", t, <<>>)
     \/ \E c \in PlannedColumns, how \in BOOLEAN \X {"none", "KEY"} : input = GeneratedInput("column", c, how)
     \/ \E sql \in OtherAlters : input = GeneratedInput("other", sql, <<>>)
     \/ input \in CoordinateInputs
     \/ input \in CatalogInputs
     \/ input \in ColumnInputs

Next ==
  /\ ~done /\ done' = TRUE /\ UNCHANGED input
  /\ \/ FkUpdateCase \/ FkInsertCase \/ FkOwnerCase
     \/ ConvertCase \/ PrintCase
     \/ LifecycleCase \/ TypeCase \/ CheckCase \/ CreateCase
     \/ GeneratedCase \/ CoordinateCase \/ CatalogCase \/ ColumnCase

Spec == Init /\ [][Next]_vars
=============================================================================

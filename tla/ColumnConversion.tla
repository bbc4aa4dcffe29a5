-------------------------- MODULE ColumnConversion --------------------------
(***************************************************************************)
(* How schema convergence compares the column of the source with the       *)
(* column of the target and what it counts before it converts one into     *)
(* the other (sync_schema.rs, sql_type.rs).                                *)
(*                                                                         *)
(* A column definition is [type, null, coll, default, extra, gen,          *)
(* comment].  A type is a record whose kind is a data type: integers have a rank, a sign and *)
(* a display width (0 for none), decimals a precision and a scale,         *)
(* varchars a length, enums their labels.  Rank r stands for r + 1 bits,   *)
(* and decimals are counted in units of 10^(-Scale).  A default is a       *)
(* spelling: <<>> for none, and else <<form, value>> with form "null",     *)
(* "quoted", "bare" or "now"; the text after "now" is "" or "()".          *)
(***************************************************************************)
EXTENDS Integers, Sequences, FiniteSets, SequencesExt, Functions

CONSTANT Scale   \* the largest scale of a decimal

Integer(rank, unsigned, width) == [kind |-> "int", rank |-> rank, unsigned |-> unsigned, width |-> width]
Decimal(precision, scale) == [kind |-> "decimal", precision |-> precision, scale |-> scale]
Varchar(len) == [kind |-> "varchar", len |-> len]
Enum(labels) == [kind |-> "enum", labels |-> labels]
Plain(kind) == [kind |-> kind]

-----------------------------------------------------------------------------
(* The canonical form of a column *)

canonical_column_type(type) == IF type.kind = "int" THEN [type EXCEPT !.width = 0] ELSE type

canonical_default(default) ==
  IF default = <<>> \/ default[1] = "null" THEN <<>>
  ELSE IF default[1] = "now" THEN <<"now", "">>
  ELSE <<"bare", default[2]>>

(* The extra attributes are a set of words; DEFAULT_GENERATED is MySQL's. *)
canonical_extra(extra) == {IF w = "on update current_timestamp()" THEN "on update current_timestamp" ELSE w : w \in extra \ {"default_generated"}}

(* MariaDB's names of the UCA-1400 collations and MySQL's *)
canonical_collation(coll) ==
  CASE coll = "utf8mb4_uca1400_ai_ci" -> "utf8mb4_0900_ai_ci"
    [] coll = "utf8mb4_uca1400_as_cs" -> "utf8mb4_0900_as_cs"
    [] coll = "utf8mb3_uca1400_ai_ci" -> "utf8mb3_general_ci"
    [] OTHER -> coll

(* A stored expression is a sequence of tokens, compared without the ones  *)
(* that MySQL adds when it prints it.                                      *)
canonical_sql_expression(tokens) == SelectSeq(tokens, LAMBDA w : w \notin {"(", ")", "_utf8mb4", "_utf8mb3"})

observed_target_column(c) ==
  [c EXCEPT !.type = canonical_column_type(@), !.default = canonical_default(@), !.extra = canonical_extra(@),
            !.coll = canonical_collation(@), !.gen = canonical_sql_expression(@)]

columns_equal(a, b) == observed_target_column(a) = observed_target_column(b)

(* A bare value is quoted, and everything else is already SQL. *)
render_default(default) == IF default # <<>> /\ default[1] = "bare" THEN <<"quoted", default[2]>> ELSE default

(* render_column: a generated column is its type and its expression.  The  *)
(* translated statement makes the column that this definition describes.   *)
render_column(c) ==
  LET mapped == [c EXCEPT !.coll = canonical_collation(@)]
  IN IF c.gen # <<>> THEN [mapped EXCEPT !.null = TRUE, !.default = <<>>, !.extra = {}, !.comment = ""]
     ELSE [mapped EXCEPT !.default = render_default(@),
                         !.extra = @ \cap {"auto_increment", "on update current_timestamp", "on update current_timestamp()"}]

-----------------------------------------------------------------------------
(* Conversions.  a is the column of the source, b the column of the target *)
(* that is converted into it.                                              *)

enum_labels_are_appended(a, b) == Len(a.labels) > Len(b.labels) /\ IsPrefix(b.labels, a.labels)

normalized_data_type(type) == IF type.kind = "timestamp" THEN "datetime" ELSE type.kind

(* The rank is the data type of an integer: int and bigint are not the     *)
(* same type, int(11) and int unsigned are.                                *)
SameDataType(a, b) ==
  normalized_data_type(a) = normalized_data_type(b) /\ (a.kind = "int" => a.rank = b.rank)

(* Mutant: an unsigned column becomes a signed one of its rank unseen. *)
PreflightUnsignedUnseen(a, b) ==
  ~columns_equal(a, b) /\ ~(a.type.kind = "int" /\ b.type.kind = "int" /\ a.type.rank >= b.type.rank)

column_change_requires_data_preflight(a, b) ==
  /\ ~columns_equal(a, b)
  /\ \/ a.gen # b.gen
     \/ b.null /\ ~a.null
     \/ IF SameDataType(a.type, b.type)
        THEN \/ canonical_collation(a.coll) # canonical_collation(b.coll)
             \/ CASE a.type.kind = "enum" -> a.type # b.type /\ ~enum_labels_are_appended(a.type, b.type)
                  [] a.type.kind = "varchar" -> a.type.len < b.type.len
                  [] a.type.kind = "int" -> a.type.unsigned # b.type.unsigned
                  [] a.type.kind = "decimal" ->
                       \/ a.type.precision - a.type.scale < b.type.precision - b.type.scale
                       \/ a.type.scale < b.type.scale
                  [] OTHER -> /\ ~(a.type.kind = "timestamp" /\ b.type.kind = "datetime")
                              /\ a.type # b.type
        ELSE IF a.type.kind = "int" /\ b.type.kind = "int"
             THEN a.type.unsigned # b.type.unsigned \/ a.type.rank < b.type.rank
             ELSE TRUE

conversion_is_provably_safe(a, b) ==
  b.type.kind = "json" /\ a.type.kind = "longtext" /\ a.gen = b.gen /\ (a.null \/ ~b.null)

(* integer_bounds and decimal_maximum *)
IntegerMinimum(type) == IF type.unsigned THEN 0 ELSE -(2 ^ type.rank)
IntegerMaximum(type) == IF type.unsigned THEN 2 ^ (type.rank + 1) - 1 ELSE 2 ^ type.rank - 1
DecimalMaximum(type) == 10 ^ (type.precision - type.scale + Scale) - 10 ^ (Scale - type.scale)

Null == [null |-> TRUE, of |-> 0]
Value(v) == [null |-> FALSE, of |-> v]

(* The kinds of conversion that have a predicate on the data; the rest of  *)
(* coercion_blocker_predicate is an error, and the query counts all rows.  *)
HasPredicate(a, b) ==
  /\ a.gen = b.gen /\ a.coll = b.coll
  /\ \/ a.type.kind = "varchar" /\ b.type.kind = "varchar" /\ (a.type.len < b.type.len \/ (b.null /\ ~a.null))
     \/ a.type.kind = "int" /\ b.type.kind = "int"
     \/ a.type.kind = "decimal" /\ b.type.kind = "decimal"
     \/ SameDataType(a.type, b.type) /\ b.null /\ ~a.null

(* The rows that coercion_blocker_predicate counts; a comparison with NULL *)
(* is not true.                                                            *)
Blocks(a, b, v) ==
  \/ ~HasPredicate(a, b)
  \/ v.null /\ b.null /\ ~a.null
  \/ /\ ~v.null
     /\ CASE a.type.kind = "varchar" -> a.type.len < b.type.len /\ v.of > a.type.len
          [] a.type.kind = "int" -> v.of < IntegerMinimum(a.type) \/ v.of > IntegerMaximum(a.type)
          [] a.type.kind = "decimal" ->
               \/ v.of < -DecimalMaximum(a.type) \/ v.of > DecimalMaximum(a.type)
               \/ v.of % (10 ^ (Scale - a.type.scale)) # 0
          [] OTHER -> FALSE

(* inspect: the values among the table's that keep the column as it is *)
CoercionBlockers(a, b, values) ==
  IF conversion_is_provably_safe(a, b) THEN {} ELSE {v \in values : Blocks(a, b, v)}

-----------------------------------------------------------------------------
(* MySQL (external): the values a column holds, and the way it prints a    *)
(* column that the translated definition of the source has made.           *)

Holds(c, v) ==
  IF v.null THEN c.null
  ELSE CASE c.type.kind = "varchar" -> v.of \in 0 .. c.type.len
         [] c.type.kind = "int" -> v.of \in IntegerMinimum(c.type) .. IntegerMaximum(c.type)
         [] c.type.kind = "decimal" -> /\ v.of \in -DecimalMaximum(c.type) .. DecimalMaximum(c.type)
                                       /\ v.of % (10 ^ (Scale - c.type.scale)) = 0
         [] c.type.kind = "enum" -> v.of \in DOMAIN c.type.labels
         [] c.type.kind = "datetime" -> v.of \in 0 .. 1
         [] OTHER -> v.of = 0

(* Does the converted column hold the value that the old column held?  An  *)
(* enum stores labels; only JSON and the temporal kinds have another kind  *)
(* that holds their values, a TIMESTAMP not all of DATETIME's: 1 stands    *)
(* for one out of its range.  The collation may merge values.              *)
Preserves(a, b, v) ==
  /\ a.gen = b.gen
  /\ canonical_collation(a.coll) = canonical_collation(b.coll)
  /\ IF v.null THEN a.null
     ELSE CASE a.type.kind = b.type.kind /\ a.type.kind = "enum" ->
                 b.type.labels[v.of] \in Range(a.type.labels)
            [] a.type.kind = b.type.kind /\ a.type.kind # "enum" -> Holds(a, v)
            [] OTHER -> \/ a.type.kind = "longtext" /\ b.type.kind = "json"
                        \/ {a.type.kind, b.type.kind} = {"datetime", "timestamp"} /\ Holds(a, v)

(* information_schema.COLUMNS of a column made by a rendered definition *)
MySqlPrints(c) ==
  [c EXCEPT !.type = IF @.kind = "int" THEN [@ EXCEPT !.width = 0] ELSE @,
            !.default = CASE @ = <<>> -> <<>>
                          [] @ # <<>> /\ @[1] = "null" -> <<>>
                          [] @ # <<>> /\ @[1] = "now" -> <<"now", "">>
                          [] OTHER -> <<"bare", @[2]>>,
            !.extra = {IF w = "on update current_timestamp()" THEN "on update current_timestamp" ELSE w : w \in @}
                      \cup (IF c.default # <<>> /\ c.default[1] = "now" THEN {"default_generated"} ELSE {})
                      \cup (IF c.gen # <<>> THEN {"stored generated"} ELSE {}),
            !.gen = IF @ = <<>> THEN @ ELSE <<"(">> \o @ \o <<")">>]
=============================================================================

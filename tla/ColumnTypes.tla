----------------------------- MODULE ColumnTypes -----------------------------
(***************************************************************************)
(* Column types and numeric defaults of streamed DDL                       *)
(* (src/live/ddl_semantics/transform/basic_types.rs): a MariaDB type with  *)
(* its aliases, sizes and sign becomes the type MySQL reports, and a       *)
(* numeric default becomes the text MySQL reports for its value.           *)
(*                                                                         *)
(* A type as written is [kind, params, sign]; a parsed one is [ok, data,   *)
(* params, unsigned].  A literal is [sign, whole, point, fraction] with    *)
(* the digits in sequences.  Floating point defaults are left out.         *)
(***************************************************************************)
EXTENDS Integers, Sequences, SequencesExt, FiniteSets

NoType == [ok |-> FALSE, data |-> "", params |-> <<>>, unsigned |-> FALSE]
Type(data, params, unsigned) == [ok |-> TRUE, data |-> data, params |-> params, unsigned |-> unsigned]

IntegerKinds == {"tinyint", "smallint", "mediumint", "int", "bigint"}
LengthKinds == {"char", "varchar", "binary", "varbinary"}
TemporalKinds == {"time", "datetime", "timestamp"}
BareKinds ==
  {"tinytext", "text", "mediumtext", "longtext", "tinyblob", "blob", "mediumblob", "longblob", "date", "year", "json"}

DataType(kind) ==
  CASE kind = "integer" -> "int"
    [] kind \in {"bool", "boolean"} -> "tinyint"
    [] kind = "numeric" -> "decimal"
    [] OTHER -> kind

(* At most one number in parentheses, the display width, which is dropped. *)
parse_integer_type(t) ==
  IF Len(t.params) > 1 \/ \E i \in DOMAIN t.params : t.params[i] \notin 1 .. 255 THEN NoType
  ELSE Type(DataType(t.kind), <<>>, t.sign = "unsigned")

parse_decimal_size(t) ==
  LET precision == IF t.params = <<>> THEN 10 ELSE t.params[1]
      scale == IF Len(t.params) = 2 THEN t.params[2] ELSE 0
  IN IF Len(t.params) > 2 \/ precision \notin 1 .. 65 \/ scale > 30 \/ scale > precision \/ t.sign # "" THEN NoType
     ELSE Type("decimal", <<precision, scale>>, FALSE)

parse_float_type(t) == IF t.params # <<>> \/ t.sign = "signed" THEN NoType ELSE Type(t.kind, <<>>, t.sign = "unsigned")

parse_length_type(t) ==
  LET maximum == IF t.kind \in {"char", "binary"} THEN 255 ELSE 65535
  IN IF Len(t.params) # 1 \/ t.sign # "" \/ \E i \in DOMAIN t.params : t.params[i] \notin 1 .. maximum THEN NoType
     ELSE Type(t.kind, t.params, FALSE)

parse_temporal_type(t) ==
  IF Len(t.params) > 1 \/ t.sign # "" \/ \E i \in DOMAIN t.params : t.params[i] > 6 THEN NoType
  ELSE Type(t.kind, SelectSeq(t.params, LAMBDA p : p # 0), FALSE)

parse_column_type(t) ==
  CASE t.kind \in {"bool", "boolean"} ->
         IF t.params # <<>> \/ t.sign # "" THEN NoType ELSE Type("tinyint", <<>>, FALSE)
    [] t.kind \in IntegerKinds \cup {"integer"} -> parse_integer_type(t)
    [] t.kind \in {"decimal", "numeric"} -> parse_decimal_size(t)
    [] t.kind \in {"float", "double"} -> parse_float_type(t)
    [] t.kind \in LengthKinds -> parse_length_type(t)
    [] t.kind \in TemporalKinds -> parse_temporal_type(t)
    [] t.kind \in BareKinds -> IF t.params # <<>> \/ t.sign # "" THEN NoType ELSE Type(t.kind, <<>>, FALSE)
    [] OTHER -> NoType

-----------------------------------------------------------------------------
(* Numeric defaults *)

NoDefault == [ok |-> FALSE, negative |-> FALSE, whole |-> <<>>, fraction |-> <<>>]
DefaultText(negative, whole, fraction) ==
  [ok |-> TRUE, negative |-> negative, whole |-> whole, fraction |-> fraction]

NumberOf(digits) == FoldLeft(LAMBDA n, d : 10 * n + d, 0, digits)

(* The digits of a number, the last first when it has none before it *)
DigitsOf[n \in Nat] == IF n < 10 THEN <<n>> ELSE Append(DigitsOf[n \div 10], n % 10)

TrimStart(digits) ==
  LET kept == {i \in DOMAIN digits : \E j \in 1 .. i : digits[j] # 0}
  IN SubSeq(digits, Len(digits) - Cardinality(kept) + 1, Len(digits))
TrimEnd(digits) == Reverse(TrimStart(Reverse(digits)))

IntegerBits == [tinyint |-> 8, smallint |-> 16, mediumint |-> 24, int |-> 32, bigint |-> 64]

normalize_integer(type, literal) ==
  LET value == (IF literal.sign = "-" THEN -1 ELSE 1) * NumberOf(literal.whole)
      bits == IntegerBits[type.data]
      upper == IF type.unsigned THEN 2^bits - 1 ELSE 2^(bits - 1) - 1
      lower == IF type.unsigned THEN 0 ELSE -(2^(bits - 1))
  IN IF literal.point \/ value \notin lower .. upper THEN NoDefault
     ELSE DefaultText(value < 0, DigitsOf[NumberOf(literal.whole)], <<>>)

normalize_decimal(type, literal) ==
  LET scale == type.params[2]
      trimmed == TrimStart(literal.whole)
      fraction == TrimEnd(literal.fraction)
      negative == literal.sign = "-" /\ (trimmed # <<>> \/ fraction # <<>>)
  IN IF \/ literal.point /\ literal.fraction = <<>>
        \/ Len(fraction) > scale
        \/ Len(trimmed) > type.params[1] - scale
     THEN NoDefault
     ELSE DefaultText(negative, IF trimmed = <<>> THEN <<0>> ELSE trimmed,
                      fraction \o [i \in 1 .. scale - Len(fraction) |-> 0])

normalize_numeric_default(type, literal) ==
  CASE type.data \in IntegerKinds -> normalize_integer(type, literal)
    [] type.data = "decimal" -> normalize_decimal(type, literal)
    [] OTHER -> NoDefault

-----------------------------------------------------------------------------
(* What the servers make of them.  MariaDB takes a width or precision of 0 *)
(* and a missing size as the type's own.                                   *)

MariaDbType(t) ==
  LET First(default) == IF t.params = <<>> \/ t.params[1] = 0 THEN default ELSE t.params[1]
  IN CASE t.kind \in {"bool", "boolean"} -> Type("tinyint", <<>>, FALSE)
       [] t.kind \in IntegerKinds \cup {"integer"} -> Type(DataType(t.kind), <<>>, t.sign = "unsigned")
       [] t.kind \in {"decimal", "numeric"} ->
            Type("decimal", <<First(10), IF Len(t.params) = 2 THEN t.params[2] ELSE 0>>, t.sign = "unsigned")
       [] t.kind \in LengthKinds -> Type(t.kind, <<IF t.params = <<>> THEN 1 ELSE t.params[1]>>, FALSE)
       [] t.kind \in TemporalKinds -> Type(t.kind, IF First(0) = 0 THEN <<>> ELSE <<t.params[1]>>, FALSE)
       [] OTHER -> Type(t.kind, <<>>, t.sign = "unsigned")

(* A literal's value in units of 10^-places, for places no shorter than it *)
ValueOf(literal, places) ==
  (IF literal.sign = "-" THEN -1 ELSE 1)
  * (NumberOf(literal.whole) * 10^places + NumberOf(literal.fraction) * 10^(places - Len(literal.fraction)))

(* The default MySQL reports for a column, if the literal is exactly one   *)
(* of the column's values                                                  *)
MySqlReportsDefault(type, literal) ==
  LET scale == IF type.data = "decimal" THEN type.params[2] ELSE 0
      places == Len(literal.fraction) + scale
      value == ValueOf(literal, places) \div 10^(places - scale)
      exact == value * 10^(places - scale) = ValueOf(literal, places)
      size == IF value < 0 THEN -value ELSE value
      bits == IntegerBits[type.data] - (IF type.unsigned THEN 0 ELSE 1)
      fits == IF type.data = "decimal" THEN size = 0 \/ Len(DigitsOf[size]) <= type.params[1]
              ELSE value < 2^bits /\ value >= (IF type.unsigned THEN 0 ELSE -(2^bits))
  IN IF ~exact \/ ~fits THEN NoDefault
     ELSE DefaultText(value < 0, DigitsOf[size \div 10^scale],
                      [i \in 1 .. scale |-> (size \div 10^(scale - i)) % 10])
=============================================================================

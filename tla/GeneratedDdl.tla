---------------------------- MODULE GeneratedDdl ----------------------------
(***************************************************************************)
(* The statements sync-schema renders and the validator they have to pass  *)
(* before they run (sync_schema.rs, live/ddl_semantics/transform.rs).      *)
(* A statement is the sequence of its tokens: the tokenizer drops quotes,  *)
(* so a quoted name and a keyword of the same spelling are one token; case *)
(* is ignored, so such a name is written in capitals here; and every       *)
(* string literal is the token "<string>". The position 0 stands for a     *)
(* refusal.                                                                *)
(***************************************************************************)
EXTENDS Integers, Sequences, SequencesExt, FiniteSetsExt

NoString == "none"

(* TLC compares a token with a token only; past the end there is none. *)
TokenAt(tokens, i) == IF i \in DOMAIN tokens THEN tokens[i] ELSE "<end>"
tokens_match(tokens, i, words) == TokenAt(tokens, i) \in words

(* The tokens i .. j - 1 nest to this depth. *)
DepthBefore(tokens, i, j) ==
  Cardinality({k \in i .. j - 1 : tokens[k] = "("})
    - Cardinality({k \in i .. j - 1 : tokens[k] = ")"})

matching_parenthesis(tokens, open) ==
  LET closes == {j \in open .. Len(tokens) : /\ tokens[j] = ")"
                                             /\ DepthBefore(tokens, open, j + 1) = 0}
  IN IF closes = {} THEN 0 ELSE Min(closes)

validate_parenthesized_definition(tokens, open) ==
  IF tokens_match(tokens, open, {"("}) THEN matching_parenthesis(tokens, open) ELSE 0

IsIdentifier(tokens, i) ==
  i \in DOMAIN tokens /\ tokens[i] \notin {"<string>", "(", ")", ",", ".", "="}

-----------------------------------------------------------------------------
(* Column definitions. *)

SUPPORTED_COLUMN_TYPES == {"BIGINT", "BIT", "DATETIME", "DECIMAL", "ENUM", "JSON", "VARCHAR"}
PARAMETERIZED_COLUMN_TYPES == SUPPORTED_COLUMN_TYPES \ {"JSON"}
Numbers == {"3", "10", "64"}

(* A list of type parameters is values with commas between them. *)
ValidParameters(inner, values) ==
  /\ Len(inner) % 2 = 1
  /\ \A i \in DOMAIN inner : IF i % 2 = 1 THEN inner[i] \in values ELSE inner[i] = ","

validate_column_type(tokens, i) ==
  LET type == TokenAt(tokens, i)
      close == validate_parenthesized_definition(tokens, i + 1)
      values == IF type = "ENUM" THEN {"<string>"} ELSE Numbers
  IN IF type \notin SUPPORTED_COLUMN_TYPES THEN 0
     ELSE IF ~tokens_match(tokens, i + 1, {"("}) THEN i + 1
     ELSE IF /\ type \in PARAMETERIZED_COLUMN_TYPES /\ close # 0
             /\ ValidParameters(SubSeq(tokens, i + 2, close - 1), values)
          THEN close + 1 ELSE 0

consume_current_timestamp(tokens, i) ==
  LET close == validate_parenthesized_definition(tokens, i + 1)
  IN IF ~tokens_match(tokens, i, {"CURRENT_TIMESTAMP"}) THEN 0
     ELSE IF ~tokens_match(tokens, i + 1, {"("}) THEN i + 1
     ELSE IF close = 0 THEN 0 ELSE close + 1

consume_default_expression(tokens, i) ==
  IF tokens_match(tokens, i, {"CURRENT_TIMESTAMP"}) THEN consume_current_timestamp(tokens, i)
  ELSE IF i \in DOMAIN tokens THEN i + 1 ELSE 0

consume_generated_expression(tokens, i) ==
  LET start == IF tokens_match(tokens, i, {"GENERATED"}) THEN i + 2 ELSE i
      close == validate_parenthesized_definition(tokens, start + 1)
  IN IF /\ tokens_match(tokens, i, {"GENERATED"}) => tokens_match(tokens, i + 1, {"ALWAYS"})
        /\ tokens_match(tokens, start, {"AS"})
        /\ close # 0 /\ tokens_match(tokens, close + 1, {"VIRTUAL", "STORED"})
     THEN close + 2 ELSE 0

Followed(tokens, i, word) == IF tokens_match(tokens, i + 1, {word}) THEN i + 2 ELSE 0

consume_inline_key_modifier(tokens, i) ==
  CASE tokens_match(tokens, i, {"PRIMARY"}) -> Followed(tokens, i, "KEY")
    [] tokens_match(tokens, i, {"UNIQUE"}) ->
         IF tokens_match(tokens, i + 1, {"KEY"}) THEN i + 2 ELSE i + 1
    [] OTHER -> 0

consume_storage_column_modifier(tokens, i) ==
  CASE tokens_match(tokens, i, {"UNSIGNED", "ZEROFILL", "NULL", "AUTO_INCREMENT"}) -> i + 1
    [] tokens_match(tokens, i, {"NOT"}) -> Followed(tokens, i, "NULL")
    [] tokens_match(tokens, i, {"DEFAULT"}) -> consume_default_expression(tokens, i + 1)
    [] tokens_match(tokens, i, {"CHARACTER"}) ->
         IF tokens_match(tokens, i + 1, {"SET"}) /\ IsIdentifier(tokens, i + 2) THEN i + 3 ELSE 0
    [] tokens_match(tokens, i, {"COLLATE"}) -> IF IsIdentifier(tokens, i + 1) THEN i + 2 ELSE 0
    [] OTHER -> 0

consume_behavior_column_modifier(tokens, i, allow_position) ==
  CASE tokens_match(tokens, i, {"ON"}) ->
         IF tokens_match(tokens, i + 1, {"UPDATE"}) THEN consume_current_timestamp(tokens, i + 2) ELSE 0
    [] tokens_match(tokens, i, {"COMMENT"}) -> Followed(tokens, i, "<string>")
    [] tokens_match(tokens, i, {"GENERATED", "AS"}) -> consume_generated_expression(tokens, i)
    [] allow_position /\ tokens_match(tokens, i, {"AFTER"}) ->
         IF IsIdentifier(tokens, i + 1) THEN i + 2 ELSE 0
    [] allow_position /\ tokens_match(tokens, i, {"FIRST"}) -> i + 1
    [] OTHER -> consume_inline_key_modifier(tokens, i)

(* The two families start with different words, so the first that knows   *)
(* the token at i is the only one.                                         *)
consume_column_modifier(tokens, i, allow_position) ==
  Max({consume_storage_column_modifier(tokens, i),
       consume_behavior_column_modifier(tokens, i, allow_position)})

RECURSIVE ModifiersFrom(_, _, _)
ModifiersFrom(tokens, i, allow_position) ==
  \/ i = Len(tokens) + 1
  \/ /\ i \in DOMAIN tokens
     /\ LET next == consume_column_modifier(tokens, i, allow_position)
        IN next # 0 /\ ModifiersFrom(tokens, next, allow_position)

validate_column_definition(tokens, allow_position) ==
  /\ IsIdentifier(tokens, 1)
  /\ LET next == validate_column_type(tokens, 2)
     IN next # 0 /\ ModifiersFrom(tokens, next, allow_position)

-----------------------------------------------------------------------------
(* Keys, constraints and the statement. *)

RECURSIVE validate_generated_index_options(_, _)
validate_generated_index_options(tokens, i) ==
  \/ i = Len(tokens) + 1
  \/ /\ tokens_match(tokens, i, {"USING"}) /\ tokens_match(tokens, i + 1, {"BTREE"})
     /\ validate_generated_index_options(tokens, i + 2)
  \/ /\ tokens_match(tokens, i, {"VISIBLE", "INVISIBLE"})
     /\ validate_generated_index_options(tokens, i + 1)
  \/ /\ tokens_match(tokens, i, {"COMMENT"}) /\ tokens_match(tokens, i + 1, {"<string>"})
     /\ validate_generated_index_options(tokens, i + 2)

validate_key_definition(tokens, named) ==
  LET start == IF tokens_match(tokens, 1, {"UNIQUE"}) THEN 2 ELSE 1
      primary == tokens_match(tokens, start, {"PRIMARY"})
      columns == start + (IF primary \/ named THEN 2 ELSE 1)
      close == validate_parenthesized_definition(tokens, columns)
  IN /\ IF primary THEN tokens_match(tokens, start + 1, {"KEY"})
        ELSE /\ tokens_match(tokens, start, {"KEY", "INDEX"})
             /\ named => IsIdentifier(tokens, start + 1)
     /\ close # 0 /\ validate_generated_index_options(tokens, close + 1)

RECURSIVE validate_reference_actions(_, _)
validate_reference_actions(tokens, i) ==
  \/ i = Len(tokens) + 1
  \/ /\ tokens_match(tokens, i, {"ON"}) /\ tokens_match(tokens, i + 1, {"DELETE", "UPDATE"})
     /\ \/ /\ \/ tokens_match(tokens, i + 2, {"SET"}) /\ tokens_match(tokens, i + 3, {"NULL"})
              \/ tokens_match(tokens, i + 2, {"NO"}) /\ tokens_match(tokens, i + 3, {"ACTION"})
           /\ validate_reference_actions(tokens, i + 4)
        \/ /\ tokens_match(tokens, i + 2, {"CASCADE", "RESTRICT"})
           /\ validate_reference_actions(tokens, i + 3)

(* The position of the parent's column list; 0 when a name is missing. *)
validate_generated_parent_reference(tokens, i) ==
  IF ~IsIdentifier(tokens, i) THEN 0
  ELSE IF ~tokens_match(tokens, i + 1, {"."}) THEN i + 1
  ELSE IF IsIdentifier(tokens, i + 2) /\ ~tokens_match(tokens, i + 3, {"."}) THEN i + 3 ELSE 0

validate_constraint_definition(tokens) ==
  /\ IsIdentifier(tokens, 2)
  /\ \/ /\ tokens_match(tokens, 3, {"FOREIGN"}) /\ tokens_match(tokens, 4, {"KEY"})
        /\ LET child == validate_parenthesized_definition(tokens, 5)
               open == validate_generated_parent_reference(tokens, child + 2)
               parent == validate_parenthesized_definition(tokens, open)
           IN /\ child # 0 /\ tokens_match(tokens, child + 1, {"REFERENCES"})
              /\ open # 0 /\ parent # 0 /\ validate_reference_actions(tokens, parent + 1)
     \/ /\ tokens_match(tokens, 3, {"CHECK"})
        /\ LET close == validate_parenthesized_definition(tokens, 4)
           IN close # 0 /\ close = Len(tokens)

validate_create_table_definition(tokens) ==
  CASE tokens_match(tokens, 1, {"PRIMARY"}) -> validate_key_definition(tokens, FALSE)
    [] tokens_match(tokens, 1, {"UNIQUE", "KEY", "INDEX"}) -> validate_key_definition(tokens, TRUE)
    [] tokens_match(tokens, 1, {"CONSTRAINT"}) -> validate_constraint_definition(tokens)
    [] OTHER -> validate_column_definition(tokens, FALSE)

(* The definitions between the commas that no parenthesis encloses; an    *)
(* empty one stays in the list and is refused as a definition.             *)
RangesAtEveryComma(tokens, start, end) ==
  LET commas == {i \in start .. end - 1 : tokens[i] = ","}
      ends == SetToSortSeq(commas \cup {end}, <)
  IN [k \in DOMAIN ends |-> SubSeq(tokens, IF k = 1 THEN start ELSE ends[k - 1] + 1, ends[k] - 1)]

top_level_ranges(tokens, start, end) ==
  LET commas == {i \in start .. end - 1 : tokens[i] = "," /\ DepthBefore(tokens, start, i) = 0}
      ends == SetToSortSeq(commas \cup {end}, <)
  IN [k \in DOMAIN ends |-> SubSeq(tokens, IF k = 1 THEN start ELSE ends[k - 1] + 1, ends[k] - 1)]

(* The options after ENGINE = <engine>: each an optional DEFAULT, a word, *)
(* an optional = and a value.                                              *)
RECURSIVE validate_create_table_tail(_, _)
validate_create_table_tail(tokens, i) ==
  LET word == IF tokens_match(tokens, i, {"DEFAULT"}) THEN i + 1 ELSE i
      value == word + 1
                 + (IF /\ tokens_match(tokens, word, {"CHARACTER"})
                       /\ tokens_match(tokens, word + 1, {"SET"}) THEN 1 ELSE 0)
      next == IF tokens_match(tokens, value, {"="}) THEN value + 1 ELSE value
  IN \/ i = Len(tokens) + 1
     \/ /\ tokens_match(tokens, word, {"CHARACTER", "CHARSET", "COLLATE"})
        /\ next \in DOMAIN tokens
        /\ validate_create_table_tail(tokens, next + 1)

validate_generated_create_table(tokens) ==
  LET close == matching_parenthesis(tokens, 4)
      definitions == top_level_ranges(tokens, 5, close)
  IN /\ close # 0
     /\ \A k \in DOMAIN definitions : validate_create_table_definition(definitions[k])
     /\ close + 3 <= Len(tokens)
     /\ tokens_match(tokens, close + 1, {"ENGINE"}) /\ tokens_match(tokens, close + 2, {"="})
     /\ validate_create_table_tail(tokens, close + 4)

validate_generated_alter_table(tokens) ==
  LET action == SubSeq(tokens, 6, Len(tokens))
      definition == SubSeq(tokens, 5, Len(tokens))
  IN /\ \A i \in 4 .. Len(tokens) : tokens[i] = "," => DepthBefore(tokens, 4, i) # 0
     /\ \/ /\ tokens_match(tokens, 4, {"ADD", "MODIFY"}) /\ tokens_match(tokens, 5, {"COLUMN"})
           /\ validate_column_definition(action, TRUE)
        \/ /\ tokens_match(tokens, 4, {"ADD"}) /\ tokens_match(tokens, 5, {"PRIMARY"})
           /\ validate_key_definition(definition, FALSE)
        \/ /\ tokens_match(tokens, 4, {"ADD"}) /\ tokens_match(tokens, 5, {"CONSTRAINT"})
           /\ validate_constraint_definition(definition)

(* DROP PRIMARY KEY, DROP FOREIGN KEY name, DROP CHECK name. *)
validate_generated_drop(tokens) ==
  /\ tokens_match(tokens, 4, {"DROP"})
  /\ \/ tokens_match(tokens, 5, {"PRIMARY"}) /\ Len(tokens) = 6 /\ tokens_match(tokens, 6, {"KEY"})
     \/ tokens_match(tokens, 5, {"FOREIGN"}) /\ Len(tokens) = 7 /\ tokens_match(tokens, 6, {"KEY"})
     \/ tokens_match(tokens, 5, {"CHECK"}) /\ Len(tokens) = 6

validate_generated_schema_ddl(tokens) ==
  \/ /\ tokens_match(tokens, 1, {"CREATE"}) /\ tokens_match(tokens, 2, {"TABLE"})
     /\ tokens_match(tokens, 4, {"("}) /\ validate_generated_create_table(tokens)
  \/ /\ tokens_match(tokens, 1, {"ALTER"}) /\ tokens_match(tokens, 2, {"TABLE"})
     /\ validate_generated_alter_table(tokens) \/ validate_generated_drop(tokens)

-----------------------------------------------------------------------------
(* What the planner renders, as the tokens of its text. *)

Comma(parts) == FoldLeft(LAMBDA text, part : IF text = <<>> THEN part ELSE text \o <<",">> \o part,
                         <<>>, parts)
quoted_list(names) == Comma([k \in DOMAIN names |-> <<names[k]>>])
When(condition, tokens) == IF condition THEN tokens ELSE <<>>

(* A bit literal b'0' is the word b and a string. *)
render_default(default) ==
  CASE default = "current_timestamp(3)" -> <<"CURRENT_TIMESTAMP", "(", "3", ")">>
    [] default = "null" -> <<"NULL">>
    [] default = "bit" -> <<"b", "<string>">>
    [] default = "text" -> <<"<string>">>

render_column(column) ==
  <<column.name, column.type>> \o column.parameters
    \o When(column.textual, <<"CHARACTER", "SET", "utf8mb4", "COLLATE", "utf8mb4_0900_ai_ci">>)
    \o IF column.generated
       THEN <<"GENERATED", "ALWAYS", "AS", "(", "lower", "(", "a", ")", ")", "STORED">>
       ELSE When(~column.nullable, <<"NOT">>) \o <<"NULL">>
              \o (IF column.default # NoString THEN <<"DEFAULT">> \o render_default(column.default)
                  ELSE When(column.nullable, <<"DEFAULT", "NULL">>))
              \o When(column.extra = "auto_increment", <<"AUTO_INCREMENT">>)
              \o When(column.extra = "on update", <<"ON", "UPDATE">> \o render_default("current_timestamp(3)"))
              \o When(column.comment, <<"COMMENT", "<string>">>)

render_inline_index(index) ==
  When(index.unique, <<"UNIQUE">>) \o <<"KEY", index.name, "(">>
    \o Comma([k \in DOMAIN index.columns |-> <<index.columns[k], "(", "3", ")", "ASC">>])
    \o <<")", "USING", index.type>> \o When(~index.visible, <<"INVISIBLE">>)
    \o When(index.comment, <<"COMMENT", "<string>">>)

render_inline_foreign_key(key) ==
  <<"CONSTRAINT", key.name, "FOREIGN", "KEY", "(">> \o quoted_list(key.columns) \o <<")", "REFERENCES">>
    \o When(key.schema # NoString, <<key.schema, ".">>) \o <<key.parent, "(">>
    \o quoted_list(key.columns) \o <<")">>

render_create_table(table) ==
  <<"CREATE", "TABLE", table.name, "(">>
    \o Comma([k \in DOMAIN table.columns |-> render_column(table.columns[k])]
               \o When(table.primary_key # <<>>,
                       << <<"PRIMARY", "KEY", "(">> \o quoted_list(table.primary_key) \o <<")">> >>)
               \o [k \in DOMAIN table.indexes |-> render_inline_index(table.indexes[k])]
               \o [k \in DOMAIN table.foreign_keys |-> render_inline_foreign_key(table.foreign_keys[k])])
    \o <<")", "ENGINE", "=", "InnoDB">>
    \o When(table.collated, <<"DEFAULT", "CHARACTER", "SET", "=", "utf8mb4",
                              "COLLATE", "=", "utf8mb4_0900_ai_ci">>)
(* Statements that change an existing table. *)
Rule(rule) == CASE rule = "SET NULL" -> <<"SET", "NULL">> [] rule = "NO ACTION" -> <<"NO", "ACTION">>
                [] OTHER -> <<rule>>
AlterTable(table, action) == <<"ALTER", "TABLE", table>> \o action

column_statement(table, column, adding, after) ==
  AlterTable(table, <<IF adding THEN "ADD" ELSE "MODIFY", "COLUMN">> \o render_column(column)
                      \o IF after = NoString THEN <<"FIRST">> ELSE <<"AFTER", after>>)
primary_key_statement(table, columns) ==
  AlterTable(table, <<"ADD", "PRIMARY", "KEY", "(">> \o quoted_list(columns) \o <<")">>)
render_canonical_foreign_key(table, key, update, delete) ==
  AlterTable(table, <<"ADD">> \o render_inline_foreign_key(key)
                      \o <<"ON", "UPDATE">> \o Rule(update) \o <<"ON", "DELETE">> \o Rule(delete))
add_check(table, name) ==
  AlterTable(table, <<"ADD", "CONSTRAINT", name, "CHECK", "(", "a", ">", "0", ")">>)
DropStatements(table, name) ==
  {AlterTable(table, <<"DROP", "PRIMARY", "KEY">>), AlterTable(table, <<"DROP", "FOREIGN", "KEY", name>>),
   AlterTable(table, <<"DROP", "CHECK", name>>)}
=============================================================================

------------------------------ MODULE DdlCases ------------------------------
(* Databases and statements to check DdlSemantics with: one small table    *)
(* that may already have what a statement adds, and every statement of one *)
(* or two of the clauses below.                                            *)
EXTENDS AlterTable

CONSTANT Spelling   \* spelling of the target's procedure

Col(n, ty, nl, d) == [name |-> n, type |-> ty, null |-> nl, def |-> d, kind |-> "plain", ref |-> ""]
Gen(n, r) == [name |-> n, type |-> "varchar", null |-> TRUE, def |-> "none", kind |-> "gen", ref |-> r]
Key(n, c, u) == [name |-> n, cols |-> <<c>>, unique |-> u]
Fk(n, c) == [name |-> n, col |-> c]
Check(n, c) == [name |-> n, col |-> c, enforced |-> TRUE]

id == Col("id", "int", FALSE, "none")
a == Col("a", "varchar", TRUE, "null")
b == Col("b", "text", TRUE, "null")
x == Col("x", "varchar", TRUE, "null")

Table(cols, idx, fks, checks) ==
  [cols |-> cols, pk |-> <<"id">>, idx |-> idx, fks |-> fks, checks |-> checks, json |-> {},
   vals |-> [n \in {cols[i].name : i \in DOMAIN cols} |-> "old " \o n]]

Tables ==
  {Table(<<id, a, b>>, {}, {}, {}),
   Table(<<id, a, b>>, {Key("k", "a", FALSE)}, {Fk("f", "a")}, {}),
   Table(<<id, a, x>>, {Key("k", "x", TRUE)}, {}, {Check("c", "x")})}

Clause(op, old, col, at, def, key, guard) ==
  [op |-> op, old |-> old, col |-> col, at |-> at, def |-> def, key |-> key, guard |-> guard]
None == Col("", "int", TRUE, "none")
NoKey == Key("", "", FALSE)

Adds ==
  {Clause("add_column", "", c, at, "", NoKey, g) :
     c \in {Col("x", "varchar", TRUE, "none"), Col("x", "int", FALSE, "none")}, at \in {Stay, First, "a"}, g \in BOOLEAN}
  \cup {Clause("add_column", "", c, Stay, "", NoKey, FALSE) :
          c \in {Col("y", "text", TRUE, "str"), Col("y", "json", TRUE, "none"), Gen("y", "a"), Gen("y", "x")}}
Redefines ==
  {Clause("modify_column", c.name, c, at, "", NoKey, FALSE) :
     c \in {Col("a", "varchar", FALSE, "str"), Col("b", "text", TRUE, "none")}, at \in {Stay, First, "id"}}
  \cup {Clause("change_column", "a", Col(n, "varchar", TRUE, "str"), at, "", NoKey, FALSE) : n \in {"a", "z"}, at \in {Stay, "b", "x"}}
  \cup {Clause("rename_column", "a", None, Stay, "", Key("z", "", FALSE), FALSE)}
Defaults ==
  {Clause("alter_default", n, None, Stay, d, NoKey, FALSE) : n \in {"a", "b", "x", "y"}, d \in {"drop", "null", "str"}}
Keys ==
  {Clause("add_key", "", None, Stay, "", Key("k", n, u), g) : n \in {"a", "x"}, u \in BOOLEAN, g \in BOOLEAN}
  \cup {Clause("add_check", "", None, Stay, "", Check("c", "x"), g) : g \in BOOLEAN}
  \cup {Clause("add_fk", "", None, Stay, "", Fk("f", "a"), FALSE)}
  \cup {Clause("drop_index", "", None, Stay, "", Key("k", "a", FALSE), g) : g \in BOOLEAN}
Drops == {Clause("drop_column", n, None, Stay, "", NoKey, g) : n \in {"b", "x"}, g \in BOOLEAN}
Clauses == Adds \cup Redefines \cup Defaults \cup Keys \cup Drops

Statement(kind, cs, n) == [kind |-> kind, clauses |-> cs, options |-> "none", name |-> n]
Renames == {Clause("rename_column", o, None, Stay, "", Key(n, "", FALSE), TRUE) : o \in {"a", "x"}, n \in {"a", "z"}}

(* An index that one statement both adds and drops, with a guard on one of *)
(* the two, has a run of its own.                                          *)
SameIndex(c, d) ==
  /\ {c.op, d.op} = {"add_key", "drop_index"}
  /\ c.key.name = d.key.name /\ (c.guard \/ d.guard)
SameIndexStatements(db) ==
  {Statement("alter", <<cd[1], cd[2]>>, "") : cd \in {p \in Keys \X Keys : SameIndex(p[1], p[2])}}

MCStatements(db) ==
  {Statement("alter", <<c>>, "") : c \in Clauses}
  \cup {Statement("alter", <<cd[1], cd[2]>>, "") : cd \in {p \in Clauses \X Clauses : ~SameIndex(p[1], p[2])}}
  \cup {[Statement("alter", <<c>>, "") EXCEPT !.options = "inplace none"] : c \in Keys}
  \cup {Statement("rename_if_exists", <<c>>, "") : c \in Renames}
  \cup {Statement("rename_if_exists", <<c, d>>, "") : c \in Renames, d \in Renames}
  \cup {Statement("create_index", <<Clause("add_key", "", None, Stay, "", Key("i", n, FALSE), FALSE)>>, "") : n \in {"a", "b"}}
  \cup {Statement("drop_index", <<Clause("drop_index", "", None, Stay, "", Key("k", "a", FALSE), FALSE)>>, "")}
  \cup {Statement(k, <<>>, IF k = "drop_trigger" THEN "t" ELSE "p") : k \in {"drop_procedure", "drop_trigger", "source_only_procedure"}}

MCBases == {[table |-> t, routines |-> r] : t \in Tables, r \in {{}, {Spelling, "t"}}}

(* Another client adds or removes the index and the column that statements *)
(* look for.                                                               *)
MCStrays(t) ==
  LET index == Key("k", "a", FALSE)
  IN {[t EXCEPT !.idx = {y \in @ : y.name # "k"} \cup (IF k THEN {index} ELSE {})] :
        k \in IF "a" \in Names(t) /\ t.fks = {} THEN BOOLEAN ELSE {}}
     \cup {u.t : u \in {TargetServer(t, <<Clause("add_column", "", Col("x", "varchar", TRUE, "none"), Stay, "", NoKey, FALSE)>>)} \ {Refuse}}
=============================================================================

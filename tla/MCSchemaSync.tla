---------------------------- MODULE MCSchemaSync ----------------------------
(***************************************************************************)
(* Schema stages over a parent p and a child c with columns id, k and x.   *)
(* c.k may refer to p.k.  The drift between the source and the target is   *)
(* in the columns of p, in the keys, or in the constraints.                *)
(***************************************************************************)
EXTENDS SchemaSync, TLC

MCTables == <<"p", "c">>
MCValues == {Null, Value(1), Value(2)}

Def(type, null) ==
  [type |-> type, null |-> null, coll |-> "utf8mb4_0900_ai_ci", default |-> <<>>, extra |-> {}, gen |-> <<>>, comment |-> ""]
Key(n) == [name |-> n, def |-> Def(Integer(2, FALSE, 0), FALSE)]
X(len, null) == [name |-> "x", def |-> Def(Varchar(len), null)]
Uca(c) == [c EXCEPT !.def.coll = "utf8mb4_uca1400_ai_ci"]

Table(columns, pk, options) == [columns |-> columns, pk |-> pk, options |-> options]
Usual == Table(<<Key("id"), Key("k"), X(1, TRUE)>>, <<"id">>, "a")
Index(t, name, unique, columns) == [table |-> t, name |-> name, unique |-> unique, columns |-> columns]
Fk(name, rule) == [table |-> "c", name |-> name, columns |-> <<"k">>, parent |-> "p", pcolumns |-> <<"k">>, rule |-> rule]
FkBack == [table |-> "p", name |-> <<"back">>, columns |-> <<"k">>, parent |-> "c", pcolumns |-> <<"id">>, rule |-> "restrict"]
Check(t, name, clause) == [table |-> t, name |-> name, column |-> "x", clause |-> clause]

PUnique == Index("p", <<"u">>, TRUE, <<"k">>)
PPlain == Index("p", <<"u">>, FALSE, <<"k">>)
PRenamed == Index("p", <<"v">>, TRUE, <<"k">>)
PWider == Index("p", <<"w">>, TRUE, <<"k", "x">>)
PSynthesized == Index("p", <<"uq_cdc", "k">>, TRUE, <<"k">>)
CIndex == Index("c", <<"f">>, FALSE, <<"k">>)
CRenamed == Index("c", <<"g">>, FALSE, <<"k">>)
POnX == Index("p", <<"x">>, FALSE, <<"x">>)

Schema(p, c, indexes, fks, checks) ==
  [tables |-> [t \in {"p", "c"} |-> IF t = "p" THEN p ELSE c], indexes |-> indexes, fks |-> fks, checks |-> checks]
Dropped(schema, t) ==
  [tables |-> [u \in DOMAIN schema.tables \ {t} |-> schema.tables[u]],
   indexes |-> schema.indexes \ IndexesOf(schema, t),
   fks |-> {k \in schema.fks : k.table # t /\ k.parent # t}, checks |-> schema.checks \ ChecksOf(schema, t)]
Sound(schema) == \A t \in DOMAIN schema.tables : Supported(schema, t)

(* Columns of p: order, presence, definition of x *)
Shapes(x) == {<<Key("id"), Key("k"), x>>, <<x, Key("k"), Key("id")>>, <<Key("id"), x, Key("k")>>}
SourceShapes ==
  {<<Key("id"), Key("k")>>} \cup UNION {Shapes(Uca(X(len, null))) : len \in 1 .. 2, null \in BOOLEAN}
  \cup {<<Key("id"), Key("k"), X(1, FALSE)>>}
TargetShapes == {<<Key("id"), Key("k")>>, <<Key("k"), Key("id")>>} \cup UNION {Shapes(X(len, null)) : len \in 1 .. 2, null \in BOOLEAN}
ColumnSources == {Schema(Table(s, <<"id">>, "a"), Usual, {PUnique, CIndex}, {Fk(<<"f">>, "restrict")}, {}) : s \in SourceShapes}
ColumnTargets ==
  {Schema(Table(s, pk, o), Usual, {PUnique, CIndex} \cup extra, {Fk(<<"c", "f">>, "restrict")}, {})
   : s \in TargetShapes, pk \in {<<"id">>, <<"id", "k">>}, o \in {"a", "b"},
     extra \in {{}, {POnX}}}

(* Keys of p and c, with and without the foreign key over them *)
KeySources ==
  {Schema(Usual, Usual, {p, CIndex}, fks, {}) : p \in {PUnique, PPlain}, fks \in {{}, {Fk(<<"f">>, "restrict")}}}
KeyTargets ==
  {Schema(Usual, Usual, ps \cup cs, fks, {})
   : ps \in SUBSET {PUnique, PRenamed, PWider, PSynthesized} \cup {{PPlain}, {PPlain, PRenamed}, {PPlain, PSynthesized}},
     cs \in {{CIndex}, {CRenamed}, {}}, fks \in {{}, {Fk(<<"c", "f">>, "restrict")}}}

(* Constraints under the source's names and under others *)
ConstraintSources ==
  {Schema(Usual, Usual, {PUnique, CIndex}, fks, checks)
   : fks \in {{}, {Fk(<<"f">>, "restrict")}, {Fk(<<"f">>, "restrict"), FkBack}},
     checks \in {{}, {Check("p", <<"q">>, 1)}, {Check("p", <<"q">>, 1), Check("c", <<"q">>, 1)}}}
ConstraintTargets ==
  {Schema(Usual, Usual, {PUnique, CIndex}, fks, checks)
   : fks \in {{}, {Fk(<<"f">>, "restrict")}, {Fk(<<"c", "f">>, "cascade")}},
     checks \in {{}, {Check("p", <<"q">>, 1)}, {Check("c", <<"p", "q">>, 2)}, {Check("p", <<"p", "q">>, 2)}}}

MCSources == ColumnSources \cup KeySources \cup ConstraintSources
MCTargets(s) ==
  {t \in (IF s \in ColumnSources THEN ColumnTargets ELSE {})
         \cup (IF s \in KeySources THEN KeyTargets ELSE {})
         \cup (IF s \in ConstraintSources THEN ConstraintTargets ELSE {})
         \cup {Dropped(s, "c"), Dropped(Dropped(s, "c"), "p")} : Sound(t)}
DefOf(schema, t) == ColumnNamed(ColumnsOf(schema, t), "x").def
MCData(schema) ==
  {[t \in {"p", "c"} |-> IF t = "p" THEN values ELSE {}]
   : values \in IF Has(schema, "p") /\ "x" \in ColumnNames(ColumnsOf(schema, "p"))
                THEN {{v \in set : Holds(DefOf(schema, "p"), v)} : set \in {{Value(1)}, {Null, Value(1)}, {Value(2)}}}
                ELSE {{}}}
=============================================================================

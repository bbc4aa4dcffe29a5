----------------------------- MODULE AlterTable -----------------------------
(***************************************************************************)
(* The translation of a source ALTER TABLE into target SQL, and the table  *)
(* state it is expected to leave (live/ddl_semantics/transform.rs and      *)
(* canonical.rs).                                                          *)
(*                                                                         *)
(* A table is [cols, pk, idx, fks, checks, json, vals]: its columns in     *)
(* order, the primary key, indexes [name, cols, unique], foreign keys      *)
(* [name, col], named CHECKs [name, col, enforced], the columns under an   *)
(* enforced JSON_VALID check, and the value an old row has per column.     *)
(* A column is [name, type, null, def, kind, ref].  Its default "none" is  *)
(* no default at all and "null" the NULL default; the inventory shows both *)
(* as no default.  A generated column refers to the column ref.            *)
(*                                                                         *)
(* A clause is [op, old, col, at, def, key, guard]: what it does, the      *)
(* existing column it names, the column definition, where it is placed,    *)
(* the new default, the index, constraint or new name, and IF [NOT] EXISTS.*)
(***************************************************************************)
EXTENDS Naturals, Sequences, FiniteSets, SequencesExt, FiniteSetsExt

Stay == "stay"       \* no FIRST or AFTER
First == "first"     \* FIRST; any other position is the column of AFTER

Names(t) == {t.cols[i].name : i \in DOMAIN t.cols}
Position(t, n) == CHOOSE i \in DOMAIN t.cols : t.cols[i].name = n
Column(t, n) == t.cols[Position(t, n)]
IndexNames(t) == {x.name : x \in t.idx}
CheckNames(t) == {x.name : x \in t.checks}

Done(t) == [ok |-> TRUE, t |-> t]
Refuse == [ok |-> FALSE, t |-> <<>>]
Then(r, Op(_)) == IF r.ok THEN Op(r.t) ELSE Refuse
RenamedIn(names, old, new) == [i \in DOMAIN names |-> IF names[i] = old THEN new ELSE names[i]]

(* What the inventory reads back. *)
ObservedColumn(c) == [c EXCEPT !.def = IF @ = "null" THEN "none" ELSE @]
Snapshot(t) == [t EXCEPT !.cols = [i \in DOMAIN t.cols |-> ObservedColumn(t.cols[i])], !.vals = <<>>]

-----------------------------------------------------------------------------
(* The database servers (external).  One ALTER TABLE resolves the columns  *)
(* it changes in the old table and those it positions or indexes in the    *)
(* new one, whatever the order of the clauses.  MariaDB skips a guarded    *)
(* clause that has nothing to do, resolves a new default of a column the   *)
(* statement adds, and keeps NULL as the default of a nullable column;     *)
(* MySQL does none of that and has no guards.                              *)

Placed(cols, c, at) ==
  IF at = Stay THEN Done(Append(cols, c))
  ELSE IF at = First THEN Done(<<c>> \o cols)
  ELSE LET after == {i \in DOMAIN cols : cols[i].name = at}
       IN IF after = {} THEN Refuse ELSE Done(InsertAt(cols, Max(after) + 1, c))

ServerColumn(c) ==
  [c EXCEPT !.type = IF @ = "json" THEN "longtext" ELSE @,
            !.def = IF @ = "none" /\ c.null THEN "null" ELSE @]

SkippedBySource(t, c) ==
  /\ c.guard
  /\ CASE c.op = "add_column" -> c.col.name \in Names(t)
       [] c.op = "add_key" -> c.key.name \in IndexNames(t)
       [] c.op = "add_check" -> c.key.name \in CheckNames(t)
       [] c.op = "drop_column" -> c.old \notin Names(t)
       [] c.op = "drop_index" -> c.key.name \notin IndexNames(t)
       [] OTHER -> FALSE

Supported(t, n) == (t.pk # <<>> /\ Head(t.pk) = n) \/ \E x \in t.idx : Head(x.cols) = n

(* A clause list by operation, and the column names before and after it. *)
Of(cs, ops) == {i \in DOMAIN cs : cs[i].op \in ops}
Redefined(cs) == Of(cs, {"modify_column", "change_column", "rename_column"})
Redefining(cs, n) == {i \in Redefined(cs) : cs[i].old = n}
DroppedColumns(cs) == {cs[i].old : i \in Of(cs, {"drop_column"})}
AddedColumns(cs) == {cs[i].col.name : i \in Of(cs, {"add_column"})}
Kept(t, cs) == SelectSeq(t.cols, LAMBDA c : c.name \notin DroppedColumns(cs))
NewName(cs, n) ==
  IF Redefining(cs, n) = {} THEN n
  ELSE LET c == cs[CHOOSE i \in Redefining(cs, n) : TRUE]
       IN IF c.op = "rename_column" THEN c.key.name ELSE c.col.name
Renaming(cs, names) == [i \in DOMAIN names |-> NewName(cs, names[i])]

WithDefault(cs, c, source) ==
  LET is == {i \in Of(cs, {"alter_default"}) : cs[i].old = c.name}
  IN IF is = {} THEN c
     ELSE [c EXCEPT !.def = LET d == cs[CHOOSE i \in is : TRUE].def
                            IN IF d # "drop" THEN d ELSE IF source /\ c.null THEN "null" ELSE "none"]

(* A column of the old table in the new one. *)
NewColumn(t, cs, c, source) ==
  LET NotNullKey(d) == IF source /\ c.name \in Range(t.pk) THEN [d EXCEPT !.null = FALSE] ELSE d
      Redefine(by) == IF by.op = "rename_column"
                      THEN [WithDefault(cs, c, source) EXCEPT !.name = by.key.name]
                      ELSE ServerColumn(NotNullKey(by.col))
  IN IF Redefining(cs, c.name) = {} THEN WithDefault(cs, c, source)
     ELSE Redefine(cs[CHOOSE i \in Redefining(cs, c.name) : TRUE])

Resolved(t, cs, source) ==
  /\ \A i \in Redefined(cs) \cup Of(cs, {"drop_column"}) : cs[i].old \in Names(t)
  /\ \A i, j \in Redefined(cs) \cup Of(cs, {"drop_column", "alter_default"}) :
       (i # j /\ cs[i].old = cs[j].old) => {cs[i].op, cs[j].op} = {"rename_column", "alter_default"}
  /\ \A i \in Of(cs, {"alter_default"}) :
       /\ cs[i].old \in Names(t) \cup (IF source THEN AddedColumns(cs) ELSE {})
       /\ ~source => \A c \in Range(t.cols) : c.name = cs[i].old => c.type # "text"

(* The columns that stay where they are, then the added and moved ones. *)
PlacedColumns(t, cs, source) ==
  LET Moved(c) == c.op \in {"modify_column", "change_column"} /\ c.at # Stay
      still == SelectSeq(Kept(t, cs), LAMBDA d : \A i \in Redefining(cs, d.name) : ~Moved(cs[i]))
      Incoming(c) == IF c.op = "add_column" THEN ServerColumn(WithDefault(cs, c.col, source))
                     ELSE NewColumn(t, cs, Column(t, c.old), source)
      Put(r, c) == IF r.ok /\ (c.op = "add_column" \/ Moved(c)) THEN Placed(r.t, Incoming(c), c.at) ELSE r
  IN FoldLeft(Put, Done([i \in DOMAIN still |-> NewColumn(t, cs, still[i], source)]), cs)

NewTable(t, cs, cols, source) ==
  LET OldName(n) == {c.name : c \in {d \in Range(Kept(t, cs)) : NewName(cs, d.name) = n}}
      Fill(c) == CASE c.kind = "gen" -> "gen" [] c.def = "none" -> "zero" [] OTHER -> c.def
      Value(c, olds) == IF olds # {} THEN t.vals[CHOOSE o \in olds : TRUE] ELSE Fill(c)
  IN [cols |-> cols,
      pk |-> Renaming(cs, t.pk),
      idx |-> {[x EXCEPT !.cols = Renaming(cs, @)] :
                 x \in {y \in t.idx : \A i \in Of(cs, {"drop_index"}) : cs[i].key.name # y.name}}
              \cup {cs[i].key : i \in Of(cs, {"add_key"})},
      fks |-> {[x EXCEPT !.col = NewName(cs, @)] : x \in t.fks} \cup {cs[i].key : i \in Of(cs, {"add_fk"})},
      checks |-> t.checks \cup {[cs[i].key EXCEPT !.enforced = TRUE] : i \in Of(cs, {"add_check"})},
      json |-> {NewName(cs, n) : n \in t.json} \cup {cs[i].old : i \in Of(cs, {"add_json_check"})}
               \cup {cs[i].col.name : i \in {k \in Of(cs, {"add_column"}) : source /\ cs[k].col.type = "json"}},
      vals |-> [n \in {cols[k].name : k \in DOMAIN cols} |->
                  Value(cols[CHOOSE k \in DOMAIN cols : cols[k].name = n], OldName(n))]]

ValidKeys(t, cs, new) ==
  LET Once(op) == \A i, j \in Of(cs, {op}) : i # j => cs[i].key.name # cs[j].key.name
  IN /\ \A i \in Of(cs, {"drop_index"}) : cs[i].key.name \in IndexNames(t)
     /\ \A i \in Of(cs, {"add_key"}) :
          cs[i].key.name \notin IndexNames(t) \ {cs[k].key.name : k \in Of(cs, {"drop_index"})}
     /\ \A i \in Of(cs, {"add_check"}) : cs[i].key.name \notin CheckNames(t) /\ cs[i].key.col \in Names(new)
     /\ \A i \in Of(cs, {"add_fk"}) : cs[i].key.name \notin {x.name : x \in t.fks}
     /\ \A op \in {"add_key", "add_check", "add_fk"} : Once(op)

ValidTable(t, cs, new, source) ==
  /\ Cardinality(Names(new)) = Len(new.cols)
  /\ ValidKeys(t, cs, new)
  /\ \A x \in new.idx : Range(x.cols) \subseteq Names(new)
  /\ \A x \in new.fks : x.col \in Names(new) /\ Supported(new, x.col)
  /\ \A n \in Range(new.pk) : n \in Names(new) /\ ~Column(new, n).null
  /\ new.json \subseteq Names(new)
  /\ \A n \in t.json \cup {x.col : x \in t.checks} :
       n \notin DroppedColumns(cs) /\ (source \/ NewName(cs, n) = n)
  /\ \A c \in Range(new.cols) :
       c.kind = "gen" => c.ref \in Names(new) /\ Column(new, c.ref).kind = "plain"

Checked(t, cs, new, source) == IF ValidTable(t, cs, new, source) THEN Done(new) ELSE Refuse
Rebuilt(t, cs, placed, source) ==
  IF placed.ok THEN Checked(t, cs, NewTable(t, cs, placed.t, source), source) ELSE Refuse

Server(t, cs, source) ==
  IF Resolved(t, cs, source) THEN Rebuilt(t, cs, PlacedColumns(t, cs, source), source) ELSE Refuse

SourceServer(t, cs) == Server(t, SelectSeq(cs, LAMBDA c : ~SkippedBySource(t, c)), TRUE)
TargetServer(t, cs) == IF cs = <<>> THEN Done(t) ELSE Server(t, cs, FALSE)

-----------------------------------------------------------------------------
(* Parsing: the clauses and options the grammar admits. *)

LiteralFits(type, value) ==
  CASE value = "num" -> type = "int"
    [] value = "str" -> type \in {"varchar", "text"}
    [] OTHER -> TRUE

parse_stored_generation(c) == c.kind = "gen" => c.type = "varchar" /\ c.def = "none" /\ c.null
parse_observed_column_options(c) ==
  /\ LiteralFits(c.type, c.def)
  /\ c.type = "json" => c.def = "none"
parse_column_definition_clause(c) == parse_observed_column_options(c) /\ parse_stored_generation(c)
OrdinaryDefinition(c) ==
  parse_column_definition_clause(c.col) /\ ~c.guard /\ c.col.kind = "plain" /\ c.col.type # "json"
parse_modify_column_clause(c) == OrdinaryDefinition(c)
parse_change_column_clause(c) == OrdinaryDefinition(c)
parse_rename_column_clause(c) == ~c.guard

parse_production_alter_clause(c) ==
  CASE c.op = "add_column" -> parse_column_definition_clause(c.col)
    [] c.op = "modify_column" -> parse_modify_column_clause(c)
    [] c.op = "change_column" -> parse_change_column_clause(c)
    [] c.op = "rename_column" -> parse_rename_column_clause(c)
    [] c.op \in {"alter_default", "add_fk"} -> ~c.guard
    [] OTHER -> TRUE

(* ALGORITHM and LOCK come last: "instant", "inplace none", "copy shared". *)
parse_alter_options(o) == o \in {"none", "instant", "inplace", "inplace none", "copy shared"}

parse_production_alter_table_ast(s) ==
  /\ s.clauses # <<>>
  /\ parse_alter_options(s.options)
  /\ \A i \in DOMAIN s.clauses : parse_production_alter_clause(s.clauses[i])

supports_existing_production_alter(s) ==
  /\ s.options \in {"none", "inplace none", "copy shared"}
  /\ \A i \in DOMAIN s.clauses : ~(s.clauses[i].op = "drop_column" /\ s.clauses[i].guard)

-----------------------------------------------------------------------------
(* The expected table, clause by clause on a snapshot. *)

expected_added_column(c) == [c EXCEPT !.type = IF @ = "json" THEN "longtext" ELSE @]

bind_generated_add_column(t, c) ==
  c.kind = "gen" => c.ref \in Names(t) /\ Column(t, c.ref).type = "varchar" /\ Column(t, c.ref).kind = "plain"

(* Mutant: AFTER puts the column before the one it names. *)
InsertBefore(t, c, at, guard) ==
  IF at \notin {Stay, First} /\ at \in Names(t) THEN Position(t, at)
  ELSE IF at = First THEN 1
  ELSE IF c.name \in Names(t) THEN Len(t.cols) ELSE Len(t.cols) + 1

add_column_insertion_index(t, c, at, guard) ==
  LET there == c.name \in Names(t)
  IN IF guard /\ there THEN Position(t, c.name)
     ELSE IF at = First THEN 1
     ELSE IF at # Stay THEN (IF at \in Names(t) THEN Position(t, at) + 1 ELSE 0)
     ELSE IF there THEN Len(t.cols) ELSE Len(t.cols) + 1

apply_add_column(t, c) ==
  LET i == add_column_insertion_index(t, c.col, c.at, c.guard)
      new == expected_added_column(c.col)
  IN IF ~bind_generated_add_column(t, c.col) \/ i = 0 THEN Refuse
     ELSE IF c.col.name \in Names(t)
          THEN (IF Position(t, c.col.name) = i /\ t.cols[i] = new THEN Done(t) ELSE Refuse)
     ELSE Done([t EXCEPT !.cols = InsertAt(@, i, new)])

apply_modify_column(t, c, old) ==
  IF old \notin Names(t) \/ (old \in Names(t) /\ Column(t, old).kind # "plain") THEN Refuse
  ELSE LET p == Position(t, old)
           rest == [t EXCEPT !.cols = RemoveAt(@, p)]
           i == IF c.at = Stay THEN p ELSE add_column_insertion_index(rest, [c.col EXCEPT !.name = old], c.at, FALSE)
       IN IF i = 0 THEN Refuse
          ELSE Done([rest EXCEPT !.cols = InsertAt(@, i, expected_added_column([c.col EXCEPT !.name = old]))])

apply_rename_column(t, old, new) ==
  IF \/ new \in Names(t) \/ old \notin Names(t)
     \/ \E c \in Range(t.cols) : c.kind = "gen"
  THEN Refuse
  ELSE Done([t EXCEPT !.cols[Position(t, old)].name = new,
                      !.pk = RenamedIn(@, old, new),
                      !.idx = {[x EXCEPT !.cols = RenamedIn(@, old, new)] : x \in @},
                      !.fks = {[x EXCEPT !.col = IF @ = old THEN new ELSE @] : x \in @}])

apply_change_column(t, c) ==
  IF c.at = c.old THEN Refuse
  ELSE Then(apply_modify_column(t, c, c.old),
            LAMBDA u : IF c.col.name = c.old THEN Done(u) ELSE apply_rename_column(u, c.old, c.col.name))

normalize_alter_column_default(c, value) ==
  CASE value = "drop" -> Done("none")
    [] value = "null" -> IF c.null THEN Done("none") ELSE Refuse
    [] OTHER -> IF LiteralFits(c.type, value) THEN Done(value) ELSE Refuse

apply_alter_column_default(t, c) ==
  IF c.old \notin Names(t) THEN Refuse
  ELSE IF Column(t, c.old).kind # "plain" \/ Column(t, c.old).type = "json" THEN Refuse
  ELSE Then(normalize_alter_column_default(Column(t, c.old), c.def),
            LAMBDA d : Done([t EXCEPT !.cols[Position(t, c.old)].def = d]))

apply_drop_column(t, c) ==
  IF \/ \E x \in t.idx : c.old \in Range(x.cols)
     \/ \E x \in t.fks : x.col = c.old
     \/ c.old \in Range(t.pk)
  THEN Refuse
  ELSE IF c.old \in Names(t) THEN Done([t EXCEPT !.cols = RemoveAt(@, Position(t, c.old))])
  ELSE IF c.guard THEN Done(t) ELSE Refuse

apply_drop_index(t, c) ==
  IF c.key.name \in IndexNames(t)
  THEN Done([t EXCEPT !.idx = {x \in @ : x.name # c.key.name}])
  ELSE IF c.guard THEN Done(t) ELSE Refuse

apply_add_key(t, c) ==
  IF c.guard /\ c.key.name \in IndexNames(t)
  THEN (IF c.key \in t.idx THEN Done(t) ELSE Refuse)
  ELSE IF c.key.name \in IndexNames(t) \/ ~(Range(c.key.cols) \subseteq Names(t)) THEN Refuse
  ELSE Done([t EXCEPT !.idx = @ \cup {c.key}])

apply_add_check(t, c) ==
  LET new == [c.key EXCEPT !.enforced = TRUE]
  IN IF c.key.col \notin Names(t) THEN Refuse
     ELSE IF c.key.name \in CheckNames(t)
          THEN (IF c.guard /\ new \in t.checks THEN Done(t) ELSE Refuse)
     ELSE Done([t EXCEPT !.checks = @ \cup {new}])

apply_add_foreign_key(t, c) ==
  IF \/ c.key.col \notin Names(t)
     \/ ~Supported(t, c.key.col)
     \/ c.key.name \in {x.name : x \in t.fks}
  THEN Refuse
  ELSE Done([t EXCEPT !.fks = @ \cup {c.key}])

apply_alter_clause(t, c) ==
  CASE c.op = "add_column" -> apply_add_column(t, c)
    [] c.op = "modify_column" -> apply_modify_column(t, c, c.old)
    [] c.op = "change_column" -> apply_change_column(t, c)
    [] c.op = "alter_default" -> apply_alter_column_default(t, c)
    [] c.op = "rename_column" -> apply_rename_column(t, c.old, c.key.name)
    [] c.op = "add_key" -> apply_add_key(t, c)
    [] c.op = "add_check" -> apply_add_check(t, c)
    [] c.op = "add_fk" -> apply_add_foreign_key(t, c)
    [] c.op = "drop_column" -> apply_drop_column(t, c)
    [] c.op = "drop_index" -> apply_drop_index(t, c)

ApplyClauses(t, cs) == FoldLeft(LAMBDA r, c : Then(r, LAMBDA u : apply_alter_clause(u, c)), Done(t), cs)

-----------------------------------------------------------------------------
(* Guards.  A statement runs unguarded when every guarded addition is      *)
(* absent, and may be a no-op when every one is there as it defines it.    *)

is_guarded_addition(c) == c.guard /\ c.op \in {"add_column", "add_key", "add_check"}
GuardedPresent(t, c) ==
  CASE c.op = "add_column" -> c.col.name \in Names(t)
    [] c.op = "add_key" -> c.key.name \in IndexNames(t)
    [] OTHER -> c.key.name \in CheckNames(t)

validate_guarded_clause_pre_state(t, cs) ==
  LET guarded == {i \in DOMAIN cs : is_guarded_addition(cs[i])}
      present == {i \in guarded : GuardedPresent(t, cs[i])}
      keeps == \E i \in DOMAIN cs :
                 cs[i].op = "drop_index" /\ cs[i].guard /\ cs[i].key.name \in IndexNames(t)
  IN IF guarded # {} /\ present = guarded
     THEN ~keeps /\ ApplyClauses(t, SelectSeq(cs, is_guarded_addition)) = Done(t)
     ELSE present = {}

translated_alter_table_post_state(t, cs) ==
  IF validate_guarded_clause_pre_state(t, cs) THEN ApplyClauses(t, cs) ELSE Refuse

-----------------------------------------------------------------------------
(* Rendering. *)

(* A rendered JSON column is a LONGTEXT with a JSON_VALID check. *)
RenderedClause(c) ==
  IF c.op = "add_column" /\ c.col.type = "json"
  THEN <<[c EXCEPT !.col.type = "longtext", !.guard = FALSE],
         [c EXCEPT !.op = "add_json_check", !.old = c.col.name, !.guard = FALSE]>>
  ELSE <<[c EXCEPT !.guard = FALSE]>>

render_production_alter_table(cs) == FlattenSeq([i \in DOMAIN cs |-> RenderedClause(cs[i])])

(* A new default of a column that the statement adds becomes part of its   *)
(* definition, so that old rows get it.                                    *)
Origin(done, n) ==
  LET touching == {i \in DOMAIN done : done[i].old = n /\ done[i].op \in
                     {"modify_column", "change_column", "rename_column", "drop_column"}}
      adds == {i \in DOMAIN done : done[i].op = "add_column" /\ done[i].col.name = n}
  IN {i \in adds : \A j \in touching : j < i}

fold_new_column_defaults(t, cs) ==
  LET Step(r, c) ==
        Then(apply_alter_clause(r.state, c), LAMBDA u : Done(
          [state |-> u,
           done |-> LET origin == {i \in Origin(r.done, c.old) : c.old \in r.added}
                    IN IF c.op = "alter_default" /\ origin # {}
                       THEN [r.done EXCEPT ![Max(origin)].col.def = IF c.def \in {"drop", "null"} THEN "none" ELSE c.def]
                       ELSE Append(r.done, c),
           added |-> IF c.op = "add_column" /\ c.col.name \notin Names(r.state)
                     THEN r.added \cup {c.col.name} ELSE r.added]))
  IN FoldLeft(LAMBDA r, c : Then(r, LAMBDA x : Step(x, c)),
              Done([state |-> t, done |-> <<>>, added |-> {}]), cs)

(* MySQL refuses SET DEFAULT on TEXT, so the whole column is restated; and *)
(* its DROP DEFAULT would leave a nullable column without the NULL default *)
(* that MariaDB keeps.                                                     *)
TextDefault(t, c) ==
  [c EXCEPT !.op = "modify_column", !.at = Stay,
            !.col = [Column(t, c.old) EXCEPT !.def = IF c.def = "str" THEN "str" ELSE "none"]]

(* Mutant: DROP DEFAULT is rendered as it stands. *)
RenderDropDefault(t, c) ==
  IF Column(t, c.old).type = "text" THEN TextDefault(t, c) ELSE c

render_target_column_default(t, c) ==
  IF Column(t, c.old).type = "text" THEN TextDefault(t, c)
  ELSE IF c.def = "drop" /\ Column(t, c.old).null THEN [c EXCEPT !.def = "null"]
  ELSE c

(* The clauses one by one, each on the state that the ones before it leave. *)
RenderClauses(t, cs) ==
  LET Render(r, c) ==
        IF c.op = "drop_index" /\ c.guard /\ c.key.name \notin IndexNames(r.state) THEN Done(r)
        ELSE Then(apply_alter_clause(r.state, c), LAMBDA u : Done(
               [state |-> u,
                out |-> r.out \o (IF c.op = "alter_default" THEN <<render_target_column_default(r.state, c)>>
                                  ELSE RenderedClause(c))]))
  IN FoldLeft(LAMBDA r, c : Then(r, LAMBDA x : Render(x, c)), Done([state |-> t, out |-> <<>>]), cs)

IsGuarded(cs) == \E i \in DOMAIN cs : is_guarded_addition(cs[i]) \/ (cs[i].op = "drop_index" /\ cs[i].guard)

render_alter_table_with_target(t, cs) ==
  LET Sql(r) == IF r.state = t /\ IsGuarded(cs) THEN Done(<<>>) ELSE Done(r.out)
  IN IF ~validate_guarded_clause_pre_state(t, cs) THEN Refuse
     ELSE Then(Then(fold_new_column_defaults(t, cs), LAMBDA folded : RenderClauses(t, folded.done)), Sql)
-----------------------------------------------------------------------------
(* A statement as a whole, on a database. *)

RoutineDrops == {"drop_procedure", "drop_trigger"}
LowerCase(n) == IF n \in {"p", "P"} THEN "p" ELSE "t"

(* What the source's statement does (external). *)
SourceRun(db, s) ==
  CASE s.kind \in RoutineDrops ->
         [ok |-> TRUE, t |-> [db EXCEPT !.routines = {r \in @ : LowerCase(r) # LowerCase(s.name)}]]
    [] s.kind = "source_only_procedure" -> [ok |-> TRUE, t |-> [db EXCEPT !.routines = @ \cup {s.name}]]
    [] OTHER ->
         Then(SourceServer(db.table, SelectSeq(s.clauses,
                LAMBDA c : s.kind = "rename_if_exists" => c.old \in Names(db.table))),
              LAMBDA t : Done([db EXCEPT !.table = t]))

(* What the rendered SQL does on the target (external). *)
TargetRun(db, s, out) ==
  IF s.kind \in RoutineDrops
  THEN (IF {out[i] : i \in DOMAIN out} \subseteq db.routines
        THEN Done([db EXCEPT !.routines = @ \ {out[i] : i \in DOMAIN out}]) ELSE Refuse)
  ELSE Then(TargetServer(db.table, out), LAMBDA t : Done([db EXCEPT !.table = t]))

-----------------------------------------------------------------------------
(* The inventory.  CHECKs are read only for the names an ALTER adds. *)

AddedChecks(s) == {s.clauses[i].key.name : i \in {k \in DOMAIN s.clauses : s.clauses[k].op = "add_check"}}
target_snapshot(db, s) ==
  [table |-> [Snapshot(db.table) EXCEPT !.json = {},
                !.checks = {x \in @ : s.kind = "alter" /\ x.name \in AddedChecks(s)}],
   routines |-> db.routines]

read_target_procedure_names(db) == db.routines \cap {"p", "P"}
read_target_trigger_names(db) == db.routines \cap {"t", "T"}
read_target_column_names(db) == Names(db.table)

validate_json_alias_checks(db, s) ==
  s.kind = "alter" => \A i \in DOMAIN s.clauses :
    (s.clauses[i].op = "add_column" /\ s.clauses[i].col.type = "json" /\ s.clauses[i].col.name \in Names(db.table))
      => s.clauses[i].col.name \in db.table.json

-----------------------------------------------------------------------------
(* Translation: transform_sql_mode. *)

NeedsTarget(s) ==
  \E i \in DOMAIN s.clauses :
    LET c == s.clauses[i]
    IN \/ c.op = "alter_default"
       \/ c.guard /\ (c.op \in {"add_check", "drop_index"} \/ (c.op = "add_key" /\ c.key.unique))

supports_drop_columns_if_exists(s) ==
  s.options = "none" /\ \A i \in DOMAIN s.clauses : s.clauses[i].op = "drop_column" /\ s.clauses[i].guard

select_executable_renames(columns, cs) ==
  LET Step(r, c) ==
        IF c.old \notin r.names THEN Done(r)
        ELSE IF c.key.name \in r.names THEN Refuse
        ELSE Done([names |-> (r.names \ {c.old}) \cup {c.key.name},
                   out |-> Append(r.out, [c EXCEPT !.guard = FALSE])])
      all == FoldLeft(LAMBDA r, c : Then(r, LAMBDA x : Step(x, c)), Done([names |-> columns, out |-> <<>>]), cs)
  IN IF all.ok THEN Done(all.t.out) ELSE Refuse

(* The target's spelling of the routine, whatever its case. *)
transform_drop_routine(names, n) ==
  LET same == {r \in names : LowerCase(r) = LowerCase(n)}
  IN IF same = {} THEN Done(<<>>) ELSE Done(<<CHOOSE r \in same : TRUE>>)

transform_production_alter_table(s) ==
  IF supports_existing_production_alter(s) THEN Done(render_production_alter_table(s.clauses)) ELSE Refuse
transform_production_alter_table_with_target(table, s) ==
  IF supports_existing_production_alter(s) THEN render_alter_table_with_target(table, s.clauses) ELSE Refuse

(* A parsed ALTER never reaches the translation of a conditional drop. *)
transform_sql(snapshot, s) ==
  CASE s.kind = "alter" /\ parse_production_alter_table_ast(s) ->
         IF NeedsTarget(s) THEN transform_production_alter_table_with_target(snapshot.table, s)
         ELSE transform_production_alter_table(s)
    [] s.kind = "alter" /\ ~parse_production_alter_table_ast(s) -> Refuse
    [] s.kind = "rename_if_exists" -> select_executable_renames(read_target_column_names(snapshot), s.clauses)
    [] s.kind \in {"create_index", "drop_index"} -> Done(s.clauses)
    [] s.kind = "drop_procedure" -> transform_drop_routine(read_target_procedure_names(snapshot), s.name)
    [] s.kind = "drop_trigger" -> transform_drop_routine(read_target_trigger_names(snapshot), s.name)
    [] s.kind = "source_only_procedure" -> Done(<<>>)

(* The event is handled here at all. *)
supports_ddl_transformation(s) ==
  \/ s.kind # "alter"
  \/ parse_production_alter_table_ast(s) /\ (supports_existing_production_alter(s) \/ supports_drop_columns_if_exists(s))

-----------------------------------------------------------------------------
(* The table that CREATE INDEX and DROP INDEX are expected to leave. *)

index_supports_foreign_key(x, t) == \E k \in t.fks : Head(x.cols) = k.col
validate_create_index(t, x) ==
  /\ ~x.unique
  /\ Range(x.cols) \subseteq Names(t)
  /\ ~index_supports_foreign_key(x, t)
  /\ x.name \notin IndexNames(t)
validate_drop_index(t, x) ==
  \E y \in t.idx : y.name = x.name /\ ~y.unique /\ ~index_supports_foreign_key(y, t)

translated_index_post_state(t, s) ==
  LET x == s.clauses[1].key
  IN IF s.kind = "create_index"
     THEN (IF validate_create_index(t, x) THEN Done([t EXCEPT !.idx = @ \cup {x}]) ELSE Refuse)
     ELSE (IF validate_drop_index(t, x) THEN Done([t EXCEPT !.idx = {y \in @ : y.name # x.name}]) ELSE Refuse)
=============================================================================

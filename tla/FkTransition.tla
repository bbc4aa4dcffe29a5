---------------------------- MODULE FkTransition ----------------------------
(***************************************************************************)
(* Coordinated changes of rows that RESTRICT foreign keys hold in place    *)
(* (sync/fk_transition.rs and its MySQL backend): the dependents of a row  *)
(* are taken away, the row is changed, and the dependents come back as the *)
(* source has them, all inside one locked transaction.                     *)
(*                                                                         *)
(* A side maps <<table, key>> to a row or FkNoRow.  A row has a unique     *)
(* code and, for every parent table, the code it refers to there (or       *)
(* null).  A result is [ok, rows, repaired]; a statement MySQL refuses and *)
(* every error of the engine is ok = FALSE and rolls the caller back.      *)
(***************************************************************************)
EXTENDS Naturals, Sequences, FiniteSets, SequencesExt, FiniteSetsExt

CONSTANTS FkTables,   \* tables, numbered
          FkKeys,     \* FkKeys[t]: primary keys of table t
          FkCodes,    \* FkCodes[t]: values of its referenced unique column
          FkParents   \* FkParents[t]: tables its foreign keys refer to

FkNull == "null"
FkNoRow == [code |-> "no row", refs |-> <<>>]
FkRowsOf(t) ==
  {FkNoRow} \cup
  [code : FkCodes[t],
   refs : {r \in [FkParents[t] -> {FkNull} \cup UNION {FkCodes[p] : p \in FkParents[t]}] :
             \A p \in FkParents[t] : r[p] \in FkCodes[p] \cup {FkNull}}]
FkPlaces == UNION {{t} \X FkKeys[t] : t \in FkTables}

FkPresent(rows) == {x \in FkPlaces : rows[x] # FkNoRow}
Holders(rows, t, code) == {x \in FkPresent(rows) : x[1] = t /\ rows[x].code = code}

(* MySQL: codes are unique within a table and references have a parent. *)
FkUnique(rows) ==
  \A x, y \in FkPresent(rows) : x[1] = y[1] /\ rows[x].code = rows[y].code => x = y
FkReferenced(rows) ==
  \A x \in FkPresent(rows) : \A p \in FkParents[x[1]] :
    rows[x].refs[p] # FkNull => Holders(rows, p, rows[x].refs[p]) # {}
FkValid(rows) == FkUnique(rows) /\ FkReferenced(rows)

FkOk(rows) == [ok |-> TRUE, rows |-> rows]
FkRefuse(rows) == [ok |-> FALSE, rows |-> rows]
AndThen(result, Step(_)) == IF result.ok THEN Step(result.rows) ELSE result
InTurn(rows, todo, Step(_, _)) ==
  FoldLeft(LAMBDA result, x : AndThen(result, LAMBDA r : Step(r, x)), FkOk(rows), todo)

(* delete, update and insert of the backend, with MySQL's checks; the      *)
(* readback of verify_written can only confirm them.                       *)
FkStatement(rows, x, row) ==
  LET new == [rows EXCEPT ![x] = row]
  IN IF FkValid(new) THEN FkOk(new) ELSE FkRefuse(rows)
FkDelete(rows, x) == IF rows[x] = FkNoRow THEN FkRefuse(rows) ELSE FkStatement(rows, x, FkNoRow)
FkUpdate(rows, x, row) == IF rows[x] = FkNoRow THEN FkRefuse(rows) ELSE FkStatement(rows, x, row)
FkInsert(rows, x, row) == IF rows[x] # FkNoRow THEN FkRefuse(rows) ELSE FkStatement(rows, x, row)

-----------------------------------------------------------------------------
(* load_schema: depth first over the incoming relations, children before   *)
(* their parents; a table met again while it is being visited is a cycle.  *)
Incoming(t) == SetToSortSeq({c \in FkTables : t \in FkParents[c]}, <)

RECURSIVE LoadSchema(_, _, _)
LoadSchema(t, visiting, order) ==
  IF ~order.ok \/ t \in visiting THEN [order EXCEPT !.ok = FALSE]
  ELSE IF t \in Range(order.tables) THEN order
  ELSE LET below == FoldLeft(LAMBDA o, c : LoadSchema(c, visiting \cup {t}, o), order, Incoming(t))
       IN [below EXCEPT !.tables = Append(@, t)]

load_schema(t) == LoadSchema(t, {}, [ok |-> TRUE, tables |-> <<>>])

(* read_keys: the rows of the child tables that refer to the old row. *)
read_keys(rows, x) ==
  {y \in FkPresent(rows) : x[1] \in FkParents[y[1]] /\ rows[y].refs[x[1]] = rows[x].code}

RECURSIVE DiscoverFrom(_, _, _)
DiscoverFrom(rows, found, pending) ==
  LET more == UNION {read_keys(rows, x) : x \in pending} \ (found \cup pending)
  IN IF pending = {} THEN found ELSE DiscoverFrom(rows, found \cup pending, more)

discover_all(rows, found, pending) == DiscoverFrom(rows, found, pending)

(* discover: the root's own relations only count if the update changes     *)
(* the column they refer to; a deleted root has no desired row.            *)
changed(rows, x, desired) == desired = FkNoRow \/ desired.code # rows[x].code
discover(rows, x, desired) ==
  IF changed(rows, x, desired) THEN discover_all(rows, {}, read_keys(rows, x)) ELSE {}

InTableOrder(tables, found) ==
  FlattenSeq([i \in DOMAIN tables |->
    SetToSortSeq({x \in found : x[1] = tables[i]}, LAMBDA x, y : x[2] < y[2])])

detach(rows, tables, found) == InTurn(rows, InTableOrder(tables, found), FkDelete)

-----------------------------------------------------------------------------
(* ensure_required_parents restores missing parents from the source, their *)
(* own parents first; a target row at that key is updated instead, by a    *)
(* transition of its own if its dependents are in the way (error 1451).    *)
RECURSIVE ensure_required_parents(_, _, _, _, _), transition(_, _, _, _, _)

missing_parents(rows, t, row) ==
  {p \in FkParents[t] : row.refs[p] # FkNull /\ Holders(rows, p, row.refs[p]) = {}}

update_required_parent(source, rows, x, visiting) ==
  LET direct == FkUpdate(rows, x, source[x])
  IN IF ~direct.ok /\ changed(rows, x, source[x]) /\ read_keys(rows, x) # {}
     THEN transition(source, rows, x, source[x], visiting)
     ELSE direct

repair_required_parent(source, rows, p, code, visiting) ==
  LET found == Holders(source, p, code)
  IN IF found = {} \/ found \cap visiting # {} THEN FkRefuse(rows)
     ELSE LET x == CHOOSE x \in found : TRUE
          IN AndThen(ensure_required_parents(source, rows, p, source[x], visiting \cup {x}),
                LAMBDA r : CASE r[x] = FkNoRow   -> FkInsert(r, x, source[x])
                             [] r[x] = source[x] -> FkOk(r)
                             [] OTHER -> update_required_parent(source, r, x, visiting \cup {x}))

ensure_required_parents(source, rows, t, row, visiting) ==
  AndThen(InTurn(rows, SetToSortSeq(missing_parents(rows, t, row), <),
                 LAMBDA r, p : repair_required_parent(source, r, p, row.refs[p], visiting)),
          LAMBDA r : IF missing_parents(r, t, row) = {} THEN FkOk(r) ELSE FkRefuse(r))

(* Mutant: a dependent comes back as the target had it, where that fits. *)
RestoreOldRows(source, rows, tables, found, visiting, old) ==
  InTurn(rows, InTableOrder(Reverse(tables), found),
         LAMBDA r, x :
           IF FkInsert(r, x, old[x]).ok THEN FkInsert(r, x, old[x])
           ELSE IF source[x] = FkNoRow THEN FkOk(r)
           ELSE AndThen(ensure_required_parents(source, r, x[1], source[x], visiting),
                        LAMBDA q : FkInsert(q, x, source[x])))

(* restore: parents first, and only the rows the source still has. *)
restore(source, rows, tables, found, visiting, old) ==
  InTurn(rows, InTableOrder(Reverse(tables), found),
         LAMBDA r, x :
           IF source[x] = FkNoRow THEN FkOk(r)
           ELSE AndThen(ensure_required_parents(source, r, x[1], source[x], visiting),
                        LAMBDA q : FkInsert(q, x, source[x])))

transition(source, rows, x, desired, visiting) ==
  LET schema == load_schema(x[1])
      found == discover(rows, x, desired)
  IN IF ~schema.ok THEN FkRefuse(rows)
     ELSE AndThen(detach(rows, schema.tables, found),
       LAMBDA a : AndThen(ensure_required_parents(source, a, x[1], desired, visiting),
         LAMBDA b : AndThen(FkUpdate(b, x, desired),
           LAMBDA c : restore(source, c, schema.tables, found, visiting, rows))))

repair_restricted_update(source, rows, x) == transition(source, rows, x, source[x], {})

(* repair_insert_prerequisites: the row to insert is being visited, and a  *)
(* repair that found nothing to do is an error.                            *)
repair_insert_prerequisites(source, rows, x) ==
  IF missing_parents(rows, x[1], source[x]) = {} THEN FkRefuse(rows)
  ELSE ensure_required_parents(source, rows, x[1], source[x], {x})

-----------------------------------------------------------------------------
(* replace_source_absent_owner: the owner of a unique code is gone from    *)
(* the source; the row that has the code there takes its place.            *)
replace_owner(source, rows, owner, x) ==
  LET schema == load_schema(x[1])
      found == discover(rows, owner, FkNoRow) \cup
               (IF rows[x] = FkNoRow THEN {} ELSE discover(rows, x, source[x]))
  IN IF ~schema.ok THEN FkRefuse(rows)
     ELSE AndThen(detach(rows, schema.tables, found),
       LAMBDA a : AndThen(FkDelete(a, owner),
         LAMBDA b : AndThen(ensure_required_parents(source, b, x[1], source[x], {}),
           LAMBDA c : AndThen(IF rows[x] = FkNoRow THEN FkInsert(c, x, source[x])
                              ELSE FkUpdate(c, x, source[x]),
             LAMBDA d : restore(source, d, schema.tables, found, {}, rows)))))

(* verify_and_record_owner_replacement *)
VerifiedReplacement(source, rows, owner, x) ==
  IF rows[owner] = FkNoRow /\ Holders(rows, x[1], source[x].code) = {x} /\ rows[x] = source[x]
  THEN FkOk(rows) ELSE FkRefuse(rows)

(* An owner the source still has is left to the caller's retries. *)
replace_source_absent_unique_owner(source, rows, owner, x) ==
  IF source[owner] # FkNoRow THEN FkRefuse(rows)
  ELSE AndThen(replace_owner(source, rows, owner, x),
               LAMBDA r : VerifiedReplacement(source, r, owner, x))

=============================================================================

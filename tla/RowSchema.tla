----------------------------- MODULE RowSchema -----------------------------
(***************************************************************************)
(* How the stream gives the values of a row event their columns            *)
(* (live/structured_stream/schema.rs, rows.rs).  A table map says how many *)
(* columns the table had when the event was written, and names them only   *)
(* under binlog_row_metadata=FULL; without names, the target's inventory,  *)
(* cached until the next replayed DDL statement, has them by position.     *)
(* The target is never behind the event, for DDL is replayed in order, but *)
(* a schema sync may have taken it ahead.                                  *)
(*                                                                         *)
(* One table goes through Versions, the lists of its columns besides the   *)
(* primary key.  A value is <<column, write>>, write 0 being the default;  *)
(* an image is the sequence of values that an event carries.  Each source  *)
(* transaction is a table map and one row.                                 *)
(***************************************************************************)
EXTENDS Naturals, Sequences, FiniteSets

CONSTANTS Versions,     \* the table's columns on the source, in time
          Keys,         \* primary keys
          Ids,          \* table ids, which the source reuses
          MaxEvents, MaxRestarts

VARIABLES
  version, source,     \* the source's table: its version and rows
  log,                 \* events of the source
  target, rows,        \* the target's table
  pos,                 \* events the stream has committed
  mapped,              \* the table map of event pos + 1 has been applied
  cache,               \* version in the cached inventory, or 0
  registry, ignored,   \* TableMapRegistry and ignored_table_ids
  skipped,             \* row changes left to a later sync
  restarts

vars == <<version, source, log, target, rows, pos, mapped, cache, registry, ignored, skipped, restarts>>
sourceVars == <<version, source, log>>
session == <<mapped, cache, registry, ignored>>

NoRow == <<>>
Columns(v) == {Versions[v][i] : i \in DOMAIN Versions[v]}

(* An ALTER TABLE fills the columns it adds with their default. *)
Altered(row, v) ==
  IF row = NoRow THEN NoRow ELSE [c \in Columns(v) |-> IF c \in DOMAIN row THEN row[c] ELSE <<c, 0>>]
AlteredRows(table, v) == [k \in Keys |-> Altered(table[k], v)]

Image(row, v) == IF row = NoRow THEN NoRow ELSE [i \in DOMAIN Versions[v] |-> row[Versions[v][i]]]

-----------------------------------------------------------------------------
(* The source *)

SourceAlter ==
  /\ version < Len(Versions) /\ Len(log) < MaxEvents
  /\ version' = version + 1
  /\ source' = AlteredRows(source, version + 1)
  /\ log' = Append(log, [kind |-> "ddl"])
  /\ UNCHANGED <<target, rows, pos, session, skipped, restarts>>

(* An INSERT, an UPDATE of one column, or a DELETE; the server gives the   *)
(* table an id, and the row a full image.                                  *)
NewRow == [c \in Columns(version) |-> <<c, Len(log) + 1>>]
SourceWrite(key, row, id, named) ==
  /\ Len(log) < MaxEvents
  /\ row # source[key]
  /\ source' = [source EXCEPT ![key] = row]
  /\ log' = Append(log, [kind |-> "row", id |-> id, named |-> named, version |-> version, key |-> key,
                         before |-> Image(source[key], version), after |-> Image(row, version)])
  /\ UNCHANGED <<version, target, rows, pos, session, skipped, restarts>>

(* Another schema's transaction: only its table id matters. *)
SourceWritesElsewhere(id) ==
  /\ Len(log) < MaxEvents
  /\ log' = Append(log, [kind |-> "other", id |-> id])
  /\ UNCHANGED <<version, source, target, rows, pos, session, skipped, restarts>>

(* sync-schema brings the target's table to the source's version. *)
SchemaSync ==
  /\ target < version
  /\ target' = version
  /\ rows' = AlteredRows(rows, version)
  /\ UNCHANGED <<sourceVars, pos, session, skipped, restarts>>

-----------------------------------------------------------------------------
(* Table maps *)

(* ensure_schema_inventory *)
CachedVersion == IF cache = 0 THEN target ELSE cache

(* Mutant: the leading columns are taken where the target has more. *)
LeadingColumns(v, count) ==
  IF Len(Versions[v]) > count THEN SubSeq(Versions[v], 1, count) ELSE Versions[v]

build_inventory_table_schema(v, count) == Versions[v]

(* Names of the event itself, or of the inventory.  The inventory is read  *)
(* in both cases, for keys and types that the table map leaves out; a      *)
(* failed read does not matter to a table map with names and keys.         *)
resolve_table_schema(event) ==
  IF event.named THEN Versions[event.version]
  ELSE build_inventory_table_schema(CachedVersion, Len(Versions[event.version]))

column_count_matches(expected, columns) == Len(columns) = expected

apply_table_map_event ==
  /\ pos < Len(log) /\ ~mapped /\ log[pos + 1].kind \in {"row", "other"}
  /\ mapped' = TRUE
  /\ LET event == log[pos + 1]
     IN IF event.kind = "other"
        THEN ignored' = ignored \cup {event.id} /\ UNCHANGED <<cache, registry>>
        ELSE /\ cache' \in IF event.named THEN {cache, CachedVersion} ELSE {CachedVersion}
             /\ IF column_count_matches(Len(Versions[event.version]), resolve_table_schema(event))
                THEN /\ ignored' = ignored \ {event.id}
                     /\ registry' = [registry EXCEPT ![event.id] = resolve_table_schema(event)]
                ELSE ignored' = ignored \cup {event.id} /\ UNCHANGED registry
  /\ UNCHANGED <<sourceVars, target, rows, pos, skipped, restarts>>

-----------------------------------------------------------------------------
(* Row events *)

map_row_data(columns, image) ==
  [c \in {columns[i] : i \in DOMAIN columns} |-> image[CHOOSE i \in DOMAIN columns : columns[i] = c]]

require_full_row_image(image, columns) == image = NoRow \/ Len(image) = Len(columns)

changed_columns(before, after) == {c \in DOMAIN after : before[c] # after[c]}

(* The columns that a statement names, with their values: all for INSERT,  *)
(* the changed ones for UPDATE, none besides the key for DELETE.           *)
Assigned(event, columns) ==
  CASE event.after = NoRow -> <<>>
    [] event.before = NoRow -> map_row_data(columns, event.after)
    [] OTHER -> LET before == map_row_data(columns, event.before)
                    after == map_row_data(columns, event.after)
                IN [c \in changed_columns(before, after) |-> after[c]]

(* What the target makes of it; an UPDATE of a row it lacks does nothing. *)
Executed(event, assigned) ==
  LET value(c, default) == IF c \in DOMAIN assigned THEN assigned[c] ELSE default
  IN CASE event.after = NoRow -> NoRow
       [] event.before = NoRow -> [c \in Columns(target) |-> value(c, <<c, 0>>)]
       [] OTHER -> IF rows[event.key] = NoRow THEN NoRow
                   ELSE [c \in Columns(target) |-> value(c, rows[event.key][c])]

apply_row_event ==
  /\ pos < Len(log) /\ mapped
  /\ LET event == log[pos + 1]
     IN \/ /\ event.id \in ignored
           /\ skipped' = IF event.kind = "row" THEN skipped \cup {[key |-> event.key, ahead |-> target > event.version]}
                         ELSE skipped
           /\ UNCHANGED rows
        \/ /\ event.id \notin ignored
           /\ require_full_row_image(event.before, registry[event.id])
           /\ require_full_row_image(event.after, registry[event.id])
           /\ \E assigned \in {Assigned(event, registry[event.id])} :
                /\ DOMAIN assigned \subseteq Columns(target)   \* else MySQL refuses it
                /\ rows' = [rows EXCEPT ![event.key] = Executed(event, assigned)]
           /\ UNCHANGED skipped
  /\ pos' = pos + 1
  /\ mapped' = FALSE
  /\ UNCHANGED <<sourceVars, target, cache, registry, ignored, restarts>>

(* A DDL statement, executed or found converged (LiveStream has the        *)
(* cases); invalidate_schema comes after it.                               *)
handle_automatic_ddl_event ==
  /\ pos < Len(log) /\ log[pos + 1].kind = "ddl"
  /\ LET ordinal == 1 + Cardinality({i \in 1 .. pos + 1 : log[i].kind = "ddl"})
     IN /\ target' = IF target < ordinal THEN ordinal ELSE target
        /\ rows' = IF target < ordinal THEN AlteredRows(rows, ordinal) ELSE rows
  /\ cache' = 0
  /\ pos' = pos + 1
  /\ UNCHANGED <<sourceVars, mapped, registry, ignored, skipped, restarts>>

NoMaps == [i \in Ids |-> <<>>]

(* A lost connection, a failed inventory read or a refused statement ends  *)
(* the session; the next one starts at the checkpoint with nothing cached. *)
Restart ==
  /\ restarts < MaxRestarts
  /\ restarts' = restarts + 1
  /\ mapped' = FALSE /\ cache' = 0 /\ registry' = NoMaps /\ ignored' = {}
  /\ UNCHANGED <<sourceVars, target, rows, pos, skipped>>

Init ==
  /\ version = 1 /\ target = 1
  /\ source \in [Keys -> {NoRow, [c \in Columns(1) |-> <<c, 0>>]}] /\ rows = source
  /\ log = <<>> /\ pos = 0 /\ mapped = FALSE
  /\ cache = 0 /\ registry = NoMaps /\ ignored = {}
  /\ skipped = {} /\ restarts = 0

Next ==
  \/ SourceAlter
  \/ \E key \in Keys, id \in Ids, named \in BOOLEAN :
       \/ SourceWrite(key, NewRow, id, named)
       \/ SourceWrite(key, NoRow, id, named)
       \/ \E c \in Columns(version) :
            source[key] # NoRow /\ SourceWrite(key, [source[key] EXCEPT ![c] = <<c, Len(log) + 1>>], id, named)
  \/ \E id \in Ids : SourceWritesElsewhere(id)
  \/ SchemaSync
  \/ apply_table_map_event \/ apply_row_event \/ handle_automatic_ddl_event
  \/ Restart

Spec == Init /\ [][Next]_vars

-----------------------------------------------------------------------------

(***************************************************************************)
(* Of a table whose versions all differ in their number of columns, and    *)
(* of which no dropped column comes back under its old name: once          *)
(* the stream has replayed the whole binlog, every row of which no change  *)
(* was skipped has the source's value in each column that both tables      *)
(* have, whatever schema syncs, restarts and reused table ids came in      *)
(* between; and a change is skipped only where the target's table really   *)
(* was ahead of the event, never for a stale inventory or table id.        *)
(***************************************************************************)
RowsKeepTheirColumns ==
  /\ \A s \in skipped : s.ahead
  /\ pos = Len(log) =>
       \A k \in Keys : (\A s \in skipped : s.key # k) =>
         /\ source[k] = NoRow <=> rows[k] = NoRow
         /\ \A c \in DOMAIN source[k] \cap DOMAIN rows[k] : rows[k][c] = source[k][c]

=============================================================================

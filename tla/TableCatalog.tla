---------------------------- MODULE TableCatalog ----------------------------
(***************************************************************************)
(* table-catalog sorts the source's base tables into those that            *)
(* sync-catalog may copy and those it may not, from the inventories of     *)
(* both sides; sync-catalog validates the list it reads back and hands it  *)
(* to the staged sync (table_catalog.rs).                                  *)
(*                                                                         *)
(* An inventory is [tables, keys]: tables [name, base, pk, charset, cols]  *)
(* with their columns in order, and foreign keys [table, parent, local],   *)
(* where local is FALSE for a parent in another schema.  Names are         *)
(* numbers, in the order of the BTreeMaps.  A column is [name, generated,  *)
(* null, type, unsigned, cap, charset, coll]; cap is the declared length.   *)
(***************************************************************************)
EXTENDS DependencyOrder, SequencesExt, TLC

CONSTANT canonical_collation(_)   \* of sync_schema.rs

-----------------------------------------------------------------------------
(* Compatible schemas *)

writable_columns(table) == SelectSeq(table.cols, LAMBDA c : ~c.generated)

integer_rank(type) ==
  CASE type = "tinyint" -> 1 [] type = "smallint" -> 2 [] type = "mediumint" -> 3
    [] type = "int" -> 4 [] type = "bigint" -> 5 [] OTHER -> 0

collations_are_equivalent(source, target) ==
  IF "none" \in {source, target} THEN source = target
  ELSE canonical_collation(source) = canonical_collation(target)

(* Equal types compare as declared, but for the display width of integers  *)
(* and the length of strings; else the target's integer is wider.          *)
column_type_is_compatible(source, target) ==
  /\ source.null => target.null
  /\ source.charset = target.charset /\ collations_are_equivalent(source.coll, target.coll)
  /\ IF integer_rank(source.type) > 0
     THEN integer_rank(target.type) >= integer_rank(source.type) /\ source.unsigned = target.unsigned
     ELSE /\ source.type = target.type
          /\ IF source.type \in {"char", "varchar", "binary", "varbinary"}
             THEN target.cap >= source.cap ELSE target.cap = source.cap

schemas_are_compatible(source, target) ==
  LET ours == writable_columns(source)
      theirs == writable_columns(target)
  IN /\ source.pk = target.pk
     /\ source.charset = target.charset
     /\ [i \in DOMAIN ours |-> ours[i].name] = [i \in DOMAIN theirs |-> theirs[i].name]
     /\ \A i \in DOMAIN ours : column_type_is_compatible(ours[i], theirs[i])

-----------------------------------------------------------------------------
(* The two catalogs *)

(* The parents a table has on either side, and the tables with a parent in *)
(* another schema.                                                         *)
dependency_inventory(source, target) ==
  LET keys == source.keys \cup target.keys
  IN [local |-> {<<k.table, k.parent>> : k \in {x \in keys : x.local}},
      cross |-> {k.table : k \in {x \in keys : ~x.local}}]

exclusion_reasons(table, target) ==
  LET there == {t \in target.tables : t.name = table.name}
  IN {r \in {"missing_primary_key"} : table.pk = <<>>}
     \cup {r \in {"unsupported_generated_columns"} : \E c \in Range(table.cols) : c.generated}
     \cup {r \in {"missing_target_table"} : there = {}}
     \cup {r \in {"incompatible_schema"} : \E t \in there : ~schemas_are_compatible(table, t)}

BaseTables(source) == {t \in source.tables : t.base}
NamesOf(tables) == {t.name : t \in tables}
Parents(keys, name) == {k[2] : k \in {x \in keys : x[1] = name}} \ {name}

(* The excluded tables with their reasons, as pairs. *)
classify_source_tables(source, target, cross) ==
  UNION {{t.name} \X (exclusion_reasons(t, target) \cup {r \in {"cross_schema_dependency"} : t.name \in cross})
         : t \in BaseTables(source)}

ExcludedNames(excluded) == {e[1] : e \in excluded}

(* One turn of the loop: tables with a parent that is excluded or no base  *)
(* table of the source.                                                    *)
Dependent(bases, keys, excluded) ==
  {n \in bases : \E p \in Parents(keys, n) : p \notin bases \/ p \in ExcludedNames(excluded)}
    \X {"dependency_on_non_syncable"}

(* Mutant: the loop is left after one turn. *)
PropagateOnce(bases, keys, excluded) == excluded \cup Dependent(bases, keys, excluded)

RECURSIVE propagate_non_syncable_dependencies(_, _, _)
propagate_non_syncable_dependencies(bases, keys, excluded) ==
  LET more == Dependent(bases, keys, excluded)
  IN IF more \subseteq excluded THEN excluded
     ELSE propagate_non_syncable_dependencies(bases, keys, excluded \cup more)

syncable_entry(keys, rows, name) ==
  [name |-> name, rows |-> rows[name], parents |-> Parents(keys, name)]

sorted_entries(entries) ==
  SortSeq(SetToSeq(entries), LAMBDA a, b : a.rows < b.rows \/ (a.rows = b.rows /\ a.name < b.name))

build_catalogs(source, target, rows) ==
  LET bases == NamesOf(BaseTables(source))
      Catalogs(dependencies) ==
        LET Split(excluded) ==
              [syncable |-> sorted_entries({syncable_entry(dependencies.local, rows, n) :
                                              n \in bases \ ExcludedNames(excluded)}),
               non_syncable |-> excluded]
        IN Split(propagate_non_syncable_dependencies(bases, dependencies.local,
                   classify_source_tables(source, target, dependencies.cross)))
  IN Catalogs(dependency_inventory(source, target))

-----------------------------------------------------------------------------
(* sync-catalog *)

validate_catalog_dependencies_exist(catalog, names) ==
  \A e \in Range(catalog) : e.parents \subseteq names

RECURSIVE validate_catalog_dependencies_are_acyclic(_, _)
validate_catalog_dependencies_are_acyclic(catalog, remaining) ==
  LET ready == {e.name : e \in {x \in Range(catalog) : x.name \in remaining /\ x.parents \cap remaining = {}}}
  IN \/ remaining = {}
     \/ ready # {} /\ validate_catalog_dependencies_are_acyclic(catalog, remaining \ ready)

validate_catalog(catalog) ==
  LET names == NamesOf(Range(catalog))
  IN /\ Cardinality(names) = Len(catalog)
     /\ validate_catalog_dependencies_exist(catalog, names)
     /\ validate_catalog_dependencies_are_acyclic(catalog, names)

(* sync_config_from_catalog: the tables that the staged sync plans, under  *)
(* the source's foreign keys.                                              *)
run_sync_catalog(catalog, source, parallelism) ==
  IF validate_catalog(catalog)
  THEN plan_dependency_batches(NamesOf(Range(catalog)),
         {<<k.table, k.parent>> : k \in {x \in source.keys : x.local}}, "parent_first", parallelism)
  ELSE [ok |-> FALSE, batches |-> <<>>]
=============================================================================

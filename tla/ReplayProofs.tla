---------------------------- MODULE ReplayProofs ----------------------------
(***************************************************************************)
(* What the replay of row events promises about columns, and the replay    *)
(* of a DDL event about its evidence: for every history of a table's       *)
(* columns, number of keys, events, table ids and restarts, and for every  *)
(* translation of statements, whatever other clients do.                   *)
(***************************************************************************)
EXTENDS Naturals, Sequences, FiniteSets, FiniteSetTheorems, SequenceTheorems, TLAPS

CONSTANTS
  Versions, Keys, Ids, MaxEvents, MaxRestarts,                \* row events
  Bases, StatementsOn(_), Strays(_), MaxStrays, MaxCrashes,   \* DDL events, and their translation
  SourceRun(_, _), TargetRun(_, _, _), target_snapshot(_, _), validate_json_alias_checks(_, _),
  supports_ddl_transformation(_), NeedsTarget(_), transform_sql(_, _),
  translated_alter_table_post_state(_, _), translated_index_post_state(_, _)

VARIABLES
  source, target,
  version, log, rows, pos, mapped, cache, registry, ignored, skipped, restarts,
  stmt, event, pc, read, sql, evidence, journal, found, strays, crashes, ran

Schema == INSTANCE RowSchema
Ddl == INSTANCE DdlSemantics

-----------------------------------------------------------------------------
(***************************************************************************)
(* A history of the table that a table map without names can be read       *)
(* against: its versions differ in their number of columns, no column      *)
(* occurs twice in one, and a dropped column does not come back under its  *)
(* old name.                                                               *)
(***************************************************************************)
TellApart ==
  /\ Len(Versions) \in Nat \ {0}
  /\ \A v \in 1 .. Len(Versions) :
       /\ Len(Versions[v]) \in Nat \ {0}
       /\ DOMAIN Versions[v] = 1 .. Len(Versions[v])
       /\ \A i, j \in DOMAIN Versions[v] : Versions[v][i] = Versions[v][j] => i = j
  /\ \A v, w \in 1 .. Len(Versions) : Len(Versions[v]) = Len(Versions[w]) => v = w
  /\ \A u, v, w \in 1 .. Len(Versions) : u <= v /\ v <= w =>
       Schema!Columns(u) \cap Schema!Columns(w) \subseteq Schema!Columns(v)

Default(c) == <<c, 0>>

(* A row of version v: none, or a value for each column. *)
RowOf(row, v) ==
  row = Schema!NoRow \/ row = [c \in Schema!Columns(v) |-> row[c]]

(* The version of the source's table after the first n events. *)
DdlsOf(l, n) == {i \in 1 .. n : l[i].kind = "ddl"}
VersionOf(l, n) == 1 + Cardinality(DdlsOf(l, n))
VersionAt(n) == VersionOf(log, n)

(* A target row of version v is in step with a source row of version w:    *)
(* it has the values of the columns that both have, and the defaults in    *)
(* those that the source's table has still to get.                         *)
InStep(row, v, original, w) ==
  /\ row = Schema!NoRow <=> original = Schema!NoRow
  /\ row # Schema!NoRow =>
       \A c \in Schema!Columns(v) :
         row[c] = IF c \in Schema!Columns(w) THEN original[c] ELSE Default(c)

(* What the n-th event of the log made of the source's rows. *)
Leads(l, before, n, after) ==
  CASE l[n].kind = "ddl" -> after = Schema!AlteredRows(before, VersionOf(l, n))
    [] l[n].kind = "row" ->
         /\ l[n].id \in Ids /\ l[n].key \in Keys /\ l[n].named \in BOOLEAN
         /\ l[n].version = VersionOf(l, n)
         /\ l[n].before = Schema!Image(before[l[n].key], VersionOf(l, n))
         /\ l[n].after = Schema!Image(after[l[n].key], VersionOf(l, n))
         /\ after[l[n].key] # before[l[n].key]
         /\ \A k \in Keys : k # l[n].key => after[k] = before[k]
    [] OTHER -> l[n].kind = "other" /\ l[n].id \in Ids /\ after = before

(* The source's rows after each event of the log: the past of the source   *)
(* that the binlog stands for.                                             *)
IsPast(history) ==
  /\ DOMAIN history = 0 .. Len(log)
  /\ history[Len(log)] = source
  /\ \A n \in 0 .. Len(log), k \in Keys : RowOf(history[n][k], VersionAt(n))
  /\ \A n \in 1 .. Len(log) : Leads(log, history[n - 1], n, history[n])

(* The target's rows are in step with the source's at the stream's         *)
(* position, except those of which a change was skipped.                   *)
Follows(history) ==
  \A k \in Keys : (\A s \in skipped : s.key # k) =>
    InStep(rows[k], target, history[pos][k], VersionAt(pos))

SchemaTypes ==
  /\ log = [i \in 1 .. Len(log) |-> log[i]] /\ Len(log) \in Nat
  /\ pos \in Nat /\ pos <= Len(log)
  /\ version = VersionAt(Len(log)) /\ version \in 1 .. Len(Versions)
  /\ target \in VersionAt(pos) .. version
  /\ \A k \in Keys : RowOf(rows[k], target)
  /\ DOMAIN rows = Keys /\ DOMAIN source = Keys
  /\ DOMAIN registry = Ids
  /\ mapped \in BOOLEAN

(* A cached inventory is not older than the events to come.  A table map   *)
(* that was accepted has the columns of its event; one that was not finds  *)
(* the target ahead.                                                       *)
MapInv ==
  /\ cache = 0 \/ cache \in VersionAt(pos) .. target
  /\ mapped => pos < Len(log) /\ log[pos + 1].kind \in {"row", "other"}
  /\ mapped /\ log[pos + 1].kind = "other" => log[pos + 1].id \in ignored
  /\ mapped /\ log[pos + 1].kind = "row" =>
       IF log[pos + 1].id \in ignored THEN target > log[pos + 1].version
       ELSE registry[log[pos + 1].id] = Versions[log[pos + 1].version]
  /\ \A s \in skipped : s.ahead

SchemaInv ==
  /\ SchemaTypes /\ MapInv
  /\ \E history : IsPast(history) /\ Follows(history)

-----------------------------------------------------------------------------
(* Rows and images *)

LEMMA VersionColumns ==
  ASSUME TellApart, NEW v \in 1 .. Len(Versions)
  PROVE  \E c : c \in Schema!Columns(v)
<1>1. 1 \in DOMAIN Versions[v]
  BY DEF TellApart
<1>2. Versions[v][1] \in Schema!Columns(v)
  BY <1>1 DEF Schema!Columns
<1>3. QED
  BY <1>2

(* A row with a column is not the absence of a row. *)
LEMMA SomeRow ==
  ASSUME TellApart, NEW v \in 1 .. Len(Versions), NEW row, row = [c \in Schema!Columns(v) |-> row[c]]
  PROVE  row # Schema!NoRow
<1>1. DOMAIN row = Schema!Columns(v)
  OBVIOUS
<1>2. DOMAIN row # {}
  BY <1>1, VersionColumns
<1>3. DOMAIN Schema!NoRow = {}
  BY DEF Schema!NoRow
<1>4. QED
  BY <1>2, <1>3

(* map_row_data gets the row back from an image read with its own columns. *)
LEMMA ImageOfRow ==
  ASSUME TellApart, NEW v \in 1 .. Len(Versions), NEW row, RowOf(row, v)
  PROVE  /\ Schema!Image(row, v) = Schema!NoRow <=> row = Schema!NoRow
         /\ row # Schema!NoRow => Schema!map_row_data(Versions[v], Schema!Image(row, v)) = row
<1> DEFINE image == [i \in DOMAIN Versions[v] |-> row[Versions[v][i]]]
<1>1. CASE row = Schema!NoRow
  BY <1>1 DEF Schema!Image
<1>2. CASE row # Schema!NoRow
  <2>1. Schema!Image(row, v) = image
    BY <1>2 DEF Schema!Image
  <2>2. image # Schema!NoRow
    <3>1. DOMAIN image = DOMAIN Versions[v] /\ 1 \in DOMAIN Versions[v]
      BY DEF TellApart
    <3>2. DOMAIN Schema!NoRow = {}
      BY DEF Schema!NoRow
    <3>3. QED
      BY <3>1, <3>2
  <2>3. \A c \in Schema!Columns(v) :
          image[CHOOSE i \in DOMAIN Versions[v] : Versions[v][i] = c] = row[c]
    <3>1. SUFFICES ASSUME NEW c \in Schema!Columns(v)
                   PROVE  image[CHOOSE i \in DOMAIN Versions[v] : Versions[v][i] = c] = row[c]
      BY Zenon
    <3>2. \E i \in DOMAIN Versions[v] : Versions[v][i] = c
      BY DEF Schema!Columns
    <3>3. PICK i \in DOMAIN Versions[v] :
            /\ Versions[v][i] = c
            /\ i = CHOOSE j \in DOMAIN Versions[v] : Versions[v][j] = c
      BY <3>2
    <3>4. QED
      BY <3>3
  <2>4. row = [c \in Schema!Columns(v) |-> row[c]]
    BY <1>2 DEF RowOf
  <2>5. Schema!map_row_data(Versions[v], image)
          = [c \in Schema!Columns(v) |-> image[CHOOSE i \in DOMAIN Versions[v] : Versions[v][i] = c]]
    BY DEF Schema!map_row_data, Schema!Columns
  <2> HIDE DEF image
  <2>6. Schema!map_row_data(Versions[v], image) = row
    BY <2>3, <2>4, <2>5, Zenon
  <2>7. QED
    BY <1>2, <2>1, <2>2, <2>6
<1>3. QED
  BY <1>1, <1>2

(* What ALTER TABLE makes of a row. *)
LEMMA AlteredRow ==
  ASSUME TellApart, NEW v \in 1 .. Len(Versions), NEW w \in 1 .. Len(Versions), NEW row, RowOf(row, v)
  PROVE  /\ RowOf(Schema!Altered(row, w), w)
         /\ Schema!Altered(row, w) = Schema!NoRow <=> row = Schema!NoRow
         /\ row # Schema!NoRow =>
              \A c \in Schema!Columns(w) :
                Schema!Altered(row, w)[c] = IF c \in Schema!Columns(v) THEN row[c] ELSE Default(c)
<1>1. CASE row = Schema!NoRow
  BY <1>1 DEF Schema!Altered, RowOf
<1>2. CASE row # Schema!NoRow
  <2>1. DOMAIN row = Schema!Columns(v)
    BY <1>2 DEF RowOf
  <2>2. Schema!Altered(row, w)
          = [c \in Schema!Columns(w) |-> IF c \in Schema!Columns(v) THEN row[c] ELSE Default(c)]
    BY <1>2, <2>1 DEF Schema!Altered, Default
  <2>3. Schema!Altered(row, w) = [c \in Schema!Columns(w) |-> Schema!Altered(row, w)[c]]
    BY <2>2
  <2>4. QED
    BY <1>2, <2>2, <2>3, SomeRow DEF RowOf
<1>3. QED
  BY <1>1, <1>2

(* The source's ALTER TABLE comes, and the target has it already. *)
LEMMA SourceCatchesUp ==
  ASSUME TellApart, NEW v \in 1 .. Len(Versions), NEW w \in Nat, 1 <= w, w + 1 <= v,
         NEW row, NEW original, RowOf(original, w), InStep(row, v, original, w)
  PROVE  InStep(row, v, Schema!Altered(original, w + 1), w + 1)
<1>1. w \in 1 .. Len(Versions) /\ w + 1 \in 1 .. Len(Versions)
  BY DEF TellApart
<1>2. /\ Schema!Altered(original, w + 1) = Schema!NoRow <=> original = Schema!NoRow
      /\ original # Schema!NoRow =>
           \A c \in Schema!Columns(w + 1) :
             Schema!Altered(original, w + 1)[c] = IF c \in Schema!Columns(w) THEN original[c] ELSE Default(c)
  BY <1>1, AlteredRow
<1>3. Schema!Columns(w) \cap Schema!Columns(v) \subseteq Schema!Columns(w + 1)
  BY <1>1 DEF TellApart
<1>4. QED
  BY <1>2, <1>3 DEF InStep

(* The target's table is altered, by the stream or ahead of it. *)
LEMMA TargetGoesAhead ==
  ASSUME TellApart, NEW v \in 1 .. Len(Versions), NEW w \in 1 .. v, NEW x \in v .. Len(Versions),
         NEW row, NEW original, RowOf(row, v), InStep(row, v, original, w)
  PROVE  InStep(Schema!Altered(row, x), x, original, w)
<1>1. w \in 1 .. Len(Versions) /\ x \in 1 .. Len(Versions) /\ w <= v /\ v <= x
  BY DEF TellApart
<1>2. /\ Schema!Altered(row, x) = Schema!NoRow <=> row = Schema!NoRow
      /\ row # Schema!NoRow =>
           \A c \in Schema!Columns(x) :
             Schema!Altered(row, x)[c] = IF c \in Schema!Columns(v) THEN row[c] ELSE Default(c)
  BY <1>1, AlteredRow
<1>3. Schema!Columns(w) \cap Schema!Columns(x) \subseteq Schema!Columns(v)
  BY <1>1 DEF TellApart
<1>4. QED
  BY <1>2, <1>3 DEF InStep

-----------------------------------------------------------------------------
(* Versions along the log *)

LEMMA VersionIsCount ==
  ASSUME NEW l, NEW n \in Nat
  PROVE  /\ VersionOf(l, n) \in Nat /\ VersionOf(l, n) >= 1
         /\ VersionOf(l, n + 1) = IF l[n + 1].kind = "ddl" THEN VersionOf(l, n) + 1 ELSE VersionOf(l, n)
         /\ VersionOf(l, 0) = 1
<1>1. \A m \in Nat : IsFiniteSet(DdlsOf(l, m))
  <2>1. SUFFICES ASSUME NEW m \in Nat PROVE IsFiniteSet(DdlsOf(l, m))
    OBVIOUS
  <2>2. IsFiniteSet(1 .. m) /\ DdlsOf(l, m) \in SUBSET (1 .. m)
    BY FS_Interval DEF DdlsOf
  <2>3. QED
    BY <2>2, FS_Subset
<1>2. Cardinality(DdlsOf(l, n)) \in Nat
  BY <1>1, FS_CardinalityType
<1>3. VersionOf(l, 0) = 1
  <2>1. DdlsOf(l, 0) = {}
    BY DEF DdlsOf
  <2>2. QED
    BY <2>1, FS_EmptySet DEF VersionOf
<1>4. CASE l[n + 1].kind = "ddl"
  <2>1. DdlsOf(l, n + 1) = DdlsOf(l, n) \cup {n + 1} /\ n + 1 \notin DdlsOf(l, n)
    BY <1>4 DEF DdlsOf
  <2>2. Cardinality(DdlsOf(l, n + 1)) = Cardinality(DdlsOf(l, n)) + 1
    BY <1>1, <2>1, FS_AddElement
  <2>3. QED
    BY <1>2, <1>3, <1>4, <2>2 DEF VersionOf
<1>5. CASE l[n + 1].kind # "ddl"
  <2>1. DdlsOf(l, n + 1) = DdlsOf(l, n)
    BY <1>5 DEF DdlsOf
  <2>2. QED
    BY <1>2, <1>3, <1>5, <2>1 DEF VersionOf
<1>6. QED
  BY <1>4, <1>5

LEMMA VersionGrows ==
  ASSUME NEW l, NEW m \in Nat, NEW n \in Nat, m <= n
  PROVE  VersionOf(l, m) <= VersionOf(l, n)
<1>1. IsFiniteSet(1 .. n) /\ DdlsOf(l, n) \in SUBSET (1 .. n)
  <2>1. IsFiniteSet(1 .. n)
    BY FS_Interval
  <2>2. QED
    BY <2>1 DEF DdlsOf
<1>2. IsFiniteSet(DdlsOf(l, n))
  BY <1>1, FS_Subset
<1>3. DdlsOf(l, m) \in SUBSET DdlsOf(l, n)
  BY DEF DdlsOf
<1>4. Cardinality(DdlsOf(l, m)) <= Cardinality(DdlsOf(l, n))
  BY <1>2, <1>3, FS_Subset
<1>5. Cardinality(DdlsOf(l, m)) \in Nat /\ Cardinality(DdlsOf(l, n)) \in Nat
  BY <1>2, <1>3, FS_Subset, FS_CardinalityType
<1>6. QED
  BY <1>4, <1>5 DEF VersionOf

(* What has been written stays written. *)
LEMMA VersionStays ==
  ASSUME NEW n \in Nat, \A i \in 1 .. n : log'[i] = log[i]
  PROVE  VersionAt(n)' = VersionAt(n)
<1>1. DdlsOf(log', n) = DdlsOf(log, n)
  BY DEF DdlsOf
<1>2. QED
  BY <1>1 DEF VersionAt, VersionOf

LEMMA SchemaInit == ASSUME TellApart, Schema!Init PROVE SchemaInv
<1> USE DEF Schema!Init
<1>1. Len(log) = 0 /\ VersionAt(0) = 1 /\ 1 \in 1 .. Len(Versions)
  BY VersionIsCount DEF TellApart, VersionAt
<1>2. /\ DOMAIN source = Keys
      /\ \A k \in Keys : source[k] \in {Schema!NoRow, [c \in Schema!Columns(1) |-> <<c, 0>>]}
  OBVIOUS
<1>3. \A k \in Keys : RowOf(source[k], 1)
  BY <1>2 DEF RowOf
<1>4. SchemaTypes
  <2>1. log = [i \in 1 .. 0 |-> log[i]]
    OBVIOUS
  <2>2. DOMAIN registry = Ids
    BY DEF Schema!NoMaps
  <2>3. target \in VersionAt(pos) .. version
    BY <1>1
  <2>4. \A k \in Keys : RowOf(rows[k], target)
    BY <1>3
  <2>5. log = [i \in 1 .. Len(log) |-> log[i]] /\ Len(log) \in Nat /\ version = VersionAt(Len(log))
    BY <1>1, <2>1
  <2>6. /\ DOMAIN rows = Keys
        /\ pos \in Nat /\ pos <= Len(log) /\ version \in 1 .. Len(Versions)
    BY <1>1, <1>2
  <2>7. mapped \in BOOLEAN
    BY Zenon
  <2> HIDE DEF Schema!Init
  <2>8. QED
    BY <1>2, <2>2, <2>3, <2>4, <2>5, <2>6, <2>7 DEF SchemaTypes
<1>5. MapInv
  BY DEF MapInv
<1>6. PICK history : history = [n \in 0 .. 0 |-> source]
  BY Zenon
<1>7. IsPast(history)
  BY <1>1, <1>3, <1>6 DEF IsPast
<1>8. \A k \in Keys : InStep(source[k], 1, source[k], 1)
  BY DEF InStep
<1>9. Follows(history)
  BY <1>1, <1>6, <1>8 DEF Follows
<1>10. QED
  BY <1>4, <1>5, <1>7, <1>9 DEF SchemaInv

-----------------------------------------------------------------------------
(* The log is known by its values only, not as a sequence over some set. *)
LEMMA Appended ==
  ASSUME NEW l, NEW e, Len(l) \in Nat, l = [i \in 1 .. Len(l) |-> l[i]]
  PROVE  /\ Len(Append(l, e)) = Len(l) + 1 /\ Append(l, e)[Len(l) + 1] = e
         /\ \A i \in 1 .. Len(l) : Append(l, e)[i] = l[i]
         /\ Append(l, e) = [i \in 1 .. Len(l) + 1 |-> Append(l, e)[i]]
<1>1. PICK S : S = {l[i] : i \in 1 .. Len(l)} \cup {e}
  BY Zenon
<1>2. l \in [1 .. Len(l) -> S]
  BY <1>1
<1>3. l \in Seq(S)
  BY <1>2, SeqDef
<1>4. e \in S
  BY <1>1
<1>5. /\ Append(l, e) \in Seq(S)
      /\ Len(Append(l, e)) = Len(l) + 1 /\ Append(l, e)[Len(l) + 1] = e
      /\ \A i \in 1 .. Len(l) : Append(l, e)[i] = l[i]
  BY <1>3, <1>4, AppendProperties
<1>6. Append(l, e) = [i \in 1 .. Len(Append(l, e)) |-> Append(l, e)[i]]
  <2>1. PICK more \in Seq(S) : more = Append(l, e)
    BY <1>5, Zenon
  <2>2. more = [i \in 1 .. Len(more) |-> more[i]]
    OBVIOUS
  <2>3. QED
    BY <2>1, <2>2
<1>7. QED
  BY <1>5, <1>6

(* The source writes an event; the target and the stream rest. *)
LEMMA SchemaSource ==
  ASSUME TellApart, SchemaInv, NEW e, NEW old, old = source,
         log' = Append(log, e),
         e.kind = "ddl" => version' = version + 1 /\ version' <= Len(Versions),
         e.kind # "ddl" => version' = version,
         DOMAIN source' = Keys, \A k \in Keys : RowOf(source'[k], version'),
         Leads(log', old, Len(log'), source'),
         UNCHANGED <<target, rows, pos, mapped, cache, registry, ignored, skipped>>
  PROVE  SchemaInv'
<1>0. SchemaTypes /\ MapInv
  BY DEF SchemaInv
<1>1. PICK L \in Nat : L = Len(log)
  BY <1>0 DEF SchemaTypes
<1>2. /\ Len(log') = L + 1 /\ log'[L + 1] = e
      /\ \A i \in 1 .. L : log'[i] = log[i]
      /\ log' = [i \in 1 .. L + 1 |-> log'[i]]
  BY <1>0, <1>1, Appended DEF SchemaTypes
<1>3. \A n \in 0 .. L : VersionAt(n)' = VersionAt(n)
  BY <1>2, VersionStays
<1>4. VersionAt(L + 1)' = IF e.kind = "ddl" THEN VersionAt(L) + 1 ELSE VersionAt(L)
  <2>1. VersionAt(L + 1)' = IF log'[L + 1].kind = "ddl" THEN VersionAt(L)' + 1 ELSE VersionAt(L)'
    BY VersionIsCount, Zenon DEF VersionAt
  <2>2. QED
    BY <1>2, <1>3, <2>1
<1>5. version' = VersionAt(L + 1)' /\ version' \in 1 .. Len(Versions) /\ version <= version'
  BY <1>0, <1>1, <1>4 DEF SchemaTypes
<1>6. pos \in 0 .. L /\ VersionAt(pos)' = VersionAt(pos)
  <2>1. PICK p : p = pos
    OBVIOUS
  <2>2. p \in 0 .. L
    BY <1>0, <1>1, <2>1 DEF SchemaTypes
  <2>3. VersionAt(p)' = VersionAt(p)
    BY <1>3, <2>2
  <2>4. QED
    BY <2>1, <2>2, <2>3 DEF VersionAt
<1>7. SchemaTypes'
  <2>1. target' \in VersionAt(pos)' .. version'
    BY <1>0, <1>5, <1>6, VersionIsCount DEF SchemaTypes, VersionAt
  <2>2. (\A k \in Keys : RowOf(rows[k], target))'
    BY <1>0 DEF SchemaTypes
  <2>3. version' = VersionAt(Len(log))'
    BY <1>2, <1>5
  <2>4. QED
    BY <1>0, <1>1, <1>2, <1>5, <1>6, <2>1, <2>2, <2>3 DEF SchemaTypes
<1>8. MapInv'
  <2>1. pos + 1 \in 1 .. L => log'[pos + 1] = log[pos + 1]
    BY <1>2, <1>6
  <2>2. mapped => pos + 1 \in 1 .. L
    BY <1>0, <1>1, <1>6 DEF MapInv
  <2>3. QED
    BY <1>0, <1>1, <1>2, <1>6, <2>1, <2>2 DEF MapInv
<1>9. PICK history : IsPast(history) /\ Follows(history)
  BY DEF SchemaInv
<1>10. PICK now : now = source'
  OBVIOUS
<1>11. PICK longer : longer = [n \in 0 .. L + 1 |-> IF n <= L THEN history[n] ELSE now]
  BY Zenon
<1>12. IsPast(longer)'
  <2>1. /\ DOMAIN longer = 0 .. L + 1 /\ longer[L + 1] = now
        /\ \A n \in 0 .. L : longer[n] = history[n]
    BY <1>11
  <2>2. \A n \in 0 .. L + 1, k \in Keys : RowOf(longer[n][k], VersionAt(n))'
    <3>1. ASSUME NEW n \in 0 .. L, NEW k \in Keys PROVE RowOf(longer[n][k], VersionAt(n))'
      <4>1. RowOf(history[n][k], VersionAt(n))
        BY <1>1, <1>9 DEF IsPast
      <4>2. QED
        BY <1>3, <2>1, <4>1 DEF RowOf
    <3>2. ASSUME NEW k \in Keys PROVE RowOf(longer[L + 1][k], VersionAt(L + 1))'
      BY <1>5, <1>10, <2>1 DEF RowOf
    <3>3. QED
      BY <3>1, <3>2
  <2>3. \A n \in 1 .. L + 1 : Leads(log', longer[n - 1], n, longer[n])
    <3>1. ASSUME NEW n \in 1 .. L PROVE Leads(log', longer[n - 1], n, longer[n])
      <4>1. Leads(log, history[n - 1], n, history[n])
        BY <1>1, <1>9 DEF IsPast
      <4>2. longer[n - 1] = history[n - 1] /\ longer[n] = history[n]
        BY <2>1
      <4>3. VersionOf(log', n) = VersionOf(log, n) /\ log'[n] = log[n]
        BY <1>2, <1>3 DEF VersionAt
      <4>4. QED
        BY <4>1, <4>2, <4>3 DEF Leads
    <3>2. Leads(log', longer[L], L + 1, longer[L + 1])
      <4>1. longer[L] = old /\ longer[L + 1] = source'
        BY <1>1, <1>9, <1>10, <2>1 DEF IsPast
      <4>2. Leads(log', old, L + 1, now)
        BY <1>2, <1>10
      <4>3. QED
        BY <1>10, <4>1, <4>2
    <3>3. \A n \in 1 .. L + 1 : n \in 1 .. L \/ (n = L + 1 /\ n - 1 = L)
      OBVIOUS
    <3>4. QED
      BY <3>1, <3>2, <3>3
  <2>4. QED
    BY <1>2, <1>10, <2>1, <2>2, <2>3 DEF IsPast
<1>13. Follows(longer)'
  <2>1. longer[pos] = history[pos]
    BY <1>6, <1>11
  <2>2. QED
    BY <1>6, <1>9, <2>1 DEF Follows, InStep
<1>14. QED
  BY <1>7, <1>8, <1>12, <1>13 DEF SchemaInv

(* The stream, a schema sync or a restart moves; the source rests. *)
LEMMA SchemaKept ==
  ASSUME SchemaInv, UNCHANGED <<log, source, version>>, SchemaTypes', MapInv',
         \A history : IsPast(history) /\ Follows(history) => Follows(history)'
  PROVE  SchemaInv'
<1>1. PICK history : IsPast(history) /\ Follows(history)
  BY DEF SchemaInv
<1>2. IsPast(history)'
  <2>1. \A n : VersionAt(n)' = VersionAt(n)
    BY DEF VersionAt
  <2>2. \A n, a, b : Leads(log', a, n, b) = Leads(log, a, n, b)
    OBVIOUS
  <2>3. QED
    BY <1>1, <2>1, <2>2 DEF IsPast
<1>3. QED
  BY <1>1, <1>2 DEF SchemaInv

LEMMA SchemaSyncs ==
  ASSUME TellApart, SchemaInv, Schema!SchemaSync
  PROVE  SchemaInv'
<1>0. SchemaTypes /\ MapInv
  BY DEF SchemaInv
<1>1. /\ target < version /\ target' = version
      /\ rows' = [k \in Keys |-> Schema!Altered(rows[k], version)]
      /\ UNCHANGED <<version, source, log, pos, mapped, cache, registry, ignored, skipped>>
  BY DEF Schema!SchemaSync, Schema!sourceVars, Schema!session, Schema!AlteredRows
<1>2. VersionAt(pos)' = VersionAt(pos) /\ VersionAt(Len(log))' = VersionAt(Len(log))
  BY <1>1 DEF VersionAt
<1>3. /\ VersionAt(pos) \in Nat /\ VersionAt(pos) >= 1
      /\ target \in 1 .. Len(Versions) /\ version \in target .. Len(Versions)
      /\ VersionAt(pos) \in 1 .. target
  BY <1>0, VersionIsCount DEF SchemaTypes, TellApart, VersionAt
<1>4. SchemaTypes'
  <2>1. \A k \in Keys : RowOf(rows'[k], version)
    BY <1>0, <1>1, <1>3, AlteredRow DEF SchemaTypes, TellApart
  <2>2. QED
    BY <1>0, <1>1, <1>2, <1>3, <2>1 DEF SchemaTypes
<1>5. MapInv'
  <2>1. cache = 0 \/ cache \in VersionAt(pos) .. version
    BY <1>0, <1>1, <1>3, SMTT(30) DEF MapInv
  <2>2. mapped /\ log[pos + 1].kind = "row" /\ log[pos + 1].id \in ignored => version > log[pos + 1].version
    <3>1. SUFFICES ASSUME mapped, log[pos + 1].kind = "row", log[pos + 1].id \in ignored
                   PROVE  version > log[pos + 1].version
      OBVIOUS
    <3>2. target > log[pos + 1].version
      BY <1>0, <3>1 DEF MapInv
    <3>3. log[pos + 1].version \in Nat
      <4>1. PICK history : IsPast(history)
        BY DEF SchemaInv
      <4>2. pos \in Nat /\ pos + 1 \in 1 .. Len(log)
        BY <1>0, <3>1 DEF MapInv, SchemaTypes
      <4>3. Leads(log, history[pos + 1 - 1], pos + 1, history[pos + 1])
        BY <4>1, <4>2 DEF IsPast
      <4>4. log[pos + 1].version = VersionAt(pos + 1)
        BY <3>1, <4>3 DEF Leads, VersionAt
      <4>5. QED
        BY <4>2, <4>4, VersionIsCount DEF VersionAt
    <3>4. QED
      BY <1>1, <1>3, <3>2, <3>3
  <2>3. QED
    BY <1>0, <1>1, <1>2, <2>1, <2>2 DEF MapInv
<1>6. ASSUME NEW history, IsPast(history), Follows(history) PROVE Follows(history)'
  <2>1. SUFFICES ASSUME NEW k \in Keys, \A s \in skipped : s.key # k
                 PROVE  InStep(Schema!Altered(rows[k], version), version, history[pos][k], VersionAt(pos))
    BY <1>1, <1>2 DEF Follows, InStep
  <2>2. InStep(rows[k], target, history[pos][k], VersionAt(pos)) /\ RowOf(rows[k], target)
    BY <1>0, <1>6, <2>1 DEF Follows, SchemaTypes
  <2>3. QED
    BY <1>3, <2>2, TargetGoesAhead
<1>7. QED
  BY <1>1, <1>4, <1>5, <1>6, SchemaKept

(* The event at the stream's position, and the rows around it. *)
LEMMA EventAhead ==
  ASSUME TellApart, SchemaInv, pos < Len(log), NEW history, IsPast(history)
  PROVE  /\ pos \in Nat /\ pos + 1 \in 1 .. Len(log)
         /\ Leads(log, history[pos], pos + 1, history[pos + 1])
         /\ VersionAt(pos) \in Nat /\ VersionAt(pos) >= 1
         /\ VersionAt(pos + 1) = IF log[pos + 1].kind = "ddl" THEN VersionAt(pos) + 1 ELSE VersionAt(pos)
         /\ VersionAt(pos + 1) <= version
         /\ \A k \in Keys : RowOf(history[pos][k], VersionAt(pos)) /\ RowOf(history[pos + 1][k], VersionAt(pos + 1))
<1>1. pos \in Nat /\ pos + 1 \in 1 .. Len(log) /\ pos \in 0 .. Len(log) /\ Len(log) \in Nat
  BY DEF SchemaInv, SchemaTypes
<1>2. Leads(log, history[pos + 1 - 1], pos + 1, history[pos + 1]) /\ pos + 1 - 1 = pos
  BY <1>1 DEF IsPast
<1>3. VersionAt(pos + 1) <= VersionAt(Len(log))
  BY <1>1, VersionGrows DEF VersionAt
<1>4. QED
  BY <1>1, <1>2, <1>3, VersionIsCount DEF VersionAt, IsPast, SchemaInv, SchemaTypes

LEMMA SchemaMaps ==
  ASSUME TellApart, SchemaInv, Schema!apply_table_map_event
  PROVE  SchemaInv'
<1>0. SchemaTypes /\ MapInv
  BY DEF SchemaInv
<1> DEFINE e == log[pos + 1]
<1>1. /\ pos < Len(log) /\ e.kind \in {"row", "other"} /\ mapped' = TRUE
      /\ UNCHANGED <<version, source, log, target, rows, pos, skipped>>
  BY DEF Schema!apply_table_map_event, Schema!sourceVars
<1>2. PICK history : IsPast(history)
  BY DEF SchemaInv
<1>3. /\ pos \in Nat /\ Leads(log, history[pos], pos + 1, history[pos + 1])
      /\ VersionAt(pos) \in Nat /\ VersionAt(pos) >= 1
      /\ VersionAt(pos + 1) = VersionAt(pos)
  BY <1>1, <1>2, EventAhead
<1>4. VersionAt(pos)' = VersionAt(pos) /\ VersionAt(Len(log))' = VersionAt(Len(log))
  BY <1>1 DEF VersionAt
<1>5. target \in 1 .. Len(Versions) /\ VersionAt(pos) \in 1 .. Len(Versions)
  BY <1>0, <1>3 DEF SchemaTypes, TellApart
<1>6. Schema!CachedVersion \in VersionAt(pos) .. target
  BY <1>0, <1>3 DEF Schema!CachedVersion, MapInv, SchemaTypes
<1>7. (\A k \in Keys : RowOf(rows[k], target))'
  BY <1>0, <1>1 DEF SchemaTypes
<1>8. CASE e.kind = "other"
  <2>1. ignored' = ignored \cup {e.id} /\ UNCHANGED <<cache, registry>>
    BY <1>8 DEF Schema!apply_table_map_event
  <2>2. SchemaTypes'
    BY <1>0, <1>1, <1>4, <1>7, <2>1 DEF SchemaTypes
  <2>3. MapInv'
    BY <1>0, <1>1, <1>4, <1>8, <2>1 DEF MapInv
  <2>4. \A p : Follows(p) => Follows(p)'
    BY <1>1, <1>4 DEF Follows, InStep
  <2>5. QED
    BY <1>1, <2>2, <2>3, <2>4, SchemaKept
<1>9. CASE e.kind = "row"
  <2> DEFINE columns == Schema!resolve_table_schema(e)
             matches == Schema!column_count_matches(Len(Versions[e.version]), columns)
  <2>1. /\ cache' \in {cache, Schema!CachedVersion}
        /\ IF matches
           THEN ignored' = ignored \ {e.id} /\ registry' = [registry EXCEPT ![e.id] = columns]
           ELSE ignored' = ignored \cup {e.id} /\ UNCHANGED registry
    BY <1>9 DEF Schema!apply_table_map_event
  <2>2. e.version = VersionAt(pos) /\ e.id \in Ids /\ e.named \in BOOLEAN
    BY <1>3, <1>9 DEF Leads, VersionAt
  <2>3. columns = IF e.named THEN Versions[e.version] ELSE Versions[Schema!CachedVersion]
    BY DEF Schema!resolve_table_schema, Schema!build_inventory_table_schema
  <2>4. Schema!CachedVersion \in 1 .. Len(Versions)
    BY <1>3, <1>5, <1>6
  <2>5. matches <=> Len(columns) = Len(Versions[e.version])
    BY DEF Schema!column_count_matches
  <2>6. matches => columns = Versions[e.version]
    BY <1>5, <2>2, <2>3, <2>4, <2>5 DEF TellApart
  <2>7. ~ matches => target > e.version
    BY <1>3, <1>5, <1>6, <2>2, <2>3, <2>5
  <2>8. cache' = 0 \/ cache' \in VersionAt(pos) .. target
    BY <1>0, <1>6, <2>1 DEF MapInv
  <2> HIDE DEF columns, matches
  <2>9. SchemaTypes'
    BY <1>0, <1>1, <1>4, <1>7, <2>1 DEF SchemaTypes
  <2>10. IF e.id \in ignored' THEN target > e.version ELSE registry'[e.id] = Versions[e.version]
    BY <1>0, <2>1, <2>2, <2>6, <2>7 DEF SchemaTypes
  <2>11. MapInv'
    BY <1>0, <1>1, <1>4, <1>9, <2>8, <2>10 DEF MapInv
  <2>12. \A p : Follows(p) => Follows(p)'
    BY <1>1, <1>4 DEF Follows, InStep
  <2>13. QED
    BY <1>1, <2>9, <2>11, <2>12, SchemaKept
<1>10. QED
  BY <1>1, <1>8, <1>9

-----------------------------------------------------------------------------
(* Row events *)

(* What a statement with the right columns makes of a row. *)
LEMMA ExecutedRow ==
  ASSUME TellApart, NEW e, NEW w \in 1 .. Len(Versions), NEW before, NEW after,
         RowOf(before, w), RowOf(after, w), before # after, target \in 1 .. Len(Versions),
         e.before = Schema!Image(before, w), e.after = Schema!Image(after, w),
         RowOf(rows[e.key], target)
  PROVE  LET row == Schema!Executed(e, Schema!Assigned(e, Versions[w]))
         IN /\ RowOf(row, target)
            /\ InStep(rows[e.key], target, before, w) => InStep(row, target, after, w)
<1> DEFINE assigned == Schema!Assigned(e, Versions[w])
           row == Schema!Executed(e, assigned)
           old == rows[e.key]
<1>1. /\ e.before = Schema!NoRow <=> before = Schema!NoRow
      /\ e.after = Schema!NoRow <=> after = Schema!NoRow
      /\ before # Schema!NoRow => Schema!map_row_data(Versions[w], e.before) = before
      /\ after # Schema!NoRow => Schema!map_row_data(Versions[w], e.after) = after
  BY ImageOfRow
<1>2. CASE after = Schema!NoRow
  <2>1. row = Schema!NoRow
    <3> HIDE DEF assigned
    <3>1. e.after = Schema!NoRow /\ e.before # Schema!NoRow
      BY <1>1, <1>2
    <3>2. QED
      BY <3>1 DEF Schema!Executed
  <2>2. QED
    BY <1>2, <2>1 DEF RowOf, InStep
<1>3. CASE after # Schema!NoRow /\ before = Schema!NoRow
  <2>1. assigned = after
    BY <1>1, <1>3 DEF Schema!Assigned
  <2>2. DOMAIN after = Schema!Columns(w)
    BY <1>3 DEF RowOf
  <2>3. row = [c \in Schema!Columns(target) |-> IF c \in DOMAIN assigned THEN assigned[c] ELSE <<c, 0>>]
    BY <1>1, <1>3 DEF Schema!Executed
  <2> HIDE DEF assigned, row
  <2>4. row = [c \in Schema!Columns(target) |-> row[c]]
    BY <2>3
  <2>5. row # Schema!NoRow
    BY <2>4, SomeRow
  <2>6. \A c \in Schema!Columns(target) : row[c] = IF c \in Schema!Columns(w) THEN after[c] ELSE Default(c)
    BY <2>1, <2>2, <2>3 DEF Default
  <2>7. RowOf(row, target) /\ InStep(row, target, after, w)
    BY <1>3, <2>4, <2>5, <2>6 DEF RowOf, InStep
  <2>8. QED
    BY <2>7 DEF row, assigned
<1>4. CASE after # Schema!NoRow /\ before # Schema!NoRow
  <2>1. /\ DOMAIN after = Schema!Columns(w) /\ DOMAIN before = Schema!Columns(w)
    BY <1>4 DEF RowOf
  <2>2. assigned = [c \in {d \in Schema!Columns(w) : before[d] # after[d]} |-> after[c]]
    BY <1>1, <1>4, <2>1 DEF Schema!Assigned, Schema!changed_columns
  <2>3. row = IF old = Schema!NoRow THEN Schema!NoRow
              ELSE [c \in Schema!Columns(target) |-> IF c \in DOMAIN assigned THEN assigned[c] ELSE old[c]]
    BY <1>1, <1>4 DEF Schema!Executed
  <2> HIDE DEF assigned, row
  <2>4. CASE old = Schema!NoRow
    <3>1. RowOf(row, target) /\ ~ InStep(old, target, before, w)
      BY <1>4, <2>3, <2>4 DEF RowOf, InStep
    <3>2. QED
      BY <3>1 DEF row, assigned
  <2>5. CASE old # Schema!NoRow
    <3>1. row = [c \in Schema!Columns(target) |-> row[c]]
      BY <2>3, <2>5
    <3>2. row # Schema!NoRow
      BY <3>1, SomeRow
    <3>3. ASSUME InStep(old, target, before, w) PROVE InStep(row, target, after, w)
      <4>1. \A c \in Schema!Columns(target) : old[c] = IF c \in Schema!Columns(w) THEN before[c] ELSE Default(c)
        BY <2>5, <3>3 DEF InStep
      <4>2. \A c \in Schema!Columns(target) : row[c] = IF c \in Schema!Columns(w) THEN after[c] ELSE Default(c)
        BY <2>2, <2>3, <2>5, <4>1
      <4>3. QED
        BY <1>4, <3>2, <4>2 DEF InStep
    <3>4. RowOf(row, target)
      BY <3>1 DEF RowOf
    <3>5. QED
      BY <3>3, <3>4 DEF row, assigned
  <2>6. QED
    BY <2>4, <2>5
<1>5. QED
  BY <1>2, <1>3, <1>4

LEMMA SchemaReplays ==
  ASSUME TellApart, SchemaInv, Schema!apply_row_event
  PROVE  SchemaInv'
<1>0. SchemaTypes /\ MapInv
  BY DEF SchemaInv
<1>1. /\ pos < Len(log) /\ mapped /\ pos' = pos + 1 /\ mapped' = FALSE
      /\ UNCHANGED <<version, source, log, target, cache, registry, ignored>>
  BY DEF Schema!apply_row_event, Schema!sourceVars
<1>2. PICK e : e = log[pos + 1]
  OBVIOUS
<1>3. e.kind \in {"row", "other"}
  BY <1>0, <1>1, <1>2 DEF MapInv
<1>4. PICK w : w = VersionAt(pos)
  OBVIOUS
<1>5. PICK some : IsPast(some)
  BY DEF SchemaInv
<1>6. /\ pos \in Nat /\ pos + 1 \in 1 .. Len(log) /\ w \in Nat /\ w >= 1 /\ w <= version
      /\ VersionAt(pos + 1) = w
  BY <1>1, <1>2, <1>3, <1>4, <1>5, EventAhead
<1>7. VersionAt(pos)' = w /\ VersionAt(Len(log))' = VersionAt(Len(log))
  BY <1>1, <1>6 DEF VersionAt
<1>8. target \in 1 .. Len(Versions) /\ w \in 1 .. Len(Versions) /\ target \in w .. version
  BY <1>0, <1>4, <1>6 DEF SchemaTypes, TellApart
<1>9. e.kind = "row" =>
        /\ e.key \in Keys /\ e.id \in Ids /\ e.version = w
        /\ e.id \in ignored => target > w
        /\ e.id \notin ignored => registry[e.id] = Versions[w]
  <2>1. Leads(log, some[pos], pos + 1, some[pos + 1])
    BY <1>1, <1>5, EventAhead
  <2>2. e.kind = "row" => e.key \in Keys /\ e.id \in Ids /\ e.version = w
    BY <1>2, <1>6, <2>1 DEF Leads, VersionAt
  <2>3. QED
    BY <1>0, <1>1, <1>2, <2>2 DEF MapInv
<1>10. /\ \A s \in skipped' : s.ahead
       /\ skipped \subseteq skipped'
       /\ \/ /\ rows' = rows
             /\ e.kind = "row" => \E s \in skipped' : s.key = e.key
          \/ /\ e.kind = "row" /\ skipped' = skipped
             /\ rows' = [rows EXCEPT ![e.key] = Schema!Executed(e, Schema!Assigned(e, Versions[w]))]
  <2>1. CASE e.id \in ignored
    <3>1. /\ rows' = rows
          /\ skipped' = IF e.kind = "row" THEN skipped \cup {[key |-> e.key, ahead |-> target > e.version]}
                        ELSE skipped
      BY <1>2, <2>1 DEF Schema!apply_row_event
    <3>2. CASE e.kind = "row"
      <4>1. PICK s : s = [key |-> e.key, ahead |-> target > e.version]
        BY Zenon
      <4>2. s.key = e.key /\ s.ahead
        BY <1>9, <2>1, <3>2, <4>1, Zenon
      <4>3. skipped' = skipped \cup {s}
        BY <3>1, <3>2, <4>1
      <4>4. QED
        BY <1>0, <3>1, <4>2, <4>3 DEF MapInv
    <3>3. CASE e.kind # "row"
      BY <1>0, <3>1, <3>3 DEF MapInv
    <3>4. QED
      BY <3>2, <3>3
  <2>2. CASE e.id \notin ignored
    <3>1. e.kind = "row"
      BY <1>0, <1>1, <1>2, <1>3, <2>2 DEF MapInv
    <3>2. /\ skipped' = skipped
          /\ rows' = [rows EXCEPT ![e.key] = Schema!Executed(e, Schema!Assigned(e, registry[e.id]))]
      BY <1>2, <2>2 DEF Schema!apply_row_event
    <3>3. QED
      BY <1>0, <1>9, <2>2, <3>1, <3>2, Zenon DEF MapInv
  <2>3. QED
    BY <2>1, <2>2
<1>11. ASSUME NEW history, IsPast(history)
       PROVE  /\ \A k \in Keys : RowOf(rows'[k], target)
              /\ Follows(history) => Follows(history)'
  <2>1. /\ Leads(log, history[pos], pos + 1, history[pos + 1])
        /\ \A k \in Keys : RowOf(history[pos][k], w) /\ RowOf(history[pos + 1][k], w)
    BY <1>1, <1>4, <1>6, <1>11, EventAhead
  <2>2. \A k \in Keys : RowOf(rows[k], target)
    BY <1>0 DEF SchemaTypes
  <2>3. \A k \in Keys : (e.kind = "row" => k # e.key) => history[pos + 1][k] = history[pos][k]
    BY <1>2, <1>3, <2>1 DEF Leads
  <2>4. e.kind = "row" =>
          LET row == Schema!Executed(e, Schema!Assigned(e, Versions[w]))
          IN /\ RowOf(row, target)
             /\ InStep(rows[e.key], target, history[pos][e.key], w) =>
                  InStep(row, target, history[pos + 1][e.key], w)
    <3>1. SUFFICES ASSUME e.kind = "row"
                   PROVE  LET row == Schema!Executed(e, Schema!Assigned(e, Versions[w]))
                          IN /\ RowOf(row, target)
                             /\ InStep(rows[e.key], target, history[pos][e.key], w) =>
                                  InStep(row, target, history[pos + 1][e.key], w)
      OBVIOUS
    <3>2. /\ e.before = Schema!Image(history[pos][e.key], w) /\ e.after = Schema!Image(history[pos + 1][e.key], w)
          /\ history[pos][e.key] # history[pos + 1][e.key]
      BY <1>2, <1>6, <2>1, <3>1 DEF Leads, VersionAt
    <3>3. QED
      BY <1>8, <1>9, <2>1, <2>2, <3>1, <3>2, ExecutedRow
  <2>5. \A k \in Keys : RowOf(rows'[k], target)
    BY <1>0, <1>10, <2>2, <2>4 DEF SchemaTypes
  <2>6. ASSUME Follows(history) PROVE Follows(history)'
    <3>1. SUFFICES ASSUME NEW k \in Keys, \A s \in skipped' : s.key # k
                   PROVE  InStep(rows'[k], target, history[pos + 1][k], w)
      BY <1>1, <1>7 DEF Follows, InStep
    <3>2. InStep(rows[k], target, history[pos][k], w)
      BY <1>4, <1>10, <2>6, <3>1 DEF Follows
    <3>3. CASE e.kind = "row" /\ k = e.key
      <4>1. rows'[k] = Schema!Executed(e, Schema!Assigned(e, Versions[w]))
        BY <1>0, <1>10, <3>1, <3>3 DEF SchemaTypes
      <4>2. QED
        BY <2>4, <3>2, <3>3, <4>1
    <3>4. CASE ~ (e.kind = "row" /\ k = e.key)
      <4>1. rows'[k] = rows[k] /\ history[pos + 1][k] = history[pos][k]
        BY <1>0, <1>10, <2>3, <3>4 DEF SchemaTypes
      <4>2. QED
        BY <3>2, <4>1
    <3>5. QED
      BY <3>3, <3>4
  <2>7. QED
    BY <2>5, <2>6
<1>12. SchemaTypes'
  <2>1. \A k \in Keys : RowOf(rows'[k], target')
    BY <1>1, <1>5, <1>11
  <2>2. DOMAIN rows' = Keys
    BY <1>0, <1>10 DEF SchemaTypes
  <2>3. pos' \in Nat /\ pos' <= Len(log') /\ target' \in VersionAt(pos)' .. version'
    BY <1>0, <1>1, <1>6, <1>7, <1>8 DEF SchemaTypes
  <2>4. QED
    BY <1>0, <1>1, <1>7, <2>1, <2>2, <2>3, Zenon DEF SchemaTypes
<1>13. MapInv'
  BY <1>0, <1>1, <1>4, <1>7, <1>10 DEF MapInv
<1>14. QED
  BY <1>1, <1>11, <1>12, <1>13, SchemaKept

LEMMA SchemaDdl ==
  ASSUME TellApart, SchemaInv, Schema!handle_automatic_ddl_event
  PROVE  SchemaInv'
<1>0. SchemaTypes /\ MapInv
  BY DEF SchemaInv
<1>1. PICK w : w = VersionAt(pos)
  OBVIOUS
<1>2. PICK some : IsPast(some)
  BY DEF SchemaInv
<1>3. /\ pos < Len(log) /\ log[pos + 1].kind = "ddl" /\ pos' = pos + 1 /\ cache' = 0
      /\ UNCHANGED <<version, source, log, mapped, registry, ignored, skipped>>
  BY DEF Schema!handle_automatic_ddl_event, Schema!sourceVars
<1>4. /\ pos \in Nat /\ pos + 1 \in 1 .. Len(log) /\ w \in Nat /\ w >= 1 /\ w + 1 <= version
      /\ VersionAt(pos + 1) = w + 1
  BY <1>1, <1>2, <1>3, EventAhead
<1>5. /\ target' = IF target < w + 1 THEN w + 1 ELSE target
      /\ rows' = IF target < w + 1 THEN Schema!AlteredRows(rows, w + 1) ELSE rows
  <2>1. 1 + Schema!Cardinality({i \in 1 .. pos + 1 : log[i].kind = "ddl"}) = w + 1
    BY <1>4 DEF VersionAt, VersionOf, DdlsOf, Schema!Cardinality, Cardinality
  <2>2. QED
    BY <2>1 DEF Schema!handle_automatic_ddl_event
<1>6. VersionAt(pos)' = w + 1 /\ VersionAt(Len(log))' = VersionAt(Len(log))
  BY <1>3, <1>4 DEF VersionAt
<1>7. /\ target \in 1 .. Len(Versions) /\ w \in 1 .. Len(Versions) /\ w + 1 \in 1 .. Len(Versions)
      /\ target \in w .. version /\ version \in Nat /\ target' \in w + 1 .. version
  BY <1>0, <1>1, <1>4, <1>5 DEF SchemaTypes, TellApart
<1>8. ~ mapped
  BY <1>0, <1>3 DEF MapInv
<1>9. SchemaTypes'
  <2>1. (\A k \in Keys : RowOf(rows'[k], target')) /\ DOMAIN rows' = Keys
    <3>1. CASE target < w + 1
      BY <1>0, <1>5, <1>7, <3>1, AlteredRow DEF SchemaTypes, Schema!AlteredRows
    <3>2. CASE ~ (target < w + 1)
      BY <1>0, <1>5, <3>2 DEF SchemaTypes
    <3>3. QED
      BY <3>1, <3>2
  <2>2. QED
    BY <1>0, <1>3, <1>4, <1>6, <1>7, <2>1 DEF SchemaTypes
<1>10. MapInv'
  BY <1>0, <1>3, <1>8 DEF MapInv
<1>11. ASSUME NEW history, IsPast(history), Follows(history) PROVE Follows(history)'
  <2>1. SUFFICES ASSUME NEW k \in Keys, \A s \in skipped : s.key # k
                 PROVE  InStep(rows'[k], target', history[pos + 1][k], w + 1)
    BY <1>3, <1>6 DEF Follows, InStep
  <2>2. InStep(rows[k], target, history[pos][k], w) /\ RowOf(rows[k], target)
    BY <1>0, <1>1, <1>11, <2>1 DEF Follows, SchemaTypes
  <2>3. RowOf(history[pos][k], w) /\ history[pos + 1][k] = Schema!Altered(history[pos][k], w + 1)
    <3>1. /\ Leads(log, history[pos], pos + 1, history[pos + 1])
          /\ RowOf(history[pos][k], VersionAt(pos))
      BY <1>3, <1>11, EventAhead
    <3>2. history[pos + 1] = Schema!AlteredRows(history[pos], w + 1)
      BY <1>3, <1>4, <3>1 DEF Leads, VersionAt
    <3>3. QED
      BY <1>1, <3>1, <3>2 DEF Schema!AlteredRows
  <2>4. InStep(rows'[k], target', history[pos][k], w)
    <3>1. CASE target < w + 1
      <4>1. target' = w + 1 /\ rows'[k] = Schema!Altered(rows[k], w + 1)
        BY <1>5, <3>1 DEF Schema!AlteredRows
      <4>2. w \in 1 .. target /\ w + 1 \in target .. Len(Versions)
        BY <1>7, <3>1
      <4>3. QED
        BY <1>7, <2>2, <4>1, <4>2, TargetGoesAhead
    <3>2. CASE ~ (target < w + 1)
      BY <1>5, <2>2, <3>2
    <3>3. QED
      BY <3>1, <3>2
  <2>5. target' \in 1 .. Len(Versions) /\ w + 1 <= target'
    BY <1>5, <1>7
  <2>6. QED
    BY <1>4, <2>3, <2>4, <2>5, SourceCatchesUp
<1>12. QED
  BY <1>3, <1>9, <1>10, <1>11, SchemaKept

LEMMA SchemaRests ==
  ASSUME TellApart, SchemaInv, Schema!Restart \/ UNCHANGED Schema!vars
  PROVE  SchemaInv'
<1>0. SchemaTypes /\ MapInv
  BY DEF SchemaInv
<1>1. UNCHANGED <<version, source, log, target, rows, pos, skipped>>
  BY DEF Schema!Restart, Schema!vars, Schema!sourceVars
<1>2. VersionAt(pos)' = VersionAt(pos) /\ VersionAt(Len(log))' = VersionAt(Len(log))
  BY <1>1 DEF VersionAt
<1>3. \A p : Follows(p) => Follows(p)'
  BY <1>1, <1>2 DEF Follows, InStep
<1>4. (\A k \in Keys : RowOf(rows[k], target))'
  BY <1>0, <1>1 DEF SchemaTypes
<1>5. CASE Schema!Restart
  <2>1. mapped' = FALSE /\ cache' = 0 /\ registry' = [i \in Ids |-> <<>>] /\ ignored' = {}
    BY <1>5 DEF Schema!Restart, Schema!NoMaps
  <2>2. SchemaTypes'
    BY <1>0, <1>1, <1>2, <1>4, <2>1, Zenon DEF SchemaTypes
  <2>3. MapInv'
    BY <1>0, <1>1, <1>2, <2>1 DEF MapInv
  <2>4. QED
    BY <1>1, <1>3, <2>2, <2>3, SchemaKept
<1>6. CASE UNCHANGED Schema!vars
  <2>1. UNCHANGED <<mapped, cache, registry, ignored>>
    BY <1>6 DEF Schema!vars
  <2>2. SchemaTypes'
    BY <1>0, <1>1, <1>2, <1>4, <2>1 DEF SchemaTypes
  <2>3. MapInv'
    BY <1>0, <1>1, <1>2, <2>1 DEF MapInv
  <2>4. QED
    BY <1>1, <1>3, <2>2, <2>3, SchemaKept
<1>7. QED
  BY <1>5, <1>6

-----------------------------------------------------------------------------
(* The source's steps *)

(* The version and rows of the source are those at the end of its past. *)
LEMMA SourceNow ==
  ASSUME SchemaInv
  PROVE  /\ Len(log) \in Nat /\ log = [i \in 1 .. Len(log) |-> log[i]]
         /\ version = VersionAt(Len(log)) /\ version \in 1 .. Len(Versions)
         /\ DOMAIN source = Keys /\ \A k \in Keys : RowOf(source[k], version)
<1>1. PICK history : IsPast(history)
  BY DEF SchemaInv
<1>2. SchemaTypes
  BY DEF SchemaInv
<1>3. QED
  BY <1>1, <1>2 DEF IsPast, SchemaTypes

LEMMA LogGrows ==
  ASSUME SchemaInv, NEW e, log' = Append(log, e)
  PROVE  /\ Len(log') = Len(log) + 1 /\ log'[Len(log')] = e
         /\ VersionOf(log', Len(log')) = IF e.kind = "ddl" THEN version + 1 ELSE version
<1>1. PICK L \in Nat : L = Len(log)
  BY SourceNow
<1>2. Len(log') = L + 1 /\ log'[L + 1] = e /\ \A i \in 1 .. L : log'[i] = log[i]
  BY <1>1, SourceNow, Appended
<1>3. VersionAt(L)' = version
  BY <1>1, <1>2, SourceNow, VersionStays
<1>4. VersionOf(log', L + 1) = IF log'[L + 1].kind = "ddl" THEN VersionOf(log', L) + 1 ELSE VersionOf(log', L)
  BY VersionIsCount, Zenon
<1>5. QED
  BY <1>1, <1>2, <1>3, <1>4 DEF VersionAt

LEMMA SchemaAlters ==
  ASSUME TellApart, SchemaInv, Schema!SourceAlter
  PROVE  SchemaInv'
<1>1. PICK e : e = [kind |-> "ddl"]
  BY Zenon
<1>2. /\ e.kind = "ddl" /\ log' = Append(log, e) /\ version < Len(Versions) /\ version' = version + 1
      /\ source' = Schema!AlteredRows(source, version + 1)
      /\ UNCHANGED <<target, rows, pos, mapped, cache, registry, ignored, skipped>>
  BY <1>1 DEF Schema!SourceAlter, Schema!session
<1>3. PICK old : old = source
  OBVIOUS
<1>4. version' \in 1 .. Len(Versions)
  BY <1>2, SourceNow DEF TellApart
<1>5. DOMAIN source' = Keys /\ \A k \in Keys : RowOf(source'[k], version')
  BY <1>2, <1>4, SourceNow, AlteredRow DEF Schema!AlteredRows
<1>6. Leads(log', old, Len(log'), source')
  BY <1>2, <1>3, LogGrows DEF Leads
<1>7. QED
  BY <1>2, <1>3, <1>4, <1>5, <1>6, SchemaSource

LEMMA SchemaWrites ==
  ASSUME TellApart, SchemaInv, NEW key \in Keys, NEW row, NEW id \in Ids, NEW named \in BOOLEAN,
         RowOf(row, version), Schema!SourceWrite(key, row, id, named)
  PROVE  SchemaInv'
<1>1. PICK e : e = [kind |-> "row", id |-> id, named |-> named, version |-> version, key |-> key,
                    before |-> Schema!Image(source[key], version), after |-> Schema!Image(row, version)]
  BY Zenon
<1>2. /\ log' = Append(log, e) /\ source' = [source EXCEPT ![key] = row] /\ row # source[key]
      /\ UNCHANGED <<version, target, rows, pos, mapped, cache, registry, ignored, skipped>>
  BY <1>1 DEF Schema!SourceWrite, Schema!session
<1>3. PICK old : old = source
  OBVIOUS
<1>4. /\ DOMAIN source' = Keys /\ source'[key] = row
      /\ \A k \in Keys : k # key => source'[k] = old[k]
      /\ \A k \in Keys : RowOf(source'[k], version)
  BY <1>2, <1>3, SourceNow
<1>5. Leads(log', old, Len(log'), source')
  BY <1>1, <1>2, <1>3, <1>4, LogGrows DEF Leads
<1>6. e.kind # "ddl"
  BY <1>1
<1>7. QED
  BY <1>2, <1>3, <1>4, <1>5, <1>6, SchemaSource, Zenon

LEMMA SchemaElsewhere ==
  ASSUME TellApart, SchemaInv, NEW id \in Ids, Schema!SourceWritesElsewhere(id)
  PROVE  SchemaInv'
<1>1. PICK e : e = [kind |-> "other", id |-> id]
  BY Zenon
<1>2. /\ log' = Append(log, e) /\ e.kind = "other" /\ e.id = id
      /\ UNCHANGED <<version, source, target, rows, pos, mapped, cache, registry, ignored, skipped>>
  BY <1>1 DEF Schema!SourceWritesElsewhere, Schema!session
<1>3. PICK old : old = source
  OBVIOUS
<1>4. Leads(log', old, Len(log'), source')
  BY <1>2, <1>3, LogGrows DEF Leads
<1>5. QED
  BY <1>2, <1>3, <1>4, SourceNow, SchemaSource

LEMMA SchemaNext ==
  ASSUME TellApart, SchemaInv, [Schema!Next]_(Schema!vars)
  PROVE  SchemaInv'
<1>1. CASE \E key \in Keys, id \in Ids, named \in BOOLEAN :
             \/ Schema!SourceWrite(key, Schema!NewRow, id, named)
             \/ Schema!SourceWrite(key, Schema!NoRow, id, named)
             \/ \E c \in Schema!Columns(version) :
                  /\ source[key] # Schema!NoRow
                  /\ Schema!SourceWrite(key, [source[key] EXCEPT ![c] = <<c, Len(log) + 1>>], id, named)
  <2>1. PICK key \in Keys, id \in Ids, named \in BOOLEAN :
             \/ Schema!SourceWrite(key, Schema!NewRow, id, named)
             \/ Schema!SourceWrite(key, Schema!NoRow, id, named)
             \/ \E c \in Schema!Columns(version) :
                  /\ source[key] # Schema!NoRow
                  /\ Schema!SourceWrite(key, [source[key] EXCEPT ![c] = <<c, Len(log) + 1>>], id, named)
    BY <1>1
  <2>2. RowOf(Schema!NewRow, version)
    BY DEF RowOf, Schema!NewRow
  <2>3. RowOf(Schema!NoRow, version)
    BY DEF RowOf
  <2>4. ASSUME source[key] # Schema!NoRow, NEW c, NEW val
        PROVE  RowOf([source[key] EXCEPT ![c] = val], version)
    <3>1. source[key] = [d \in Schema!Columns(version) |-> source[key][d]]
      BY <2>4, SourceNow DEF RowOf
    <3>2. QED
      BY <3>1 DEF RowOf
  <2>5. CASE Schema!SourceWrite(key, Schema!NewRow, id, named)
    BY <2>2, <2>5, SchemaWrites
  <2>6. CASE Schema!SourceWrite(key, Schema!NoRow, id, named)
    BY <2>3, <2>6, SchemaWrites
  <2>7. CASE \E c \in Schema!Columns(version) :
               /\ source[key] # Schema!NoRow
               /\ Schema!SourceWrite(key, [source[key] EXCEPT ![c] = <<c, Len(log) + 1>>], id, named)
    <3>1. PICK row : RowOf(row, version) /\ Schema!SourceWrite(key, row, id, named)
      BY <2>4, <2>7
    <3>2. QED
      BY <3>1, SchemaWrites
  <2>8. QED
    BY <2>1, <2>5, <2>6, <2>7, Zenon
<1>2. QED
  BY <1>1, SchemaAlters, SchemaElsewhere, SchemaSyncs, SchemaMaps, SchemaReplays, SchemaDdl, SchemaRests
     DEF Schema!Next

(***************************************************************************)
(* Row values reach the columns they belong to (apply_table_map_event,     *)
(* map_row_data), for every table whose versions can be told apart: once   *)
(* the stream is through, a row of which no change was skipped has the     *)
(* source's value in each column that both tables have, through schema     *)
(* syncs that run ahead, stale inventories, reused table ids and restarts; *)
(* and a change is skipped only where the target was ahead of the event.   *)
(***************************************************************************)
THEOREM ColumnsAreKept ==
  ASSUME TellApart
  PROVE  Schema!Spec => []Schema!RowsKeepTheirColumns
<1>1. Schema!Init => SchemaInv
  BY SchemaInit
<1>2. SchemaInv /\ [Schema!Next]_(Schema!vars) => SchemaInv'
  BY SchemaNext
<1>3. SchemaInv => Schema!RowsKeepTheirColumns
  <2>1. SUFFICES ASSUME SchemaInv PROVE Schema!RowsKeepTheirColumns
    OBVIOUS
  <2>2. PICK history : IsPast(history) /\ Follows(history)
    BY <2>1 DEF SchemaInv
  <2>3. \A s \in skipped : s.ahead
    BY <2>1 DEF SchemaInv, MapInv
  <2>4. ASSUME pos = Len(log), NEW k \in Keys, \A s \in skipped : s.key # k
        PROVE  /\ source[k] = Schema!NoRow <=> rows[k] = Schema!NoRow
               /\ \A c \in DOMAIN source[k] \cap DOMAIN rows[k] : rows[k][c] = source[k][c]
    <3>1. InStep(rows[k], target, source[k], version)
      BY <2>1, <2>2, <2>4, SourceNow DEF Follows, IsPast
    <3>2. RowOf(source[k], version) /\ RowOf(rows[k], target)
      BY <2>1, SourceNow DEF SchemaInv, SchemaTypes
    <3>3. CASE rows[k] = Schema!NoRow
      BY <3>1, <3>3 DEF InStep, Schema!NoRow
    <3>4. CASE rows[k] # Schema!NoRow
      <4>1. DOMAIN source[k] = Schema!Columns(version) /\ DOMAIN rows[k] = Schema!Columns(target)
        BY <3>1, <3>2, <3>4 DEF InStep, RowOf
      <4>2. QED
        BY <3>1, <3>4, <4>1 DEF InStep
    <3>5. QED
      BY <3>3, <3>4
  <2>5. QED
    BY <2>3, <2>4 DEF Schema!RowsKeepTheirColumns
<1>4. QED
  BY <1>1, <1>2, <1>3, PTL DEF Schema!Spec

-----------------------------------------------------------------------------
(***************************************************************************)
(* DDL events.  Where the handler is tells the status of the journal: no   *)
(* SQL runs before the journal is prepared, nothing is planned again after *)
(* it, and a status of applied or blocked is final.                        *)
(***************************************************************************)
Planning == {"transform", "retransform", "capture", "fence", "source", "refence", "recapture", "prepare"}
Running == {"execute", "observe", "verify", "reconcile", "decide", "restart"}

StatusInv ==
  /\ pc \in Planning => journal \in {"none", "translation_pending"}
  /\ pc \in Running => journal = "prepared"
  /\ pc = "done" => journal = "applied"
  /\ pc = "stopped" => journal \in {"translation_pending", "blocked"}
  /\ pc \in Planning \cup Running \cup {"done", "stopped"}

(* The SQL has taken effect only in a run of the handler that is past it. *)
RanInv == ran => journal \in {"prepared", "applied", "blocked"} /\ pc # "execute"

(* A source that has not moved on is the event's, so a schema read between *)
(* two equal coordinates is the event's as well.                           *)
SourceInv ==
  /\ read = [target |-> read.target, at |-> read.at, source |-> read.source]
  /\ source.at = 0 => source.db = event
  /\ pc = "refence" /\ source.at = 0 => read.source = Ddl!Seen(event)
  /\ pc = "recapture" /\ stmt.kind = "rename_if_exists" => read.source = Ddl!Seen(event)

(* From its capture on, the evidence is what the statement explains. *)
CapturedInv ==
  pc = "prepare" \/ journal \in {"prepared", "applied", "blocked"}
    => Ddl!Explained.ok /\ evidence = Ddl!Explained.t

(* The verdict was about the target as it still is. *)
VerdictInv == pc = "done" => Ddl!canonical_operation_state(Ddl!Seen(target), stmt) = evidence.post

DdlInv == StatusInv /\ RanInv /\ SourceInv /\ CapturedInv /\ VerdictInv /\ strays \in Nat

(* A handler that has not begun satisfies the invariant. *)
LEMMA DdlInit == Ddl!Init => DdlInv
BY DEF Ddl!Init, Ddl!Unread, DdlInv, StatusInv, RanInv, SourceInv, CapturedInv, VerdictInv, Planning, Running

(* The steps that read, up to the capture of the evidence. *)
LEMMA DdlReads ==
  ASSUME DdlInv,
         \/ Ddl!ReadForTransform \/ Ddl!Transform \/ Ddl!ReadForCapture
         \/ Ddl!ReadCoordinate \/ Ddl!ReadSource \/ Ddl!ReadCoordinateAgain
  PROVE  DdlInv'
<1> USE DEF DdlInv, StatusInv, RanInv, SourceInv, CapturedInv, VerdictInv, Planning, Running,
            Ddl!world, Ddl!Explained, Ddl!Seen
<1>1. CASE Ddl!ReadForTransform
  BY <1>1 DEF Ddl!ReadForTransform
<1>2. CASE Ddl!Transform
  BY <1>2 DEF Ddl!Transform, Ddl!Pending, Ddl!Unread
<1>3. CASE Ddl!ReadForCapture
  BY <1>3 DEF Ddl!ReadForCapture
<1>4. CASE Ddl!ReadCoordinate
  BY <1>4 DEF Ddl!ReadCoordinate
<1>5. CASE Ddl!ReadSource
  BY <1>5 DEF Ddl!ReadSource
<1>6. CASE Ddl!ReadCoordinateAgain
  BY <1>6, SMTT(30) DEF Ddl!ReadCoordinateAgain, Ddl!Pending, Ddl!Unread, Ddl!validate_source_snapshot_coordinate
<1>7. QED
  BY <1>1, <1>2, <1>3, <1>4, <1>5, <1>6

(* The capture: two equal reads of the target, and the source's schema if  *)
(* the statement expects it (capture_translated_evidence).                 *)
LEMMA DdlCapture ==
  ASSUME DdlInv, Ddl!Capture
  PROVE  DdlInv'
<1> USE DEF DdlInv, Ddl!world
<1>1. StatusInv' /\ RanInv' /\ SourceInv' /\ VerdictInv' /\ (strays \in Nat)'
  BY DEF Ddl!Capture, Ddl!Pending, Ddl!Unread, StatusInv, RanInv, SourceInv, VerdictInv, Planning, Running, Ddl!Seen
<1>2. CapturedInv'
  <2>1. CASE pc' # "prepare"
    BY <2>1 DEF Ddl!Capture, Ddl!Pending, CapturedInv, StatusInv, Planning
  <2>2. CASE pc' = "prepare"
    <3> DEFINE now == target_snapshot(target, stmt)
               captured == Ddl!build_semantic_evidence(read.target, IF stmt.kind = "rename_if_exists" THEN read.source ELSE now, stmt)
    <3>1. /\ read.target = now /\ captured.ok
          /\ evidence' = captured.t /\ found' = target
      BY <2>2 DEF Ddl!Capture, Ddl!Pending, Ddl!validate_target_snapshot_consistency
    <3>2. Ddl!Explained' = captured
      BY <3>1 DEF Ddl!Capture, Ddl!Explained, Ddl!Seen, SourceInv
    <3>3. QED
      BY <3>1, <3>2 DEF CapturedInv
  <2>3. QED
    BY <2>1, <2>2
<1>3. QED
  BY <1>1, <1>2

(* The steps from the journal on. *)
LEMMA DdlRuns ==
  ASSUME DdlInv, Ddl!Prepare \/ Ddl!Execute \/ Ddl!ReadForObserve \/ Ddl!Judge \/ Ddl!Restart
  PROVE  DdlInv'
<1> USE DEF DdlInv, StatusInv, RanInv, SourceInv, CapturedInv, VerdictInv, Planning, Running,
            Ddl!world, Ddl!Explained, Ddl!Seen
<1>1. CASE Ddl!Prepare
  BY <1>1 DEF Ddl!Prepare
<1>2. CASE Ddl!Execute
  BY <1>2 DEF Ddl!Execute
<1>3. CASE Ddl!ReadForObserve
  BY <1>3 DEF Ddl!ReadForObserve
<1>4. CASE Ddl!Judge
  BY <1>4 DEF Ddl!Judge, Ddl!Proven, Ddl!Unread
<1>5. CASE Ddl!Restart
  BY <1>5 DEF Ddl!Restart, Ddl!Unread
<1>6. QED
  BY <1>1, <1>2, <1>3, <1>4, <1>5

(* Other clients, and the source. *)
LEMMA DdlOthers ==
  ASSUME DdlInv, Ddl!Stray \/ Ddl!SourceMovesOn \/ UNCHANGED Ddl!vars
  PROVE  DdlInv'
<1> USE DEF DdlInv, StatusInv, RanInv, SourceInv, CapturedInv, VerdictInv, Planning, Running,
            Ddl!Explained, Ddl!Seen
<1>1. CASE Ddl!Stray
  BY <1>1 DEF Ddl!Stray
<1>2. CASE Ddl!SourceMovesOn
  BY <1>2 DEF Ddl!SourceMovesOn
<1>3. CASE UNCHANGED Ddl!vars
  BY <1>3 DEF Ddl!vars
<1>4. QED
  BY <1>1, <1>2, <1>3

(* Every step of the handler keeps the invariant. *)
LEMMA DdlNext == DdlInv /\ [Ddl!Next]_(Ddl!vars) => DdlInv'
BY DdlReads, DdlCapture, DdlRuns, DdlOthers DEF Ddl!Next, Ddl!Finished

(***************************************************************************)
(* Evidence that is taken from the source for a rename is the schema right *)
(* after the event, also while the source goes on and the handler is       *)
(* restarted (capture_source_evidence,                                     *)
(* validate_source_snapshot_coordinate): for every translation, inventory  *)
(* and number of changes by others.                                        *)
(***************************************************************************)
THEOREM DdlEvidenceIsTheEvents == Ddl!Spec => []Ddl!SourceEvidenceIsTheEvents
<1>1. Ddl!Init => DdlInv
  BY DdlInit
<1>2. DdlInv /\ [Ddl!Next]_(Ddl!vars) => DdlInv'
  BY DdlNext
<1>3. DdlInv => Ddl!SourceEvidenceIsTheEvents
  <2>1. SUFFICES ASSUME DdlInv, stmt.kind = "rename_if_exists", pc \in {"prepare", "execute"}
                 PROVE  evidence.post = [table |-> Ddl!Seen(event).table]
    BY DEF Ddl!SourceEvidenceIsTheEvents
  <2>2. evidence = Ddl!Explained.t
    BY <2>1 DEF DdlInv, StatusInv, CapturedInv, Running
  <2>3. Ddl!canonical_post_state(Ddl!Seen(found), Ddl!Seen(event), stmt).t = [table |-> Ddl!Seen(event).table]
    BY <2>1 DEF Ddl!canonical_post_state, Ddl!canonical_operation_state, Ddl!canonical_table_structure_state,
                Ddl!TableKinds, Ddl!RoutineKinds
  <2>4. QED
    BY <2>1, <2>2, <2>3 DEF Ddl!Explained, Ddl!build_semantic_evidence
<1>4. QED
  BY <1>1, <1>2, <1>3, PTL DEF Ddl!Spec

(***************************************************************************)
(* A DDL event that is recorded as applied has left the target in the      *)
(* state that its statement explains of one consistent state found there,  *)
(* whatever other clients change and wherever the process dies             *)
(* (capture_translated_evidence, verify_automatic_ddl_postcondition,       *)
(* reconcile_prepared).                                                    *)
(***************************************************************************)
THEOREM DdlAppliedIsExpected == Ddl!Spec => []Ddl!AppliedIsExpected
<1>1. Ddl!Init => DdlInv
  BY DdlInit
<1>2. DdlInv /\ [Ddl!Next]_(Ddl!vars) => DdlInv'
  BY DdlNext
<1>3. DdlInv => Ddl!AppliedIsExpected
  BY DEF DdlInv, StatusInv, CapturedInv, VerdictInv, Planning, Running, Ddl!AppliedIsExpected
<1>4. QED
  BY <1>1, <1>2, <1>3, PTL DEF Ddl!Spec

(***************************************************************************)
(* The handler of a DDL event changes the target at most once, and only    *)
(* while the journal has the event as prepared with the evidence of that   *)
(* change (prepare_and_execute_automatic_ddl).                             *)
(***************************************************************************)
THEOREM DdlRunsOnceUnderJournal == Ddl!Spec => Ddl!RunsOnceUnderJournal
<1>1. Ddl!Init => DdlInv
  BY DdlInit
<1>2. DdlInv /\ [Ddl!Next]_(Ddl!vars) => DdlInv'
  BY DdlNext
<1>3. DdlInv /\ [Ddl!Next]_(Ddl!vars) =>
        [target' # target /\ strays' = strays
           => ~ran /\ ran' /\ journal = "prepared" /\ Ddl!Explained.ok /\ evidence = Ddl!Explained.t]_(Ddl!vars)
  <2>1. SUFFICES ASSUME DdlInv, Ddl!Next, target' # target, strays' = strays
                 PROVE  ~ran /\ ran' /\ journal = "prepared" /\ Ddl!Explained.ok /\ evidence = Ddl!Explained.t
    BY DEF Ddl!vars
  <2>2. Ddl!Execute
    <3>1. ~Ddl!Stray
      BY <2>1 DEF Ddl!Stray, DdlInv
    <3>2. QED
      BY <2>1, <3>1
         DEF Ddl!Next, Ddl!Finished, Ddl!vars, Ddl!world, Ddl!ReadForTransform, Ddl!Transform, Ddl!ReadForCapture,
             Ddl!ReadCoordinate, Ddl!ReadSource, Ddl!ReadCoordinateAgain, Ddl!Capture, Ddl!Prepare,
             Ddl!ReadForObserve, Ddl!Judge, Ddl!Restart, Ddl!SourceMovesOn
  <2>3. QED
    BY <2>1, <2>2 DEF Ddl!Execute, DdlInv, StatusInv, RanInv, CapturedInv, Running
<1>4. QED
  BY <1>1, <1>2, <1>3, PTL DEF Ddl!Spec, Ddl!RunsOnceUnderJournal

=============================================================================

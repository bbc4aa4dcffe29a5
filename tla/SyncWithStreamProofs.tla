------------------------ MODULE SyncWithStreamProofs ------------------------
(***************************************************************************)
(* A sync beside the live stream, for every table size, chunk size and     *)
(* number of writes and failures.  The changes that the stream has still   *)
(* to apply to a row give the row a path: the versions it had at the       *)
(* source from the stream's position up to now.  A target row that is on   *)
(* its path comes to the source's row when the stream is through, in       *)
(* whatever order sync and stream take their steps; a chunk reads the      *)
(* source under the lock that keeps the stream away, so all it writes is   *)
(* on the path.  Of the rows that the source had, or that neither side     *)
(* had, the passes leave none off its path but those that the stream's     *)
(* next change of the row puts there.                                      *)
(***************************************************************************)
EXTENDS SyncWithStream, SyncChunkProofs, SequenceTheorems

Changes == [key : Keys, old : Values \cup {NoRow}, new : Values \cup {NoRow}]

(* The changes of a row after the first n of the log. *)
Later(k, n) == { j \in n+1 .. Len(log) : log[j].key = k }

(* The versions that a row has had at the source since the first n changes. *)
PathFrom(k, n) == {source[k]} \cup { log[j].old : j \in Later(k, n) }
Path(k) == PathFrom(k, applied)

(* At the stream's position the source had the row. *)
HadRow(k) ==
  /\ Later(k, applied) = {} => source[k] # NoRow
  /\ \A j \in Later(k, applied) :
       (\A i \in Later(k, applied) : j <= i) => log[j].old # NoRow

(* A change leads from one version of its row to another on its way. *)
LeadsOn(n) ==
  /\ log[n].key \in touched
  /\ log[n].new \in PathFrom(log[n].key, n)

LogInv ==
  /\ log \in Seq(Changes)
  /\ applied \in Nat /\ applied <= Len(log)
  /\ extras \subseteq Keys
  /\ \A n \in 1 .. Len(log) : LeadsOn(n)

(* A row off its path, unless missing, is one whose next change is no      *)
(* insert: the stream overwrites or deletes it.                            *)
FollowInv ==
  \A k \in Keys \ extras :
    target[k] # NoRow => target[k] \in Path(k) \/ HadRow(k)

(* What a pass leaves of a row t of the target while the stream goes on. *)
Passed(p, k, t) ==
  CASE p = "insert_missing" -> t \in Path(k) \/ t # NoRow
    [] p = "update_divergent" -> t \in Path(k) \/ (t # NoRow /\ Later(k, applied) # {})
    [] p = "delete_extras" -> TRUE

PassedInv ==
  \A p \in Phases, k \in Keys \ extras :
    savedComplete[p] \/ k <= savedCursor[p] => Passed(p, k, target[k])

(* What a chunk has written, and what it has in hand, is on the path. *)
OnPathInv ==
  /\ \A k \in Keys : work[k] = target[k] \/ work[k] \in Path(k)
  /\ stage \in {"compare", "mutate"} => \A k \in Present(window) : window[k] \in Path(k)
  /\ stage = "compare" =>
       \A k \in Keys, j \in Present(window) :
         cursor < k /\ k <= j /\ window[k] = NoRow => NoRow \in Path(k)

(* What the chunk has passed up to its cursor, but for the pending rows. *)
PassingInv ==
  stage \in {"mutate", "commit", "save"} =>
    \A k \in Keys \ extras :
      complete \/ k <= cursor => k \in pending \/ Passed(phase, k, work[k])

(* Without a unique index no row stands in the way of another. *)
PlainInv == stage \notin {"replace", "reconcile", "owner"}

BesideInv ==
  /\ SyncInv /\ LogInv /\ FollowInv /\ PassedInv /\ OnPathInv /\ PassingInv /\ PlainInv

-----------------------------------------------------------------------------
(* The invariant is what is left of the promise when both are through. *)
LEMMA BesideConverges == BesideInv => LiveRowsConverge
<1>1. SUFFICES ASSUME BesideInv, rowsComplete, applied = Len(log), NEW k \in Keys \ extras
               PROVE  target[k] = source[k]
  BY DEF LiveRowsConverge, Quiet
<1>2. savedComplete["update_divergent"]
  BY <1>1 DEF BesideInv, SyncInv, PhaseInv, Phases
<1>3. Passed("update_divergent", k, target[k])
  BY <1>1, <1>2 DEF BesideInv, PassedInv, Phases
<1>4. Later(k, applied) = {}
  BY <1>1 DEF BesideInv, LogInv, Later
<1>5. QED
  BY <1>3, <1>4 DEF Passed, Path, PathFrom

LEMMA BesideInit == StreamInit => BesideInv
<1> SUFFICES ASSUME StreamInit PROVE BesideInv
  OBVIOUS
<1> USE DEF StreamInit
<1>1. SyncInv
  BY InitInv
<1>2. Len(log) = 0 /\ \A k, n : n \in Nat => Later(k, n) = {}
  BY DEF Later
<1>3. LogInv
  BY <1>2 DEF LogInv, Present, Init
<1>4. FollowInv
  <2>1. \A k \in Keys \ extras : target[k] # NoRow => source[k] # NoRow
    BY DEF Present
  <2>2. QED
    BY <1>2, <2>1 DEF FollowInv, HadRow
<1>5. PassedInv
  <2>1. \A k \in Keys, p \in Phases : ~ (savedComplete[p] \/ k <= savedCursor[p])
    BY SyncChunkAssumption DEF Init, Keys, NoCursor
  <2>2. QED
    BY <2>1 DEF PassedInv
<1>6. OnPathInv /\ PassingInv /\ PlainInv
  BY DEF OnPathInv, PassingInv, PlainInv, Init
<1>7. QED
  BY <1>1, <1>3, <1>4, <1>5, <1>6 DEF BesideInv

-----------------------------------------------------------------------------
(* A row on its path has been passed by every phase. *)
LEMMA OnPathPassed ==
  ASSUME NEW p \in Phases, NEW k, NEW t \in Path(k)
  PROVE  Passed(p, k, t)
BY Zenon DEF Phases, Passed

(* Steps of the sync itself: the paths stay as they are. *)
LEMMA PathFrame ==
  ASSUME UNCHANGED <<source, log, applied>>
  PROVE  /\ \A k : Path(k)' = Path(k)
         /\ \A k : HadRow(k)' = HadRow(k)
         /\ \A p, k, t : Passed(p, k, t)' = Passed(p, k, t)
         /\ \A k : Later(k, applied)' = Later(k, applied)
<1>1. \A k, n : Later(k, n)' = Later(k, n)
  BY DEF Later
<1>2. \A k : Path(k)' = Path(k)
  BY <1>1 DEF Path, PathFrom
<1>3. \A k : Later(k, applied)' = Later(k, applied)
  BY DEF Later
<1>4. \A k : HadRow(k)' = HadRow(k)
  BY <1>3 DEF HadRow
<1>5. \A p, k, t : Passed(p, k, t)' = Passed(p, k, t)
  BY <1>2, <1>3, Zenon DEF Passed
<1>6. QED
  BY <1>2, <1>3, <1>4, <1>5

(***************************************************************************)
(* A write of the source: the old version of the row becomes part of its   *)
(* path, so every path grows and nothing that was on one leaves it.        *)
(***************************************************************************)
LEMMA WriteGrows ==
  ASSUME BesideInv, NEW k \in Keys, NEW v \in Values \cup {NoRow}, LoggedWrite(k, v)
  PROVE  /\ LogInv'
         /\ \A j \in Keys : Path(j) \subseteq Path(j)'
         /\ \A j \in Keys : HadRow(j) => HadRow(j)'
         /\ \A j \in Keys : Later(j, applied) \subseteq Later(j, applied)'
<1> DEFINE e == [key |-> k, old |-> source[k], new |-> v]
<1>len. PICK L \in Nat : L = Len(log)
  BY DEF BesideInv, LogInv
<1>0. /\ source \in Rows /\ e \in Changes
      /\ log \in Seq(Changes) /\ applied \in Nat /\ applied <= L /\ L = Len(log)
  BY <1>len DEF BesideInv, SyncInv, SyncTypeOK, LogInv, Changes, Rows
<1>1. /\ log' = Append(log, e) /\ applied' = applied /\ extras' = extras
      /\ source' = [source EXCEPT ![k] = v] /\ touched' = touched \cup {k}
  BY DEF LoggedWrite, SourceWrite
<1>2. /\ log' \in Seq(Changes)
      /\ Len(log') = L + 1
      /\ \A n \in 1..L : log'[n] = log[n]
      /\ log'[L + 1] = e
  BY <1>0, <1>1
<1>3. e.key = k /\ e.old = source[k] /\ e.new = v
  OBVIOUS
<1>4. \A j \in Keys : source'[j] = IF j = k THEN v ELSE source[j]
  BY <1>0, <1>1 DEF Rows
<1> HIDE DEF e
<1>5. \A j \in Keys, n \in 0..L :
        Later(j, n)' = Later(j, n) \cup (IF j = k THEN {L + 1} ELSE {})
  BY <1>0, <1>2, <1>3 DEF Later
<1>6. \A j \in Keys, n \in 0..L : PathFrom(j, n) \subseteq PathFrom(j, n)'
  <2>1. SUFFICES ASSUME NEW j \in Keys, NEW n \in 0..L
                 PROVE  PathFrom(j, n) \subseteq PathFrom(j, n)'
    OBVIOUS
  <2>2. \A i \in Later(j, n) : i \in Later(j, n)' /\ log'[i].old = log[i].old
    BY <1>0, <1>2, <1>5 DEF Later
  <2>3. source[j] \in PathFrom(j, n)'
    <3>1. CASE j = k
      <4>1. L + 1 \in Later(j, n)' /\ log'[L + 1].old = source[j]
        BY <1>2, <1>3, <1>5, <3>1
      <4>2. QED
        BY <4>1 DEF PathFrom
    <3>2. CASE j # k
      BY <1>4, <3>2 DEF PathFrom
    <3>3. QED
      BY <3>1, <3>2
  <2>4. QED
    BY <2>2, <2>3 DEF PathFrom
<1>7. LogInv'
  <2>1. extras \subseteq Keys /\ applied' <= Len(log')
    BY <1>0, <1>1, <1>2 DEF BesideInv, LogInv
  <2>2. ASSUME NEW n \in 1..L PROVE LeadsOn(n)'
    <3>1. LeadsOn(n) /\ log[n] \in Changes /\ n \in 0..L
      BY <1>0 DEF BesideInv, LogInv
    <3>2. PICK i \in Keys : i = log[n].key
      BY <3>1 DEF Changes
    <3>3. log[n].new \in PathFrom(i, n)'
      BY <1>6, <3>1, <3>2 DEF LeadsOn
    <3>4. i \in touched /\ log'[n].key = i /\ log'[n].new = log[n].new
      BY <1>2, <3>1, <3>2 DEF LeadsOn
    <3>5. QED
      BY <1>1, <3>3, <3>4 DEF LeadsOn
  <2>3. LeadsOn(L + 1)'
    BY <1>0, <1>1, <1>2, <1>3, <1>4 DEF LeadsOn, PathFrom
  <2>4. \A n \in 1..Len(log') : n \in 1..L \/ n = L + 1
    BY <1>0, <1>2
  <2>5. \A n \in 1..Len(log') : LeadsOn(n)'
    BY <2>2, <2>3, <2>4
  <2>6. (Seq(Changes))' = Seq(Changes)
    BY DEF Changes
  <2>7. QED
    BY <1>0, <1>1, <1>2, <2>1, <2>5, <2>6 DEF LogInv
<1>8. \A j \in Keys : Path(j) \subseteq Path(j)'
  <2>1. applied \in 0..L
    BY <1>0
  <2>2. QED
    BY <1>1, <1>6, <2>1, Zenon DEF Path, PathFrom, Later
<1>9. \A j \in Keys : Later(j, applied)' = Later(j, applied) \cup (IF j = k THEN {L + 1} ELSE {})
  BY <1>0, <1>1, <1>2, <1>3 DEF Later
<1>10. ASSUME NEW j \in Keys, HadRow(j) PROVE HadRow(j)'
  <2>1. \A i \in Later(j, applied) : i \in Nat /\ i < L + 1 /\ log'[i].old = log[i].old
    BY <1>0, <1>2 DEF Later
  <2>2. CASE j # k
    <3>1. Later(j, applied)' = Later(j, applied) /\ source'[j] = source[j]
      BY <1>4, <1>9, <2>2, Zenon
    <3>2. QED
      BY <1>10, <2>1, <3>1 DEF HadRow
  <2>3. CASE j = k
    <3>1. Later(j, applied)' = Later(j, applied) \cup {L + 1}
      BY <1>9, <2>3
    <3>2. ASSUME NEW i \in Later(j, applied)', \A h \in Later(j, applied)' : i <= h
          PROVE  log'[i].old # NoRow
      <4>1. CASE i \in Later(j, applied)
        BY <1>10, <2>1, <3>1, <3>2, <4>1 DEF HadRow
      <4>2. CASE i = L + 1 /\ i \notin Later(j, applied)
        <5>1. Later(j, applied) = {}
          BY <1>0, <2>1, <3>1, <3>2, <4>2
        <5>2. QED
          BY <1>2, <1>3, <1>10, <2>3, <4>2, <5>1 DEF HadRow
      <4>3. QED
        BY <3>1, <3>2, <4>1, <4>2
    <3>3. QED
      BY <3>1, <3>2 DEF HadRow
  <2>4. QED
    BY <2>2, <2>3
<1>11. QED
  BY <1>7, <1>8, <1>9, <1>10

LEMMA LoggedWriteInv ==
  ASSUME BesideInv, NEW k \in Keys, NEW v \in Values \cup {NoRow}, LoggedWrite(k, v)
  PROVE  BesideInv'
<1>0. SyncInv'
  BY SourceWriteInv DEF BesideInv, LoggedWrite
<1>1. /\ LogInv'
      /\ \A j \in Keys : Path(j) \subseteq Path(j)'
      /\ \A j \in Keys : HadRow(j) => HadRow(j)'
      /\ \A j \in Keys : Later(j, applied) \subseteq Later(j, applied)'
  BY WriteGrows
<1>2. UNCHANGED <<target, work, stored, stage, chunk, pending, extras>>
  BY DEF LoggedWrite, SourceWrite
<1> USE DEF stored, chunk
<1>3. \A p \in Phases, j \in Keys : \A t : Passed(p, j, t) => Passed(p, j, t)'
  BY <1>1, Zenon DEF Passed, Phases
<1>4. FollowInv'
  BY <1>1, <1>2 DEF BesideInv, FollowInv
<1>5. PassedInv'
  BY <1>2, <1>3 DEF BesideInv, PassedInv
<1>6. OnPathInv'
  <2>1. Present(window)' = Present(window) /\ Present(window) \subseteq Keys
    BY <1>2 DEF Present
  <2>2. QED
    BY <1>1, <1>2, <2>1 DEF BesideInv, OnPathInv
<1>7. PassingInv'
  <2>1. phase \in Phases
    BY DEF BesideInv, SyncInv, SyncTypeOK
  <2>2. QED
    BY <1>2, <1>3, <2>1 DEF BesideInv, PassingInv
<1>8. PlainInv'
  BY <1>2 DEF BesideInv, PlainInv
<1>9. QED
  BY <1>0, <1>1, <1>4, <1>5, <1>6, <1>7, <1>8 DEF BesideInv

(***************************************************************************)
(* A step of the stream: the path of the changed row loses its first       *)
(* version, and the row of the target is on the rest of the path if it was *)
(* on the path, or if it was there and its change was no insert.           *)
(***************************************************************************)
LEMMA StreamMoves ==
  ASSUME BesideInv, StreamStep
  PROVE  /\ \A j \in Keys : j = log[applied + 1].key \/
               /\ target'[j] = target[j] /\ Path(j)' = Path(j)
               /\ HadRow(j)' = HadRow(j) /\ Later(j, applied)' = Later(j, applied)
         /\ \A j \in Keys : j = log[applied + 1].key =>
              /\ target[j] \in Path(j) \/ (target[j] # NoRow /\ HadRow(j)) => target'[j] \in Path(j)'
              /\ target[j] = NoRow => target'[j] \in Path(j)' \/ target'[j] = NoRow
         /\ target' \in Rows
         /\ log[applied + 1].key \in touched
<1>1. PICK n \in Nat : n = applied
  BY DEF BesideInv, LogInv
<1>2. /\ log \in Seq(Changes) /\ n < Len(log) /\ Len(log) \in Nat /\ n + 1 \in 1..Len(log)
      /\ applied' = n + 1 /\ log' = log /\ source' = source
      /\ target' = ApplyRowChange(target, log[n + 1])
      /\ target \in Rows
  BY <1>1 DEF BesideInv, LogInv, StreamStep, sides, SyncInv, SyncTypeOK
<1>3. PICK e \in Changes : e = log[n + 1]
  BY <1>2
<1>4. PICK i \in Keys : i = e.key
  BY DEF Changes
<1>5. LeadsOn(n + 1)
  BY <1>2 DEF BesideInv, LogInv
<1>6. \A j \in Keys : /\ Later(j, applied) = Later(j, n)
                      /\ Later(j, applied)' = Later(j, n) \ {n + 1}
                      /\ Later(j, applied)' = Later(j, n + 1)
  BY <1>1, <1>2 DEF Later
<1>7. \A j \in Keys : n + 1 \in Later(j, n) <=> j = i
  BY <1>2, <1>3, <1>4 DEF Later
<1>8. \A j \in Keys : target'[j] = IF j = i THEN ApplyRowChange(target, e)[j] ELSE target[j]
  BY <1>2, <1>3, <1>4 DEF ApplyRowChange, Rows
<1>9. e.new \in Path(i)'
  <2>1. e.new \in PathFrom(i, n + 1)
    BY <1>3, <1>4, <1>5 DEF LeadsOn
  <2>2. QED
    BY <1>2, <1>6, <2>1 DEF Path, PathFrom
<1>10. Path(i) = {e.old} \cup Path(i)'
  <2>1. Later(i, applied) = Later(i, applied)' \cup {n + 1}
    BY <1>6, <1>7
  <2>2. QED
    BY <1>2, <1>3, <2>1 DEF Path, PathFrom
<1>11. HadRow(i) => e.old # NoRow
  <2>1. \A j \in Later(i, applied) : n + 1 <= j
    BY <1>1, <1>2 DEF Later
  <2>2. QED
    BY <1>3, <1>6, <1>7, <2>1 DEF HadRow
<1>12. target'[i] = CASE e.old = NoRow -> (IF target[i] = NoRow THEN e.new ELSE target[i])
                      [] e.new = NoRow -> NoRow
                      [] OTHER -> IF target[i] = NoRow THEN target[i] ELSE e.new
  BY <1>2, <1>4, <1>8 DEF ApplyRowChange, Rows
<1>13. target[i] \in Path(i) \/ (target[i] # NoRow /\ HadRow(i)) => target'[i] \in Path(i)'
  BY <1>9, <1>10, <1>11, <1>12
<1>14. ASSUME NEW j \in Keys, j # i
       PROVE  /\ target'[j] = target[j] /\ Path(j)' = Path(j)
              /\ HadRow(j)' = HadRow(j) /\ Later(j, applied)' = Later(j, applied)
  <2>1. Later(j, applied)' = Later(j, applied)
    BY <1>6, <1>7, <1>14
  <2>2. QED
    BY <1>2, <1>8, <1>14, <2>1 DEF Path, PathFrom, HadRow
<1>15. target' \in Rows
  BY <1>2, <1>3 DEF ApplyRowChange, Rows, Changes
<1>16. target[i] = NoRow => target'[i] \in Path(i)' \/ target'[i] = NoRow
  BY <1>9, <1>12
<1>17. log[applied + 1].key = i /\ i \in touched
  BY <1>1, <1>3, <1>4, <1>5 DEF LeadsOn
<1>18. QED
  BY <1>13, <1>14, <1>15, <1>16, <1>17

LEMMA StreamStepInv == ASSUME BesideInv, StreamStep PROVE BesideInv'
<1>1. PICK i \in Keys : i = log[applied + 1].key
  <2>1. log[applied + 1] \in Changes
    BY DEF BesideInv, LogInv, StreamStep
  <2>2. QED
    BY <2>1 DEF Changes
<1>2. /\ \A j \in Keys : j # i =>
           /\ target'[j] = target[j] /\ Path(j)' = Path(j)
           /\ HadRow(j)' = HadRow(j) /\ Later(j, applied)' = Later(j, applied)
      /\ target[i] \in Path(i) \/ (target[i] # NoRow /\ HadRow(i)) => target'[i] \in Path(i)'
      /\ target[i] = NoRow => target'[i] \in Path(i)' \/ target'[i] = NoRow
      /\ target' \in Rows
      /\ i \in touched
  BY <1>1, StreamMoves
<1>3. /\ stage \notin {"locked", "compare", "mutate", "replace", "reconcile", "owner", "commit", "save"}
      /\ work' = target'
      /\ UNCHANGED <<sides, stored, stage, chunk, pending, repair, faults, log, extras>>
  BY DEF StreamStep, ChunkLocked
<1> USE DEF sides, stored, chunk, repair
<1>4. SyncInv'
  <2>1. \A j \in Stable : target'[j] = target[j]
    BY <1>2 DEF Stable
  <2>2. SyncTypeOK'
    BY <1>2, <1>3 DEF BesideInv, SyncInv, SyncTypeOK
  <2>3. ProgressIsBehindTarget'
    BY <1>3, <2>1 DEF BesideInv, SyncInv, ProgressIsBehindTarget, Settled, Stable
  <2>4. WorkInv' /\ WindowInv' /\ HandInv' /\ ChunkInv'
    BY <1>3 DEF BesideInv, SyncInv, WorkInv, WindowInv, HandInv, ChunkInv, MutationStages, WindowStages
  <2>5. PhaseInv'
    BY <1>3 DEF BesideInv, SyncInv, PhaseInv
  <2>6. QED
    BY <2>2, <2>3, <2>4, <2>5 DEF SyncInv
<1>5. LogInv'
  <2>1. applied' \in Nat /\ applied' <= Len(log')
    BY DEF BesideInv, LogInv, StreamStep
  <2>2. \A n \in 1..Len(log) : LeadsOn(n)'
    BY <1>3 DEF BesideInv, LogInv, LeadsOn, PathFrom, Later
  <2>3. QED
    BY <1>3, <2>1, <2>2 DEF BesideInv, LogInv, Changes
<1>6. FollowInv'
  BY <1>2, <1>3 DEF BesideInv, FollowInv
<1>7. PassedInv'
  <2>1. SUFFICES ASSUME NEW p \in Phases, NEW k \in Keys \ extras, Passed(p, k, target[k])
                 PROVE  Passed(p, k, target[k])'
    BY <1>3 DEF BesideInv, PassedInv
  <2>2. CASE k # i
    BY <1>2, <2>1, <2>2, Zenon DEF Passed, Phases
  <2>3. CASE k = i /\ p # "delete_extras"
    <3>1. target[i] \in Path(i) \/ target[i] # NoRow
      BY <2>1, <2>3, Zenon DEF Passed, Phases
    <3>2. target'[i] \in Path(i)'
      BY <1>2, <2>3, <3>1 DEF BesideInv, FollowInv
    <3>3. QED
      BY <2>3, <3>2, Zenon DEF Passed, Phases
  <2>4. CASE p = "delete_extras"
    BY <2>4 DEF Passed
  <2>5. QED
    BY <2>2, <2>3, <2>4
<1>8. OnPathInv' /\ PassingInv' /\ PlainInv'
  BY <1>3 DEF BesideInv, OnPathInv, PassingInv, PlainInv
<1>9. QED
  BY <1>4, <1>5, <1>6, <1>7, <1>8 DEF BesideInv

-----------------------------------------------------------------------------
(* Steps of the sync leave the log and the stream's position alone. *)
LEMMA LogFrame ==
  ASSUME BesideInv, UNCHANGED <<sides, streamVars>>
  PROVE  /\ LogInv'
         /\ source' = source /\ log' = log /\ applied' = applied /\ extras' = extras
<1> USE DEF sides, streamVars
<1>1. \A n : LeadsOn(n)' = LeadsOn(n)
  BY DEF LeadsOn, PathFrom, Later
<1>2. QED
  BY <1>1 DEF BesideInv, LogInv, Changes

(* A step that changes neither the target nor the saved progress. *)
LEMMA SavedFrame ==
  ASSUME BesideInv, UNCHANGED <<sides, streamVars, target, savedCursor, savedComplete>>
  PROVE  LogInv' /\ FollowInv' /\ PassedInv'
<1>1. /\ LogInv'
      /\ source' = source /\ log' = log /\ applied' = applied /\ extras' = extras
  BY LogFrame
<1>2. FollowInv'
  BY <1>1, PathFrame DEF BesideInv, FollowInv
<1>3. PassedInv'
  BY <1>1, PathFrame DEF BesideInv, PassedInv
<1>4. QED
  BY <1>1, <1>2, <1>3

(* Steps outside the chunk's transaction, and the end of one that failed. *)
LEMMA IdleBeside ==
  ASSUME BesideInv, SyncInv',
         UNCHANGED <<sides, streamVars, target, savedCursor, savedComplete>>,
         stage' \in {"down", "load", "locked", "report", "done"}, work' \in {work, target}
  PROVE  BesideInv'
<1>1. LogInv' /\ FollowInv' /\ PassedInv'
  BY SavedFrame
<1>2. OnPathInv'
  <2>1. \A k : Path(k)' = Path(k)
    BY PathFrame, LogFrame
  <2>2. QED
    BY <2>1 DEF BesideInv, OnPathInv
<1>3. PassingInv' /\ PlainInv'
  BY DEF PassingInv, PlainInv
<1>4. QED
  BY <1>1, <1>2, <1>3 DEF BesideInv

(* The window is a page without gaps of the source as it is, and every row *)
(* of the source is the end of its path.                                   *)
LEMMA ReadSourceBeside ==
  ASSUME BesideInv, SyncInv', ReadSource, UNCHANGED streamVars
  PROVE  BesideInv'
<1> USE DEF ReadSource, sides, stored, repair
<1> DEFINE rest == After(Present(source), cursor)
<1>0. rest \in SUBSET Keys /\ source \in Rows /\ cursor \in Nat /\ Keys \subseteq Nat
  BY SyncChunkAssumption DEF BesideInv, SyncInv, SyncTypeOK, After, Present, Keys, NoCursor
<1>1. PICK n \in PageSizes(rest) :
        window' = [k \in Keys |-> IF k \in Lowest(rest, n) THEN source[k] ELSE NoRow]
  OBVIOUS
<1>2. n \in Nat /\ n # 0
  BY SyncChunkAssumption DEF PageSizes
<1>3. /\ Lowest(rest, n) \subseteq rest
      /\ \A k \in Lowest(rest, n), j \in rest : j <= k => j \in Lowest(rest, n)
  <2> HIDE DEF rest
  <2>1. QED
    BY <1>0, <1>2, LowestKeys
<1>4. Present(window)' = Lowest(rest, n)
  BY <1>0, <1>1, <1>3, Zenon DEF Present, After
<1>5. LogInv' /\ FollowInv' /\ PassedInv'
  BY SavedFrame
<1>6. \A k : Path(k)' = Path(k) /\ source[k] \in Path(k)
  <2>1. \A k : Path(k)' = Path(k)
    BY PathFrame, LogFrame
  <2>2. QED
    BY <2>1, Zenon DEF Path, PathFrom
<1>7. OnPathInv'
  <2>1. \A k \in Lowest(rest, n) : k \in Keys /\ window'[k] = source[k]
    BY <1>0, <1>1, <1>3, Zenon
  <2>2. ASSUME NEW k \in Keys, NEW j \in Lowest(rest, n),
               cursor < k, k <= j, window'[k] = NoRow
        PROVE  source[k] = NoRow
    <3>1. SUFFICES ASSUME source[k] # NoRow PROVE FALSE
      OBVIOUS
    <3>2. k \in rest
      BY <1>0, <2>2, <3>1 DEF After, Present
    <3>3. QED
      BY <1>3, <2>1, <2>2, <3>1, <3>2
  <2>3. \A k \in Keys : work[k] = target[k] \/ work[k] \in Path(k)
    BY DEF BesideInv, OnPathInv
  <2>4. QED
    <3> HIDE DEF rest
    <3>1. stage' = "compare" /\ cursor' = cursor /\ work' = work /\ target' = target
      OBVIOUS
    <3>2. QED
      BY <1>4, <1>6, <2>1, <2>2, <2>3, <3>1 DEF OnPathInv
<1>8. PassingInv' /\ PlainInv'
  BY DEF PassingInv, PlainInv
<1>9. QED
  BY <1>5, <1>7, <1>8 DEF BesideInv

(***************************************************************************)
(* Rows that the source does not have now, as in a gap of the window or in *)
(* the tail: the passes need not touch them.  A missing row is on its      *)
(* path, and a row that differs has a change that the stream still brings. *)
(***************************************************************************)
LEMMA AbsentPassed ==
  ASSUME BesideInv, NEW p \in Phases, NEW k \in Keys \ extras, NoRow \in Path(k)
  PROVE  Passed(p, k, target[k])
<1>1. CASE target[k] = NoRow
  BY <1>1, OnPathPassed
<1>2. CASE target[k] # NoRow
  <2>1. SUFFICES ASSUME target[k] \notin Path(k) PROVE Later(k, applied) # {}
    BY <1>2, Zenon DEF Passed, Phases
  <2>2. HadRow(k)
    BY <1>2, <2>1 DEF BesideInv, FollowInv
  <2>3. QED
    BY <2>2 DEF HadRow, Path, PathFrom
<1>3. QED
  BY <1>1, <1>2

(* The tail: the source has no row after the cursor. *)
LEMMA ApplyTargetTailBeside ==
  ASSUME BesideInv, SyncInv', ApplyTargetTail, UNCHANGED streamVars
  PROVE  BesideInv'
<1> USE DEF ApplyTargetTail, sides, stored, repair
<1> DEFINE tail == After(Present(work), cursor)
<1>0. /\ tail \in SUBSET Keys /\ work \in Rows /\ source \in Rows
      /\ cursor \in Nat /\ Keys \subseteq Nat /\ phase \in Phases
  BY SyncChunkAssumption
     DEF BesideInv, SyncInv, SyncTypeOK, After, Present, Keys, NoCursor
<1>1. PICK n \in IF tail = {} THEN {0} ELSE PageSizes(tail) :
        work' = IF phase = "delete_extras" THEN Without(work, Lowest(tail, n)) ELSE work
  OBVIOUS
<1>2. Lowest(tail, n) \subseteq tail
  BY DEF Lowest
<1>3. \A k \in Keys : k > cursor => source[k] = NoRow
  BY <1>0 DEF After, Present
<1>4. \A k \in Keys :
        work'[k] = IF phase = "delete_extras" /\ k \in Lowest(tail, n) THEN NoRow ELSE work[k]
  BY <1>0, <1>1 DEF Without, Rows
<1>5. work = target /\ cursor = savedCursor[phase] /\ pending = {}
  BY DEF BesideInv, SyncInv, WorkInv, WindowInv, HandInv, MutationStages
<1>6. LogInv' /\ FollowInv' /\ PassedInv'
  BY SavedFrame
<1>7. /\ \A k : Path(k)' = Path(k)
      /\ \A k : source[k] \in Path(k)
      /\ \A p, k, t : Passed(p, k, t)' = Passed(p, k, t)
      /\ extras' = extras
  <2>1. source' = source /\ log' = log /\ applied' = applied /\ extras' = extras
    BY LogFrame
  <2>2. QED
    BY <2>1, PathFrame DEF Path, PathFrom
<1>8. \A k \in Keys : work'[k] = target[k] \/ (work'[k] = NoRow /\ NoRow \in Path(k))
  <2>1. \A k \in Lowest(tail, n) : k \in Keys /\ k > cursor
    BY <1>0, <1>2 DEF After
  <2>2. QED
    BY <1>3, <1>4, <1>5, <1>7, <2>1
<1>9. OnPathInv'
  BY <1>7, <1>8 DEF OnPathInv
<1>10. PassingInv'
  <2>1. SUFFICES ASSUME NEW k \in Keys \ extras, complete' \/ k <= cursor'
                 PROVE  Passed(phase, k, work'[k])
    BY <1>7 DEF PassingInv
  <2>2. Passed(phase, k, target[k])
    <3>1. CASE k <= cursor
      BY <1>0, <1>5, <3>1 DEF BesideInv, PassedInv
    <3>2. CASE k > cursor
      <4>1. NoRow \in Path(k)
        BY <1>3, <1>7, <3>2
      <4>2. QED
        BY <1>0, <4>1, AbsentPassed
    <3>3. QED
      BY <1>0, <3>1, <3>2
  <2>3. QED
    BY <1>0, <1>8, <2>2, OnPathPassed
<1>11. PlainInv'
  BY DEF PlainInv
<1>12. QED
  BY <1>6, <1>9, <1>10, <1>11 DEF BesideInv

(* The comparison: up to the end of the window every row has been passed   *)
(* or becomes pending.                                                     *)
LEMMA ReconcileBeside ==
  ASSUME BesideInv, SyncInv', ReconcileTargetPages, UNCHANGED streamVars
  PROVE  BesideInv'
<1> USE DEF ReconcileTargetPages, sides, stored, repair
<1> DEFINE wanted == Present(window)
           end == Last(wanted)
           there == TargetRange(end)
<1>0. /\ work \in Rows /\ source \in Rows /\ window \in Rows
      /\ cursor \in Nat /\ Keys \subseteq Nat /\ phase \in Phases
      /\ wanted \in SUBSET Keys /\ there \in SUBSET Keys
  BY SyncChunkAssumption
     DEF BesideInv, SyncInv, SyncTypeOK, Present, Keys, NoCursor, TargetRange
<1>1. end \in wanted /\ \A j \in wanted : j <= end
  <2>1. wanted # {}
    BY DEF BesideInv, SyncInv, WindowInv
  <2> HIDE DEF wanted
  <2>2. QED
    BY <1>0, <2>1, LastKey
<1>2. /\ cursor' = end
      /\ \A k \in Keys : work'[k] =
           IF phase = "delete_extras" /\ k \in there \ wanted THEN NoRow ELSE work[k]
  BY <1>0 DEF Without, Rows
<1>3. /\ phase = "insert_missing" => pending' = wanted \ there
      /\ phase = "update_divergent" =>
           pending' = { k \in wanted \cap there : work[k] # window[k] }
  OBVIOUS
<1>4. \A k \in Keys : cursor < k /\ k <= end /\ k \notin wanted => NoRow \in Path(k)
  <2>1. \A k \in Keys : k \notin wanted => window[k] = NoRow
    BY DEF Present
  <2>2. QED
    BY <1>1, <2>1 DEF BesideInv, OnPathInv
<1>5. \A k \in wanted : window[k] \in Path(k)
  BY DEF BesideInv, OnPathInv
<1>6. \A k \in Keys : k \in there <=> work[k] # NoRow /\ k > cursor /\ k <= end
  BY DEF TargetRange, Present
<1>7. work = target /\ cursor = savedCursor[phase] /\ complete = FALSE
  BY DEF BesideInv, SyncInv, WorkInv, WindowInv, MutationStages, WindowStages
<1>8. phase = "update_divergent" => savedComplete["insert_missing"]
  BY DEF BesideInv, SyncInv, PhaseInv, LockStages, WindowStages
<1> HIDE DEF wanted, end, there, ReconcileTargetPages
<1>9. /\ stage = "compare" /\ stage' = "mutate"
      /\ UNCHANGED <<sides, target, stored, phase, complete, window, repair, faults>>
  BY DEF ReconcileTargetPages
<1>10. LogInv' /\ FollowInv' /\ PassedInv'
  BY <1>9, SavedFrame
<1>11. /\ \A k : Path(k)' = Path(k)
       /\ \A p, k, t : Passed(p, k, t)' = Passed(p, k, t)
       /\ extras' = extras
  <2>1. source' = source /\ log' = log /\ applied' = applied /\ extras' = extras
    BY <1>9, LogFrame
  <2>2. QED
    BY <2>1, PathFrame
<1>12. \A k \in Keys : work'[k] = target[k] \/ (work'[k] = NoRow /\ NoRow \in Path(k))
  BY <1>2, <1>4, <1>6, <1>7
<1>13. OnPathInv'
  <2>1. Present(window)' = wanted
    BY <1>9 DEF Present, wanted
  <2>2. QED
    BY <1>5, <1>9, <1>11, <1>12, <2>1 DEF OnPathInv
<1>14. PassingInv'
  <2>1. SUFFICES ASSUME NEW k \in Keys \ extras, k <= end, k \notin pending'
                 PROVE  Passed(phase, k, work'[k])
    BY <1>2, <1>7, <1>9, <1>11 DEF PassingInv
  <2>2. SUFFICES Passed(phase, k, target[k])
    BY <1>0, <1>12, <2>2, OnPathPassed, Zenon
  <2>3. CASE k <= cursor
    BY <1>0, <1>7, <2>3 DEF BesideInv, PassedInv
  <2>4. CASE k > cursor /\ k \notin wanted
    <3>1. NoRow \in Path(k)
      BY <1>0, <1>4, <2>1, <2>4
    <3>2. QED
      BY <1>0, <3>1, AbsentPassed
  <2>5. CASE k > cursor /\ k \in wanted
    <3>1. CASE phase = "insert_missing"
      <4>1. target[k] # NoRow
        BY <1>3, <1>6, <1>7, <2>1, <2>5, <3>1
      <4>2. QED
        BY <3>1, <4>1 DEF Passed
    <3>2. CASE phase = "update_divergent" /\ target[k] = NoRow
      <4>1. Passed("insert_missing", k, target[k])
        BY <1>8, <3>2 DEF BesideInv, PassedInv, Phases
      <4>2. QED
        BY <3>2, <4>1 DEF Passed
    <3>3. CASE phase = "update_divergent" /\ target[k] # NoRow
      <4>1. target[k] = window[k]
        BY <1>3, <1>6, <1>7, <2>1, <2>5, <3>3
      <4>2. QED
        BY <1>0, <1>5, <2>5, <4>1, OnPathPassed
    <3>4. CASE phase = "delete_extras"
      BY <3>4 DEF Passed
    <3>5. QED
      BY <1>0, <3>1, <3>2, <3>3, <3>4 DEF Phases
  <2>6. QED
    BY <1>0, <2>3, <2>4, <2>5
<1>15. PlainInv'
  BY <1>9 DEF PlainInv
<1>16. QED
  BY <1>10, <1>13, <1>14, <1>15 DEF BesideInv

(* A statement writes rows of the window, all of them on their paths. *)
LEMMA MutateBatchBeside ==
  ASSUME BesideInv, SyncInv', MutateBatch, UNCHANGED streamVars
  PROVE  BesideInv'
<1> USE DEF MutateBatch, sides, stored, chunk, repair
<1> DEFINE batch == Lowest(pending, BatchSize)
<1>0. batch \subseteq pending /\ pending \subseteq Present(window) /\ phase \in Phases
  BY DEF BesideInv, SyncInv, SyncTypeOK, HandInv, MutationStages, Lowest
<1>1. \A k \in Keys : work'[k] = IF k \in batch THEN window[k] ELSE work[k]
  BY DEF Overwrite
<1>2. \A k \in batch : window[k] \in Path(k)
  BY <1>0 DEF BesideInv, OnPathInv
<1>3. LogInv' /\ FollowInv' /\ PassedInv'
  BY SavedFrame
<1>4. /\ \A k : Path(k)' = Path(k)
      /\ \A p, k, t : Passed(p, k, t)' = Passed(p, k, t)
      /\ extras' = extras
  <2>1. source' = source /\ log' = log /\ applied' = applied /\ extras' = extras
    BY LogFrame
  <2>2. QED
    BY <2>1, PathFrame
<1>5. /\ stage = "mutate" /\ stage' = "mutate" /\ pending' = pending \ batch
      /\ UNCHANGED <<target, window, cursor, complete, phase>>
  OBVIOUS
<1> HIDE DEF batch, MutateBatch
<1>6. OnPathInv'
  <2>1. Present(window)' = Present(window)
    BY <1>5 DEF Present
  <2>2. QED
    BY <1>1, <1>2, <1>4, <1>5, <2>1 DEF BesideInv, OnPathInv
<1>7. PassingInv'
  <2>1. SUFFICES ASSUME NEW k \in Keys \ extras, complete \/ k <= cursor, k \notin pending \ batch
                 PROVE  Passed(phase, k, work'[k])
    BY <1>4, <1>5 DEF PassingInv
  <2>2. CASE k \in batch
    BY <1>0, <1>1, <1>2, <2>2, OnPathPassed
  <2>3. CASE k \notin pending
    BY <1>0, <1>1, <1>5, <2>1, <2>3 DEF BesideInv, PassingInv
  <2>4. QED
    BY <2>1, <2>2, <2>3
<1>8. PlainInv'
  BY <1>5 DEF PlainInv
<1>9. QED
  BY <1>3, <1>6, <1>7, <1>8 DEF BesideInv

(* The batch is through. *)
LEMMA VerifyRowsBeside ==
  ASSUME BesideInv, SyncInv', stage = "mutate", stage' = "commit",
         UNCHANGED <<sides, target, work, stored, chunk, pending, streamVars>>
  PROVE  BesideInv'
<1> USE DEF sides, stored, chunk
<1>1. LogInv' /\ FollowInv' /\ PassedInv'
  BY SavedFrame
<1>2. /\ \A k : Path(k)' = Path(k)
      /\ \A p, k, t : Passed(p, k, t)' = Passed(p, k, t)
      /\ extras' = extras
  <2>1. source' = source /\ log' = log /\ applied' = applied /\ extras' = extras
    BY LogFrame
  <2>2. QED
    BY <2>1, PathFrame
<1>3. OnPathInv' /\ PassingInv' /\ PlainInv'
  BY <1>2 DEF BesideInv, OnPathInv, PassingInv, PlainInv
<1>4. QED
  BY <1>1, <1>3 DEF BesideInv

(* The commit makes a row of the target one that is on its path, or leaves *)
(* it as it was.                                                           *)
LEMMA CommitBeside ==
  ASSUME BesideInv, SyncInv', Commit, UNCHANGED streamVars
  PROVE  BesideInv'
<1> USE DEF Commit, sides, stored, chunk, repair
<1>1. /\ LogInv'
      /\ source' = source /\ log' = log /\ applied' = applied /\ extras' = extras
  BY LogFrame
<1>2. /\ \A k : Path(k)' = Path(k)
      /\ \A k : HadRow(k)' = HadRow(k)
      /\ \A p, k, t : Passed(p, k, t)' = Passed(p, k, t)
  BY <1>1, PathFrame
<1>3. \A k \in Keys : target'[k] = target[k] \/ target'[k] \in Path(k)
  BY DEF BesideInv, OnPathInv
<1>4. FollowInv'
  BY <1>1, <1>2, <1>3 DEF BesideInv, FollowInv
<1>5. PassedInv'
  <2>1. \A p \in Phases, k \in Keys \ extras :
          Passed(p, k, target[k]) => Passed(p, k, target'[k])
    BY <1>3, OnPathPassed
  <2>2. QED
    BY <1>1, <1>2, <2>1 DEF BesideInv, PassedInv
<1>6. OnPathInv' /\ PassingInv' /\ PlainInv'
  BY <1>1, <1>2 DEF BesideInv, OnPathInv, PassingInv, PlainInv
<1>7. QED
  BY <1>1, <1>4, <1>5, <1>6 DEF BesideInv

(* The progress that is saved is the committed chunk's. *)
LEMMA SaveProgressBeside ==
  ASSUME BesideInv, SyncInv', SaveProgress, UNCHANGED streamVars
  PROVE  BesideInv'
<1> USE DEF SaveProgress, sides, chunk, repair
<1>0. /\ savedCursor \in [Phases -> Keys \cup {NoCursor}] /\ phase \in Phases
      /\ savedComplete \in [Phases -> BOOLEAN] /\ work = target /\ pending = {}
  BY DEF BesideInv, SyncInv, SyncTypeOK, WorkInv, HandInv, MutationStages
<1>1. /\ LogInv'
      /\ source' = source /\ log' = log /\ applied' = applied /\ extras' = extras
  BY LogFrame
<1>2. /\ \A k : Path(k)' = Path(k)
      /\ \A k : HadRow(k)' = HadRow(k)
      /\ \A p, k, t : Passed(p, k, t)' = Passed(p, k, t)
  BY <1>1, PathFrame
<1>3. FollowInv'
  BY <1>1, <1>2 DEF BesideInv, FollowInv
<1>4. PassedInv'
  <2>1. SUFFICES ASSUME NEW p \in Phases, NEW k \in Keys \ extras,
                        savedComplete'[p] \/ k <= savedCursor'[p]
                 PROVE  Passed(p, k, target[k])
    BY <1>1, <1>2 DEF PassedInv
  <2>2. CASE p = phase
    <3>1. complete \/ k <= cursor
      BY <1>0, <2>1, <2>2
    <3>2. QED
      BY <1>0, <2>2, <3>1 DEF BesideInv, PassingInv
  <2>3. CASE p # phase
    <3>1. savedComplete[p] \/ k <= savedCursor[p]
      BY <1>0, <2>1, <2>3
    <3>2. QED
      BY <3>1 DEF BesideInv, PassedInv
  <2>4. QED
    BY <2>2, <2>3
<1>5. OnPathInv' /\ PassingInv' /\ PlainInv'
  BY <1>0, <1>1, <1>2 DEF OnPathInv, PassingInv, PlainInv
<1>6. QED
  BY <1>1, <1>3, <1>4, <1>5 DEF BesideInv

-----------------------------------------------------------------------------
(* Without a unique index no statement is refused. *)
LEMMA NoneRefused ==
  ASSUME UniqueIndex = FALSE
  PROVE  \A rows, batch : ~ Refused(rows, batch)
BY DEF Refused, Owners

LEMMA SyncStepBeside ==
  ASSUME UniqueIndex = FALSE, BesideInv, Start \/ ChunkStep \/ Fault, UNCHANGED streamVars
  PROVE  BesideInv'
<1>0. SyncInv'
  BY NextInv DEF BesideInv, Next
<1> USE DEF stored, chunk, repair
<1>1. CASE Start
  BY <1>0, <1>1, IdleBeside DEF Start
<1>2. CASE PhaseComplete
  BY <1>0, <1>2, IdleBeside DEF PhaseComplete
<1>3. CASE PrepareChunk
  BY <1>0, <1>3, IdleBeside DEF PrepareChunk
<1>4. CASE ReadSource
  BY <1>0, <1>4, ReadSourceBeside
<1>5. CASE ApplyTargetTail
  BY <1>0, <1>5, ApplyTargetTailBeside
<1>6. CASE ReconcileTargetPages
  BY <1>0, <1>6, ReconcileBeside
<1>7. CASE MutateBatch
  BY <1>0, <1>7, MutateBatchBeside
<1>8. CASE DuplicateKey
  BY <1>8, NoneRefused, Zenon DEF DuplicateKey
<1>9. CASE Abort
  BY <1>0, <1>9, IdleBeside DEF Abort
<1>10. CASE ReplaceOwner \/ ReplaceEnds \/ ReadOwner \/ ReconcileOwner \/ ReconcileEnds
  BY <1>10 DEF BesideInv, PlainInv, ReplaceOwner, ReplaceEnds, ReadOwner, ReconcileOwner, ReconcileEnds
<1>11. CASE VerifyRows /\ ~ Abort
  <2>1. /\ stage = "mutate" /\ stage' = "commit"
        /\ UNCHANGED <<sides, target, work, stored, chunk, pending, streamVars>>
    BY <1>11 DEF VerifyRows
  <2>2. QED
    BY <1>0, <2>1, VerifyRowsBeside
<1>12. CASE Commit
  BY <1>0, <1>12, CommitBeside
<1>13. CASE SaveProgress
  BY <1>0, <1>13, SaveProgressBeside
<1>14. CASE SaveReport
  BY <1>0, <1>14, IdleBeside DEF SaveReport
<1>15. CASE Fault
  BY <1>0, <1>15, IdleBeside DEF Fault
<1>16. MutationMisses => Abort
  BY DEF MutationMisses
<1>17. QED
  BY <1>1, <1>2, <1>3, <1>4, <1>5, <1>6, <1>7, <1>8, <1>9, <1>10, <1>11, <1>12, <1>13,
     <1>14, <1>15, <1>16 DEF ChunkStep

LEMMA StutterBeside ==
  ASSUME BesideInv, UNCHANGED <<vars, streamVars>>
  PROVE  BesideInv'
<1> USE DEF vars, sides, stored, chunk, repair, streamVars
<1>1. SyncInv'
  BY NextInv DEF BesideInv
<1>2. LogInv' /\ FollowInv' /\ PassedInv'
  BY SavedFrame
<1>3. OnPathInv' /\ PassingInv' /\ PlainInv'
  <2>1. /\ \A k : Path(k)' = Path(k)
        /\ \A p, k, t : Passed(p, k, t)' = Passed(p, k, t)
    BY PathFrame
  <2>2. Present(window)' = Present(window)
    BY DEF Present
  <2>3. QED
    BY <2>1, <2>2 DEF BesideInv, OnPathInv, PassingInv, PlainInv
<1>4. QED
  BY <1>1, <1>2, <1>3 DEF BesideInv

(***************************************************************************)
(* Source-authoritative convergence beside the live stream, for tables     *)
(* without a secondary unique index: when the sync of the table has been   *)
(* reported complete (run_mysql_sync_phases) and the stream has applied    *)
(* every change, each row is the source's, except rows with a key that     *)
(* only the target had when the sync began.                                *)
(***************************************************************************)
THEOREM SyncBesideStreamConverges ==
  ASSUME UniqueIndex = FALSE
  PROVE  StreamSpec => []LiveRowsConverge
<1>1. StreamInit => BesideInv
  BY BesideInit
<1>2. BesideInv /\ [StreamNext]_<<vars, streamVars>> => BesideInv'
  <2>1. SUFFICES ASSUME BesideInv, [StreamNext]_<<vars, streamVars>> PROVE BesideInv'
    OBVIOUS
  <2>2. CASE StreamStep
    BY <2>1, <2>2, StreamStepInv
  <2>3. CASE (Start \/ ChunkStep \/ Fault) /\ UNCHANGED streamVars
    BY <2>1, <2>3, SyncStepBeside
  <2>4. CASE \E k \in Keys, v \in Values \cup {NoRow} : LoggedWrite(k, v)
    BY <2>1, <2>4, LoggedWriteInv
  <2>5. CASE UNCHANGED <<vars, streamVars>>
    BY <2>1, <2>5, StutterBeside
  <2>6. QED
    BY <2>1, <2>2, <2>3, <2>4, <2>5 DEF StreamNext
<1>3. BesideInv => LiveRowsConverge
  BY BesideConverges
<1>4. QED
  BY <1>1, <1>2, <1>3, PTL DEF StreamSpec

=============================================================================

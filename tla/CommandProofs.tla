---------------------------- MODULE CommandProofs ----------------------------
(***************************************************************************)
(* What the operator commands promise for every table, batch size and      *)
(* number of source changes: cutover, repair-guest-range and               *)
(* repair-fk-orphans, each beside an application that writes and a stream  *)
(* that replays, and the targeted resolution of row conflicts.  The        *)
(* commands share the variables whose names they share, as in MCCommands.  *)
(***************************************************************************)
EXTENDS Integers, Sequences, FiniteSets, FiniteSetTheorems, SequenceTheorems, TLAPS

CONSTANTS
  Keys, SampleSize, DivergenceLimit, MaxLag,      \* cutover
  Guests, Start, End, ExpectedRows, Utms,         \* repair-guest-range
  Children, Parents, Names, ArtistNames, Limit,   \* repair-fk-orphans
  Conflicts, Me, MaxChanges,                      \* targeted conflict resolution
  Values, BatchSize, MaxEvents

VARIABLES
  source, target, log, pos, pc, work,
  quarantined, writes, endpoint, result,
  utms, snapshot, after, page, changed,
  case, expected, plan, batch, locked, seen, history,
  ledger, keys, read, evidence, todo, past, changes

Cut == INSTANCE Cutover
Guest == INSTANCE GuestRangeRepair
Orphan == INSTANCE OrphanRepair
Conflict == INSTANCE ConflictResolution

-----------------------------------------------------------------------------
(* Cutover *)

(* The plan of a cutover that compares whole tables and tolerates no lag. *)
FullPlan ==
  /\ IsFiniteSet(Keys) /\ Keys \subseteq Int
  /\ DivergenceLimit \in Nat /\ DivergenceLimit >= Cardinality(Keys)
  /\ MaxLag = 0

AppWrites == [key : Keys, row : Values \cup {0}]

(* Between the gates the application does not write, so what a gate has    *)
(* found stays true up to the switch.                                      *)
CutoverInv ==
  /\ source \in Cut!Rows /\ target \in Cut!Rows
  /\ log \in Seq(AppWrites)
  /\ pos \in Nat /\ pos <= Len(log)
  /\ pc \in {"drain", "validate", "switch"} => ~ writes
  /\ pc \in {"validate", "switch"} => pos = Len(log)
  /\ pc = "switch" => target = source

(* A limit that covers the table is never reached. *)
LEMMA AllRowsRead ==
  ASSUME FullPlan, NEW rows
  PROVE  Cut!read_rows(rows, DivergenceLimit) = [id \in {k \in Keys : rows[k] # 0} |-> rows[id]]
<1> DEFINE ids == {k \in Keys : rows[k] # 0}
<1>1. ASSUME NEW id \in ids PROVE Cardinality({j \in ids : j < id}) < DivergenceLimit
  <2>1. /\ IsFiniteSet(Keys \ {id}) /\ Cardinality(Keys \ {id}) = Cardinality(Keys) - 1
        /\ Cardinality(Keys) \in Nat
    BY <1>1, FS_RemoveElement, FS_CardinalityType DEF FullPlan
  <2>2. {j \in ids : j < id} \in SUBSET (Keys \ {id})
    BY DEF FullPlan
  <2>3. /\ Cardinality({j \in ids : j < id}) <= Cardinality(Keys \ {id})
        /\ Cardinality({j \in ids : j < id}) \in Nat
    <3>1. \A S \in SUBSET (Keys \ {id}) :
            IsFiniteSet(S) /\ Cardinality(S) <= Cardinality(Keys \ {id}) /\ Cardinality(S) \in Nat
      BY <2>1, FS_Subset, FS_CardinalityType
    <3>2. QED
      BY <2>2, <3>1
  <2>4. QED
    BY <2>1, <2>3 DEF FullPlan
<1>2. {id \in ids : Cardinality({j \in ids : j < id}) < DivergenceLimit} = ids
  BY <1>1
<1>3. Cut!read_rows(rows, DivergenceLimit) =
        [k \in {id \in ids : Cardinality({j \in ids : j < id}) < DivergenceLimit} |-> rows[k]]
  BY DEF Cut!read_rows, Cut!Cardinality, Cardinality
<1>4. QED
  BY <1>2, <1>3

(* Then tables that pass the comparison are equal. *)
LEMMA PassedIsEqual ==
  ASSUME FullPlan, source \in Cut!Rows, target \in Cut!Rows, Cut!ValidationPassed
  PROVE  target = source
<1> DEFINE S == {k \in Keys : source[k] # 0}
           T == {k \in Keys : target[k] # 0}
           left == [k \in S |-> source[k]]
           right == [k \in T |-> target[k]]
<1>1. /\ Cut!read_rows(source, DivergenceLimit) = left
      /\ Cut!read_rows(target, DivergenceLimit) = right
  BY AllRowsRead, Zenon
<1>2. Cut!compare_rows(left, right) = {}
  BY <1>1 DEF Cut!ValidationPassed
<1>3. DOMAIN left = S /\ DOMAIN right = T
  OBVIOUS
<1>4. \A k \in S \cup T : k \in S /\ k \in T /\ left[k] = right[k]
  <2> HIDE DEF S, T, left, right
  <2> QED
    BY <1>2, <1>3 DEF Cut!compare_rows
<1>5. \A k \in Keys : target[k] = source[k]
  BY <1>4, Zenon
<1>6. QED
  BY <1>5 DEF Cut!Rows

LEMMA CutoverStep ==
  ASSUME FullPlan, CutoverInv, [Cut!Next]_(Cut!vars)
  PROVE  CutoverInv' /\ (Cut!SwitchStep \/ UNCHANGED Cut!vars)
<1> USE DEF CutoverInv, Cut!cutover, Cut!Stays
<1>1. CASE \E k \in Keys, row \in Values \cup {0} : Cut!Write(k, row)
  <2>1. PICK k \in Keys, row \in Values \cup {0} : Cut!Write(k, row)
    BY <1>1
  <2>2. source' \in Cut!Rows /\ target' \in Cut!Rows
    BY <2>1 DEF Cut!Write, Cut!Rows
  <2>3. /\ log' \in Seq(AppWrites)
        /\ pos' \in Nat /\ pos' <= Len(log')
    <3>1. [key |-> k, row |-> row] \in AppWrites
      BY DEF AppWrites
    <3>2. log' = log \/ log' = Append(log, [key |-> k, row |-> row])
      BY <2>1 DEF Cut!Write
    <3>3. pos' = pos
      BY <2>1 DEF Cut!Write
    <3>4. QED
      BY <3>1, <3>2, <3>3
  <2>4. QED
    BY <2>1, <2>2, <2>3 DEF Cut!Write, Cut!SwitchStep
<1>2. CASE Cut!StreamApplies
  <2>1. target' \in Cut!Rows
    <3>1. log[pos + 1] \in AppWrites
      BY <1>2 DEF Cut!StreamApplies
    <3>2. QED
      BY <1>2, <3>1 DEF Cut!StreamApplies, Cut!Rows, AppWrites
  <2>2. pos' \in Nat /\ pos' <= Len(log')
    BY <1>2 DEF Cut!StreamApplies
  <2>3. pc \notin {"validate", "switch"}
    BY <1>2 DEF Cut!StreamApplies
  <2>4. QED
    BY <1>2, <2>1, <2>2, <2>3 DEF Cut!StreamApplies, Cut!SwitchStep
<1>3. CASE Cut!StopWrites
  BY <1>3 DEF Cut!StopWrites, Cut!SwitchStep
<1>4. CASE Cut!DrainLag
  <2>1. pc' = "validate" => pos = Len(log)
    BY <1>4 DEF Cut!DrainLag, FullPlan
  <2>2. QED
    BY <1>4, <2>1 DEF Cut!DrainLag, Cut!SwitchStep
<1>5. CASE Cut!DrainFails
  BY <1>5 DEF Cut!DrainFails, Cut!SwitchStep
<1>6. CASE Cut!Validate
  <2>1. pc' = "switch" => target = source
    BY <1>6, PassedIsEqual DEF Cut!Validate
  <2>2. QED
    BY <1>6, <2>1 DEF Cut!Validate, Cut!SwitchStep
<1>7. CASE Cut!SwitchEndpoint
  BY <1>7 DEF Cut!SwitchEndpoint, Cut!SwitchStep
<1>8. CASE Cut!ResumeWrites
  BY <1>8 DEF Cut!ResumeWrites, Cut!SwitchStep
<1>9. CASE Cut!ResumeAfterFailure
  BY <1>9 DEF Cut!ResumeAfterFailure, Cut!SwitchStep
<1>10. CASE UNCHANGED Cut!vars
  BY <1>10 DEF Cut!vars
<1>11. QED
  BY <1>1, <1>2, <1>3, <1>4, <1>5, <1>6, <1>7, <1>8, <1>9, <1>10 DEF Cut!Next

(***************************************************************************)
(* run_cutover with a full plan moves the application's endpoint only to a *)
(* target that equals the source and that no event still on its way will   *)
(* change, whatever the external parts do when they fail.                  *)
(***************************************************************************)
THEOREM CutoverSwitchIsSafe ==
  ASSUME FullPlan
  PROVE  Cut!Spec => [][Cut!SwitchStep]_(Cut!vars)
<1>1. Cut!Init => CutoverInv
  BY DEF Cut!Init, CutoverInv
<1>2. CutoverInv /\ [Cut!Next]_(Cut!vars) => CutoverInv'
  BY CutoverStep
<1>3. CutoverInv /\ [Cut!Next]_(Cut!vars) => [Cut!SwitchStep]_(Cut!vars)
  BY CutoverStep
<1>4. QED
  BY <1>1, <1>2, <1>3, PTL DEF Cut!Spec

(***************************************************************************)
(* However run_cutover ends, the application may write again, unless the   *)
(* write controller itself failed to stop or to resume the writes; with    *)
(* any plan.                                                               *)
(***************************************************************************)
THEOREM CutoverResumesWrites == Cut!Spec => []Cut!WritesComeBack
<1>1. Cut!Init => Cut!WritesComeBack
  BY DEF Cut!Init, Cut!WritesComeBack
<1>2. Cut!WritesComeBack /\ [Cut!Next]_(Cut!vars) => Cut!WritesComeBack'
  BY DEF Cut!WritesComeBack, Cut!Next, Cut!vars, Cut!cutover, Cut!Stays, Cut!Write, Cut!StreamApplies,
         Cut!StopWrites, Cut!DrainLag, Cut!DrainFails, Cut!Validate, Cut!SwitchEndpoint,
         Cut!ResumeWrites, Cut!ResumeAfterFailure
<1>3. QED
  BY <1>1, <1>2, PTL DEF Cut!Spec

-----------------------------------------------------------------------------
(* repair-guest-range *)

(* Guest ids are numbers, and those of the range are possible ids. *)
GuestIds == Start \in Int /\ End \in Int /\ Guests \subseteq Int /\ Start .. End \subseteq Guests

GuestChanges ==
  [guest : Guests, before : Values \cup {Guest!NoGuest}, row : Values \cup {Guest!NoGuest}]

(* The versions that a guest has had at the source since the first n       *)
(* changes, and since the stream's position.                               *)
LaterGuest(g, n) == { j \in n+1 .. Len(log) : log[j].guest = g }
GuestPathFrom(g, n) == {source[g]} \cup { log[j].before : j \in LaterGuest(g, n) }
GuestPath(g) == GuestPathFrom(g, pos)

GuestLogInv ==
  /\ source \in Guest!Rows /\ target \in Guest!Rows
  /\ log \in Seq(GuestChanges)
  /\ pos \in Nat /\ pos <= Len(log)
  /\ \A n \in 1 .. Len(log) : log[n].row \in GuestPathFrom(log[n].guest, n)

(* A guest that the source has not changed is as in the snapshot.  Each    *)
(* such guest that has been copied is on the path on which the stream      *)
(* brings it to the source's row.                                          *)
GuestCopyInv ==
  /\ snapshot \in Guest!Rows
  /\ after \in Int /\ after >= Start - 1
  /\ pc = "start" => after = Start - 1
  /\ pc # "start" => \A g \in Guests \ changed : snapshot[g] = source[g]
  /\ \A g \in (Start .. after) \ changed : g \in Guests => target[g] \in GuestPath(g)
  /\ pc = "ok" => after >= End

(* A page is the next ids of the range; under its row locks a guest is     *)
(* absent or as in the snapshot.                                           *)
GuestPageInv ==
  /\ pc \in {"batch", "readback"} =>
       \E n \in Nat \ {0} : page = after + 1 .. after + n /\ after + n <= End
  /\ pc = "readback" =>
       \A g \in page : work[g] = snapshot[g] /\ target[g] \in {Guest!NoGuest, snapshot[g]}

GuestInv == GuestLogInv /\ GuestCopyInv /\ GuestPageInv

LEMMA GuestInit == ASSUME GuestIds, Guest!Init PROVE GuestInv
<1> USE DEF Guest!Init
<1>1. GuestLogInv
  BY DEF GuestLogInv
<1>2. after \in Int /\ after >= Start - 1 /\ Start .. after = {}
  BY DEF GuestIds
<1>3. GuestCopyInv /\ GuestPageInv
  BY <1>2 DEF GuestCopyInv, GuestPageInv
<1>4. QED
  BY <1>1, <1>3 DEF GuestInv

(* A change of the source makes the guest's path longer. *)
LEMMA GuestChange ==
  ASSUME GuestIds, GuestInv, NEW g \in Guests, NEW row \in Values \cup {Guest!NoGuest},
         Guest!SourceChange(g, row)
  PROVE  GuestInv'
<1> DEFINE e == [guest |-> g, before |-> source[g], row |-> row]
<1>1. PICK L \in Nat : L = Len(log)
  BY DEF GuestInv, GuestLogInv
<1>2. /\ source \in Guest!Rows /\ e \in GuestChanges
      /\ log \in Seq(GuestChanges) /\ pos \in Nat /\ pos <= L
  BY <1>1 DEF GuestInv, GuestLogInv, GuestChanges, Guest!Rows
<1>3. /\ log' = Append(log, e) /\ source' = [source EXCEPT ![g] = row]
      /\ changed' = IF pc = "start" THEN changed ELSE changed \cup {g}
      /\ UNCHANGED <<pos, target, snapshot, pc, after, page, work>>
  BY DEF Guest!SourceChange, Guest!command
<1>4. /\ log' \in Seq(GuestChanges)
      /\ Len(log') = L + 1
      /\ \A n \in 1..L : log'[n] = log[n]
      /\ log'[L + 1] = e
  BY <1>1, <1>2, <1>3
<1>5. e.guest = g /\ e.before = source[g] /\ e.row = row
  OBVIOUS
<1>6. /\ source' \in Guest!Rows
      /\ \A h \in Guests : source'[h] = IF h = g THEN row ELSE source[h]
  BY <1>2, <1>3 DEF Guest!Rows
<1> HIDE DEF e
<1>7. \A h \in Guests, n \in 0..L :
        LaterGuest(h, n)' = LaterGuest(h, n) \cup (IF h = g THEN {L + 1} ELSE {})
  BY <1>1, <1>4, <1>5 DEF LaterGuest
<1>8. ASSUME NEW h \in Guests, NEW n \in 0..L
      PROVE  GuestPathFrom(h, n) \subseteq GuestPathFrom(h, n)'
  <2>1. \A i \in LaterGuest(h, n) : i \in LaterGuest(h, n)' /\ log'[i].before = log[i].before
    BY <1>1, <1>4, <1>7 DEF LaterGuest
  <2>2. source[h] \in GuestPathFrom(h, n)'
    <3>1. CASE h = g
      <4>1. L + 1 \in LaterGuest(h, n)' /\ log'[L + 1].before = source[h]
        BY <1>4, <1>5, <1>7, <3>1
      <4>2. QED
        BY <4>1 DEF GuestPathFrom
    <3>2. CASE h # g
      BY <1>6, <3>2 DEF GuestPathFrom
    <3>3. QED
      BY <3>1, <3>2
  <2>3. QED
    BY <2>1, <2>2 DEF GuestPathFrom
<1>9. GuestLogInv'
  <2>1. ASSUME NEW n \in 1..L PROVE (log[n].row \in GuestPathFrom(log[n].guest, n))'
    <3>1. PICK h \in Guests : h = log[n].guest
      <4>1. log[n] \in GuestChanges
        BY <1>1, <1>2
      <4>2. QED
        BY <4>1 DEF GuestChanges
    <3>2. log[n].row \in GuestPathFrom(h, n)
      BY <1>1, <3>1 DEF GuestInv, GuestLogInv
    <3>3. log[n].row \in GuestPathFrom(h, n)'
      <4>1. n \in 0..L
        OBVIOUS
      <4>2. QED
        BY <1>8, <3>2, <4>1
    <3>4. log'[n].guest = h /\ log'[n].row = log[n].row
      BY <1>4, <3>1
    <3>5. QED
      BY <3>3, <3>4
  <2>2. (log[L + 1].row \in GuestPathFrom(log[L + 1].guest, L + 1))'
    BY <1>4, <1>5, <1>6 DEF GuestPathFrom
  <2>3. \A n \in 1..Len(log') : n \in 1..L \/ n = L + 1
    BY <1>4
  <2>4. \A n \in 1..Len(log') : (log[n].row \in GuestPathFrom(log[n].guest, n))'
    BY <2>1, <2>2, <2>3
  <2>5. (Seq(GuestChanges))' = Seq(GuestChanges)
    BY DEF GuestChanges
  <2>6. QED
    BY <1>2, <1>3, <1>4, <1>6, <2>4, <2>5 DEF GuestLogInv, GuestInv
<1>10. \A h \in Guests : GuestPath(h) \subseteq GuestPath(h)'
  <2>1. pos \in 0..L
    BY <1>2
  <2>2. QED
    BY <1>3, <1>8, <2>1, Zenon DEF GuestPath, GuestPathFrom, LaterGuest
<1>11. GuestCopyInv'
  <2>1. pc # "start" => \A h \in Guests \ changed' : snapshot[h] = source'[h]
    BY <1>3, <1>6 DEF GuestInv, GuestCopyInv
  <2>2. changed \subseteq changed'
    BY <1>3
  <2>3. QED
    BY <1>3, <1>10, <2>1, <2>2 DEF GuestInv, GuestCopyInv
<1>12. GuestPageInv'
  BY <1>3 DEF GuestInv, GuestPageInv
<1>13. QED
  BY <1>9, <1>11, <1>12 DEF GuestInv

(* A step of the stream keeps a guest that is on its path there. *)
LEMMA GuestReplay ==
  ASSUME GuestIds, GuestInv, Guest!StreamReplays
  PROVE  GuestInv'
<1>1. PICK n \in Nat : n = pos
  BY DEF GuestInv, GuestLogInv
<1>2. /\ log \in Seq(GuestChanges) /\ n < Len(log) /\ Len(log) \in Nat /\ n + 1 \in 1..Len(log)
      /\ pos' = n + 1 /\ target \in Guest!Rows
      /\ UNCHANGED <<source, log, snapshot, pc, after, page, work, changed>>
  BY <1>1 DEF GuestInv, GuestLogInv, Guest!StreamReplays, Guest!command
<1>3. PICK e \in GuestChanges : e = log[n + 1]
  BY <1>2
<1>4. PICK i \in Guests : i = e.guest
  BY DEF GuestChanges
<1>5. target' = IF (IF e.before = Guest!NoGuest THEN target[i] # Guest!NoGuest ELSE target[i] = Guest!NoGuest)
                THEN target ELSE [target EXCEPT ![i] = e.row]
  BY <1>1, <1>3, <1>4 DEF Guest!StreamReplays
<1>6. ~ Guest!Locked(i)
  BY <1>1, <1>3, <1>4 DEF Guest!StreamReplays
<1>7. \A h \in Guests : /\ LaterGuest(h, pos) = LaterGuest(h, n)
                        /\ LaterGuest(h, pos)' = LaterGuest(h, n) \ {n + 1}
                        /\ LaterGuest(h, pos)' = LaterGuest(h, n + 1)
  BY <1>1, <1>2 DEF LaterGuest
<1>8. \A h \in Guests : n + 1 \in LaterGuest(h, n) <=> h = i
  BY <1>2, <1>3, <1>4 DEF LaterGuest
<1>9. e.row \in GuestPath(i)'
  <2>1. e.row \in GuestPathFrom(i, n + 1)
    BY <1>2, <1>3, <1>4 DEF GuestInv, GuestLogInv
  <2>2. QED
    BY <1>2, <1>7, <2>1 DEF GuestPath, GuestPathFrom
<1>10. GuestPath(i) = {e.before} \cup GuestPath(i)'
  <2>1. LaterGuest(i, pos) = LaterGuest(i, pos)' \cup {n + 1}
    BY <1>7, <1>8
  <2>2. QED
    BY <1>2, <1>3, <2>1 DEF GuestPath, GuestPathFrom
<1>11. target[i] \in GuestPath(i) => target'[i] \in GuestPath(i)'
  <2>1. target'[i] = target[i] \/ target'[i] = e.row
    BY <1>2, <1>5 DEF Guest!Rows
  <2>2. target[i] = e.before => target'[i] = e.row
    BY <1>2, <1>5 DEF Guest!Rows
  <2>3. QED
    BY <1>9, <1>10, <2>1, <2>2
<1>12. ASSUME NEW h \in Guests, h # i
       PROVE  target'[h] = target[h] /\ GuestPath(h)' = GuestPath(h)
  <2>1. LaterGuest(h, pos)' = LaterGuest(h, pos)
    BY <1>7, <1>8, <1>12
  <2>2. QED
    BY <1>2, <1>5, <1>12, <2>1 DEF GuestPath, GuestPathFrom, Guest!Rows
<1>13. GuestLogInv'
  <2>1. target' \in Guest!Rows
    <3>1. e.row \in Values \cup {Guest!NoGuest}
      BY DEF GuestChanges
    <3>2. QED
      BY <1>2, <1>5, <3>1 DEF Guest!Rows
  <2>2. \A m \in 1..Len(log) : (log[m].row \in GuestPathFrom(log[m].guest, m))'
    BY <1>2 DEF GuestInv, GuestLogInv, GuestPathFrom, LaterGuest
  <2>3. QED
    BY <1>2, <2>1, <2>2 DEF GuestInv, GuestLogInv, GuestChanges
<1>14. GuestCopyInv'
  BY <1>2, <1>11, <1>12 DEF GuestInv, GuestCopyInv
<1>15. GuestPageInv'
  <2>1. pc = "readback" => i \notin page
    BY <1>6 DEF Guest!Locked
  <2>2. ASSUME pc = "readback", NEW g \in page PROVE target'[g] = target[g]
    <3>1. g \in Guests
      <4>1. PICK m \in Nat \ {0} : page = after + 1 .. after + m /\ after + m <= End
        BY <2>2 DEF GuestInv, GuestPageInv
      <4>2. after \in Int /\ after >= Start - 1
        BY DEF GuestInv, GuestCopyInv
      <4>3. QED
        BY <2>2, <4>1, <4>2 DEF GuestIds
    <3>2. QED
      BY <1>12, <2>1, <2>2, <3>1
  <2>3. QED
    BY <1>2, <2>2 DEF GuestInv, GuestPageInv
<1>16. QED
  BY <1>13, <1>14, <1>15 DEF GuestInv

(* The log and the sides are not changed: the paths are not either. *)
LEMMA GuestFrame ==
  ASSUME GuestInv, UNCHANGED <<source, log, pos>>
  PROVE  /\ target' \in Guest!Rows => GuestLogInv'
         /\ \A g : GuestPath(g)' = GuestPath(g)
<1>1. \A g, n : GuestPathFrom(g, n)' = GuestPathFrom(g, n)
  BY DEF GuestPathFrom, LaterGuest
<1>2. \A n : (log[n].row \in GuestPathFrom(log[n].guest, n))' = (log[n].row \in GuestPathFrom(log[n].guest, n))
  BY DEF GuestPathFrom, LaterGuest
<1>3. \A g : GuestPath(g)' = GuestPath(g)
  BY DEF GuestPath, GuestPathFrom, LaterGuest
<1>4. QED
  BY <1>2, <1>3 DEF GuestInv, GuestLogInv, GuestChanges

LEMMA GuestFail ==
  ASSUME GuestInv, pc # "start", Guest!Fail
  PROVE  GuestInv'
<1> USE DEF Guest!Fail
<1>1. GuestLogInv' /\ \A g : GuestPath(g)' = GuestPath(g)
  BY GuestFrame DEF GuestInv, GuestLogInv
<1>2. GuestCopyInv' /\ GuestPageInv'
  BY <1>1 DEF GuestInv, GuestCopyInv, GuestPageInv
<1>3. QED
  BY <1>1, <1>2 DEF GuestInv

LEMMA GuestSnapshot ==
  ASSUME GuestInv, Guest!TakeSnapshot
  PROVE  GuestInv'
<1> USE DEF Guest!TakeSnapshot
<1>1. GuestLogInv' /\ \A g : GuestPath(g)' = GuestPath(g)
  BY GuestFrame DEF GuestInv, GuestLogInv
<1>2. snapshot' = source /\ source \in Guest!Rows /\ pc' \in {"page", "error"}
  BY DEF GuestInv, GuestLogInv
<1>3. GuestCopyInv'
  BY <1>1, <1>2 DEF GuestInv, GuestCopyInv
<1>4. GuestPageInv'
  BY <1>2 DEF GuestPageInv
<1>5. QED
  BY <1>1, <1>3, <1>4 DEF GuestInv

LEMMA GuestPage ==
  ASSUME GuestIds, GuestInv, Guest!StartPage
  PROVE  GuestInv'
<1>1. CASE Guest!Fail
  BY <1>1, GuestFail DEF Guest!StartPage
<1>2. CASE ~ Guest!Fail
  <2> DEFINE ids == Guest!PageOf(Guest!ReadPage)
  <2>1. /\ pc = "page" /\ pc' = "batch" /\ page' = ids
        /\ Guest!validate_page(ids)
        /\ UNCHANGED <<source, target, utms, log, pos, snapshot, after, work, changed>>
    BY <1>2 DEF Guest!StartPage
  <2>2. after \in Int
    BY DEF GuestInv, GuestCopyInv
  <2>3. ids \in SUBSET (after + 1 .. End)
    <3>1. \A g \in Guest!ReadPage : g \in Int /\ after < g /\ g <= End
      BY DEF Guest!ReadPage, GuestIds
    <3>2. ids \subseteq Guest!ReadPage
      BY DEF Guest!PageOf
    <3>3. QED
      BY <2>2, <3>1, <3>2 DEF GuestIds
  <2> HIDE DEF ids
  <2>4. IsFiniteSet(ids) /\ Cardinality(ids) \in Nat
    <3>1. IsFiniteSet(after + 1 .. End)
      BY <2>2, FS_Interval DEF GuestIds
    <3>2. IsFiniteSet(ids)
      BY <2>3, <3>1, FS_Subset, Zenon
    <3>3. QED
      BY <3>2, FS_CardinalityType
  <2>5. ids # {} /\ ids = after + 1 .. after + Cardinality(ids)
    BY <2>1 DEF Guest!validate_page, Guest!Cardinality, Cardinality
  <2>6. Cardinality(ids) # 0 /\ after + Cardinality(ids) <= End
    <3>1. Cardinality(ids) # 0
      BY <2>2, <2>5
    <3>2. after + Cardinality(ids) \in ids
      BY <2>2, <2>4, <2>5, <3>1
    <3>3. QED
      BY <2>2, <2>3, <2>4, <3>1, <3>2 DEF GuestIds
  <2>7. GuestLogInv' /\ \A g : GuestPath(g)' = GuestPath(g)
    BY <2>1, GuestFrame DEF GuestInv, GuestLogInv
  <2>8. GuestCopyInv'
    BY <2>1, <2>7 DEF GuestInv, GuestCopyInv
  <2>9. GuestPageInv'
    BY <2>1, <2>4, <2>5, <2>6 DEF GuestPageInv
  <2>10. QED
    BY <2>7, <2>8, <2>9 DEF GuestInv
<1>3. QED
  BY <1>1, <1>2

LEMMA GuestInsert ==
  ASSUME GuestIds, GuestInv, Guest!InsertBatch
  PROVE  GuestInv'
<1>1. CASE Guest!Fail
  BY <1>1, GuestFail DEF Guest!InsertBatch
<1>2. CASE ~ Guest!Fail
  <2>1. /\ pc = "batch" /\ pc' = "readback"
        /\ \A g \in page : target[g] \in {Guest!NoGuest, snapshot[g]}
        /\ work' = [g \in Guests |-> IF g \in page THEN snapshot[g] ELSE target[g]]
        /\ UNCHANGED <<source, target, utms, log, pos, snapshot, after, page, changed>>
    BY <1>2 DEF Guest!InsertBatch
  <2>2. page \subseteq Guests
    <3>1. PICK m \in Nat \ {0} : page = after + 1 .. after + m /\ after + m <= End
      BY <2>1 DEF GuestInv, GuestPageInv
    <3>2. after \in Int /\ after >= Start - 1
      BY DEF GuestInv, GuestCopyInv
    <3>3. QED
      BY <3>1, <3>2 DEF GuestIds
  <2>3. GuestLogInv' /\ \A g : GuestPath(g)' = GuestPath(g)
    BY <2>1, GuestFrame DEF GuestInv, GuestLogInv
  <2>4. GuestCopyInv'
    BY <2>1, <2>3 DEF GuestInv, GuestCopyInv
  <2>5. GuestPageInv'
    BY <2>1, <2>2 DEF GuestInv, GuestPageInv
  <2>6. QED
    BY <2>3, <2>4, <2>5 DEF GuestInv
<1>3. QED
  BY <1>1, <1>2

(* What a commit copies is the snapshot's row, which for a guest that has  *)
(* not changed is the end of its path; it only takes the place of no row.  *)
LEMMA GuestCommit ==
  ASSUME GuestIds, GuestInv, Guest!CommitBatch
  PROVE  GuestInv' /\ Guest!InsertStep
<1>1. PICK m \in Nat \ {0} : page = after + 1 .. after + m /\ after + m <= End
  BY DEF Guest!CommitBatch, GuestInv, GuestPageInv
<1>2. /\ pc = "readback" /\ pc' \in {"error", "page", "ok"}
      /\ pc' = "ok" => ~ (after' < End)
      /\ target' = [g \in Guests |-> IF g \in page THEN work[g] ELSE target[g]]
      /\ UNCHANGED <<source, utms, log, pos, snapshot, page, work, changed>>
  BY DEF Guest!CommitBatch
<1>3. after \in Int /\ after >= Start - 1
  BY DEF GuestInv, GuestCopyInv
<1>4. after' = after + m
  <2>1. /\ after + m \in page
        /\ \A h \in page : h <= after + m
        /\ \A x \in page : (\A h \in page : x >= h) => x = after + m
    BY <1>1, <1>3
  <2>2. after' = CHOOSE x \in page : \A h \in page : x >= h
    BY DEF Guest!CommitBatch
  <2>3. QED
    BY <2>1, <2>2
<1>5. page \subseteq Guests /\ page \subseteq Start .. End
  BY <1>1, <1>3 DEF GuestIds
<1>6. \A g \in page : work[g] = snapshot[g] /\ target[g] \in {Guest!NoGuest, snapshot[g]}
  BY <1>2 DEF GuestInv, GuestPageInv
<1>7. \A g \in Guests : target'[g] = IF g \in page THEN snapshot[g] ELSE target[g]
  BY <1>2, <1>6
<1>8. Guest!InsertStep
  BY <1>5, <1>6, <1>7 DEF Guest!InsertStep
<1>9. target' \in Guest!Rows
  <2>1. \A g \in page : target'[g] \in Values \cup {Guest!NoGuest}
    BY <1>5, <1>7 DEF GuestInv, GuestCopyInv, GuestLogInv, Guest!Rows
  <2>2. QED
    BY <1>2, <2>1, Zenon DEF GuestInv, GuestLogInv, Guest!Rows
<1>10. GuestLogInv' /\ \A g : GuestPath(g)' = GuestPath(g)
  BY <1>2, <1>9, GuestFrame
<1>11. GuestCopyInv'
  <2>1. \A g : source[g] \in GuestPath(g)
    BY DEF GuestPath, GuestPathFrom
  <2>2. ASSUME NEW g \in (Start .. after') \ changed, g \in Guests PROVE target'[g] \in GuestPath(g)
    <3>1. CASE g \in page
      BY <1>2, <1>7, <2>1, <2>2, <3>1 DEF GuestInv, GuestCopyInv
    <3>2. CASE g \notin page
      <4>1. g \in Start .. after
        BY <1>1, <1>3, <1>4, <2>2, <3>2 DEF GuestIds
      <4>2. QED
        BY <1>7, <2>2, <3>2, <4>1 DEF GuestInv, GuestCopyInv
    <3>3. QED
      BY <3>1, <3>2
  <2>3. after' \in Int /\ after' >= Start - 1 /\ (pc' = "ok" => after' >= End)
    BY <1>2, <1>3, <1>4 DEF GuestIds
  <2>4. QED
    BY <1>2, <1>10, <2>2, <2>3 DEF GuestInv, GuestCopyInv
<1>12. GuestPageInv'
  BY <1>2 DEF GuestPageInv
<1>13. QED
  BY <1>8, <1>10, <1>11, <1>12 DEF GuestInv

LEMMA GuestNext ==
  ASSUME GuestIds, GuestInv, [Guest!Next]_(Guest!vars)
  PROVE  GuestInv' /\ (Guest!InsertStep \/ UNCHANGED Guest!vars)
<1>1. CASE Guest!CommitBatch
  BY <1>1, GuestCommit
<1>2. CASE UNCHANGED Guest!vars
  <2>1. GuestLogInv' /\ \A g : GuestPath(g)' = GuestPath(g)
    BY <1>2, GuestFrame DEF GuestInv, GuestLogInv, Guest!vars
  <2>2. GuestCopyInv' /\ GuestPageInv'
    BY <1>2, <2>1 DEF GuestInv, GuestCopyInv, GuestPageInv, Guest!vars
  <2>3. QED
    BY <1>2, <2>1, <2>2 DEF GuestInv
<1>3. CASE Guest!Next /\ ~ Guest!CommitBatch
  <2>1. Guest!InsertStep
    BY <1>3 DEF Guest!InsertStep
  <2>2. Guest!Disconnected => GuestInv'
    BY GuestFail DEF Guest!Disconnected
  <2>3. QED
    BY <1>3, <2>1, <2>2, GuestChange, GuestReplay, GuestSnapshot, GuestPage, GuestInsert DEF Guest!Next
<1>4. QED
  BY <1>1, <1>2, <1>3

(***************************************************************************)
(* repair_with_backend reports success only when the range has been        *)
(* restored: once the stream has replayed everything, each guest of the    *)
(* range that the source did not change after the snapshot is the source's *)
(* row, whatever the stream still had to replay when a page was inserted.  *)
(***************************************************************************)
THEOREM GuestRangeIsRestored ==
  ASSUME GuestIds
  PROVE  Guest!Spec => []Guest!RangeRestored
<1>1. Guest!Init => GuestInv
  BY GuestInit
<1>2. GuestInv /\ [Guest!Next]_(Guest!vars) => GuestInv'
  BY GuestNext
<1>3. GuestInv => Guest!RangeRestored
  <2>1. SUFFICES ASSUME GuestInv, pc = "ok", pos = Len(log), NEW g \in (Start .. End) \ changed
                 PROVE  target[g] = source[g]
    BY DEF Guest!RangeRestored
  <2>2. target[g] \in GuestPath(g)
    BY <2>1 DEF GuestInv, GuestCopyInv, GuestIds
  <2>3. LaterGuest(g, pos) = {}
    BY <2>1 DEF GuestInv, GuestLogInv, LaterGuest
  <2>4. QED
    BY <2>2, <2>3 DEF GuestPath, GuestPathFrom
<1>4. QED
  BY <1>1, <1>2, <1>3, PTL DEF Guest!Spec

(***************************************************************************)
(* insert_batch under its row locks only inserts: no commit changes a      *)
(* guest that the target has, nor one outside the range.                   *)
(***************************************************************************)
THEOREM GuestRepairOnlyInserts ==
  ASSUME GuestIds
  PROVE  Guest!Spec => [][Guest!InsertStep]_(Guest!vars)
<1>1. Guest!Init => GuestInv
  BY GuestInit
<1>2. GuestInv /\ [Guest!Next]_(Guest!vars) => GuestInv'
  BY GuestNext
<1>3. GuestInv /\ [Guest!Next]_(Guest!vars) => [Guest!InsertStep]_(Guest!vars)
  BY GuestNext
<1>4. QED
  BY <1>1, <1>2, <1>3, PTL DEF Guest!Spec

-----------------------------------------------------------------------------
(* repair-fk-orphans *)

(* The steps of a batch, under the table locks. *)
BatchSteps ==
  {"row", "absent", "parent", "artist", "restore", "child", "verify", "verify artist", "commit"}

Shaped(rows) ==
  /\ DOMAIN rows = {"children", "parents", "artist"}
  /\ DOMAIN rows.children = Children /\ DOMAIN rows.parents = Parents

(* The batch may change the child: it is an orphan under the lock, or the  *)
(* source had another parent for it since.                                 *)
MayRepair(c) ==
  \/ Orphan!IsOrphan(target, c)
  \/ case /\ \E rows \in history :
       Orphan!ParentOf(rows, target.children[c]) # Orphan!ParentOf(target, target.children[c])

(* What the batch has changed, the source had since the lock was taken. *)
BatchInv ==
  pc \in BatchSteps =>
    /\ locked /\ source \in history
    /\ \A c \in Children :
         work.children[c] # target.children[c] =>
           MayRepair(c) /\ \E rows \in history : work.children[c] = rows.children[c]
    /\ \A p \in Parents :
         work.parents[p] # target.parents[p] =>
           case /\ \E rows \in history : work.parents[p] = rows.parents[p]
    /\ work.parents # target.parents => case
    /\ work.artist # target.artist =>
         case /\ target.artist = "none" /\ \E rows \in history : work.artist = rows.artist

(* What is known of the child in hand and of the parent read for it. *)
RowInv ==
  /\ pc \in {"parent", "artist", "restore", "child"} => (Orphan!First(batch) \in Children => MayRepair(Orphan!First(batch)))
  /\ pc \in {"artist", "restore"} =>
       case /\ \E rows \in history : seen.parent = Orphan!ParentOf(rows, seen.child)

OrphanInv ==
  /\ Shaped(target) /\ Shaped(work)
  /\ DOMAIN seen = {"child", "parent", "artist", "inserted"}
  /\ BatchInv /\ RowInv

LEMMA OrphanInit == ASSUME Orphan!Init PROVE OrphanInv
<1> USE DEF Orphan!Init
<1>1. Shaped(target)
  BY DEF Shaped, Orphan!Rows
<1>2. DOMAIN seen = {"child", "parent", "artist", "inserted"}
  BY DEF Orphan!NothingSeen
<1>3. BatchInv /\ RowInv
  BY DEF BatchInv, RowInv, BatchSteps
<1>4. QED
  BY <1>1, <1>2, <1>3 DEF OrphanInv

(* The source's versions since the lock only become more. *)
LEMMA RepairGrows ==
  ASSUME UNCHANGED <<target, case>>, history \subseteq history'
  PROVE  \A c : MayRepair(c) => MayRepair(c)'
BY DEF MayRepair

(* An orphan in the batch's view of the target may be repaired. *)
LEMMA OrphanMayBeRepaired ==
  ASSUME OrphanInv, pc \in BatchSteps, NEW c \in Children, Orphan!IsOrphan(work, c)
  PROVE  MayRepair(c)
<1> DEFINE x == target.children[c]
<1>1. CASE work.children[c] # x
  BY <1>1 DEF OrphanInv, BatchInv
<1>2. CASE work.children[c] = x /\ ~ Orphan!IsOrphan(target, c)
  <2>1. /\ Orphan!Refers(x, Orphan!ParentOf(target, x))
        /\ ~ Orphan!Refers(x, Orphan!ParentOf(work, x))
    BY <1>2 DEF Orphan!IsOrphan
  <2>2. Orphan!ParentOf(target, x) # Orphan!ParentOf(work, x)
    BY <2>1
  <2>3. x.parent \in Parents /\ work.parents[x.parent] # target.parents[x.parent]
    BY <2>2 DEF Orphan!ParentOf
  <2>4. case /\ \E rows \in history : work.parents[x.parent] = rows.parents[x.parent]
    BY <2>3 DEF OrphanInv, BatchInv
  <2>5. \E rows \in history : Orphan!ParentOf(rows, x) # Orphan!ParentOf(target, x)
    BY <2>3, <2>4 DEF Orphan!ParentOf
  <2>6. QED
    BY <2>4, <2>5 DEF MayRepair
<1>3. QED
  BY <1>1, <1>2 DEF MayRepair

(* The source changes. *)
LEMMA OrphanChange ==
  ASSUME OrphanInv, NEW rows, NEW event, Orphan!SourceChange(rows, event)
  PROVE  OrphanInv'
<1>1. /\ source' = rows /\ history' = IF history = {} THEN {} ELSE history \cup {rows}
      /\ UNCHANGED <<case, pc, batch, locked, work, seen, target>>
  BY DEF Orphan!SourceChange, Orphan!command
<1>2. history \subseteq history' /\ (source \in history => source' \in history')
  BY <1>1
<1>3. \A c : MayRepair(c) => MayRepair(c)'
  BY <1>1, <1>2, RepairGrows
<1>4. BatchInv'
  BY <1>1, <1>2, <1>3 DEF OrphanInv, BatchInv
<1>5. RowInv'
  BY <1>1, <1>2, <1>3 DEF OrphanInv, RowInv
<1>6. QED
  BY <1>1, <1>4, <1>5 DEF OrphanInv, Shaped

(* Steps outside a batch, and its end. *)
LEMMA OrphanIdle ==
  ASSUME OrphanInv, pc' \notin BatchSteps, Shaped(target'), work' \in {work, target},
         seen' = seen \/ seen' = Orphan!NothingSeen
  PROVE  OrphanInv'
<1>1. BatchInv' /\ RowInv'
  BY DEF BatchInv, RowInv, BatchSteps
<1>2. Shaped(work)' /\ Shaped(target)'
  BY DEF OrphanInv, Shaped
<1>3. QED
  BY <1>1, <1>2 DEF OrphanInv, Orphan!NothingSeen

LEMMA OrphanFail == ASSUME OrphanInv, Orphan!Fail PROVE OrphanInv'
<1>1. pc' \notin BatchSteps /\ target' = target /\ work' = target /\ seen' = Orphan!NothingSeen
  BY DEF Orphan!Fail, BatchSteps
<1>2. Shaped(target')
  BY <1>1 DEF OrphanInv
<1>3. QED
  BY <1>1, <1>2, OrphanIdle

LEMMA OrphanReplay ==
  ASSUME OrphanInv, Orphan!StreamReplays
  PROVE  OrphanInv'
<1>1. pc' \notin BatchSteps /\ work' = work /\ seen' = seen
  BY DEF Orphan!StreamReplays, Orphan!command, OrphanInv, BatchInv
<1>2. Shaped(target')
  <2> DEFINE event == log[pos + 1]
  <2>1. CASE event.table = "children"
    BY <2>1 DEF Orphan!StreamReplays, OrphanInv, Shaped
  <2>2. CASE event.table = "parents"
    BY <2>2 DEF Orphan!StreamReplays, OrphanInv, Shaped
  <2>3. CASE event.table \notin {"children", "parents"}
    BY <2>3 DEF Orphan!StreamReplays, OrphanInv, Shaped
  <2>4. QED
    BY <2>1, <2>2, <2>3
<1>3. QED
  BY <1>1, <1>2, OrphanIdle

LEMMA OrphanBegin ==
  ASSUME OrphanInv, Orphan!BeginBatch
  PROVE  OrphanInv'
<1>1. /\ pc' = "row" /\ locked' = TRUE /\ work' = target /\ history' = {source}
      /\ UNCHANGED <<case, source, target, seen>>
  BY DEF Orphan!BeginBatch, Orphan!Goto, Orphan!world
<1>2. BatchInv' /\ RowInv'
  BY <1>1 DEF BatchInv, RowInv
<1>3. QED
  BY <1>1, <1>2 DEF OrphanInv, Shaped

(* Steps of a batch that write nothing. *)
LEMMA OrphanReads ==
  ASSUME OrphanInv, pc \in BatchSteps, pc' \in BatchSteps,
         UNCHANGED <<case, source, target, locked, work, history>>
  PROVE  Shaped(target)' /\ Shaped(work)' /\ BatchInv' /\ \A c : MayRepair(c)' = MayRepair(c)
<1>1. \A c : MayRepair(c)' = MayRepair(c)
  BY DEF MayRepair
<1>2. BatchInv'
  BY <1>1 DEF OrphanInv, BatchInv
<1>3. QED
  BY <1>1, <1>2 DEF OrphanInv, Shaped

(* The next row of the batch, or its end. *)
LEMMA OrphanNextRow ==
  ASSUME OrphanInv, pc \in BatchSteps, Orphan!NextRow,
         UNCHANGED <<case, source, target, locked, work, history>>
  PROVE  OrphanInv'
<1>1. pc' \in {"row", "commit"} /\ seen' = Orphan!NothingSeen
  BY DEF Orphan!NextRow, Orphan!Goto
<1>2. Shaped(target)' /\ Shaped(work)' /\ BatchInv'
  BY <1>1, OrphanReads DEF BatchSteps
<1>3. RowInv'
  BY <1>1 DEF RowInv
<1>4. QED
  BY <1>1, <1>2, <1>3 DEF OrphanInv, Orphan!NothingSeen

(* A child of the batch's view becomes one that the source has now. *)
LEMMA OrphanWritesChild ==
  ASSUME OrphanInv, pc \in BatchSteps, pc' \in {"absent", "verify"}, NEW c, NEW row,
         c \in Children => MayRepair(c) /\ row = source.children[c],
         work' = [work EXCEPT !.children[c] = row],
         UNCHANGED <<case, source, target, locked, history, seen>>
  PROVE  OrphanInv'
<1>1. /\ work'.parents = work.parents /\ work'.artist = work.artist
      /\ \A d \in Children : work'.children[d] = IF d = c THEN row ELSE work.children[d]
      /\ Shaped(work')
  BY DEF OrphanInv, Shaped
<1>2. \A d : MayRepair(d)' = MayRepair(d)
  BY DEF MayRepair
<1>3. BatchInv'
  BY <1>1, <1>2 DEF OrphanInv, BatchInv
<1>4. RowInv'
  BY DEF RowInv
<1>5. QED
  BY <1>1, <1>3, <1>4 DEF OrphanInv, Shaped

LEMMA OrphanCheck ==
  ASSUME OrphanInv, Orphan!CheckRow
  PROVE  OrphanInv'
<1> DEFINE c == Orphan!First(batch)
<1>0. /\ pc = "row" /\ pc \in BatchSteps
      /\ UNCHANGED <<case, expected, source, log, pos, target, plan, locked, history>>
  BY DEF Orphan!CheckRow, Orphan!world, BatchSteps
<1>1. CASE ~ Orphan!IsOrphan(work, c)
  BY <1>0, <1>1, OrphanNextRow DEF Orphan!CheckRow
<1>2. CASE Orphan!IsOrphan(work, c) /\ source.children[c] = Orphan!NoChild
  <2>1. /\ work' = [work EXCEPT !.children[c] = Orphan!NoChild]
        /\ pc' = "absent" /\ seen' = seen
    BY <1>2 DEF Orphan!CheckRow, Orphan!Goto
  <2>2. c \in Children => MayRepair(c)
    BY <1>0, <1>2, OrphanMayBeRepaired
  <2> HIDE DEF c
  <2>3. QED
    BY <1>0, <1>2, <2>1, <2>2, OrphanWritesChild, Zenon
<1>3. CASE Orphan!IsOrphan(work, c) /\ source.children[c] # Orphan!NoChild
  <2>1. /\ seen' = [seen EXCEPT !.child = source.children[c]]
        /\ pc' = "parent" /\ work' = work /\ batch' = batch
    BY <1>3 DEF Orphan!CheckRow, Orphan!Goto
  <2>2. c \in Children => MayRepair(c)
    BY <1>0, <1>3, OrphanMayBeRepaired
  <2>3. Shaped(target)' /\ Shaped(work)' /\ BatchInv' /\ \A d : MayRepair(d)' = MayRepair(d)
    BY <1>0, <2>1, OrphanReads DEF BatchSteps
  <2>4. RowInv'
    BY <2>1, <2>2, <2>3 DEF RowInv
  <2>5. QED
    BY <2>1, <2>3, <2>4 DEF OrphanInv
<1>4. QED
  BY <1>1, <1>2, <1>3

LEMMA OrphanAbsent ==
  ASSUME OrphanInv, Orphan!ConfirmAbsent
  PROVE  OrphanInv'
BY OrphanFail, OrphanNextRow DEF Orphan!ConfirmAbsent, Orphan!world, BatchSteps

LEMMA OrphanParent ==
  ASSUME OrphanInv, Orphan!ReadParent
  PROVE  OrphanInv'
<1>1. CASE Orphan!Fail
  BY <1>1, OrphanFail
<1>2. CASE ~ Orphan!Fail
  <2>1. /\ pc = "parent" /\ pc' = IF case THEN "artist" ELSE "child"
        /\ seen' = [seen EXCEPT !.parent = Orphan!ParentOf(source, seen.child)]
        /\ UNCHANGED <<case, source, target, batch, locked, work, history>>
    BY <1>2 DEF Orphan!ReadParent, Orphan!Goto, Orphan!world
  <2>2. Shaped(target)' /\ Shaped(work)' /\ BatchInv' /\ \A d : MayRepair(d)' = MayRepair(d)
    BY <2>1, OrphanReads DEF BatchSteps
  <2>3. seen'.child = seen.child /\ seen'.parent = Orphan!ParentOf(source, seen.child)
    BY <2>1 DEF OrphanInv
  <2>4. source \in history
    BY <2>1 DEF OrphanInv, BatchInv, BatchSteps
  <2>5. RowInv'
    <3>1. Orphan!First(batch) \in Children => MayRepair(Orphan!First(batch))
      BY <2>1 DEF OrphanInv, RowInv
    <3>2. \E rows \in history : seen'.parent = Orphan!ParentOf(rows, seen'.child)
      BY <2>3, <2>4
    <3>3. Orphan!ParentOf(source, seen.child) = Orphan!ParentOf(source, seen'.child)
      BY <2>3
    <3>4. QED
      BY <2>1, <2>2, <3>1, <3>2 DEF RowInv, Orphan!ParentOf
  <2>6. QED
    BY <2>1, <2>2, <2>5 DEF OrphanInv
<1>3. QED
  BY <1>1, <1>2

LEMMA OrphanArtist ==
  ASSUME OrphanInv, Orphan!RestoreArtist
  PROVE  OrphanInv'
<1>1. CASE Orphan!Fail
  BY <1>1, OrphanFail
<1>2. CASE ~ Orphan!Fail
  <2>1. /\ pc = "artist" /\ pc' = "restore"
        /\ work.artist = "none" \/ work.artist = source.artist
        /\ work' = [work EXCEPT !.artist = source.artist]
        /\ seen' = [seen EXCEPT !.artist = source.artist, !.inserted = (work.artist = "none")]
        /\ UNCHANGED <<case, source, target, batch, locked, history>>
    BY <1>2 DEF Orphan!RestoreArtist, Orphan!Goto, Orphan!world
  <2>2. \A d : MayRepair(d)' = MayRepair(d)
    BY <2>1 DEF MayRepair
  <2>3. /\ work'.parents = work.parents /\ work'.children = work.children
        /\ work'.artist = source.artist /\ Shaped(work')
    BY <2>1 DEF OrphanInv, Shaped
  <2>4. /\ seen'.child = seen.child /\ seen'.parent = seen.parent
        /\ DOMAIN seen' = {"child", "parent", "artist", "inserted"}
    BY <2>1 DEF OrphanInv
  <2>5. BatchInv'
    <3>1. pc \in BatchSteps /\ case
      BY <2>1 DEF BatchSteps, OrphanInv, RowInv
    <3>2. work'.artist # target.artist => target.artist = "none"
      BY <2>1, <2>3, <3>1 DEF OrphanInv, BatchInv
    <3>3. QED
      BY <2>1, <2>2, <2>3, <3>1, <3>2 DEF OrphanInv, BatchInv
  <2>6. RowInv'
    BY <2>1, <2>2, <2>4 DEF OrphanInv, RowInv, Orphan!ParentOf
  <2>7. QED
    BY <2>1, <2>3, <2>4, <2>5, <2>6 DEF OrphanInv, Shaped
<1>3. QED
  BY <1>1, <1>2

LEMMA OrphanRestore ==
  ASSUME OrphanInv, Orphan!RestoreParent
  PROVE  OrphanInv'
<1>1. CASE Orphan!Fail
  BY <1>1, OrphanFail
<1>2. CASE ~ Orphan!Fail
  <2>1. /\ pc = "restore" /\ pc' = "child"
        /\ work' = [work EXCEPT !.parents[seen.child.parent] = seen.parent]
        /\ UNCHANGED <<case, source, target, batch, locked, seen, history>>
    BY <1>2 DEF Orphan!RestoreParent, Orphan!Goto, Orphan!world
  <2>2. \A d : MayRepair(d)' = MayRepair(d)
    BY <2>1 DEF MayRepair
  <2>3. /\ work'.children = work.children /\ work'.artist = work.artist /\ Shaped(work')
        /\ \A p \in Parents :
             work'.parents[p] = IF p = seen.child.parent THEN seen.parent ELSE work.parents[p]
    BY <2>1 DEF OrphanInv, Shaped
  <2>4. case /\ \E rows \in history : seen.parent = Orphan!ParentOf(rows, seen.child)
    BY <2>1 DEF OrphanInv, RowInv
  <2>5. seen.child.parent \in Parents =>
          \E rows \in history : seen.parent = rows.parents[seen.child.parent]
    BY <2>4 DEF Orphan!ParentOf
  <2>6. BatchInv'
    <3>1. pc \in BatchSteps
      BY <2>1 DEF BatchSteps
    <3>2. QED
      BY <2>1, <2>2, <2>3, <2>4, <2>5, <3>1 DEF OrphanInv, BatchInv
  <2>7. RowInv'
    BY <2>1, <2>2 DEF OrphanInv, RowInv
  <2>8. QED
    BY <2>1, <2>3, <2>6, <2>7 DEF OrphanInv, Shaped
<1>3. QED
  BY <1>1, <1>2

LEMMA OrphanChild ==
  ASSUME OrphanInv, Orphan!RepairChild
  PROVE  OrphanInv'
<1>1. CASE Orphan!Fail
  BY <1>1, OrphanFail
<1>2. CASE ~ Orphan!Fail
  <2> DEFINE c == Orphan!First(batch)
             row == seen.child
  <2>1. /\ pc = "child" /\ pc' = "verify" /\ pc \in BatchSteps
        /\ source.children[c] = row
        /\ work' = [work EXCEPT !.children[c] = row]
        /\ UNCHANGED <<case, source, target, batch, locked, seen, history>>
    BY <1>2 DEF Orphan!RepairChild, Orphan!Goto, Orphan!world, BatchSteps
  <2>2. c \in Children => MayRepair(c)
    BY <2>1 DEF OrphanInv, RowInv
  <2> HIDE DEF c, row
  <2>3. QED
    BY <2>1, <2>2, OrphanWritesChild, Zenon
<1>3. QED
  BY <1>1, <1>2

LEMMA OrphanVerify ==
  ASSUME OrphanInv, Orphan!VerifyParent \/ Orphan!VerifyArtist
  PROVE  OrphanInv'
<1>1. CASE Orphan!Fail
  BY <1>1, OrphanFail
<1>2. CASE Orphan!NextRow /\ ~ Orphan!Fail
  <2>1. pc \in BatchSteps /\ UNCHANGED <<case, source, target, locked, work, history>>
    BY <1>2 DEF Orphan!VerifyParent, Orphan!VerifyArtist, Orphan!world, BatchSteps
  <2>2. QED
    BY <1>2, <2>1, OrphanNextRow
<1>3. CASE ~ Orphan!NextRow /\ ~ Orphan!Fail
  <2>1. /\ pc = "verify" /\ pc' = "verify artist" /\ seen' = seen
        /\ UNCHANGED <<case, source, target, locked, work, history>>
    BY <1>3 DEF Orphan!VerifyParent, Orphan!VerifyArtist, Orphan!world, Orphan!Goto
  <2>2. Shaped(target)' /\ Shaped(work)' /\ BatchInv'
    BY <2>1, OrphanReads DEF BatchSteps
  <2>3. RowInv'
    BY <2>1 DEF RowInv
  <2>4. QED
    BY <2>1, <2>2, <2>3 DEF OrphanInv
<1>4. QED
  BY <1>1, <1>2, <1>3

LEMMA OrphanCommit ==
  ASSUME OrphanInv, Orphan!CommitBatch
  PROVE  OrphanInv' /\ Orphan!CommitStep /\ Orphan!TargetedStep
<1>1. /\ pc = "commit" /\ pc' \in {"unlock", "error"} /\ target' = work
      /\ work' = work /\ seen' = seen
  BY DEF Orphan!CommitBatch, Orphan!Goto
<1>2. OrphanInv'
  <2>1. pc' \notin BatchSteps /\ Shaped(target')
    BY <1>1 DEF OrphanInv, BatchSteps
  <2>2. QED
    BY <1>1, <2>1, OrphanIdle
<1>3. /\ \A c \in Children :
           target'.children[c] # target.children[c] =>
             MayRepair(c) /\ \E rows \in history : target'.children[c] = rows.children[c]
      /\ \A p \in Parents :
           target'.parents[p] # target.parents[p] =>
             \E rows \in history : target'.parents[p] = rows.parents[p]
      /\ target'.parents # target.parents => case
      /\ target'.artist # target.artist =>
           case /\ target.artist = "none" /\ \E rows \in history : target'.artist = rows.artist
  BY <1>1 DEF OrphanInv, BatchInv, BatchSteps
<1>4. Orphan!CommitStep
  BY <1>3 DEF Orphan!CommitStep
<1>5. Orphan!TargetedStep
  BY <1>3 DEF Orphan!TargetedStep, MayRepair
<1>6. QED
  BY <1>2, <1>4, <1>5

LEMMA OrphanNext ==
  ASSUME OrphanInv, [Orphan!Next]_(Orphan!vars)
  PROVE  OrphanInv' /\ (Orphan!CommitStep /\ Orphan!TargetedStep)
<1>1. CASE Orphan!CommitBatch
  BY <1>1, OrphanCommit
<1>2. CASE ~ Orphan!CommitBatch
  <2>1. Orphan!CommitStep /\ Orphan!TargetedStep
    BY <1>2 DEF Orphan!CommitStep, Orphan!TargetedStep
  <2>2. CASE UNCHANGED Orphan!vars
    <3>1. BatchInv'
      BY <2>2 DEF OrphanInv, BatchInv, MayRepair, Orphan!vars
    <3>2. RowInv'
      BY <2>2 DEF OrphanInv, RowInv, MayRepair, Orphan!vars
    <3>3. QED
      BY <2>1, <2>2, <3>1, <3>2 DEF OrphanInv, Shaped, Orphan!vars
  <2>3. CASE \/ \E c \in Children, row \in Orphan!ChildRows : Orphan!ChangeChild(c, row)
             \/ \E p \in Parents, row \in Orphan!ParentRows : Orphan!ChangeParent(p, row)
             \/ \E name \in ArtistNames : Orphan!ChangeArtist(name)
    <3>1. \E rows, event : Orphan!SourceChange(rows, event)
      BY <2>3, Zenon DEF Orphan!ChangeChild, Orphan!ChangeParent, Orphan!ChangeArtist
    <3>2. QED
      BY <2>1, <3>1, OrphanChange
  <2>4. CASE Orphan!Plan \/ Orphan!UnlockBatch \/ Orphan!FinalCount
    <3>1. CASE Orphan!Fail
      BY <2>1, <3>1, OrphanFail
    <3>2. CASE ~ Orphan!Fail
      <4>1. /\ pc' \in {"begin", "final", "ok", "error"} /\ target' = target
            /\ work' = work /\ seen' = seen
        BY <2>4, <3>2 DEF Orphan!Plan, Orphan!UnlockBatch, Orphan!FinalCount, Orphan!Goto
      <4>2. pc' \notin BatchSteps /\ Shaped(target')
        BY <4>1 DEF OrphanInv, BatchSteps
      <4>3. QED
        BY <2>1, <4>1, <4>2, OrphanIdle
    <3>3. QED
      BY <3>1, <3>2
  <2>5. Orphan!Disconnected => Orphan!Fail
    BY DEF Orphan!Disconnected
  <2>6. QED
    BY <1>2, <2>1, <2>2, <2>3, <2>4, <2>5, OrphanFail, OrphanReplay, OrphanBegin, OrphanCheck,
       OrphanAbsent, OrphanParent, OrphanArtist, OrphanRestore, OrphanChild, OrphanVerify
       DEF Orphan!Next
<1>3. QED
  BY <1>1, <1>2

(***************************************************************************)
(* What a batch of repair-fk-orphans commits is source-authoritative: each *)
(* child, parent and artist that commit_batch changes has a value that the *)
(* source had while begin_batch's locks were held.                         *)
(***************************************************************************)
THEOREM OrphanRepairIsAuthoritative == Orphan!Spec => [][Orphan!CommitStep]_(Orphan!vars)
<1>1. Orphan!Init => OrphanInv
  BY OrphanInit
<1>2. OrphanInv /\ [Orphan!Next]_(Orphan!vars) => OrphanInv' /\ Orphan!CommitStep
  BY OrphanNext
<1>3. QED
  BY <1>1, <1>2, PTL DEF Orphan!Spec

(***************************************************************************)
(* repair_batch checks each planned row again under the lock: a batch      *)
(* changes orphans of the locked target, in the cases that restore parents *)
(* also children whose parent the source had otherwise meanwhile; parents  *)
(* only in those cases; and no artist that the target has.                 *)
(***************************************************************************)
THEOREM OrphanRepairIsTargeted == Orphan!Spec => [][Orphan!TargetedStep]_(Orphan!vars)
<1>1. Orphan!Init => OrphanInv
  BY OrphanInit
<1>2. OrphanInv /\ [Orphan!Next]_(Orphan!vars) => OrphanInv' /\ Orphan!TargetedStep
  BY OrphanNext
<1>3. QED
  BY <1>1, <1>2, PTL DEF Orphan!Spec

-----------------------------------------------------------------------------
(* Targeted conflict resolution *)

(* SQL's NULL is no primary key of utms. *)
NullIsNoKey == "NULL" \notin Utms

(* Rows that a step has read were in its table while the command ran. *)
SeenIn(states, step, found) ==
  \A r \in found : \E p \in states :
    r.row = Conflict!TableOf(step, p.source, p.target)[r.key] /\ r.row # Conflict!Absent(step)

PastInv ==
  /\ target \in Conflict!Rows /\ \A p \in past : p.target \in Conflict!Rows
  /\ pc = "start" => past = {}
  /\ pc # "start" => [source |-> source, target |-> target] \in past

ReadInv ==
  /\ pc \in Conflict!Steps => SeenIn(past, pc, read.rows)
  /\ SeenIn(past, "source", evidence.source) /\ SeenIn(past, "target", evidence.target)
  /\ SeenIn(past, "sourceUtms", evidence.sourceUtms) /\ SeenIn(past, "targetUtms", evidence.targetUtms)
  /\ evidence = [source |-> evidence.source, target |-> evidence.target,
                 sourceUtms |-> evidence.sourceUtms, targetUtms |-> evidence.targetUtms]

(* What the comparisons have found, and what is closed already. *)
ComparedInv ==
  /\ pc \in {"sourceUtms", "targetUtms", "resolve"} =>
       Conflict!validate_equal_rows(keys, evidence.source, evidence.target)
  /\ pc = "resolve" =>
       /\ Conflict!validate_equal_rows(Conflict!referenced_parent_keys(evidence.source),
                                       evidence.sourceUtms, evidence.targetUtms)
       /\ todo \subseteq keys
  /\ pc \in {"resolve", "ok"} =>
       \A k \in keys : (pc = "ok" \/ k \notin todo) => \A c \in Conflict!Mine(k) : ledger[c] # "unresolved"

ConflictInv == PastInv /\ ReadInv /\ ComparedInv

LEMMA SeenGrows ==
  ASSUME NEW states, NEW more, states \subseteq more, NEW step, NEW found, SeenIn(states, step, found)
  PROVE  SeenIn(more, step, found)
BY DEF SeenIn

LEMMA ConflictInit == ASSUME Conflict!Init PROVE ConflictInv
<1> USE DEF Conflict!Init
<1>1. PastInv
  BY DEF PastInv
<1>2. ReadInv
  BY DEF ReadInv, SeenIn, Conflict!NoEvidence, Conflict!Steps
<1>3. ComparedInv
  BY DEF ComparedInv
<1>4. QED
  BY <1>1, <1>2, <1>3 DEF ConflictInv

(* The databases change under the command. *)
LEMMA ConflictChanges ==
  ASSUME ConflictInv, NEW side, Conflict!Change(side)
  PROVE  ConflictInv'
<1>1. /\ past' = IF pc = "start" THEN past ELSE past \cup {[source |-> source', target |-> target']}
      /\ UNCHANGED <<ledger, pc, keys, read, evidence, todo>>
  BY DEF Conflict!Change
<1>2. target' \in Conflict!Rows
  <2>1. target \in Conflict!Rows
    BY DEF ConflictInv, PastInv
  <2>2. CASE UNCHANGED target
    BY <2>1, <2>2
  <2>3. ASSUME NEW k \in Keys, NEW row \in Conflict!Children, target' = [target EXCEPT !.children[k] = row]
        PROVE  target' \in Conflict!Rows
    BY <2>1, <2>3 DEF Conflict!Rows
  <2>4. ASSUME NEW u \in Utms, target' = [target EXCEPT !.utms[u] = 1 - @]
        PROVE  target' \in Conflict!Rows
    BY <2>1, <2>4 DEF Conflict!Rows
  <2>5. QED
    BY <2>2, <2>3, <2>4 DEF Conflict!Change
<1>3. past \subseteq past'
  BY <1>1
<1>4. PastInv'
  BY <1>1, <1>2 DEF ConflictInv, PastInv
<1>5. ReadInv'
  BY <1>1, <1>3, SeenGrows DEF ConflictInv, ReadInv
<1>6. ComparedInv'
  BY <1>1 DEF ConflictInv, ComparedInv, Conflict!Mine
<1>7. QED
  BY <1>4, <1>5, <1>6 DEF ConflictInv

LEMMA ConflictStarts ==
  ASSUME ConflictInv, Conflict!Start
  PROVE  ConflictInv'
<1>1. /\ pc = "start" /\ past' = {[source |-> source, target |-> target]} /\ pc' \in {"source", "error"}
      /\ read' = Conflict!NothingRead /\ UNCHANGED <<source, target, ledger, evidence, todo>>
  BY DEF Conflict!Start
<1>2. past \subseteq past'
  BY <1>1 DEF ConflictInv, PastInv
<1>3. PastInv'
  BY <1>1 DEF ConflictInv, PastInv
<1>4. SeenIn(past', pc', read'.rows)
  BY <1>1 DEF SeenIn, Conflict!NothingRead
<1>5. ReadInv'
  BY <1>1, <1>2, <1>4, SeenGrows DEF ConflictInv, ReadInv
<1>6. ComparedInv'
  BY <1>1 DEF ComparedInv
<1>7. QED
  BY <1>3, <1>5, <1>6 DEF ConflictInv

LEMMA ConflictReads ==
  ASSUME ConflictInv, NEW step \in Conflict!Steps, Conflict!ReadBatch(step)
  PROVE  ConflictInv'
<1>1. pc = step /\ UNCHANGED <<source, target, ledger, pc, keys, evidence, todo, past>>
  BY DEF Conflict!ReadBatch
<1>2. PICK queried : read'.rows = read.rows \cup Conflict!Found(step, queried)
  BY DEF Conflict!ReadBatch
<1>3. [source |-> source, target |-> target] \in past
  BY <1>1 DEF ConflictInv, PastInv, Conflict!Steps
<1>4. SeenIn(past, step, Conflict!Found(step, queried))
  <2>1. SUFFICES ASSUME NEW r \in Conflict!Found(step, queried)
                 PROVE  /\ r.row = Conflict!TableOf(step, source, target)[r.key]
                        /\ r.row # Conflict!Absent(step)
    BY <1>3 DEF SeenIn
  <2>2. PICK k : /\ Conflict!TableOf(step, source, target)[k] # Conflict!Absent(step)
                 /\ r = [key |-> k, row |-> Conflict!TableOf(step, source, target)[k]]
    BY DEF Conflict!Found
  <2>3. QED
    BY <2>2
<1>5. SeenIn(past, step, read.rows)
  BY <1>1 DEF ConflictInv, ReadInv
<1>6. SeenIn(past, step, read'.rows)
  BY <1>2, <1>4, <1>5 DEF SeenIn
<1>7. PastInv'
  BY <1>1 DEF ConflictInv, PastInv
<1>8. ReadInv'
  BY <1>1, <1>6 DEF ConflictInv, ReadInv
<1>9. ComparedInv'
  BY <1>1 DEF ConflictInv, ComparedInv, Conflict!Mine
<1>10. QED
  BY <1>7, <1>8, <1>9 DEF ConflictInv

LEMMA ConflictCompares ==
  ASSUME ConflictInv, NEW step \in Conflict!Steps, Conflict!FinishRead(step)
  PROVE  ConflictInv'
<1>1. /\ pc = step /\ evidence' = [evidence EXCEPT ![step] = read.rows] /\ read' = Conflict!NothingRead
      /\ todo' = keys /\ UNCHANGED <<source, target, ledger, keys, past>>
  BY DEF Conflict!FinishRead
<1>2. ReadInv /\ ComparedInv
  BY DEF ConflictInv
<1>3. SeenIn(past, step, read.rows)
  BY <1>1, <1>2 DEF ReadInv
<1>4. PastInv'
  <2>1. pc' # "start"
    BY <1>1 DEF Conflict!FinishRead, Conflict!After, Conflict!Steps
  <2>2. pc # "start"
    BY <1>1 DEF Conflict!Steps
  <2>3. QED
    BY <1>1, <2>1, <2>2 DEF ConflictInv, PastInv
<1>5. SeenIn(past', pc', read'.rows)
  BY <1>1 DEF SeenIn, Conflict!NothingRead
<1>6. CASE step = "source"
  <2>1. /\ pc' = "target"
        /\ evidence' = [source |-> read.rows, target |-> evidence.target,
                        sourceUtms |-> evidence.sourceUtms, targetUtms |-> evidence.targetUtms]
    BY <1>1, <1>2, <1>6 DEF Conflict!FinishRead, Conflict!After, ReadInv
  <2>2. ReadInv'
    BY <1>1, <1>2, <1>3, <1>5, <1>6, <2>1 DEF ReadInv
  <2>3. ComparedInv'
    BY <2>1 DEF ComparedInv
  <2>4. QED
    BY <1>4, <2>2, <2>3 DEF ConflictInv
<1>7. CASE step = "target"
  <2>1. /\ pc' = IF Conflict!validate_equal_rows(keys, evidence.source, read.rows) THEN "sourceUtms" ELSE "error"
        /\ evidence' = [source |-> evidence.source, target |-> read.rows,
                        sourceUtms |-> evidence.sourceUtms, targetUtms |-> evidence.targetUtms]
    BY <1>1, <1>2, <1>7 DEF Conflict!FinishRead, Conflict!After, ReadInv
  <2>2. ReadInv'
    BY <1>1, <1>2, <1>3, <1>5, <1>7, <2>1 DEF ReadInv
  <2>3. ComparedInv'
    BY <1>1, <2>1 DEF ComparedInv
  <2>4. QED
    BY <1>4, <2>2, <2>3 DEF ConflictInv
<1>8. CASE step = "sourceUtms"
  <2>1. /\ pc' = "targetUtms"
        /\ evidence' = [source |-> evidence.source, target |-> evidence.target,
                        sourceUtms |-> read.rows, targetUtms |-> evidence.targetUtms]
    BY <1>1, <1>2, <1>8 DEF Conflict!FinishRead, Conflict!After, ReadInv
  <2>2. ReadInv'
    BY <1>1, <1>2, <1>3, <1>5, <1>8, <2>1 DEF ReadInv
  <2>3. ComparedInv'
    BY <1>1, <1>2, <1>8, <2>1 DEF ComparedInv
  <2>4. QED
    BY <1>4, <2>2, <2>3 DEF ConflictInv
<1>9. CASE step = "targetUtms"
  <2>1. /\ pc' = IF Conflict!validate_equal_rows(Conflict!referenced_parent_keys(evidence.source),
                                                 evidence.sourceUtms, read.rows)
                 THEN "resolve" ELSE "error"
        /\ evidence' = [source |-> evidence.source, target |-> evidence.target,
                        sourceUtms |-> evidence.sourceUtms, targetUtms |-> read.rows]
    BY <1>1, <1>2, <1>9 DEF Conflict!FinishRead, Conflict!After, Conflict!KeysOf, ReadInv
  <2>2. ReadInv'
    BY <1>1, <1>2, <1>3, <1>5, <1>9, <2>1 DEF ReadInv
  <2>3. ComparedInv'
    BY <1>1, <1>2, <1>9, <2>1 DEF ComparedInv
  <2>4. QED
    BY <1>4, <2>2, <2>3 DEF ConflictInv
<1>10. QED
  BY <1>6, <1>7, <1>8, <1>9 DEF Conflict!Steps

LEMMA ConflictResolves ==
  ASSUME ConflictInv, Conflict!Resolve
  PROVE  ConflictInv'
<1>1. PICK k \in todo :
        /\ ledger' = [c \in Conflicts |-> IF c[2] = k /\ ledger[c] = "unresolved" THEN "resolved" ELSE ledger[c]]
        /\ todo' = todo \ {k}
  BY DEF Conflict!Resolve
<1>2. pc = "resolve" /\ UNCHANGED <<source, target, pc, keys, read, evidence, past>>
  BY DEF Conflict!Resolve
<1>3. PastInv' /\ ReadInv'
  BY <1>2 DEF ConflictInv, PastInv, ReadInv
<1>4. ASSUME NEW j \in keys, j \notin todo', NEW c \in Conflict!Mine(j) PROVE ledger'[c] # "unresolved"
  <2>1. c \in Conflicts /\ c[2] = j
    BY DEF Conflict!Mine
  <2>2. j # k => ledger[c] # "unresolved"
    BY <1>1, <1>2, <1>4 DEF ConflictInv, ComparedInv
  <2>3. QED
    BY <1>1, <2>1, <2>2
<1>5. ComparedInv'
  BY <1>1, <1>2, <1>4 DEF ConflictInv, ComparedInv, Conflict!Mine
<1>6. QED
  BY <1>3, <1>5 DEF ConflictInv

LEMMA ConflictEnds ==
  ASSUME ConflictInv, Conflict!Finish \/ Conflict!Crash \/ Conflict!Again \/ UNCHANGED Conflict!vars
  PROVE  ConflictInv'
<1>1. CASE Conflict!Finish
  BY <1>1 DEF Conflict!Finish, ConflictInv, PastInv, ReadInv, ComparedInv, Conflict!Steps, Conflict!Mine
<1>2. CASE Conflict!Crash
  BY <1>2 DEF Conflict!Crash, ConflictInv, PastInv, ReadInv, ComparedInv, Conflict!Steps
<1>3. CASE Conflict!Again
  <2>1. /\ pc' = "start" /\ evidence' = Conflict!NoEvidence /\ past' = {} /\ UNCHANGED <<source, target>>
    BY <1>3 DEF Conflict!Again
  <2>2. PastInv'
    BY <2>1 DEF ConflictInv, PastInv
  <2>3. ReadInv'
    BY <2>1 DEF ReadInv, SeenIn, Conflict!NoEvidence, Conflict!Steps
  <2>4. ComparedInv'
    BY <2>1 DEF ComparedInv
  <2>5. QED
    BY <2>2, <2>3, <2>4 DEF ConflictInv
<1>4. CASE UNCHANGED Conflict!vars
  BY <1>4 DEF Conflict!vars, ConflictInv, PastInv, ReadInv, ComparedInv, Conflict!Mine
<1>5. QED
  BY <1>1, <1>2, <1>3, <1>4

LEMMA ConflictNext ==
  ASSUME ConflictInv, [Conflict!Next]_(Conflict!vars)
  PROVE  ConflictInv'
BY ConflictChanges, ConflictStarts, ConflictReads, ConflictCompares, ConflictResolves, ConflictEnds
   DEF Conflict!Next

(* Only Resolve closes a conflict, and only of an examined row. *)
LEMMA ConflictClosing ==
  ASSUME [Conflict!Next]_(Conflict!vars), NEW c \in Conflicts, ledger[c] = "unresolved", ledger'[c] = "resolved"
  PROVE  pc = "resolve" /\ c[2] \in todo
<1>1. Conflict!Resolve
  <2>1. ledger' # ledger
    OBVIOUS
  <2>2. QED
    BY <2>1 DEF Conflict!Next, Conflict!vars, Conflict!Change, Conflict!Start, Conflict!ReadBatch,
                Conflict!FinishRead, Conflict!Finish, Conflict!Crash, Conflict!Again
<1>2. QED
  BY <1>1 DEF Conflict!Resolve

LEMMA ConflictEvidence ==
  ASSUME NullIsNoKey, ConflictInv, pc = "resolve", NEW k \in keys
  PROVE  \E s, t \in past :
           /\ s.source.children[k] # Conflict!NoRow
           /\ t.target.children[k] = s.source.children[k]
           /\ s.source.children[k].utm \in Utms =>
                \E v \in past : v.target.utms[s.source.children[k].utm] = 1
<1>1. /\ SeenIn(past, "source", evidence.source) /\ SeenIn(past, "target", evidence.target)
      /\ SeenIn(past, "targetUtms", evidence.targetUtms)
  BY DEF ConflictInv, ReadInv
<1>2. /\ Conflict!KeysIn(evidence.source) = keys /\ evidence.source = evidence.target
      /\ Conflict!KeysIn(evidence.targetUtms) = Conflict!referenced_parent_keys(evidence.source)
  BY DEF ConflictInv, ComparedInv, Conflict!validate_equal_rows
<1>3. PICK r \in evidence.source : r.key = k
  BY <1>2 DEF Conflict!KeysIn
<1>4. PICK s \in past : r.row = s.source.children[k] /\ r.row # Conflict!NoRow
  BY <1>1, <1>3 DEF SeenIn, Conflict!TableOf, Conflict!Absent
<1>5. PICK t \in past : r.row = t.target.children[k]
  BY <1>1, <1>2, <1>3 DEF SeenIn, Conflict!TableOf
<1>6. ASSUME r.row.utm \in Utms PROVE \E v \in past : v.target.utms[r.row.utm] = 1
  <2>1. r.row.utm \in Conflict!referenced_parent_keys(evidence.source)
    BY <1>3, <1>6 DEF Conflict!referenced_parent_keys, NullIsNoKey
  <2>2. PICK q \in evidence.targetUtms : q.key = r.row.utm
    BY <1>2, <2>1 DEF Conflict!KeysIn
  <2>3. PICK v \in past : q.row = v.target.utms[r.row.utm] /\ q.row # 0
    BY <1>1, <2>2 DEF SeenIn, Conflict!TableOf, Conflict!Absent
  <2>4. v.target.utms[r.row.utm] \in 0 .. 1
    BY <1>6 DEF ConflictInv, PastInv, Conflict!Rows
  <2>5. QED
    BY <2>3, <2>4
<1>7. QED
  BY <1>4, <1>5, <1>6

(***************************************************************************)
(* Targeted conflict resolution closes a conflict on evidence              *)
(* (read_verified_evidence): while the command ran, the target had the row *)
(* that the source had, and the utms row it refers to, whatever the two    *)
(* databases did between the batches and whichever runs crashed before.    *)
(***************************************************************************)
THEOREM ConflictsAreClosedOnEvidence ==
  ASSUME NullIsNoKey
  PROVE  Conflict!Spec => [][Conflict!EvidenceStep]_(Conflict!vars)
<1>1. Conflict!Init => ConflictInv
  BY ConflictInit
<1>2. ConflictInv /\ [Conflict!Next]_(Conflict!vars) => ConflictInv'
  BY ConflictNext
<1>3. ConflictInv /\ [Conflict!Next]_(Conflict!vars) => Conflict!EvidenceStep
  <2>1. SUFFICES ASSUME ConflictInv, [Conflict!Next]_(Conflict!vars), NEW k \in Keys,
                        NEW c \in Conflict!Mine(k), ledger[c] = "unresolved", ledger'[c] = "resolved"
                 PROVE  pc = "resolve" /\ k \in keys
    BY ConflictEvidence DEF Conflict!EvidenceStep
  <2>2. c \in Conflicts /\ c[2] = k
    BY DEF Conflict!Mine
  <2>3. pc = "resolve" /\ k \in todo
    BY <2>1, <2>2, ConflictClosing
  <2>4. QED
    BY <2>1, <2>3 DEF ConflictInv, ComparedInv
<1>4. QED
  BY <1>1, <1>2, <1>3, PTL DEF Conflict!Spec

(***************************************************************************)
(* A run of the command that reports success has left no conflict of a row *)
(* it examined open (resolve_comics_releases_views_conflicts), whatever    *)
(* earlier runs that crashed between two UPDATEs had closed.               *)
(***************************************************************************)
THEOREM ExaminedConflictsAreClosed == Conflict!Spec => []Conflict!ExaminedAreResolved
<1>1. Conflict!Init => ConflictInv
  BY ConflictInit
<1>2. ConflictInv /\ [Conflict!Next]_(Conflict!vars) => ConflictInv'
  BY ConflictNext
<1>3. ConflictInv => Conflict!ExaminedAreResolved
  BY DEF ConflictInv, ComparedInv, Conflict!ExaminedAreResolved
<1>4. QED
  BY <1>1, <1>2, <1>3, PTL DEF Conflict!Spec
=============================================================================

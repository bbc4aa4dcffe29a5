-------------------------- MODULE SyncChunkProofs --------------------------
(***************************************************************************)
(* What SyncChunk promises for every number of keys, every chunk and batch *)
(* size, with and without a unique index, and any number of writes and     *)
(* failures.  The argument rests on one observation: whatever a chunk does *)
(* to a stable row, whether as a difference of its pass, as an extra, or   *)
(* as the owner of a value that another row needs, it leaves the row as it *)
(* was or makes it the source's row.  Such a move never undoes what a pass *)
(* has settled.                                                            *)
(***************************************************************************)
EXTENDS SyncChunk, FiniteSetTheorems, WellFoundedInduction, TLAPS

MutationStages == {"mutate", "replace", "reconcile", "owner"}
WindowStages == {"compare"} \cup MutationStages
LockStages == {"locked", "commit", "save"} \cup WindowStages

(* The chunk's transaction: stable rows are as committed or as the source  *)
(* has them, and outside the transaction nothing is pending.               *)
WorkInv ==
  /\ \A k \in Stable : work[k] = target[k] \/ work[k] = source[k]
  /\ stage \notin MutationStages \cup {"commit"} => work = target

(* The window shows every stable row of the source between the cursor and  *)
(* its last row, as it is.                                                 *)
WindowInv ==
  /\ stage \in {"locked", "compare"} => cursor = savedCursor[phase]
  /\ stage \in {"locked"} \cup WindowStages => complete = FALSE
  /\ stage \in WindowStages =>
       \A k \in Stable : window[k] # NoRow => window[k] = source[k]
  /\ stage = "compare" =>
       /\ Present(window) # {}
       /\ \A k \in Stable, j \in Present(window) :
            cursor < k /\ k <= j /\ window[k] = NoRow => source[k] = NoRow

(* Rows and conflicts in hand are about rows of the window.                *)
HandInv ==
  /\ stage \in MutationStages => pending \subseteq Present(window)
  /\ stage \notin MutationStages => pending = {}
  /\ stage \in {"replace", "reconcile", "owner"} =>
       \A p \in conflicts : p[1] \in Present(window)
  /\ stage = "owner" =>
       /\ conflicts # {}
       /\ FirstConflict[2] \in Stable => ownerRow = source[FirstConflict[2]]

(* What the chunk has settled up to its cursor, but for the pending rows.  *)
ChunkInv ==
  stage \in MutationStages \cup {"commit", "save"} =>
    \A k \in Stable :
      complete \/ k <= cursor => k \in pending \/ SettledRow(phase, source[k], work[k])

(* A phase runs when those before it are complete and it is not.           *)
PhaseInv ==
  /\ stage \in {"load"} \cup LockStages /\ phase # "insert_missing" =>
       savedComplete["insert_missing"]
  /\ stage \in {"load"} \cup LockStages /\ phase = "delete_extras" =>
       savedComplete["update_divergent"]
  /\ stage \in LockStages => ~ savedComplete[phase]
  /\ stage = "report" \/ rowsComplete => \A p \in Phases : savedComplete[p]

SyncInv ==
  /\ SyncTypeOK
  /\ ProgressIsBehindTarget
  /\ WorkInv /\ WindowInv /\ HandInv /\ ChunkInv /\ PhaseInv

-----------------------------------------------------------------------------
(* A non-empty set of naturals has a least element. *)
LEMMA LeastNatural ==
  ASSUME NEW S \in SUBSET Nat, S # {}
  PROVE  \E m \in S : \A j \in S : m <= j
<1>1. PICK m \in S : \A y \in S : ~ (<<y, m>> \in OpToRel(<, Nat))
  <2>1. IsWellFoundedOn(OpToRel(<, Nat), Nat)
    BY NatLessThanWellFounded
  <2> HIDE DEF OpToRel
  <2>2. QED
    BY <2>1, WFMin
<1>2. \A j \in S : ~ (j < m)
  BY <1>1, Zenon DEF OpToRel
<1>3. QED
  BY <1>2

(* Last: the greatest of a non-empty set of keys. *)
LEMMA LastKey ==
  ASSUME NEW S \in SUBSET Keys, S # {}
  PROVE  Last(S) \in S /\ \A j \in S : j <= Last(S)
<1> USE SyncChunkAssumption
<1> DEFINE U == { m \in Nat : \A j \in S : j <= m }
<1>1. NumKeys \in U
  BY DEF Keys
<1>2. PICK m \in U : \A u \in U : m <= u
  <2> HIDE DEF U
  <2>1. U \in SUBSET Nat
    BY DEF U
  <2>2. QED
    BY <1>1, <2>1, LeastNatural
<1>3. m \in S
  <2>1. SUFFICES ASSUME m \notin S PROVE FALSE
    OBVIOUS
  <2>2. \A j \in S : j \in Nat \ {0} /\ j <= m /\ j # m
    BY <1>2, <2>1 DEF Keys
  <2>3. m # 0
    BY <2>2
  <2>4. m - 1 \in U
    BY <1>2, <2>2, <2>3
  <2>5. QED
    BY <1>2, <2>4
<1>4. QED
  BY <1>2, <1>3, Zenon DEF Last

(* Sets of keys are finite. *)
LEMMA KeysFinite ==
  ASSUME NEW S \in SUBSET Keys
  PROVE  IsFiniteSet(S) /\ Cardinality(S) \in Nat
<1>1. IsFiniteSet(Keys)
  BY SyncChunkAssumption, FS_Interval DEF Keys
<1>2. IsFiniteSet(S)
  BY <1>1, FS_Subset
<1>3. QED
  BY <1>2, FS_CardinalityType

(* Lowest: a page that holds a row holds every row before it, it is not    *)
(* empty when there are rows, and it is everything when it is long enough. *)
LEMMA LowestKeys ==
  ASSUME NEW S \in SUBSET Keys, NEW n \in Nat
  PROVE  /\ Lowest(S, n) \subseteq S
         /\ \A k \in Lowest(S, n), j \in S : j <= k => j \in Lowest(S, n)
         /\ n # 0 /\ S # {} => Lowest(S, n) # {}
         /\ n >= Cardinality(S) => Lowest(S, n) = S
<1> DEFINE Below(k) == { j \in S : j < k }
<1>0. S \subseteq Nat
  BY SyncChunkAssumption DEF Keys
<1>1. \A k : IsFiniteSet(Below(k)) /\ Cardinality(Below(k)) \in Nat
  BY KeysFinite
<1>2. \A k \in Lowest(S, n), j \in S : j <= k => j \in Lowest(S, n)
  <2>1. SUFFICES ASSUME NEW k \in Lowest(S, n), NEW j \in S, j <= k
                 PROVE  Cardinality(Below(j)) < n
    BY DEF Lowest
  <2>2. Below(j) \in SUBSET Below(k)
    <3>1. j \in Nat /\ k \in Nat
      BY <1>0 DEF Lowest
    <3>2. \A i \in S : i < j => i < k
      BY <1>0, <2>1, <3>1
    <3>3. QED
      BY <3>2
  <2>3. Cardinality(Below(j)) <= Cardinality(Below(k))
    <3> HIDE DEF Below
    <3> QED
      BY <1>1, <2>2, FS_Subset
  <2>4. Cardinality(Below(k)) < n
    BY <2>1 DEF Lowest
  <2>5. QED
    BY <1>1, <2>3, <2>4
<1>3. ASSUME n # 0, S # {} PROVE Lowest(S, n) # {}
  <2>1. PICK m \in S : \A j \in S : m <= j
    BY <1>0, <1>3, LeastNatural
  <2>2. Below(m) = {}
    <3>1. \A j \in S : ~ (j < m)
      BY <1>0, <2>1
    <3>2. QED
      BY <3>1
  <2>3. Cardinality(Below(m)) = 0
    BY <2>2, FS_EmptySet
  <2>4. QED
    BY <1>3, <2>3 DEF Lowest
<1>4. ASSUME n >= Cardinality(S), NEW k \in S PROVE k \in Lowest(S, n)
  <2>1. /\ IsFiniteSet(S \ {k})
        /\ Cardinality(S \ {k}) = Cardinality(S) - 1
    BY <1>4, KeysFinite, FS_RemoveElement
  <2>2. Below(k) \in SUBSET (S \ {k})
    BY <1>0
  <2>3. Cardinality(Below(k)) <= Cardinality(S) - 1
    <3> HIDE DEF Below
    <3> QED
      BY <2>1, <2>2, FS_Subset
  <2>4. Cardinality(S) \in Nat
    BY KeysFinite
  <2>5. QED
    BY <1>1, <1>4, <2>3, <2>4 DEF Lowest
<1>5. Lowest(S, n) \subseteq S
  BY DEF Lowest
<1>6. QED
  BY <1>2, <1>3, <1>4, <1>5

(* FirstConflict is one of the conflicts. *)
LEMMA FirstConflictIn ==
  ASSUME conflicts \in SUBSET (Keys \X Keys), conflicts # {}
  PROVE  FirstConflict \in conflicts
<1> DEFINE K == { p[1] : p \in conflicts }
<1>1. K \in SUBSET Nat /\ K # {}
  BY SyncChunkAssumption DEF Keys
<1>2. PICK m \in K : \A j \in K : m <= j
  <2> HIDE DEF K
  <2> QED
    BY <1>1, LeastNatural
<1>3. \E p \in conflicts : \A q \in conflicts : p[1] <= q[1]
  BY <1>2
<1>4. QED
  BY <1>3 DEF FirstConflict

-----------------------------------------------------------------------------
(* A row that equals the source's is settled for every pass. *)
LEMMA SourceRowSettled ==
  \A p \in Phases : \A s : SettledRow(p, s, s)
BY DEF Phases, SettledRow

(* The initial states: nothing is saved and nothing in hand. *)
LEMMA InitInv == Init => SyncInv
<1> SUFFICES ASSUME Init PROVE SyncInv
  OBVIOUS
<1> USE SyncChunkAssumption DEF Init
<1>1. SyncTypeOK
  <2>1. /\ savedCursor \in [Phases -> Keys \cup {NoCursor}]
        /\ savedComplete \in [Phases -> BOOLEAN]
    OBVIOUS
  <2>2. work \in Rows /\ window \in Rows
    BY DEF Rows
  <2>3. stage \in Stages /\ phase \in Phases
    BY DEF Stages, Phases
  <2>4. writes \in 0..MaxWrites /\ faults \in 0..MaxFaults
    OBVIOUS
  <2>5. QED
    BY <2>1, <2>2, <2>3, <2>4, Zenon DEF SyncTypeOK
<1>2. ProgressIsBehindTarget
  <2>1. \A k \in Stable, p \in Phases : ~ (savedComplete[p] \/ k <= savedCursor[p])
    BY DEF Stable, Keys, NoCursor
  <2>2. QED
    BY <2>1 DEF ProgressIsBehindTarget
<1>3. WorkInv /\ WindowInv /\ HandInv /\ ChunkInv
  BY DEF WorkInv, WindowInv, HandInv, ChunkInv, MutationStages, WindowStages
<1>4. PhaseInv
  BY DEF PhaseInv, LockStages, WindowStages, MutationStages
<1>5. QED
  BY <1>1, <1>2, <1>3, <1>4 DEF SyncInv

(***************************************************************************)
(* The move lemma.  A step inside a chunk that leaves a stable row as it   *)
(* was or makes it the source's, and drops a row from the pending ones     *)
(* only when it is the source's, keeps what is known of the transaction.   *)
(***************************************************************************)
LEMMA MoveInv ==
  ASSUME SyncInv,
         stage \in MutationStages, stage' \in MutationStages,
         UNCHANGED <<source, target, touched, cursor, complete, phase>>,
         \A k \in Stable : work'[k] = work[k] \/ work'[k] = source[k],
         \A k \in Stable : k \in pending /\ k \notin pending' => work'[k] = source[k]
  PROVE  WorkInv' /\ ChunkInv'
<1>0. Stable' = Stable
  BY DEF Stable
<1>1. WorkInv'
  BY <1>0 DEF SyncInv, WorkInv
<1>2. ChunkInv'
  <2>1. SUFFICES ASSUME NEW k \in Stable, complete \/ k <= cursor, k \notin pending'
                 PROVE  SettledRow(phase, source[k], work'[k])
    BY <1>0 DEF ChunkInv
  <2>2. phase \in Phases
    BY DEF SyncInv, SyncTypeOK
  <2>3. CASE work'[k] = source[k]
    BY <2>2, <2>3, SourceRowSettled
  <2>4. CASE work'[k] = work[k] /\ k \notin pending
    BY <2>1, <2>4 DEF SyncInv, ChunkInv
  <2>5. QED
    BY <2>1, <2>3, <2>4
<1>3. QED
  BY <1>1, <1>2

(* Nothing that ProgressIsBehindTarget speaks of has changed. *)
LEMMA ProgressFrame ==
  ASSUME SyncInv, UNCHANGED <<source, target, touched, savedCursor, savedComplete>>
  PROVE  ProgressIsBehindTarget'
BY DEF SyncInv, ProgressIsBehindTarget, Settled, Stable

(* Outside the chunk's transaction. *)
LEMMA IdleInv ==
  ASSUME SyncInv, UNCHANGED <<source, target, touched>>,
         work' = target, pending' = {}, stage' \in {"down", "load", "report", "done"}
  PROVE  WorkInv' /\ WindowInv' /\ HandInv' /\ ChunkInv'
BY DEF WorkInv, WindowInv, HandInv, ChunkInv, MutationStages, WindowStages

(* rollback_and_unlock or the death of the process. *)
LEMMA DownInv ==
  ASSUME SyncInv, stage' = "down", work' = target, pending' = {}, NoRepair,
         faults' \in 0..MaxFaults, UNCHANGED <<sides, target, stored, chunk>>
  PROVE  SyncInv'
<1>1. SyncTypeOK'
  BY SyncChunkAssumption, Zenon
     DEF SyncInv, SyncTypeOK, NoRepair, sides, stored, chunk, Stages
<1>2. ProgressIsBehindTarget'
  BY ProgressFrame DEF sides, stored
<1>3. WorkInv' /\ WindowInv' /\ HandInv' /\ ChunkInv'
  BY IdleInv DEF sides
<1>4. PhaseInv'
  BY DEF SyncInv, PhaseInv, LockStages, WindowStages, MutationStages, stored, chunk
<1>5. QED
  BY <1>1, <1>2, <1>3, <1>4 DEF SyncInv

LEMMA AbortInv == SyncInv /\ Abort => SyncInv'
<1> SUFFICES ASSUME SyncInv, Abort PROVE SyncInv'
  OBVIOUS
<1>1. faults' \in 0..MaxFaults
  BY DEF Abort, SyncInv, SyncTypeOK
<1>2. QED
  BY <1>1, DownInv DEF Abort

LEMMA FaultInv == SyncInv /\ Fault => SyncInv'
<1> SUFFICES ASSUME SyncInv, Fault PROVE SyncInv'
  OBVIOUS
<1>1. faults' \in 0..MaxFaults
  BY SyncChunkAssumption DEF Fault, SyncInv, SyncTypeOK
<1>2. QED
  BY <1>1, DownInv DEF Fault

-----------------------------------------------------------------------------
(* Steps between two chunks. *)
LEMMA StartInv == SyncInv /\ Start => SyncInv'
<1> SUFFICES ASSUME SyncInv, Start PROVE SyncInv'
  OBVIOUS
<1> USE DEF Start, sides, stored, repair
<1>1. SyncTypeOK'
  BY DEF SyncInv, SyncTypeOK, Stages, Phases
<1>2. ProgressIsBehindTarget'
  BY ProgressFrame
<1>3. WorkInv' /\ WindowInv' /\ HandInv' /\ ChunkInv'
  <2>1. work = target /\ pending = {}
    BY DEF SyncInv, WorkInv, HandInv, MutationStages
  <2>2. QED
    BY <2>1, IdleInv
<1>4. PhaseInv'
  BY DEF SyncInv, PhaseInv, LockStages, WindowStages, MutationStages
<1>5. QED
  BY <1>1, <1>2, <1>3, <1>4 DEF SyncInv

LEMMA PhaseCompleteInv == SyncInv /\ PhaseComplete => SyncInv'
<1> SUFFICES ASSUME SyncInv, PhaseComplete PROVE SyncInv'
  OBVIOUS
<1> USE DEF PhaseComplete, sides, stored, repair
<1>0. /\ phase \in Phases
      /\ phase = "insert_missing" => phase' = "update_divergent" /\ stage' = "load"
      /\ phase = "update_divergent" => phase' = "delete_extras" /\ stage' = "load"
      /\ phase = "delete_extras" => phase' = "delete_extras" /\ stage' = "report"
  BY DEF SyncInv, SyncTypeOK, NextPhase
<1>1. SyncTypeOK'
  BY <1>0 DEF SyncInv, SyncTypeOK, Stages, Phases
<1>2. ProgressIsBehindTarget'
  BY ProgressFrame
<1>3. WorkInv' /\ WindowInv' /\ HandInv' /\ ChunkInv'
  <2>1. work = target /\ pending = {}
    BY DEF SyncInv, WorkInv, HandInv, MutationStages
  <2>2. QED
    BY <2>1, IdleInv
<1>4. PhaseInv'
  BY <1>0 DEF SyncInv, PhaseInv, LockStages, WindowStages, MutationStages, Phases
<1>5. QED
  BY <1>1, <1>2, <1>3, <1>4 DEF SyncInv

LEMMA PrepareChunkInv == SyncInv /\ PrepareChunk => SyncInv'
<1> SUFFICES ASSUME SyncInv, PrepareChunk PROVE SyncInv'
  OBVIOUS
<1> USE DEF PrepareChunk, sides, stored, NoRepair
<1>1. SyncTypeOK'
  BY Zenon DEF SyncInv, SyncTypeOK, Stages
<1>2. ProgressIsBehindTarget'
  BY ProgressFrame
<1>3. WorkInv' /\ WindowInv' /\ HandInv' /\ ChunkInv'
  BY DEF SyncInv, WorkInv, WindowInv, HandInv, ChunkInv, MutationStages, WindowStages, Stable
<1>4. PhaseInv'
  BY DEF SyncInv, PhaseInv, LockStages, WindowStages, MutationStages
<1>5. QED
  BY <1>1, <1>2, <1>3, <1>4 DEF SyncInv

LEMMA SaveReportInv == SyncInv /\ SaveReport => SyncInv'
<1> SUFFICES ASSUME SyncInv, SaveReport PROVE SyncInv'
  OBVIOUS
<1> USE DEF SaveReport, sides, chunk, repair
<1>1. SyncTypeOK'
  BY DEF SyncInv, SyncTypeOK, Stages
<1>2. ProgressIsBehindTarget'
  BY ProgressFrame
<1>3. WorkInv' /\ WindowInv' /\ HandInv' /\ ChunkInv'
  <2>1. work = target /\ pending = {}
    BY DEF SyncInv, WorkInv, HandInv, MutationStages
  <2>2. QED
    BY <2>1, IdleInv
<1>4. PhaseInv'
  BY DEF SyncInv, PhaseInv, LockStages, WindowStages, MutationStages
<1>5. QED
  BY <1>1, <1>2, <1>3, <1>4 DEF SyncInv

(***************************************************************************)
(* A client's write takes its row out of the stable ones; nothing that the *)
(* invariant says of the others depends on it.                             *)
(***************************************************************************)
LEMMA SourceWriteInv ==
  ASSUME SyncInv, NEW k \in Keys, NEW v \in Values \cup {NoRow}, SourceWrite(k, v)
  PROVE  SyncInv'
<1> USE DEF SourceWrite, stored, chunk, repair
<1>0. /\ Stable' = Stable \ {k}
      /\ \A j \in Stable' : source'[j] = source[j]
  BY DEF SyncInv, SyncTypeOK, Stable, Rows
<1>1. SyncTypeOK'
  <2>1. source' \in Rows
    BY DEF SyncInv, SyncTypeOK, Rows
  <2>2. writes' \in 0..MaxWrites
    BY SyncChunkAssumption DEF SyncInv, SyncTypeOK
  <2>3. QED
    BY <2>1, <2>2 DEF SyncInv, SyncTypeOK
<1>2. ProgressIsBehindTarget'
  BY <1>0 DEF SyncInv, ProgressIsBehindTarget, Settled
<1>3. WorkInv'
  BY <1>0 DEF SyncInv, WorkInv
<1>4. WindowInv'
  BY <1>0 DEF SyncInv, WindowInv, Present
<1>5. HandInv'
  BY <1>0 DEF SyncInv, HandInv, Present, FirstConflict
<1>6. ChunkInv'
  BY <1>0 DEF SyncInv, ChunkInv
<1>7. PhaseInv'
  BY DEF SyncInv, PhaseInv
<1>8. QED
  BY <1>1, <1>2, <1>3, <1>4, <1>5, <1>6, <1>7 DEF SyncInv

-----------------------------------------------------------------------------
(* The window is a page without gaps of the source as it is. *)
LEMMA ReadSourceInv == SyncInv /\ ReadSource => SyncInv'
<1> SUFFICES ASSUME SyncInv, ReadSource PROVE SyncInv'
  OBVIOUS
<1> USE DEF ReadSource, sides, stored, repair
<1> DEFINE rest == After(Present(source), cursor)
<1>0. rest \in SUBSET Keys /\ source \in Rows /\ cursor \in Nat /\ Keys \subseteq Nat
  BY SyncChunkAssumption DEF SyncInv, SyncTypeOK, After, Present, Keys, NoCursor
<1>1. PICK n \in PageSizes(rest) :
        window' = [k \in Keys |-> IF k \in Lowest(rest, n) THEN source[k] ELSE NoRow]
  OBVIOUS
<1>2. n \in Nat /\ n # 0
  BY SyncChunkAssumption DEF PageSizes
<1>3. /\ Lowest(rest, n) \subseteq rest
      /\ \A k \in Lowest(rest, n), j \in rest : j <= k => j \in Lowest(rest, n)
      /\ Lowest(rest, n) # {}
  <2> HIDE DEF rest
  <2>1. rest # {}
    BY DEF rest
  <2>2. QED
    BY <1>0, <1>2, <2>1, LowestKeys
<1>4. Present(window') = Lowest(rest, n)
  BY <1>0, <1>1, <1>3, Zenon DEF Present, After
<1>5. SyncTypeOK'
  <2>1. window' \in Rows
    BY <1>0, <1>1 DEF Rows
  <2>2. QED
    BY <2>1 DEF SyncInv, SyncTypeOK, Stages
<1>6. ProgressIsBehindTarget'
  BY ProgressFrame
<1>7. WorkInv' /\ HandInv' /\ ChunkInv'
  BY DEF SyncInv, WorkInv, HandInv, ChunkInv, MutationStages, Stable
<1>8. WindowInv'
  <2>1. \A k \in Stable : window'[k] # NoRow => window'[k] = source[k]
    BY <1>1 DEF Stable
  <2>2. ASSUME NEW k \in Stable, NEW j \in Lowest(rest, n),
               cursor < k, k <= j, window'[k] = NoRow
        PROVE  source[k] = NoRow
    <3>1. SUFFICES ASSUME source[k] # NoRow PROVE FALSE
      OBVIOUS
    <3>2. k \in rest
      BY <1>0, <2>2, <3>1 DEF After, Present, Stable
    <3>3. k \in Lowest(rest, n)
      BY <1>3, <2>2, <3>2
    <3>4. QED
      BY <1>1, <2>2, <3>1, <3>3 DEF Stable
  <2>3. (Present(window))' = Lowest(rest, n)
    BY <1>4 DEF Present
  <2>4. QED
    BY <1>3, <2>1, <2>2, <2>3 DEF SyncInv, WindowInv, WindowStages, MutationStages, Stable
<1>9. PhaseInv'
  BY DEF SyncInv, PhaseInv, LockStages, WindowStages, MutationStages
<1>10. QED
  BY <1>5, <1>6, <1>7, <1>8, <1>9 DEF SyncInv

(***************************************************************************)
(* The tail: the source has no row after the cursor, so the first passes   *)
(* have nothing to settle there, and the last one has when the page was    *)
(* the whole tail.                                                         *)
(***************************************************************************)
LEMMA ApplyTargetTailInv == SyncInv /\ ApplyTargetTail => SyncInv'
<1> SUFFICES ASSUME SyncInv, ApplyTargetTail PROVE SyncInv'
  OBVIOUS
<1> USE DEF ApplyTargetTail, sides, stored, repair
<1> DEFINE tail == After(Present(work), cursor)
<1>0. /\ tail \in SUBSET Keys /\ work \in Rows /\ source \in Rows
      /\ cursor \in Nat /\ Keys \subseteq Nat /\ phase \in Phases
  BY SyncChunkAssumption DEF SyncInv, SyncTypeOK, After, Present, Keys, NoCursor
<1>1. PICK n \in IF tail = {} THEN {0} ELSE PageSizes(tail) :
        /\ complete' = ~ HasMore(tail, n)
        /\ cursor' = TailCursor(Lowest(tail, n))
        /\ work' = IF phase = "delete_extras" THEN Without(work, Lowest(tail, n)) ELSE work
  OBVIOUS
<1>2. n \in Nat
  BY SyncChunkAssumption DEF PageSizes
<1> DEFINE page == Lowest(tail, n)
<1>3. page \subseteq tail /\ (~ HasMore(tail, n) => page = tail)
  <2>1. Cardinality(tail) \in Nat
    <3> HIDE DEF tail
    <3> QED
      BY <1>0, KeysFinite
  <2>2. ~ HasMore(tail, n) => n >= Cardinality(tail)
    BY <1>2, <2>1 DEF HasMore
  <2>3. QED
    <3> HIDE DEF tail
    <3> QED
      BY <1>0, <1>2, <2>2, LowestKeys
<1>4. cursor' \in Keys \cup {NoCursor} /\ (phase = "delete_extras" => cursor' = cursor)
  <2>1. page # {} => Last(page) \in Keys
    <3>1. page \in SUBSET Keys
      BY <1>0, <1>3
    <3> HIDE DEF page
    <3>2. QED
      BY <3>1, LastKey
  <2>2. QED
    BY <1>1, <2>1 DEF TailCursor, SyncInv, SyncTypeOK
<1>5. \A k \in Stable : k > cursor => source[k] = NoRow
  BY <1>0 DEF After, Present, Stable
<1>6. \A k \in Keys : work'[k] = IF phase = "delete_extras" /\ k \in page THEN NoRow ELSE work[k]
  BY <1>0, <1>1 DEF Without, Rows
<1>7. SyncTypeOK'
  <2>1. work' \in Rows
    BY <1>0, <1>1 DEF Without, Rows
  <2>2. complete' \in BOOLEAN
    BY <1>1 DEF HasMore
  <2>3. QED
    BY <1>4, <2>1, <2>2 DEF SyncInv, SyncTypeOK, Stages
<1>8. ProgressIsBehindTarget'
  BY ProgressFrame
<1>9. work = target /\ cursor = savedCursor[phase]
  BY DEF SyncInv, WorkInv, WindowInv, MutationStages
<1>10. WorkInv'
  <2>1. \A k \in page : k \in Keys /\ k > cursor
    BY <1>0, <1>3 DEF After
  <2>2. \A k \in Stable : work'[k] = target[k] \/ work'[k] = source[k]
    BY <1>5, <1>6, <1>9, <2>1 DEF Stable
  <2>3. QED
    BY <2>2 DEF WorkInv, MutationStages, Stable
<1>11. WindowInv' /\ HandInv' /\ pending = {}
  BY DEF SyncInv, WindowInv, HandInv, WindowStages, MutationStages
<1>12. ChunkInv'
  <2>1. SUFFICES ASSUME NEW k \in Stable, complete' \/ k <= cursor'
                 PROVE  SettledRow(phase, source[k], work'[k])
    BY DEF ChunkInv, Stable
  <2>2. CASE k <= cursor
    <3>1. SettledRow(phase, source[k], target[k])
      BY <1>0, <1>9, <2>2 DEF SyncInv, ProgressIsBehindTarget, Settled
    <3>2. work'[k] = target[k]
      BY <1>0, <1>3, <1>6, <1>9, <2>2 DEF After, Stable
    <3>3. QED
      BY <3>1, <3>2
  <2>3. CASE k > cursor
    <3>1. source[k] = NoRow
      BY <1>5, <2>3
    <3>2. CASE phase # "delete_extras"
      BY <1>0, <3>1, <3>2, Zenon DEF SettledRow, Phases
    <3>3. CASE phase = "delete_extras"
      <4>1. complete'
        BY <1>0, <1>4, <2>1, <2>3, <3>3 DEF Stable
      <4>2. page = tail
        BY <1>1, <1>3, <4>1, Zenon
      <4>3. work'[k] = NoRow
        BY <1>6, <2>3, <3>3, <4>2 DEF After, Present, Stable
      <4>4. QED
        BY <3>1, <4>3, <1>0, SourceRowSettled
    <3>4. QED
      BY <3>2, <3>3
  <2>4. QED
    BY <1>0, <2>2, <2>3 DEF Stable
<1>13. PhaseInv'
  BY DEF SyncInv, PhaseInv, LockStages, WindowStages, MutationStages
<1>14. QED
  BY <1>7, <1>8, <1>10, <1>11, <1>12, <1>13 DEF SyncInv

(***************************************************************************)
(* The comparison: between the old cursor and the end of the window every  *)
(* stable row is settled already or becomes pending.                       *)
(***************************************************************************)
LEMMA ReconcileTargetPagesInv == SyncInv /\ ReconcileTargetPages => SyncInv'
<1> SUFFICES ASSUME SyncInv, ReconcileTargetPages PROVE SyncInv'
  OBVIOUS
<1> USE DEF ReconcileTargetPages, sides, stored, repair
<1> DEFINE wanted == Present(window)
           end == Last(wanted)
           there == TargetRange(end)
<1>0. /\ work \in Rows /\ source \in Rows /\ window \in Rows
      /\ cursor \in Nat /\ Keys \subseteq Nat /\ phase \in Phases
      /\ wanted \in SUBSET Keys /\ there \in SUBSET Keys
  BY SyncChunkAssumption
     DEF SyncInv, SyncTypeOK, Present, Keys, NoCursor, TargetRange
<1>1. end \in wanted /\ \A j \in wanted : j <= end
  <2>1. wanted # {}
    BY DEF SyncInv, WindowInv
  <2> HIDE DEF wanted
  <2>2. QED
    BY <1>0, <2>1, LastKey
<1>2. /\ cursor' = end
      /\ \A k \in Keys : work'[k] =
           IF phase = "delete_extras" /\ k \in there \ wanted THEN NoRow ELSE work[k]
      /\ work' \in Rows
  BY <1>0 DEF Without, Rows
<1>3. /\ phase = "insert_missing" => pending' = wanted \ there
      /\ phase = "update_divergent" =>
           pending' = { k \in wanted \cap there : work[k] # window[k] }
      /\ phase = "delete_extras" => pending' = {}
  OBVIOUS
<1>4. pending' \in SUBSET wanted
  BY <1>0, <1>3 DEF Phases
<1>5. \A k \in Stable : cursor < k /\ k <= end /\ k \notin wanted => source[k] = NoRow
  <2>1. \A k \in Stable : k \notin wanted => window[k] = NoRow
    BY DEF Present, Stable
  <2>2. QED
    BY <1>1, <2>1 DEF SyncInv, WindowInv
<1>6. \A k \in Stable : k \in wanted => window[k] = source[k] /\ source[k] # NoRow
  BY DEF SyncInv, WindowInv, WindowStages, Present
<1>7. \A k \in Keys : k \in there <=> work[k] # NoRow /\ k > cursor /\ k <= end
  BY DEF TargetRange, Present
<1>8. work = target /\ cursor = savedCursor[phase] /\ complete = FALSE
  BY DEF SyncInv, WorkInv, WindowInv, MutationStages, WindowStages
<1>9. Stable' = Stable /\ Stable \subseteq Keys
  BY DEF Stable
<1> HIDE DEF wanted, end, there, ReconcileTargetPages
<1>10. /\ stage = "compare"
       /\ stage' = "mutate"
       /\ UNCHANGED <<sides, target, stored, phase, complete, window, repair, faults>>
  BY DEF ReconcileTargetPages
<1>11. SyncTypeOK'
  <2>1. cursor' \in Keys \cup {NoCursor}
    BY <1>0, <1>1, <1>2
  <2>2. pending' \in SUBSET Keys
    BY <1>0, <1>4
  <2>3. QED
    BY <1>2, <1>10, <2>1, <2>2 DEF SyncInv, SyncTypeOK, Stages
<1>12. ProgressIsBehindTarget'
  BY <1>10, ProgressFrame
<1>13. WorkInv'
  <2>1. \A k \in Stable : work'[k] = target[k] \/ work'[k] = source[k]
    BY <1>0, <1>2, <1>5, <1>7, <1>8, <1>9
  <2>2. QED
    BY <1>9, <1>10, <2>1 DEF WorkInv, MutationStages
<1>14. WindowInv'
  BY <1>8, <1>9, <1>10 DEF SyncInv, WindowInv, WindowStages, MutationStages
<1>15. HandInv'
  BY <1>4, <1>10 DEF HandInv, MutationStages, Present, wanted
<1>16. ChunkInv'
  <2>1. SUFFICES ASSUME NEW k \in Stable, k <= end, k \notin pending'
                 PROVE  SettledRow(phase, source[k], work'[k])
    BY <1>2, <1>8, <1>9, <1>10 DEF ChunkInv
  <2>2. CASE k <= cursor
    <3>1. SettledRow(phase, source[k], target[k])
      BY <1>0, <1>8, <2>2 DEF SyncInv, ProgressIsBehindTarget, Settled
    <3>2. work'[k] = target[k]
      BY <1>0, <1>2, <1>7, <1>8, <1>9, <2>2
    <3>3. QED
      BY <3>1, <3>2
  <2>3. CASE k > cursor /\ k \in wanted
    <3>1. window[k] = source[k] /\ source[k] # NoRow /\ work'[k] = work[k]
      BY <1>2, <1>6, <1>9, <2>3
    <3>2. CASE phase = "insert_missing"
      BY <1>3, <1>7, <1>9, <2>1, <2>3, <3>1, <3>2 DEF SettledRow
    <3>3. CASE phase = "update_divergent"
      BY <1>3, <1>7, <1>9, <2>1, <2>3, <3>1, <3>3 DEF SettledRow
    <3>4. CASE phase = "delete_extras"
      BY <3>1, <3>4 DEF SettledRow
    <3>5. QED
      BY <1>0, <3>2, <3>3, <3>4 DEF Phases
  <2>4. CASE k > cursor /\ k \notin wanted
    <3>1. source[k] = NoRow
      BY <1>0, <1>5, <1>9, <2>1, <2>4
    <3>2. phase = "delete_extras" => work'[k] = NoRow
      BY <1>2, <1>7, <1>9, <2>1, <2>4
    <3>3. QED
      BY <1>0, <3>1, <3>2, Zenon DEF SettledRow, Phases
  <2>5. QED
    BY <1>0, <1>9, <2>2, <2>3, <2>4
<1>17. PhaseInv'
  BY <1>10 DEF SyncInv, PhaseInv, LockStages, WindowStages, MutationStages
<1>18. QED
  BY <1>11, <1>12, <1>13, <1>14, <1>15, <1>16, <1>17 DEF SyncInv

-----------------------------------------------------------------------------
(* Steps inside a chunk leave the window, the cursors and the phase alone. *)
LEMMA MutationFrame ==
  ASSUME SyncInv, stage \in MutationStages, stage' \in MutationStages,
         UNCHANGED <<sides, target, stored, chunk>>
  PROVE  ProgressIsBehindTarget' /\ WindowInv' /\ PhaseInv'
<1> USE DEF sides, stored, chunk
<1>1. ProgressIsBehindTarget'
  BY ProgressFrame
<1>2. WindowInv'
  BY DEF SyncInv, WindowInv, WindowStages, MutationStages, Stable
<1>3. PhaseInv'
  BY DEF SyncInv, PhaseInv, LockStages, WindowStages, MutationStages
<1>4. QED
  BY <1>1, <1>2, <1>3

(* The next statement takes its rows from the pending ones. *)
LEMMA BatchPending ==
  ASSUME SyncInv
  PROVE  Lowest(pending, BatchSize) \subseteq pending
BY DEF Lowest

LEMMA MutateBatchInv == SyncInv /\ MutateBatch => SyncInv'
<1> SUFFICES ASSUME SyncInv, MutateBatch PROVE SyncInv'
  OBVIOUS
<1> DEFINE batch == Lowest(pending, BatchSize)
<1>0. /\ stage = "mutate" /\ work' = Overwrite(work, batch) /\ pending' = pending \ batch
      /\ UNCHANGED <<sides, target, stored, stage, chunk, repair, faults>>
  BY DEF MutateBatch
<1>1. batch \subseteq pending /\ pending \subseteq Present(window)
  BY <1>0, BatchPending DEF SyncInv, HandInv, MutationStages
<1> HIDE DEF batch
<1>2. SyncTypeOK'
  <2>1. work' \in Rows
    BY <1>0 DEF SyncInv, SyncTypeOK, Overwrite, Rows
  <2>2. QED
    BY <1>0, <2>1 DEF SyncInv, SyncTypeOK, sides, stored, chunk, repair
<1>3. ProgressIsBehindTarget' /\ WindowInv' /\ PhaseInv'
  BY <1>0, MutationFrame DEF MutationStages
<1>4. WorkInv' /\ ChunkInv'
  <2>1. \A k \in Stable : k \in batch => work'[k] = source[k]
    BY <1>0, <1>1
       DEF SyncInv, WindowInv, WindowStages, MutationStages, Present, Overwrite, Stable
  <2>2. \A k \in Stable : k \notin batch => work'[k] = work[k]
    BY <1>0 DEF Overwrite, Stable
  <2>3. QED
    BY <1>0, <2>1, <2>2, MoveInv DEF MutationStages, sides, chunk
<1>5. HandInv'
  BY <1>0, <1>1 DEF HandInv, MutationStages, Present, chunk
<1>6. QED
  BY <1>2, <1>3, <1>4, <1>5 DEF SyncInv

(* Steps that change neither rows nor pending ones. *)
LEMMA DuplicateKeyInv == SyncInv /\ DuplicateKey => SyncInv'
<1> SUFFICES ASSUME SyncInv, DuplicateKey PROVE SyncInv'
  OBVIOUS
<1> DEFINE batch == Lowest(pending, BatchSize)
<1>0. /\ stage = "mutate" /\ stage' = "replace"
      /\ conflicts' = Inspect(work, batch) /\ replaced' = FALSE
      /\ UNCHANGED <<sides, target, work, stored, chunk, pending, repaired, verify, ownerRow, faults>>
  BY DEF DuplicateKey
<1>1. batch \subseteq pending /\ pending \subseteq Present(window) /\ pending \subseteq Keys
  BY <1>0, BatchPending DEF SyncInv, SyncTypeOK, HandInv, MutationStages
<1> HIDE DEF batch
<1>2. SyncTypeOK'
  BY <1>0, <1>1, Zenon DEF SyncInv, SyncTypeOK, Inspect, sides, stored, chunk, Stages
<1>3. ProgressIsBehindTarget' /\ WindowInv' /\ PhaseInv'
  BY <1>0, MutationFrame DEF MutationStages
<1>4. WorkInv' /\ ChunkInv'
  BY <1>0, MoveInv DEF MutationStages, sides, chunk
<1>5. HandInv'
  <2>1. \A p \in conflicts' : p[1] \in Present(window)
    BY <1>0, <1>1 DEF Inspect
  <2>2. Present(window)' = Present(window)
    BY <1>0 DEF Present, chunk
  <2>3. QED
    BY <1>0, <1>1, <2>1, <2>2 DEF HandInv, MutationStages
<1>6. QED
  BY <1>2, <1>3, <1>4, <1>5 DEF SyncInv

LEMMA ReplaceEndsInv == SyncInv /\ ReplaceEnds => SyncInv'
<1> SUFFICES ASSUME SyncInv, ReplaceEnds PROVE SyncInv'
  OBVIOUS
<1> DEFINE batch == Lowest(pending, BatchSize)
<1>0. /\ stage = "replace" /\ stage' \in {"mutate", "reconcile"}
      /\ conflicts' = conflicts \/ conflicts' = Inspect(work, batch)
      /\ UNCHANGED <<sides, target, work, stored, chunk, pending, replaced, repaired, verify, ownerRow, faults>>
  BY DEF ReplaceEnds
<1>1. batch \subseteq pending /\ pending \subseteq Present(window) /\ pending \subseteq Keys
  BY <1>0, BatchPending DEF SyncInv, SyncTypeOK, HandInv, MutationStages
<1> HIDE DEF batch
<1>2. SyncTypeOK'
  BY <1>0, <1>1 DEF SyncInv, SyncTypeOK, Inspect, sides, stored, chunk, Stages
<1>3. ProgressIsBehindTarget' /\ WindowInv' /\ PhaseInv'
  BY <1>0, MutationFrame DEF MutationStages
<1>4. WorkInv' /\ ChunkInv'
  BY <1>0, MoveInv DEF MutationStages, sides, chunk
<1>5. HandInv'
  <2>1. \A p \in conflicts' : p[1] \in Present(window)
    BY <1>0, <1>1 DEF Inspect, SyncInv, HandInv
  <2>2. Present(window)' = Present(window)
    BY <1>0 DEF Present, chunk
  <2>3. QED
    BY <1>0, <1>1, <2>1, <2>2 DEF HandInv, MutationStages
<1>6. QED
  BY <1>2, <1>3, <1>4, <1>5 DEF SyncInv

LEMMA ReconcileEndsInv == SyncInv /\ ReconcileEnds => SyncInv'
<1> SUFFICES ASSUME SyncInv, ReconcileEnds PROVE SyncInv'
  OBVIOUS
<1> USE DEF ReconcileEnds
<1>1. SyncTypeOK'
  BY DEF SyncInv, SyncTypeOK, sides, stored, chunk, repair, Stages
<1>2. ProgressIsBehindTarget' /\ WindowInv' /\ PhaseInv'
  BY MutationFrame DEF MutationStages
<1>3. WorkInv' /\ ChunkInv'
  BY MoveInv DEF MutationStages, sides, chunk
<1>4. HandInv'
  BY DEF SyncInv, HandInv, MutationStages, Present, chunk
<1>5. QED
  BY <1>1, <1>2, <1>3, <1>4 DEF SyncInv

(* An owner that the source does not have goes, the intended row comes. *)
LEMMA ReplaceOwnerInv == SyncInv /\ ReplaceOwner => SyncInv'
<1> SUFFICES ASSUME SyncInv, ReplaceOwner PROVE SyncInv'
  OBVIOUS
<1> DEFINE p == FirstConflict
<1>0. /\ stage = "replace" /\ stage' = "replace" /\ conflicts # {}
      /\ conflicts' = conflicts \ {p}
      /\ \/ /\ source[p[2]] = NoRow
            /\ work' = Overwrite(Without(work, {p[2]}), {p[1]})
            /\ pending' = pending \ {p[1]}
            /\ replaced' = TRUE
         \/ UNCHANGED <<work, pending, replaced>>
      /\ UNCHANGED <<sides, target, stored, chunk, repaired, verify, ownerRow, faults>>
  BY DEF ReplaceOwner
<1>1. p \in conflicts /\ p[1] \in Present(window) /\ p[1] \in Keys /\ p[2] \in Keys
  <2>1. conflicts \in SUBSET (Keys \X Keys)
    BY DEF SyncInv, SyncTypeOK
  <2>2. FirstConflict \in conflicts
    BY <1>0, <2>1, FirstConflictIn
  <2>3. QED
    BY <1>0, <2>1, <2>2 DEF SyncInv, HandInv
<1> HIDE DEF p
<1>2. SyncTypeOK'
  <2>1. work' \in Rows
    BY <1>0 DEF SyncInv, SyncTypeOK, Overwrite, Without, Rows
  <2>2. conflicts' \in SUBSET (Keys \X Keys) /\ pending' \in SUBSET Keys /\ replaced' \in BOOLEAN
    BY <1>0, Zenon DEF SyncInv, SyncTypeOK
  <2>3. QED
    BY <1>0, <2>1, <2>2 DEF SyncInv, SyncTypeOK, sides, stored, chunk
<1>3. ProgressIsBehindTarget' /\ WindowInv' /\ PhaseInv'
  BY <1>0, MutationFrame DEF MutationStages
<1>4. WorkInv' /\ ChunkInv'
  <2>1. CASE UNCHANGED <<work, pending>>
    BY <1>0, <2>1, MoveInv DEF MutationStages, sides, chunk
  <2>2. CASE /\ source[p[2]] = NoRow
             /\ work' = Overwrite(Without(work, {p[2]}), {p[1]})
             /\ pending' = pending \ {p[1]}
    <3>1. \A k \in Stable : work'[k] =
            IF k = p[1] THEN window[k] ELSE IF k = p[2] THEN NoRow ELSE work[k]
      BY <2>2 DEF Overwrite, Without, Stable
    <3>2. p[1] \in Stable => window[p[1]] = source[p[1]]
      BY <1>0, <1>1 DEF SyncInv, WindowInv, WindowStages, MutationStages, Present
    <3>3. /\ \A k \in Stable : work'[k] = work[k] \/ work'[k] = source[k]
          /\ \A k \in Stable : k \in pending /\ k \notin pending' => work'[k] = source[k]
      BY <2>2, <3>1, <3>2
    <3>4. QED
      BY <1>0, <3>3, MoveInv DEF MutationStages, sides, chunk
  <2>3. QED
    BY <1>0, <2>1, <2>2
<1>5. HandInv'
  <2>1. Present(window)' = Present(window)
    BY <1>0 DEF Present, chunk
  <2>2. pending' \subseteq Present(window) /\ \A q \in conflicts' : q[1] \in Present(window)
    BY <1>0 DEF SyncInv, HandInv, MutationStages
  <2>3. QED
    BY <1>0, <2>1, <2>2 DEF HandInv, MutationStages
<1>6. QED
  BY <1>2, <1>3, <1>4, <1>5 DEF SyncInv

LEMMA ReadOwnerInv == SyncInv /\ ReadOwner => SyncInv'
<1> SUFFICES ASSUME SyncInv, ReadOwner, ~ Abort PROVE SyncInv'
  BY AbortInv
<1>0. /\ stage = "reconcile" /\ stage' = "owner" /\ conflicts # {}
      /\ repaired' = repaired \cup {FirstConflict}
      /\ ownerRow' = source[FirstConflict[2]]
      /\ UNCHANGED <<sides, target, work, stored, chunk, pending, conflicts, replaced, verify, faults>>
  BY DEF ReadOwner
<1>1. FirstConflict \in Keys \X Keys
  BY <1>0, FirstConflictIn DEF SyncInv, SyncTypeOK
<1>2. SyncTypeOK'
  <2>1. ownerRow' \in Values \cup {NoRow}
    BY <1>0, <1>1 DEF SyncInv, SyncTypeOK, Rows
  <2>2. repaired' \in SUBSET (Keys \X Keys)
    BY <1>0, <1>1 DEF SyncInv, SyncTypeOK
  <2>3. QED
    BY <1>0, <2>1, <2>2 DEF SyncInv, SyncTypeOK, sides, stored, chunk, Stages
<1>3. ProgressIsBehindTarget' /\ WindowInv' /\ PhaseInv'
  BY <1>0, MutationFrame DEF MutationStages
<1>4. WorkInv' /\ ChunkInv'
  BY <1>0, MoveInv DEF MutationStages, sides, chunk
<1>5. HandInv'
  <2>1. FirstConflict' = FirstConflict
    BY <1>0 DEF FirstConflict
  <2>2. QED
    BY <1>0, <2>1 DEF SyncInv, HandInv, MutationStages, Present, chunk, sides
<1>6. QED
  BY <1>2, <1>3, <1>4, <1>5 DEF SyncInv

(* The owner becomes its source row; whoever is in its way and is not in   *)
(* the source goes.                                                        *)
LEMMA ReconcileOwnerInv == SyncInv /\ ReconcileOwner => SyncInv'
<1> SUFFICES ASSUME SyncInv, ReconcileOwner, ~ Abort PROVE SyncInv'
  BY AbortInv
<1> DEFINE p == FirstConflict
<1>0. /\ stage = "owner" /\ stage' = "reconcile" /\ ~ OwnerRefused(p[2])
      /\ work' = OwnerReconciled(work, p[2])
      /\ conflicts' = conflicts \ {p} /\ verify' = verify \cup {p[1]} /\ ownerRow' = NoRow
      /\ UNCHANGED <<sides, target, stored, chunk, pending, replaced, repaired, faults>>
  BY DEF ReconcileOwner
<1>1. /\ p[1] \in Keys /\ p[2] \in Keys
      /\ p[2] \in Stable => ownerRow = source[p[2]]
  <2>1. conflicts \in SUBSET (Keys \X Keys) /\ conflicts # {}
    BY <1>0 DEF SyncInv, SyncTypeOK, HandInv
  <2>2. FirstConflict \in conflicts
    BY <2>1, FirstConflictIn
  <2>3. QED
    BY <1>0, <2>1, <2>2 DEF SyncInv, HandInv
<1>2. work \in Rows /\ ownerRow \in Values \cup {NoRow}
  BY DEF SyncInv, SyncTypeOK
<1> HIDE DEF p
<1>3. /\ work' \in Rows
      /\ \A k \in Keys : work'[k] =
           IF k = p[2] THEN ownerRow
           ELSE IF ownerRow # NoRow /\ k \in Owners(work, p[2], ownerRow) THEN NoRow
           ELSE work[k]
  BY <1>0, <1>1, <1>2 DEF OwnerReconciled, Without, Rows
<1>4. \A k \in Owners(work, p[2], ownerRow) : ownerRow # NoRow => source[k] = NoRow
  BY <1>0 DEF OwnerRefused
<1>5. SyncTypeOK'
  BY <1>0, <1>1, <1>3 DEF SyncInv, SyncTypeOK, sides, stored, chunk, Stages
<1>6. ProgressIsBehindTarget' /\ WindowInv' /\ PhaseInv'
  BY <1>0, MutationFrame DEF MutationStages
<1>7. WorkInv' /\ ChunkInv'
  <2>1. \A k \in Stable : work'[k] = work[k] \/ work'[k] = source[k]
    BY <1>1, <1>3, <1>4 DEF Stable
  <2>2. QED
    BY <1>0, <2>1, MoveInv DEF MutationStages, sides, chunk
<1>8. HandInv'
  <2>1. Present(window)' = Present(window)
    BY <1>0 DEF Present, chunk
  <2>2. QED
    BY <1>0, <2>1 DEF SyncInv, HandInv, MutationStages
<1>9. QED
  BY <1>5, <1>6, <1>7, <1>8 DEF SyncInv

-----------------------------------------------------------------------------
(* The end of a chunk. *)
LEMMA VerifyRowsInv == SyncInv /\ VerifyRows => SyncInv'
<1> SUFFICES ASSUME SyncInv, VerifyRows, ~ Abort PROVE SyncInv'
  BY AbortInv
<1>0. /\ stage = "mutate" /\ pending = {} /\ stage' = "commit"
      /\ UNCHANGED <<sides, target, work, stored, chunk, pending, repair, faults>>
  BY DEF VerifyRows
<1> USE DEF sides, stored, chunk, repair
<1>1. SyncTypeOK'
  BY <1>0 DEF SyncInv, SyncTypeOK, Stages
<1>2. ProgressIsBehindTarget'
  BY <1>0, ProgressFrame
<1>3. WorkInv' /\ WindowInv' /\ HandInv'
  BY <1>0 DEF SyncInv, WorkInv, WindowInv, HandInv, MutationStages, WindowStages, Stable
<1>4. ChunkInv'
  BY <1>0 DEF SyncInv, ChunkInv, MutationStages, Stable
<1>5. PhaseInv'
  BY <1>0 DEF SyncInv, PhaseInv, LockStages, WindowStages, MutationStages
<1>6. QED
  BY <1>1, <1>2, <1>3, <1>4, <1>5 DEF SyncInv

(* A commit moves stable rows only to the source's. *)
LEMMA CommitInv == SyncInv /\ Commit => SyncInv'
<1> SUFFICES ASSUME SyncInv, Commit PROVE SyncInv'
  OBVIOUS
<1> USE DEF Commit, sides, stored, chunk, repair
<1>1. SyncTypeOK'
  BY DEF SyncInv, SyncTypeOK, Stages
<1>2. ProgressIsBehindTarget'
  <2>1. SUFFICES ASSUME NEW p \in Phases, NEW k \in Stable,
                        savedComplete[p] \/ k <= savedCursor[p]
                 PROVE  SettledRow(p, source[k], work[k])
    BY DEF ProgressIsBehindTarget, Settled, Stable
  <2>2. SettledRow(p, source[k], target[k])
    BY <2>1 DEF SyncInv, ProgressIsBehindTarget, Settled
  <2>3. work[k] = target[k] \/ work[k] = source[k]
    BY DEF SyncInv, WorkInv
  <2>4. QED
    BY <2>2, <2>3, SourceRowSettled
<1>3. WorkInv' /\ WindowInv' /\ HandInv'
  BY DEF SyncInv, WorkInv, WindowInv, HandInv, MutationStages, WindowStages, Stable
<1>4. ChunkInv'
  BY DEF SyncInv, ChunkInv, MutationStages, Stable
<1>5. PhaseInv'
  BY DEF SyncInv, PhaseInv, LockStages, WindowStages, MutationStages
<1>6. QED
  BY <1>1, <1>2, <1>3, <1>4, <1>5 DEF SyncInv

(* Progress is saved for what the chunk has settled and committed. *)
LEMMA SaveProgressInv == SyncInv /\ SaveProgress => SyncInv'
<1> SUFFICES ASSUME SyncInv, SaveProgress PROVE SyncInv'
  OBVIOUS
<1> USE DEF SaveProgress, sides, chunk, repair
<1>0. /\ work = target /\ pending = {} /\ phase \in Phases
      /\ savedCursor \in [Phases -> Keys \cup {NoCursor}] /\ savedComplete \in [Phases -> BOOLEAN]
  BY DEF SyncInv, SyncTypeOK, WorkInv, HandInv, MutationStages
<1>1. SyncTypeOK'
  BY <1>0 DEF SyncInv, SyncTypeOK, Stages
<1>2. ProgressIsBehindTarget'
  <2>1. SUFFICES ASSUME NEW p \in Phases, NEW k \in Stable,
                        savedComplete'[p] \/ k <= savedCursor'[p]
                 PROVE  SettledRow(p, source[k], target[k])
    BY DEF ProgressIsBehindTarget, Settled, Stable
  <2>2. CASE p = phase
    BY <1>0, <2>1, <2>2 DEF SyncInv, ChunkInv
  <2>3. CASE p # phase
    BY <1>0, <2>1, <2>3 DEF SyncInv, ProgressIsBehindTarget, Settled
  <2>4. QED
    BY <2>2, <2>3
<1>3. WorkInv' /\ WindowInv' /\ HandInv' /\ ChunkInv'
  BY <1>0, IdleInv
<1>4. PhaseInv'
  <2>1. ~ rowsComplete /\ ~ savedComplete[phase]
    BY <1>0 DEF SyncInv, PhaseInv, LockStages
  <2>2. \A p \in Phases : p # phase => savedComplete'[p] = savedComplete[p]
    BY <1>0
  <2>3. /\ phase # "insert_missing" => savedComplete["insert_missing"]
        /\ phase = "delete_extras" => savedComplete["update_divergent"]
    BY DEF SyncInv, PhaseInv, LockStages
  <2>4. QED
    BY <2>1, <2>2, <2>3 DEF PhaseInv, LockStages, WindowStages, MutationStages, Phases
<1>5. QED
  BY <1>1, <1>2, <1>3, <1>4 DEF SyncInv

(* Every step keeps the invariant. *)
LEMMA NextInv == SyncInv /\ [Next]_vars => SyncInv'
<1> SUFFICES ASSUME SyncInv, [Next]_vars PROVE SyncInv'
  OBVIOUS
<1>1. CASE Start
  BY <1>1, StartInv
<1>2. CASE ChunkStep
  <2>1. CASE MutationMisses
    BY <2>1, AbortInv DEF MutationMisses
  <2>2. CASE PhaseComplete \/ PrepareChunk \/ ReadSource \/ ApplyTargetTail \/ ReconcileTargetPages
    BY <2>2, PhaseCompleteInv, PrepareChunkInv, ReadSourceInv, ApplyTargetTailInv,
       ReconcileTargetPagesInv
  <2>3. CASE MutateBatch \/ DuplicateKey \/ ReplaceOwner \/ ReplaceEnds
    BY <2>3, MutateBatchInv, DuplicateKeyInv, ReplaceOwnerInv, ReplaceEndsInv
  <2>4. CASE ReadOwner \/ ReconcileOwner \/ ReconcileEnds
    BY <2>4, ReadOwnerInv, ReconcileOwnerInv, ReconcileEndsInv
  <2>5. CASE VerifyRows \/ Commit \/ SaveProgress \/ SaveReport
    BY <2>5, VerifyRowsInv, CommitInv, SaveProgressInv, SaveReportInv
  <2>6. QED
    BY <1>2, <2>1, <2>2, <2>3, <2>4, <2>5 DEF ChunkStep
<1>3. CASE Fault
  BY <1>3, FaultInv
<1>4. CASE \E k \in Keys, v \in Values \cup {NoRow} : SourceWrite(k, v)
  BY <1>4, SourceWriteInv
<1>5. CASE UNCHANGED vars
  <2> USE <1>5 DEF vars, sides, stored, chunk, repair
  <2>1. SyncTypeOK'
    BY DEF SyncInv, SyncTypeOK
  <2>2. ProgressIsBehindTarget'
    BY ProgressFrame
  <2>3. WorkInv' /\ ChunkInv' /\ PhaseInv'
    BY DEF SyncInv, WorkInv, ChunkInv, PhaseInv, Stable
  <2>4. WindowInv' /\ HandInv'
    BY DEF SyncInv, WindowInv, HandInv, Present, FirstConflict, Stable
  <2>5. QED
    BY <2>1, <2>2, <2>3, <2>4 DEF SyncInv
<1>6. QED
  BY <1>1, <1>2, <1>3, <1>4, <1>5 DEF Next

LEMMA SyncInvariant == Spec => []SyncInv
<1>1. Init => SyncInv
  BY InitInv
<1>2. SyncInv /\ [Next]_vars => SyncInv'
  BY NextInv
<1>3. QED
  BY <1>1, <1>2, PTL DEF Spec

-----------------------------------------------------------------------------
(* The state stays in its types: whatever pages a pass reads, its cursor   *)
(* is the key of a row or none.                                            *)
THEOREM SyncTypes == Spec => []SyncTypeOK
<1>1. SyncInv => SyncTypeOK
  BY DEF SyncInv
<1>2. QED
  BY <1>1, SyncInvariant, PTL

(* save_progress_and_unlock never saves progress ahead of the committed    *)
(* target, for any table, page and batch size, source writes and failures. *)
THEOREM SyncProgressIsBehindTarget == Spec => []ProgressIsBehindTarget
<1>1. SyncInv => ProgressIsBehindTarget
  BY DEF SyncInv
<1>2. QED
  BY <1>1, SyncInvariant, PTL

(* A table that run_mysql_sync_phases has saved as complete equals the     *)
(* source in every row the source's clients have left alone.               *)
THEOREM SyncCompleteTableConverged == Spec => []CompleteTableConverged
<1>1. SyncInv => CompleteTableConverged
  <2>1. SUFFICES ASSUME SyncInv, rowsComplete, NEW k \in Stable
                 PROVE  target[k] = source[k]
    BY DEF CompleteTableConverged
  <2>2. \A p \in Phases : SettledRow(p, source[k], target[k])
    BY <2>1 DEF SyncInv, PhaseInv, ProgressIsBehindTarget, Settled
  <2>3. /\ source[k] # NoRow => target[k] # NoRow
        /\ source[k] # NoRow /\ target[k] # NoRow => target[k] = source[k]
        /\ source[k] = NoRow => target[k] = NoRow
    BY <2>2 DEF Phases, SettledRow
  <2>4. QED
    BY <2>3
<1>2. QED
  BY <1>1, SyncInvariant, PTL

-----------------------------------------------------------------------------
(***************************************************************************)
(* The unique index.  A statement is checked by the server, but the        *)
(* replacement of an owner overwrites its row unchecked: it relies on the  *)
(* window being a read of a table whose values are unique, so that no      *)
(* replacement of the same statement can make a new owner.                 *)
(***************************************************************************)
UniqueInv ==
  /\ Unique(source) /\ Unique(target) /\ Unique(work) /\ Unique(window)
  /\ stage = "replace" => \A p \in conflicts : Owners(work, p[1], window[p[1]]) \subseteq {p[2]}

(* Rows that are left out, or are a copy of some rows, stay unique. *)
LEMMA PartUnique ==
  ASSUME NEW all \in Rows, NEW part \in Rows, Unique(all),
         \A k \in Keys : part[k] = NoRow \/ part[k] = all[k]
  PROVE  Unique(part)
BY DEF Unique, Present

LEMMA UniqueOwner ==
  ASSUME NEW all \in Rows, Unique(all), NEW k \in Keys, NEW v, NEW i \in Owners(all, k, v)
  PROVE  Owners(all, k, v) \subseteq {i}
BY DEF Unique, Present, Owners

(* A statement the server accepts leaves the values unique. *)
LEMMA StatementUnique ==
  ASSUME NEW all \in Rows, Unique(all), window \in Rows,
         NEW batch \in SUBSET Keys, ~ Refused(all, batch)
  PROVE  Unique(Overwrite(all, batch))
<1> SUFFICES ASSUME UniqueIndex,
                    NEW j \in Present(Overwrite(all, batch)), NEW k \in Present(Overwrite(all, batch)),
                    Overwrite(all, batch)[j] = Overwrite(all, batch)[k], j # k
             PROVE  FALSE
  BY DEF Unique
<1>0. j \in Keys /\ k \in Keys /\ Keys \subseteq Nat /\ all \in [Keys -> Values \cup {NoRow}]
  BY SyncChunkAssumption DEF Present, Keys, Rows
<1>1. \A m, n \in Keys :
        /\ m < n /\ m \in batch /\ n \in batch => Overwrite(all, { i \in batch : i < n })[m] = window[m]
        /\ m \notin batch => Overwrite(all, { i \in batch : i < n })[m] = all[m]
  BY DEF Overwrite
<1>2. \A n \in batch : \A m \in Keys :
        m # n => \/ Overwrite(all, { i \in batch : i < n })[m] = NoRow
                 \/ Overwrite(all, { i \in batch : i < n })[m] # window[n]
  BY Zenon DEF Refused, Owners, Present
<1>3. \A n \in batch : Overwrite(all, batch)[n] = window[n]
  BY DEF Overwrite
<1>4. \A n \in Keys \ batch : Overwrite(all, batch)[n] = all[n]
  BY DEF Overwrite
<1>5. Overwrite(all, batch)[j] # NoRow
  BY DEF Present
<1>6. CASE j \notin batch /\ k \notin batch
  BY <1>0, <1>4, <1>5, <1>6 DEF Unique, Present
<1>7. CASE j \in batch /\ k \notin batch
  <2>1. Overwrite(all, { i \in batch : i < j })[k] = all[k]
    BY <1>0, <1>1, <1>7
  <2>2. all[k] = window[j] /\ all[k] # NoRow
    BY <1>0, <1>3, <1>4, <1>5, <1>7
  <2>3. QED
    BY <1>0, <1>2, <1>7, <2>1, <2>2, Zenon
<1>8. CASE j \notin batch /\ k \in batch
  <2>1. Overwrite(all, { i \in batch : i < k })[j] = all[j]
    BY <1>0, <1>1, <1>8
  <2>2. all[j] = window[k] /\ all[j] # NoRow
    BY <1>0, <1>3, <1>4, <1>5, <1>8
  <2>3. QED
    BY <1>0, <1>2, <1>8, <2>1, <2>2, Zenon
<1>9. CASE j \in batch /\ k \in batch
  <2>1. j < k \/ k < j
    BY <1>0
  <2>2. window[j] = window[k] /\ window[j] # NoRow
    BY <1>3, <1>5, <1>9
  <2>3. ASSUME j < k PROVE FALSE
    <3>1. Overwrite(all, { i \in batch : i < k })[j] = window[j]
      BY <1>0, <1>1, <1>9, <2>3
    <3>2. QED
      BY <1>0, <1>2, <1>9, <2>2, <3>1, Zenon
  <2>4. ASSUME k < j PROVE FALSE
    <3>1. Overwrite(all, { i \in batch : i < j })[k] = window[k]
      BY <1>0, <1>1, <1>9, <2>4
    <3>2. QED
      BY <1>0, <1>2, <1>9, <2>2, <3>1, Zenon
  <2>5. QED
    BY <2>1, <2>3, <2>4
<1>10. QED
  BY <1>6, <1>7, <1>8, <1>9

(* The owner makes way and the intended row is written unchecked. *)
LEMMA ReplaceUnique ==
  ASSUME NEW all \in Rows, Unique(all), Unique(window), window \in Rows,
         NEW i \in Keys, NEW o \in Keys, Owners(all, i, window[i]) \subseteq {o}
  PROVE  /\ Unique(Overwrite(Without(all, {o}), {i}))
         /\ \A q \in Keys \X Keys :
              Owners(all, q[1], window[q[1]]) \subseteq {q[2]} =>
                Owners(Overwrite(Without(all, {o}), {i}), q[1], window[q[1]]) \subseteq {q[2]}
<1> DEFINE rows == Overwrite(Without(all, {o}), {i})
<1>1. /\ rows[i] = window[i]
      /\ \A k \in Keys \ {i} : rows[k] = IF k = o THEN NoRow ELSE all[k]
  BY DEF Overwrite, Without
<1> HIDE DEF rows
<1>2. Unique(rows)
  BY <1>1 DEF Unique, Present, Owners
<1>3. ASSUME NEW q \in Keys \X Keys, Owners(all, q[1], window[q[1]]) \subseteq {q[2]}
      PROVE  Owners(rows, q[1], window[q[1]]) \subseteq {q[2]}
  <2>1. SUFFICES ASSUME UniqueIndex, NEW k \in Present(rows) \ {q[1]}, rows[k] = window[q[1]]
                 PROVE  k = q[2]
    BY DEF Owners
  <2>2. CASE k = i
    BY <1>1, <2>1, <2>2 DEF Unique, Present
  <2>3. CASE k # i
    BY <1>1, <1>3, <2>1, <2>3 DEF Owners, Present
  <2>4. QED
    BY <2>2, <2>3
<1>4. QED
  BY <1>2, <1>3 DEF rows

(* The owner is brought to its source row. *)
LEMMA ReconcileUnique ==
  ASSUME NEW all \in Rows, Unique(all), NEW o \in Keys, ownerRow \in Values \cup {NoRow}
  PROVE  Unique(OwnerReconciled(all, o))
<1>1. CASE ownerRow = NoRow
  BY <1>1 DEF OwnerReconciled, Without, Unique, Present, Rows
<1>2. CASE ownerRow # NoRow
  <2> DEFINE rows == OwnerReconciled(all, o)
  <2>1. /\ rows[o] = ownerRow
        /\ \A k \in Keys \ {o} : rows[k] = IF k \in Owners(all, o, ownerRow) THEN NoRow ELSE all[k]
    BY <1>2 DEF OwnerReconciled, Without
  <2> HIDE DEF rows
  <2>2. Unique(rows)
    BY <2>1 DEF Unique, Present, Owners
  <2>3. QED
    BY <2>2 DEF rows
<1>3. QED
  BY <1>1, <1>2

LEMMA TypedRows ==
  ASSUME SyncInv
  PROVE  /\ source \in Rows /\ target \in Rows /\ work \in Rows /\ window \in Rows
         /\ conflicts \in SUBSET (Keys \X Keys) /\ pending \in SUBSET Keys
         /\ ownerRow \in Values \cup {NoRow}
         /\ Lowest(pending, BatchSize) \in SUBSET Keys
BY DEF SyncInv, SyncTypeOK, Lowest

(* Steps that write no row of the target and look up no owner. *)
LEMMA UniqueFrame ==
  ASSUME UniqueInv, UNCHANGED <<source, target, window>>,
         work' = work \/ work' = target, stage' # "replace"
  PROVE  UniqueInv'
BY DEF UniqueInv, Unique, Present

LEMMA UniqueQuiet ==
  ASSUME UniqueInv,
         Start \/ PhaseComplete \/ PrepareChunk \/ Fault \/ MutationMisses \/ ReplaceEnds \/ ReadOwner
           \/ ReconcileEnds \/ VerifyRows \/ SaveProgress \/ SaveReport \/ UNCHANGED vars
  PROVE  UniqueInv'
<1>1. CASE UNCHANGED vars
  BY <1>1 DEF UniqueInv, Unique, Present, Owners, vars, sides, chunk, repair
<1>2. CASE ~ UNCHANGED vars
  <2>1. /\ UNCHANGED <<source, target, window>> /\ stage' # "replace"
        /\ work' = work \/ work' = target
    BY <1>2 DEF Start, PhaseComplete, PrepareChunk, Fault, MutationMisses, ReplaceEnds, ReadOwner,
           ReconcileEnds, VerifyRows, SaveProgress, SaveReport, Abort, sides, chunk
  <2>2. QED
    BY <2>1, UniqueFrame
<1>3. QED
  BY <1>1, <1>2

LEMMA UniqueReads ==
  ASSUME SyncInv, SyncInv', UniqueInv,
         ReadSource \/ \E k \in Keys, v \in Values \cup {NoRow} : SourceWrite(k, v)
  PROVE  UniqueInv'
<1>1. CASE ReadSource
  <2>1. /\ UNCHANGED <<source, target, work>> /\ stage' # "replace"
        /\ \A k \in Keys : window'[k] = NoRow \/ window'[k] = source[k]
    BY <1>1 DEF ReadSource, sides
  <2>2. Unique(window)'
    <3>1. source \in Rows /\ window' \in Rows /\ Unique(source)
      BY TypedRows DEF SyncInv, SyncTypeOK, UniqueInv
    <3>2. Unique(window')
      BY <2>1, <3>1, PartUnique
    <3>3. QED
      BY <3>2 DEF Unique, Present
  <2>3. QED
    BY <2>1, <2>2 DEF UniqueInv, Unique, Present
<1>2. ASSUME NEW k \in Keys, NEW v \in Values \cup {NoRow}, SourceWrite(k, v) PROVE UniqueInv'
  BY <1>2 DEF SourceWrite, UniqueInv, Unique, Present, Owners, chunk, repair
<1>3. QED
  BY <1>1, <1>2

(* Rows of the target are deleted, and committed. *)
LEMMA UniqueDeletes ==
  ASSUME SyncInv, SyncInv', UniqueInv, ApplyTargetTail \/ ReconcileTargetPages \/ Commit
  PROVE  UniqueInv'
<1>1. CASE Commit
  BY <1>1 DEF Commit, UniqueInv, Unique, Present, Owners, sides, chunk, repair
<1>2. CASE ApplyTargetTail \/ ReconcileTargetPages
  <2>1. /\ UNCHANGED <<source, target, window>> /\ stage' # "replace"
    BY <1>2 DEF ApplyTargetTail, ReconcileTargetPages, sides
  <2>2. work' = work \/ \E page : work' = Without(work, page)
    BY <1>2 DEF ApplyTargetTail, ReconcileTargetPages
  <2>3. \A k \in Keys : work'[k] = NoRow \/ work'[k] = work[k]
    BY <2>2 DEF Without
  <2>4. Unique(work')
    BY <2>3, PartUnique, TypedRows DEF SyncInv, SyncTypeOK, UniqueInv
  <2>5. QED
    BY <2>1, <2>4 DEF UniqueInv, Unique, Present
<1>3. QED
  BY <1>1, <1>2

LEMMA UniqueMutates ==
  ASSUME SyncInv, UniqueInv, MutateBatch \/ DuplicateKey
  PROVE  UniqueInv'
<1> DEFINE batch == Lowest(pending, BatchSize)
<1>0. work \in Rows /\ window \in Rows /\ batch \in SUBSET Keys
  BY TypedRows
<1>1. CASE MutateBatch
  <2>1. /\ UNCHANGED <<source, target, window>> /\ stage' # "replace"
        /\ ~ Refused(work, batch) /\ work' = Overwrite(work, batch)
    BY <1>1 DEF MutateBatch, sides, chunk
  <2> HIDE DEF batch
  <2>2. Unique(work')
    BY <1>0, <2>1, StatementUnique DEF UniqueInv
  <2>3. QED
    BY <2>1, <2>2 DEF UniqueInv, Unique, Present
<1>2. CASE DuplicateKey
  <2>1. UNCHANGED <<source, target, window, work>> /\ conflicts' = Inspect(work, batch)
    BY <1>2 DEF DuplicateKey, sides, chunk
  <2> HIDE DEF batch
  <2>2. ASSUME NEW p \in Inspect(work, batch) PROVE Owners(work, p[1], window[p[1]]) \subseteq {p[2]}
    <3>1. p[1] \in Keys /\ p[2] \in Owners(work, p[1], window[p[1]])
      BY <1>0 DEF Inspect
    <3>2. QED
      BY <1>0, <3>1, UniqueOwner, SMTT(30) DEF UniqueInv
  <2>3. QED
    BY <2>1, <2>2 DEF UniqueInv, Unique, Present, Owners
<1>3. QED
  BY <1>1, <1>2

LEMMA UniqueReplaces == ASSUME SyncInv, UniqueInv, ReplaceOwner PROVE UniqueInv'
<1> DEFINE p == FirstConflict
           rows == Overwrite(Without(work, {p[2]}), {p[1]})
<1>1. /\ stage = "replace" /\ stage' = "replace" /\ conflicts # {} /\ conflicts' = conflicts \ {p}
      /\ UNCHANGED <<source, target, window>>
      /\ work' = work \/ work' = rows
  BY DEF ReplaceOwner, sides, chunk
<1>2. /\ work \in Rows /\ window \in Rows /\ conflicts \in SUBSET (Keys \X Keys)
      /\ p \in conflicts
  BY <1>1, TypedRows, FirstConflictIn
<1>3. p[1] \in Keys /\ p[2] \in Keys /\ Owners(work, p[1], window[p[1]]) \subseteq {p[2]}
  BY <1>1, <1>2 DEF UniqueInv
<1>4. /\ Unique(rows)
      /\ \A q \in Keys \X Keys :
           Owners(work, q[1], window[q[1]]) \subseteq {q[2]} =>
             Owners(rows, q[1], window[q[1]]) \subseteq {q[2]}
  <2>1. Unique(work) /\ Unique(window)
    BY DEF UniqueInv
  <2>2. \A i, o \in Keys :
          Owners(work, i, window[i]) \subseteq {o} =>
            /\ Unique(Overwrite(Without(work, {o}), {i}))
            /\ \A q \in Keys \X Keys :
                 Owners(work, q[1], window[q[1]]) \subseteq {q[2]} =>
                   Owners(Overwrite(Without(work, {o}), {i}), q[1], window[q[1]]) \subseteq {q[2]}
    BY <1>2, <2>1, ReplaceUnique
  <2> HIDE DEF p
  <2>3. QED
    BY <1>3, <2>2, Zenon
<1> HIDE DEF rows, p
<1>5. CASE work' = work
  BY <1>1, <1>5 DEF UniqueInv, Unique, Present, Owners
<1>6. CASE work' = rows
  <2>1. \A q \in conflicts' : Owners(rows, q[1], window[q[1]]) \subseteq {q[2]}
    BY <1>1, <1>2, <1>4 DEF UniqueInv
  <2>2. QED
    BY <1>1, <1>4, <1>6, <2>1 DEF UniqueInv, Unique, Present, Owners
<1>7. QED
  BY <1>1, <1>5, <1>6

LEMMA UniqueReconciles == ASSUME SyncInv, UniqueInv, ReconcileOwner PROVE UniqueInv'
<1>1. CASE Abort
  BY <1>1, UniqueFrame DEF Abort, sides, chunk
<1>2. CASE ~ Abort
  <2>1. /\ UNCHANGED <<source, target, window>> /\ stage' # "replace"
        /\ work' = OwnerReconciled(work, FirstConflict[2])
    BY <1>2 DEF ReconcileOwner, sides, chunk
  <2>2. FirstConflict[2] \in Keys
    <3>1. conflicts \in SUBSET (Keys \X Keys) /\ conflicts # {}
      BY DEF SyncInv, SyncTypeOK, HandInv, ReconcileOwner
    <3>2. QED
      BY <3>1, FirstConflictIn
  <2>3. Unique(work')
    BY <2>1, <2>2, TypedRows, ReconcileUnique DEF UniqueInv
  <2>4. QED
    BY <2>1, <2>3 DEF UniqueInv, Unique, Present
<1>3. QED
  BY <1>1, <1>2

(* No committed target breaks the secondary unique index, although         *)
(* replace_source_absent_unique_owner writes the intended row without      *)
(* asking for further owners: for every table, page and batch size,        *)
(* concurrent source writes and failures.                                  *)
THEOREM SyncTargetStaysUnique == Spec => []TargetStaysUnique
<1>1. Init => UniqueInv
  BY DEF Init, UniqueInv, Unique, Present
<1>2. SyncInv /\ SyncInv' /\ UniqueInv /\ [Next]_vars => UniqueInv'
  BY UniqueQuiet, UniqueReads, UniqueDeletes, UniqueMutates, UniqueReplaces, UniqueReconciles
     DEF Next, ChunkStep
<1>3. UniqueInv => TargetStaysUnique
  BY DEF UniqueInv, TargetStaysUnique
<1>4. QED
  BY <1>1, <1>2, <1>3, SyncInvariant, PTL DEF Spec

=============================================================================
